-------------------------- MODULE WorkerSweepProofs --------------------------
(***************************************************************************)
(* Proofs about WorkerSweep for any number of workers, organizations, events *)
(* and attempts, any grouping and any clock offsets.                         *)
(*                                                                          *)
(* Every step of the loop is a step of Outbox, so what OutboxProofs proves   *)
(* of the tables holds here too.  On top of that: the leases in hand form    *)
(* groups of which only the first may be on its turn (Groups), an open       *)
(* recompute has read after everything that its group announces was written, *)
(* and nothing else of its organization is recomputed meanwhile (Reads), and  *)
(* a lease is covered only by a recompute that read it (Covers).             *)
(***************************************************************************)
EXTENDS WorkerSweep, OutboxProofs

Live == {"recompute", "covered"}

IsLive(l) == mode[l] \in Live

(* A lease object that no claim has made yet was touched by nobody. *)
Untouched(l) ==
    /\ TaskOf(l) = "none" /\ mode[l] = "none" /\ after[l] = l /\ readAt[l] = NoRead
    /\ \A w \in Worker : l \notin sweep[w]
    /\ \A k \in LeaseObject : after[k] = l => k = l

UngrantedUntouched ==
    \A l \in LeaseObject : l[2] > attempts[l[1]] => Untouched(l)

(* A live lease waits for itself or for the first of its group, in the same   *)
(* process; nobody waits for a live lease without being live.                *)
InGroup(k) ==
    /\ TaskOf(k) # "none"
    /\ k[1] \in queued
    /\ IsLive(after[k])
    /\ after[after[k]] = after[k]
    /\ WorkerOf(after[k]) = WorkerOf(k)
    /\ SameGroup(after[k], k)

Groups ==
    \A k \in LeaseObject :
        /\ mode[k] = "none" => after[k] = k
        /\ IsLive(k) => InGroup(k)
        /\ IsLive(after[k]) => IsLive(k)

(* What the covered leases announce is in the projection, and none waits for  *)
(* another or is waited for.                                                 *)
Covers ==
    \A l \in LeaseObject : mode[l] = "covered" =>
        /\ after[l] = l
        /\ \A k \in LeaseObject : after[k] = l => k = l
        /\ l[1] \in Coalesced
        /\ writtenAt[l[1]] <= projected[OrgOf[l[1]]]

(* An open recompute has read everything its group announces, and at least    *)
(* what is in the projection; there is one in an organization.               *)
Reads ==
    \A l \in LeaseObject : readAt[l] # NoRead =>
        /\ l[1] \in queued
        /\ writtenAt[l[1]] <= readAt[l]
        /\ projected[OrgOf[l[1]]] <= readAt[l]
        /\ readAt[l] <= source[OrgOf[l[1]]]
        /\ \A k \in LeaseObject :
              IsLive(k) /\ after[k] = l => writtenAt[k[1]] <= readAt[l]
        /\ \A k \in LeaseObject :
              readAt[k] # NoRead /\ OrgOf[k[1]] = OrgOf[l[1]] => k = l

(* Versions are those that the sources have had. *)
Versions ==
    /\ \A e \in Event : writtenAt[e] <= source[OrgOf[e]]
    /\ \A o \in Org : projected[o] <= source[o]

(* What a sweep awaits is live, of its worker, with the first of its group.   *)
Awaited ==
    \A w \in Worker : \A l \in sweep[w] :
        IsLive(l) /\ WorkerOf(l) = w /\ after[l] \in sweep[w]

SweepInv ==
    /\ IndInv
    /\ SweepTypeOK
    /\ UngrantedUntouched
    /\ Groups
    /\ Covers
    /\ Reads
    /\ Versions
    /\ Awaited
    /\ AcknowledgedIsReflected

-----------------------------------------------------------------------------
(* What the proofs need to know of a pair of an event and an attempt. *)
LEMMA Pairs ==
  /\ \A l \in LeaseObject : l[1] \in Event /\ l[2] \in Attempt /\ l = <<l[1], l[2]>>
  /\ \A k, l \in LeaseObject : k[1] = l[1] /\ k[2] = l[2] => k = l
  BY DEF LeaseObject

(* The loop takes no step that the outbox does not allow. *)
LEMMA LoopStep == SweepNext \/ UNCHANGED allVars => [Next]_vars
  <1>1. ASSUME NEW l \in LeaseObject, Progress(l) \/ Throw(l) \/ ReportThrows(l)
        PROVE  [Next]_vars
    <2> USE Pairs
    <2>1. CASE Begin(l)
      BY <2>1 DEF Begin, Next, Work
    <2>2. CASE ReadSources(l)
      BY <2>2 DEF ReadSources
    <2>3. CASE Commit(l)
      BY <2>3 DEF Commit, Next, Work
    <2>4. CASE Lose(l)
      BY <2>4 DEF Lose, Next, Work
    <2>5. CASE ReportFailure(l)
      BY <2>5 DEF ReportFailure, Next, Work
    <2>6. CASE Forget(l)
      BY <2>6 DEF Forget, Next
    <2>7. CASE Throw(l)
      BY <2>7 DEF Throw, Next
    <2>8. CASE ReportThrows(l)
      BY <2>8 DEF ReportThrows, Next, Work
    <2> QED BY <1>1, <2>1, <2>2, <2>3, <2>4, <2>5, <2>6, <2>7, <2>8 DEF Progress
  <1>2. CASE \E e \in Event : Produce(e)
    BY <1>2 DEF Produce, Next
  <1>3. ASSUME NEW w \in Worker, StartSweep(w) \/ Stop(w) \/ Exit(w) \/ Restart(w)
        PROVE  [Next]_vars
    BY <1>3 DEF StartSweep, Stop, Exit, Restart, Next
  <1>4. CASE \E w \in Worker, o \in Org : AttentionSweep(w, o)
    BY <1>4 DEF AttentionSweep
  <1>5. CASE Tick
    BY <1>5 DEF Next
  <1>6. CASE UNCHANGED allVars
    BY <1>6 DEF allVars
  <1> QED BY <1>1, <1>2, <1>3, <1>4, <1>5, <1>6 DEF SweepNext

(* A step on the lease l concerns no other lease and grants none. *)
TouchesOnly(l) ==
    /\ \A k \in LeaseObject : k # l => TaskOf(k)' = TaskOf(k)
    /\ \A k \in LeaseObject : WorkerOf(k)' = WorkerOf(k)
    /\ queued' = queued
    /\ attempts' = attempts

LEMMA WorkTouches ==
  ASSUME NEW l \in LeaseObject, TypeOK,
         \/ Work(l[1], l[2])
         \/ ProcessThrows(l[1], l[2])
         \/ Abandon(l[1], l[2])
  PROVE  TouchesOnly(l)
  <1> USE Pairs
  <1>1. PICK phase : SetTask(l[1], l[2], phase)
    BY DEF Work, BeginProcess, CommitProcess, LoseLease, FailLease, FailTooLate,
           ProcessThrows, Abandon
  <1>2. UNCHANGED <<queued, attempts, attemptWorker>>
    BY DEF Work, BeginProcess, CommitProcess, LoseLease, FailLease, FailTooLate,
           ProcessThrows, Abandon, rowVars, attemptVars
  <1>3. ASSUME NEW k \in LeaseObject, k # l PROVE TaskOf(k)' = TaskOf(k)
    <2>1. task \in [Event -> [Attempt -> TaskPhase]]
      BY DEF TypeOK
    <2> QED BY <1>1, <1>3, <2>1 DEF SetTask, TaskOf
  <1> QED BY <1>2, <1>3 DEF TouchesOnly, WorkerOf

(* Steps that leave the loop alone keep the groups as they are. *)
LEMMA StayInd ==
  ASSUME SweepInv, UNCHANGED <<loopVars, attempts>>, queued \subseteq queued',
         \A k \in LeaseObject : TaskOf(k) = "none" <=> TaskOf(k)' = "none",
         \A k \in LeaseObject : WorkerOf(k)' = WorkerOf(k),
         \A k \in LeaseObject : k[2] > attempts[k[1]] => readAt'[k] = NoRead
  PROVE  UngrantedUntouched' /\ Groups' /\ Awaited'
  <1>1. UngrantedUntouched'
    BY DEF SweepInv, UngrantedUntouched, Untouched, loopVars
  <1>2. Groups'
    <2> SUFFICES ASSUME NEW k \in LeaseObject
                 PROVE  /\ mode'[k] = "none" => after'[k] = k
                        /\ IsLive(k)' => InGroup(k)'
                        /\ IsLive(after[k])' => IsLive(k)'
      BY DEF Groups, loopVars
    <2>1. after[k] \in LeaseObject
      BY DEF SweepInv, SweepTypeOK
    <2> QED BY <2>1 DEF SweepInv, Groups, IsLive, InGroup, loopVars, SameGroup
  <1>3. Awaited'
    <2> SUFFICES ASSUME NEW w \in Worker, NEW l \in sweep[w]
                 PROVE  IsLive(l)' /\ WorkerOf(l)' = w /\ after'[l] \in sweep'[w]
      BY DEF Awaited, loopVars
    <2>1. l \in LeaseObject
      BY DEF SweepInv, SweepTypeOK
    <2> QED BY <2>1 DEF SweepInv, Awaited, IsLive, loopVars
  <1> QED BY <1>1, <1>2, <1>3

(* The others of the group go on when the first lease has returned. *)
LEMMA ReturnInd ==
  ASSUME SweepInv, NEW l \in LeaseObject, NEW acknowledged \in BOOLEAN,
         OnTurn(l), Return(l, acknowledged), TouchesOnly(l),
         UNCHANGED writtenAt,
         \A o \in Org : projected[o] <= projected'[o] /\ projected'[o] \in Nat,
         \A k \in LeaseObject : readAt'[k] # NoRead =>
             readAt'[k] = readAt[k] /\ projected'[OrgOf[k[1]]] = projected[OrgOf[k[1]]],
         UNCHANGED source,
         acknowledged => \A k \in LeaseObject :
             IsLive(k) /\ after[k] = l /\ k # l => writtenAt[k[1]] <= projected'[OrgOf[k[1]]]
  PROVE  UngrantedUntouched' /\ Groups' /\ Covers' /\ Reads' /\ Awaited'
  <1> USE Pairs
  <1>1. /\ IsLive(l) /\ after[l] = l /\ InGroup(l)
        /\ TaskOf(l) # "none" /\ l[2] <= attempts[l[1]]
    <2>1. IsLive(l) /\ after[l] = l /\ InGroup(l)
      BY DEF SweepInv, Groups, OnTurn, IsLive, Live
    <2>2. attempts[l[1]] \in Nat /\ l[2] \in Nat
      BY DEF SweepInv, IndInv, TypeOK, Attempt
    <2> QED BY <2>1, <2>2 DEF SweepInv, UngrantedUntouched, Untouched, InGroup
  <1>2. \A k \in LeaseObject :
          /\ mode'[k] = IF k = l THEN "none"
                        ELSE IF after[k] = l /\ acknowledged THEN "covered" ELSE mode[k]
          /\ after'[k] = IF after[k] = l THEN k ELSE after[k]
          /\ after[k] \in LeaseObject
    BY DEF Return, SweepInv, SweepTypeOK
  <1>3. \A w \in Worker : sweep'[w] = sweep[w] \ {l}
    BY DEF Return
  <1>4. \A k \in LeaseObject : IsLive(k)' <=> k # l /\ IsLive(k)
    BY <1>1, <1>2 DEF IsLive, Live, SweepInv, Groups
  <1>5. \A k \in LeaseObject : IsLive(k) => InGroup(k)
    BY DEF SweepInv, Groups
  <1>6. UngrantedUntouched'
    <2> SUFFICES ASSUME NEW k \in LeaseObject, k[2] > attempts[k[1]] PROVE Untouched(k)'
      BY DEF UngrantedUntouched, TouchesOnly
    <2>1. Untouched(k) /\ k # l
      <3>1. attempts[l[1]] \in Nat /\ l[2] \in Nat
        BY DEF SweepInv, IndInv, TypeOK, Attempt
      <3> QED BY <1>1, <3>1 DEF SweepInv, UngrantedUntouched
    <2>2. TaskOf(k)' = "none" /\ mode'[k] = "none" /\ after'[k] = k
      BY <1>2, <2>1 DEF Untouched, TouchesOnly
    <2>3. readAt'[k] = NoRead
      BY <2>1 DEF Untouched
    <2>4. \A w \in Worker : k \notin sweep'[w]
      BY <1>3, <2>1 DEF Untouched
    <2>5. \A j \in LeaseObject : after'[j] = k => j = k
      BY <1>2, <2>1 DEF Untouched
    <2> QED BY <2>2, <2>3, <2>4, <2>5 DEF Untouched
  <1>7. Groups'
    <2> SUFFICES ASSUME NEW k \in LeaseObject
                 PROVE  /\ mode'[k] = "none" => after'[k] = k
                        /\ IsLive(k)' => InGroup(k)'
                        /\ IsLive(after[k])' => IsLive(k)'
      BY DEF Groups, IsLive
    <2>1. mode'[k] = "none" => after'[k] = k
      BY <1>1, <1>2 DEF SweepInv, Groups
    <2>2. IsLive(k)' => InGroup(k)'
      <3> SUFFICES ASSUME IsLive(k)' PROVE InGroup(k)'
        OBVIOUS
      <3>1. k # l /\ IsLive(k) /\ InGroup(k)
        BY <1>4, <1>5
      <3>2. CASE after[k] = l
        <4>1. after'[k] = k
          BY <1>2, <3>2
        <4> QED BY <3>1, <4>1 DEF InGroup, TouchesOnly, SameGroup, IsLive
      <3>3. CASE after[k] # l
        <4>1. after'[k] = after[k] /\ after'[after[k]] = after[k] /\ IsLive(after[k])'
          BY <1>2, <1>4, <3>1, <3>3 DEF InGroup
        <4> QED BY <1>2, <3>1, <4>1 DEF InGroup, TouchesOnly, SameGroup, IsLive
      <3> QED BY <3>2, <3>3
    <2>3. IsLive(after[k])' => IsLive(k)'
      <3>1. CASE after[k] = l
        BY <1>2, <3>1 DEF IsLive
      <3>2. CASE after[k] # l
        <4>1. after'[k] = after[k] /\ k # l
          BY <1>1, <1>2, <3>2
        <4> QED BY <1>2, <1>4, <4>1 DEF SweepInv, Groups, IsLive
      <3> QED BY <3>1, <3>2
    <2> QED BY <2>1, <2>2, <2>3
  <1>8. Covers'
    <2> SUFFICES ASSUME NEW k \in LeaseObject, mode'[k] = "covered"
                 PROVE  /\ after'[k] = k
                        /\ \A j \in LeaseObject : after'[j] = k => j = k
                        /\ k[1] \in Coalesced
                        /\ writtenAt[k[1]] <= projected'[OrgOf[k[1]]]
      BY DEF Covers
    <2>1. k # l
      BY <1>2
    <2>2. CASE after[k] = l
      <3>1. IsLive(k) /\ SameGroup(l, k)
        BY <1>1, <1>5, <2>2 DEF SweepInv, Groups, InGroup
      <3>2. \A j \in LeaseObject : after'[j] = k => j = k
        <4> SUFFICES ASSUME NEW j \in LeaseObject, after'[j] = k, j # k PROVE FALSE
          OBVIOUS
        <4>1. after[j] = k
          BY <1>2
        <4>2. after[k] = k
          BY <1>5, <3>1, <4>1 DEF SweepInv, Groups, InGroup
        <4> QED BY <2>1, <2>2, <4>2
      <3>3. k[1] \in Coalesced
        BY <2>1, <3>1 DEF SameGroup
      <3>4. CASE acknowledged
        BY <1>2, <2>1, <2>2, <3>1, <3>2, <3>3, <3>4
      <3>5. CASE ~acknowledged
        <4>1. mode[k] = "covered"
          BY <1>2, <2>1, <3>5
        <4>2. after[k] = k
          BY <4>1 DEF SweepInv, Covers
        <4> QED BY <2>1, <2>2, <4>2
      <3> QED BY <3>4, <3>5
    <2>3. CASE after[k] # l
      <3>1. mode[k] = "covered"
        BY <1>2, <2>1, <2>3
      <3>2. /\ after[k] = k
            /\ \A j \in LeaseObject : after[j] = k => j = k
            /\ k[1] \in Coalesced
            /\ writtenAt[k[1]] <= projected[OrgOf[k[1]]]
        BY <3>1 DEF SweepInv, Covers
      <3>3. /\ OrgOf[k[1]] \in Org /\ writtenAt[k[1]] \in Nat
            /\ projected[OrgOf[k[1]]] \in Nat
        BY SweepAssumption DEF SweepInv, SweepTypeOK
      <3>4. writtenAt[k[1]] <= projected'[OrgOf[k[1]]]
        BY <3>2, <3>3
      <3> QED BY <1>2, <3>2, <3>4
    <2> QED BY <2>2, <2>3
  <1>9. Reads'
    <2> SUFFICES ASSUME NEW m \in LeaseObject, readAt'[m] # NoRead
                 PROVE  /\ m[1] \in queued'
                        /\ writtenAt[m[1]] <= readAt'[m]
                        /\ projected'[OrgOf[m[1]]] <= readAt'[m]
                        /\ readAt'[m] <= source[OrgOf[m[1]]]
                        /\ \A k \in LeaseObject :
                              IsLive(k)' /\ after'[k] = m => writtenAt[k[1]] <= readAt'[m]
                        /\ \A k \in LeaseObject :
                              readAt'[k] # NoRead /\ OrgOf[k[1]] = OrgOf[m[1]] => k = m
      BY DEF Reads, IsLive
    <2>1. /\ readAt'[m] = readAt[m]
          /\ projected'[OrgOf[m[1]]] = projected[OrgOf[m[1]]]
          /\ queued' = queued
      BY DEF TouchesOnly
    <2>2. /\ m[1] \in queued
          /\ writtenAt[m[1]] <= readAt[m]
          /\ projected[OrgOf[m[1]]] <= readAt[m]
          /\ readAt[m] <= source[OrgOf[m[1]]]
          /\ \A k \in LeaseObject : IsLive(k) /\ after[k] = m => writtenAt[k[1]] <= readAt[m]
          /\ \A k \in LeaseObject : readAt[k] # NoRead /\ OrgOf[k[1]] = OrgOf[m[1]] => k = m
      BY <2>1 DEF SweepInv, Reads
    <2>3. ASSUME NEW k \in LeaseObject, IsLive(k)', after'[k] = m
          PROVE  writtenAt[k[1]] <= readAt'[m]
      BY <1>2, <1>4, <2>1, <2>2, <2>3
    <2> QED BY <2>1, <2>2, <2>3
  <1>10. Awaited'
    <2> SUFFICES ASSUME NEW w \in Worker, NEW k \in sweep'[w]
                 PROVE  IsLive(k)' /\ WorkerOf(k)' = w /\ after'[k] \in sweep'[w]
      BY DEF Awaited
    <2>1. k \in sweep[w] /\ k # l /\ k \in LeaseObject
      BY <1>3 DEF SweepInv, SweepTypeOK
    <2>2. IsLive(k) /\ WorkerOf(k) = w /\ after[k] \in sweep[w]
      BY <2>1 DEF SweepInv, Awaited
    <2> QED BY <1>2, <1>3, <1>4, <2>1, <2>2 DEF TouchesOnly
  <1> QED BY <1>6, <1>7, <1>8, <1>9, <1>10

(* A lease that throws takes its group with it. *)
LEMMA RejectInd ==
  ASSUME SweepInv, NEW l \in LeaseObject, OnTurn(l), Reject(l), TouchesOnly(l),
         UNCHANGED <<writtenAt, projected, source, readAt>>
  PROVE  UngrantedUntouched' /\ Groups' /\ Covers' /\ Reads' /\ Awaited'
  <1> USE Pairs
  <1>1. IsLive(l) /\ after[l] = l
    BY DEF OnTurn, IsLive, Live
  <1>2. \A k \in LeaseObject :
          /\ mode'[k] = IF k = l \/ after[k] = l THEN "dropped" ELSE mode[k]
          /\ after'[k] = after[k]
          /\ after[k] \in LeaseObject
    BY DEF Reject, SweepInv, SweepTypeOK
  <1>3. \A w \in Worker : sweep'[w] = IF l \in sweep[w] THEN {} ELSE sweep[w]
    BY DEF Reject
  <1>4. \A k \in LeaseObject : IsLive(k)' <=> after[k] # l /\ IsLive(k)
    BY <1>1, <1>2 DEF IsLive, Live
  <1>5. UngrantedUntouched'
    <2> SUFFICES ASSUME NEW k \in LeaseObject, k[2] > attempts[k[1]] PROVE Untouched(k)'
      BY DEF UngrantedUntouched, TouchesOnly
    <2>1. Untouched(k)
      BY DEF SweepInv, UngrantedUntouched
    <2>2. k # l /\ after[k] # l
      BY <1>1, <2>1 DEF Untouched, IsLive, Live
    <2> QED BY <1>2, <1>3, <2>1, <2>2 DEF Untouched, TouchesOnly
  <1>6. Groups'
    <2> SUFFICES ASSUME NEW k \in LeaseObject
                 PROVE  /\ mode'[k] = "none" => after'[k] = k
                        /\ IsLive(k)' => InGroup(k)'
                        /\ IsLive(after[k])' => IsLive(k)'
      BY DEF Groups, IsLive
    <2>1. mode'[k] = "none" => after'[k] = k
      BY <1>2 DEF SweepInv, Groups
    <2>2. IsLive(k)' => InGroup(k)'
      <3> SUFFICES ASSUME IsLive(k)' PROVE InGroup(k)'
        OBVIOUS
      <3>1. IsLive(k) /\ InGroup(k) /\ after[k] # l /\ k # l
        BY <1>1, <1>4 DEF SweepInv, Groups
      <3>2. IsLive(after[k])'
        BY <1>2, <1>4, <3>1 DEF InGroup
      <3> QED BY <1>2, <3>1, <3>2 DEF InGroup, TouchesOnly, SameGroup, IsLive
    <2>3. IsLive(after[k])' => IsLive(k)'
      <3>1. IsLive(after[k])' => after[after[k]] # l /\ IsLive(after[k])
        BY <1>2, <1>4
      <3>2. IsLive(after[k]) => IsLive(k) /\ after[after[k]] = after[k]
        BY DEF SweepInv, Groups, InGroup
      <3> QED BY <1>2, <1>4, <3>1, <3>2 DEF IsLive
    <2> QED BY <2>1, <2>2, <2>3
  <1>7. Covers'
    BY <1>2 DEF SweepInv, Covers
  <1>8. Reads'
    BY <1>2, <1>4 DEF SweepInv, Reads, TouchesOnly, IsLive
  <1>9. Awaited'
    <2> SUFFICES ASSUME NEW w \in Worker, NEW k \in sweep'[w]
                 PROVE  IsLive(k)' /\ WorkerOf(k)' = w /\ after'[k] \in sweep'[w]
      BY DEF Awaited
    <2>1. k \in sweep[w] /\ l \notin sweep[w] /\ sweep'[w] = sweep[w] /\ k \in LeaseObject
      BY <1>3 DEF SweepInv, SweepTypeOK
    <2>2. IsLive(k) /\ WorkerOf(k) = w /\ after[k] \in sweep[w] /\ after[k] # l
      BY <2>1 DEF SweepInv, Awaited
    <2> QED BY <1>2, <1>4, <2>1, <2>2 DEF TouchesOnly
  <1> QED BY <1>5, <1>6, <1>7, <1>8, <1>9

(* A claim brings in lease objects that nobody knows yet.                     *)
LEMMA ClaimFacts ==
  ASSUME SweepInv, NEW w \in Worker, Lease(w), IndInv'
  PROVE  LET granted == {l \in LeaseObject : task'[l[1]][l[2]] # TaskOf(l)} IN
         /\ \A l \in granted :
               /\ TaskOf(l)' # "none" /\ WorkerOf(l)' = w /\ l[1] \in queued
               /\ l[2] = attempts'[l[1]] /\ l[2] > attempts[l[1]]
         /\ \A l \in LeaseObject \ granted :
               TaskOf(l)' = TaskOf(l) /\ WorkerOf(l)' = WorkerOf(l)
         /\ \A e \in Event : attempts[e] <= attempts'[e]
         /\ queued' = queued /\ processed' = processed
  <1> USE Pairs
  <1> DEFINE granted == {l \in LeaseObject : task'[l[1]][l[2]] # TaskOf(l)}
  <1>0. PICK offset : \E S \in Batches(offset) : LeaseRows(w, offset, S)
    BY DEF Lease
  <1>1. PICK S \in Batches(offset) : LeaseRows(w, offset, S)
    BY <1>0
  <1> DEFINE leased == S \ {e \in S : LeaseExpired(e) /\ CapReached(e)}
  <1>2. leased \subseteq queued /\ leased \subseteq Event
    BY DEF Batches, Claimable, SweepInv, IndInv, TypeOK
  <1>3. /\ \A e \in Event, n \in Attempt :
             IF e \in leased /\ n = attempts[e] + 1
               THEN attemptWorker'[e][n] = w /\ task'[e][n] = "claimed"
               ELSE attemptWorker'[e][n] = attemptWorker[e][n] /\ task'[e][n] = task[e][n]
        /\ \A e \in Event :
             attempts'[e] = IF e \in leased THEN attempts[e] + 1 ELSE attempts[e]
        /\ queued' = queued /\ processed' = processed
    BY <1>1 DEF LeaseRows
  <1>4. \A e \in Event : attempts[e] \in Nat
    BY DEF SweepInv, IndInv, TypeOK
  <1> HIDE DEF leased
  <1>5. \A l \in LeaseObject : l \in granted <=> l[1] \in leased /\ l[2] = attempts[l[1]] + 1
    <2> SUFFICES ASSUME NEW l \in LeaseObject
                 PROVE  l \in granted <=> l[1] \in leased /\ l[2] = attempts[l[1]] + 1
      OBVIOUS
    <2>1. CASE l[1] \in leased /\ l[2] = attempts[l[1]] + 1
      <3>1. TaskOf(l) = "none"
        <4>1. l[2] > attempts[l[1]]
          BY <1>4, <2>1
        <4> QED BY <4>1 DEF SweepInv, UngrantedUntouched, Untouched
      <3> QED BY <1>3, <2>1, <3>1
    <2>2. CASE ~(l[1] \in leased /\ l[2] = attempts[l[1]] + 1)
      BY <1>3, <2>2 DEF TaskOf
    <2> QED BY <2>1, <2>2
  <1>6. ASSUME NEW l \in granted
        PROVE  /\ TaskOf(l)' # "none" /\ WorkerOf(l)' = w /\ l[1] \in queued
               /\ l[2] = attempts'[l[1]] /\ l[2] > attempts[l[1]]
    <2>1. l \in LeaseObject /\ l[1] \in leased /\ l[2] = attempts[l[1]] + 1
      BY <1>5
    <2> QED BY <1>2, <1>3, <1>4, <2>1 DEF TaskOf, WorkerOf
  <1>7. ASSUME NEW l \in LeaseObject, l \notin granted
        PROVE  TaskOf(l)' = TaskOf(l) /\ WorkerOf(l)' = WorkerOf(l)
    BY <1>3, <1>5, <1>7 DEF TaskOf, WorkerOf
  <1>8. \A e \in Event : attempts[e] <= attempts'[e]
    BY <1>3, <1>4
  <1> QED BY <1>3, <1>6, <1>7, <1>8

(* The groups of a new sweep. *)
LEMMA StartInd ==
  ASSUME SweepInv, NEW w \in Worker, StartSweep(w), IndInv'
  PROVE  UngrantedUntouched' /\ Groups' /\ Covers' /\ Reads' /\ Awaited'
  <1> USE Pairs
  <1> DEFINE granted == {l \in LeaseObject : task'[l[1]][l[2]] # TaskOf(l)}
  <1>1. /\ \A l \in granted :
              /\ TaskOf(l)' # "none" /\ WorkerOf(l)' = w /\ l[1] \in queued
              /\ l[2] = attempts'[l[1]] /\ l[2] > attempts[l[1]]
        /\ \A l \in LeaseObject \ granted :
              TaskOf(l)' = TaskOf(l) /\ WorkerOf(l)' = WorkerOf(l)
        /\ \A e \in Event : attempts[e] <= attempts'[e]
        /\ queued' = queued /\ processed' = processed
    BY ClaimFacts DEF StartSweep
  <1>2. PICK firsts \in SUBSET granted :
         /\ \A l \in granted : \E f \in firsts : SameGroup(f, l)
         /\ \A f, g \in firsts : SameGroup(f, g) => f = g
         /\ sweep' = [sweep EXCEPT ![w] = granted]
         /\ mode' = [l \in LeaseObject |-> IF l \in granted THEN "recompute" ELSE mode[l]]
         /\ after' = [l \in LeaseObject |->
                        IF l \in granted THEN CHOOSE f \in firsts : SameGroup(f, l)
                                         ELSE after[l]]
    BY DEF StartSweep
  <1>3. granted \subseteq LeaseObject
    OBVIOUS
  <1>4. UNCHANGED dataVars /\ sweep[w] = {}
    BY DEF StartSweep
  <1> HIDE DEF granted
  <1>5. \A l \in granted : Untouched(l)
    BY <1>1, <1>3 DEF SweepInv, UngrantedUntouched
  <1>6. \A l \in granted : /\ after'[l] \in firsts /\ after'[l] \in granted
                           /\ SameGroup(after'[l], l)
                           /\ after'[after'[l]] = after'[l]
    <2>1. ASSUME NEW l \in granted PROVE after'[l] \in firsts /\ SameGroup(after'[l], l)
      BY <1>2, <1>3
    <2>2. ASSUME NEW l \in granted PROVE after'[after'[l]] = after'[l]
      <3> DEFINE f == after'[l]
                 g == after'[f]
      <3>1. f \in firsts /\ f \in granted
        BY <2>1
      <3> HIDE DEF f
      <3>2. g \in firsts /\ SameGroup(g, f)
        BY <2>1, <3>1
      <3> HIDE DEF g
      <3>3. g = f
        BY <1>2, <3>1, <3>2
      <3> QED BY <3>3 DEF f, g
    <2> QED BY <1>2, <2>1, <2>2
  <1>7. \A l \in LeaseObject : l \notin granted =>
          mode'[l] = mode[l] /\ after'[l] = after[l] /\ after[l] \in LeaseObject /\ after[l] \notin granted
    <2> SUFFICES ASSUME NEW l \in LeaseObject, l \notin granted
                 PROVE  /\ mode'[l] = mode[l] /\ after'[l] = after[l]
                        /\ after[l] \in LeaseObject /\ after[l] \notin granted
      OBVIOUS
    <2>1. after[l] \in LeaseObject
      BY DEF SweepInv, SweepTypeOK
    <2>2. after[l] \notin granted
      BY <1>5 DEF Untouched
    <2> QED BY <1>2, <2>1, <2>2
  <1>8. \A l \in granted : mode'[l] = "recompute"
    BY <1>2, <1>3
  <1>9. UngrantedUntouched'
    <2> SUFFICES ASSUME NEW l \in LeaseObject, l[2] > attempts'[l[1]] PROVE Untouched(l)'
      BY DEF UngrantedUntouched
    <2>1. attempts[l[1]] \in Nat /\ attempts'[l[1]] \in Nat /\ l[2] \in Nat
      BY DEF SweepInv, IndInv, TypeOK, Attempt
    <2>2. l \notin granted /\ Untouched(l)
      BY <1>1, <2>1 DEF SweepInv, UngrantedUntouched
    <2>3. TaskOf(l)' = "none" /\ mode'[l] = "none" /\ after'[l] = l
      BY <1>1, <1>7, <2>2 DEF Untouched
    <2>4. readAt'[l] = NoRead
      BY <1>4, <2>2 DEF Untouched, dataVars
    <2>5. \A v \in Worker : l \notin sweep'[v]
      BY <1>2, <2>2 DEF Untouched, SweepInv, SweepTypeOK
    <2>6. \A k \in LeaseObject : after'[k] = l => k = l
      BY <1>6, <1>7, <2>2 DEF Untouched
    <2> QED BY <2>3, <2>4, <2>5, <2>6 DEF Untouched
  <1>10. Groups'
    <2> SUFFICES ASSUME NEW k \in LeaseObject
                 PROVE  /\ mode'[k] = "none" => after'[k] = k
                        /\ IsLive(k)' => InGroup(k)'
                        /\ IsLive(after[k])' => IsLive(k)'
      BY DEF Groups, IsLive
    <2>1. CASE k \in granted
      <3>1. IsLive(k)' /\ IsLive(after[k])'
        BY <1>6, <1>8, <2>1 DEF IsLive, Live
      <3>2. InGroup(k)'
        BY <1>1, <1>6, <2>1, <3>1 DEF InGroup, SameGroup
      <3> QED BY <1>8, <2>1, <3>1, <3>2
    <2>2. CASE k \notin granted
      <3>1. /\ mode'[k] = mode[k] /\ after'[k] = after[k]
            /\ after[k] \in LeaseObject /\ after[k] \notin granted
            /\ mode'[after[k]] = mode[after[k]] /\ after'[after[k]] = after[after[k]]
        BY <1>7, <2>2
      <3>2. IsLive(k)' => InGroup(k)'
        BY <1>1, <2>2, <3>1 DEF SweepInv, Groups, InGroup, IsLive, SameGroup
      <3> QED BY <3>1, <3>2 DEF SweepInv, Groups, IsLive
    <2> QED BY <2>1, <2>2
  <1>11. Covers'
    <2> SUFFICES ASSUME NEW k \in LeaseObject, mode'[k] = "covered"
                 PROVE  /\ after'[k] = k
                        /\ \A j \in LeaseObject : after'[j] = k => j = k
                        /\ k[1] \in Coalesced
                        /\ writtenAt'[k[1]] <= projected'[OrgOf[k[1]]]
      BY DEF Covers
    <2>1. k \notin granted
      BY <1>8
    <2> QED BY <1>4, <1>6, <1>7, <2>1 DEF SweepInv, Covers, dataVars
  <1>12. Reads'
    <2> SUFFICES ASSUME NEW m \in LeaseObject, readAt[m] # NoRead,
                        NEW k \in LeaseObject, IsLive(k)', after'[k] = m
                 PROVE  IsLive(k) /\ after[k] = m
      BY <1>1, <1>4 DEF SweepInv, Reads, dataVars
    <2>1. m \notin granted
      BY <1>5 DEF Untouched
    <2> QED BY <1>6, <1>7, <2>1 DEF IsLive
  <1>13. Awaited'
    <2> SUFFICES ASSUME NEW v \in Worker, NEW k \in sweep'[v]
                 PROVE  IsLive(k)' /\ WorkerOf(k)' = v /\ after'[k] \in sweep'[v]
      BY DEF Awaited
    <2>1. CASE v = w
      <3>1. sweep'[v] = granted
        BY <1>2, <2>1 DEF SweepInv, SweepTypeOK
      <3> QED BY <1>1, <1>6, <1>8, <2>1, <3>1 DEF IsLive, Live
    <2>2. CASE v # w
      <3>1. sweep'[v] = sweep[v] /\ k \in LeaseObject
        BY <1>2, <2>2 DEF SweepInv, SweepTypeOK
      <3>2. k \notin granted /\ IsLive(k) /\ WorkerOf(k) = v /\ after[k] \in sweep[v]
        BY <1>5, <3>1 DEF SweepInv, Awaited, Untouched
      <3> QED BY <1>1, <1>7, <3>1, <3>2 DEF IsLive
    <2> QED BY <2>1, <2>2
  <1> QED BY <1>9, <1>10, <1>11, <1>12, <1>13

(* A process that dies leaves none of its groups behind. *)
LEMMA RestartInd ==
  ASSUME SweepInv, NEW w \in Worker, Restart(w)
  PROVE  UngrantedUntouched' /\ Groups' /\ Covers' /\ Reads' /\ Awaited'
  <1> USE Pairs
  <1>1. /\ \A l \in LeaseObject :
             mode'[l] = IF WorkerOf(l) = w /\ mode[l] # "none" THEN "dropped" ELSE mode[l]
        /\ \A v \in Worker : sweep'[v] = IF v = w THEN {} ELSE sweep[v]
        /\ UNCHANGED <<vars, after, dataVars>>
    BY DEF Restart, SweepInv, SweepTypeOK
  <1>2. \A l \in LeaseObject :
          /\ TaskOf(l)' = TaskOf(l) /\ WorkerOf(l)' = WorkerOf(l)
          /\ IsLive(l)' <=> IsLive(l) /\ WorkerOf(l) # w
          /\ after[l] \in LeaseObject
    BY <1>1 DEF vars, attemptVars, TaskOf, WorkerOf, IsLive, Live, SweepInv, SweepTypeOK
  <1>3. UngrantedUntouched'
    BY <1>1, <1>2 DEF SweepInv, UngrantedUntouched, Untouched, vars, rowVars, dataVars
  <1>4. Groups'
    <2> SUFFICES ASSUME NEW k \in LeaseObject
                 PROVE  /\ mode'[k] = "none" => after'[k] = k
                        /\ IsLive(k)' => InGroup(k)'
                        /\ IsLive(after[k])' => IsLive(k)'
      BY DEF Groups, IsLive
    <2>1. IsLive(after[k])' <=> IsLive(after[k]) /\ WorkerOf(after[k]) # w
      BY <1>1, <1>2 DEF IsLive
    <2>2. IsLive(k)' => InGroup(k)'
      BY <1>1, <1>2, <2>1 DEF SweepInv, Groups, InGroup, SameGroup, vars
    <2> QED BY <1>1, <1>2, <2>1, <2>2 DEF SweepInv, Groups, InGroup
  <1>5. Covers'
    BY <1>1 DEF SweepInv, Covers, dataVars
  <1>6. Reads'
    BY <1>1, <1>2 DEF SweepInv, Reads, dataVars, vars
  <1>7. Awaited'
    <2> SUFFICES ASSUME NEW v \in Worker, NEW k \in sweep'[v]
                 PROVE  IsLive(k)' /\ WorkerOf(k)' = v /\ after'[k] \in sweep'[v]
      BY DEF Awaited
    <2>1. v # w /\ sweep'[v] = sweep[v] /\ k \in LeaseObject
      BY <1>1 DEF SweepInv, SweepTypeOK
    <2> QED BY <1>1, <1>2, <2>1 DEF SweepInv, Awaited
  <1> QED BY <1>3, <1>4, <1>5, <1>6, <1>7

(* What is forgotten was waited for by nobody that goes on. *)
LEMMA ForgetInd ==
  ASSUME SweepInv, NEW l \in LeaseObject, Forget(l)
  PROVE  UngrantedUntouched' /\ Groups' /\ Covers' /\ Reads' /\ Awaited'
  <1> USE Pairs
  <1>1. TouchesOnly(l)
    BY WorkTouches DEF Forget, TouchesOnly, TaskOf, WorkerOf, vars, rowVars, attemptVars, SweepInv, IndInv
  <1>2. /\ \A k \in LeaseObject : /\ mode'[k] = IF k = l THEN "none" ELSE mode[k]
                                  /\ after'[k] = IF k = l THEN l ELSE after[k]
                                  /\ readAt'[k] = IF k = l THEN NoRead ELSE readAt[k]
                                  /\ after[k] \in LeaseObject
        /\ mode[l] = "dropped"
        /\ UNCHANGED <<sweep, source, writtenAt, projected>>
    BY DEF Forget, EndRead, SweepInv, SweepTypeOK
  <1>3. \A k \in LeaseObject : IsLive(k)' <=> IsLive(k)
    BY <1>2 DEF IsLive, Live
  <1>4. \A k \in LeaseObject : IsLive(k) => k # l /\ after[k] # l
    BY <1>2 DEF IsLive, Live, SweepInv, Groups, InGroup
  <1>5. UngrantedUntouched'
    BY <1>1, <1>2 DEF SweepInv, UngrantedUntouched, Untouched, TouchesOnly
  <1>6. Groups'
    <2> SUFFICES ASSUME NEW k \in LeaseObject
                 PROVE  /\ mode'[k] = "none" => after'[k] = k
                        /\ IsLive(k)' => InGroup(k)'
                        /\ IsLive(after[k])' => IsLive(k)'
      BY DEF Groups, IsLive
    <2>1. mode'[k] = "none" => after'[k] = k
      BY <1>2 DEF SweepInv, Groups
    <2>2. IsLive(k)' => InGroup(k)'
      <3> SUFFICES ASSUME IsLive(k) PROVE InGroup(k)'
        BY <1>3
      <3>1. InGroup(k) /\ k # l /\ after[k] # l
        BY <1>4 DEF SweepInv, Groups
      <3>2. after'[k] = after[k] /\ after'[after[k]] = after[k] /\ IsLive(after[k])'
        BY <1>2, <1>3, <3>1 DEF InGroup, IsLive
      <3> QED BY <1>1, <1>2, <3>1, <3>2 DEF InGroup, TouchesOnly, SameGroup
    <2>3. IsLive(after[k])' => IsLive(k)'
      <3>1. CASE k = l
        BY <1>2, <3>1 DEF IsLive
      <3>2. CASE k # l
        <4>1. after'[k] = after[k]
          BY <1>2, <3>2
        <4> QED BY <1>2, <1>3, <4>1 DEF SweepInv, Groups, IsLive
      <3> QED BY <3>1, <3>2
    <2> QED BY <2>1, <2>2, <2>3
  <1>7. Covers'
    <2> SUFFICES ASSUME NEW k \in LeaseObject, mode'[k] = "covered"
                 PROVE  /\ after'[k] = k
                        /\ \A j \in LeaseObject : after'[j] = k => j = k
                        /\ k[1] \in Coalesced
                        /\ writtenAt'[k[1]] <= projected'[OrgOf[k[1]]]
      BY DEF Covers
    <2> QED BY <1>2 DEF SweepInv, Covers
  <1>8. Reads'
    BY <1>1, <1>2, <1>3, <1>4 DEF SweepInv, Reads, TouchesOnly
  <1>9. Awaited'
    <2> SUFFICES ASSUME NEW v \in Worker, NEW k \in sweep'[v]
                 PROVE  IsLive(k)' /\ WorkerOf(k)' = v /\ after'[k] \in sweep'[v]
      BY DEF Awaited
    <2>1. k \in sweep[v] /\ k \in LeaseObject
      BY <1>2 DEF SweepInv, SweepTypeOK
    <2> QED BY <1>1, <1>2, <1>3, <1>4, <2>1 DEF SweepInv, Awaited, TouchesOnly
  <1> QED BY <1>5, <1>6, <1>7, <1>8, <1>9

-----------------------------------------------------------------------------
(* The variables of the loop keep their types. *)
LEMMA SweepTypes ==
  ASSUME SweepInv, SweepNext, IndInv'
  PROVE  SweepTypeOK'
  <1> USE Pairs, SweepAssumption
  <1>0. TypeOK' /\ SweepTypeOK
    BY DEF SweepInv, IndInv
  <1>1. ASSUME NEW e \in Event, Produce(e) PROVE SweepTypeOK'
    BY <1>0, <1>1 DEF Produce, SweepTypeOK, loopVars, processVars
  <1>2. ASSUME NEW w \in Worker, StartSweep(w) PROVE SweepTypeOK'
    <2> DEFINE granted == {l \in LeaseObject : task'[l[1]][l[2]] # TaskOf(l)}
    <2>1. PICK firsts \in SUBSET granted :
         /\ \A l \in granted : \E f \in firsts : SameGroup(f, l)
         /\ sweep' = [sweep EXCEPT ![w] = granted]
         /\ mode' = [l \in LeaseObject |-> IF l \in granted THEN "recompute" ELSE mode[l]]
         /\ after' = [l \in LeaseObject |->
                        IF l \in granted THEN CHOOSE f \in firsts : SameGroup(f, l)
                                         ELSE after[l]]
      BY <1>2 DEF StartSweep
    <2>2. granted \subseteq LeaseObject
      OBVIOUS
    <2> HIDE DEF granted
    <2>3. mode' \in [LeaseObject -> Mode] /\ sweep' \in [Worker -> SUBSET LeaseObject]
      BY <1>0, <2>1, <2>2 DEF SweepTypeOK, Mode
    <2>4. \A l \in LeaseObject :
            (IF l \in granted THEN CHOOSE f \in firsts : SameGroup(f, l) ELSE after[l]) \in LeaseObject
      BY <1>0, <2>1, <2>2 DEF SweepTypeOK
    <2>5. after' \in [LeaseObject -> LeaseObject]
      BY <2>1, <2>4
    <2> QED BY <1>0, <1>2, <2>3, <2>5 DEF StartSweep, SweepTypeOK, processVars, dataVars
  <1>3. ASSUME NEW w \in Worker, Stop(w) \/ Exit(w) \/ Restart(w) PROVE SweepTypeOK'
    BY <1>0, <1>3 DEF Stop, Exit, Restart, SweepTypeOK, loopVars, dataVars, Mode
  <1>4. ASSUME NEW w \in Worker, NEW o \in Org, AttentionSweep(w, o) PROVE SweepTypeOK'
    BY <1>0, <1>4 DEF AttentionSweep, SweepTypeOK, loopVars, processVars
  <1>5. ASSUME NEW l \in LeaseObject, NEW acknowledged \in BOOLEAN, Return(l, acknowledged)
        PROVE  /\ mode' \in [LeaseObject -> Mode]
               /\ after' \in [LeaseObject -> LeaseObject]
               /\ sweep' \in [Worker -> SUBSET LeaseObject]
    BY <1>0, <1>5 DEF Return, SweepTypeOK, Mode
  <1>6. ASSUME NEW l \in LeaseObject, Reject(l)
        PROVE  /\ mode' \in [LeaseObject -> Mode]
               /\ after' \in [LeaseObject -> LeaseObject]
               /\ sweep' \in [Worker -> SUBSET LeaseObject]
    BY <1>0, <1>6 DEF Reject, SweepTypeOK, Mode
  <1>7. ASSUME NEW l \in LeaseObject, Progress(l) \/ Throw(l) \/ ReportThrows(l)
        PROVE  SweepTypeOK'
    <2>1. CASE Begin(l)
      BY <1>0, <1>5, <2>1 DEF Begin, SweepTypeOK, loopVars, processVars, dataVars
    <2>2. CASE ReadSources(l)
      BY <1>0, <2>2 DEF ReadSources, SweepTypeOK, loopVars, processVars
    <2>3. CASE Commit(l)
      <3>1. projected' \in [Org -> Nat] /\ readAt' \in [LeaseObject -> Nat]
        BY <1>0, <2>3 DEF Commit, EndRead, SweepTypeOK, NoRead
      <3> QED BY <1>0, <1>5, <2>3, <3>1 DEF Commit, SweepTypeOK, loopVars, processVars
    <2>4. CASE Lose(l)
      BY <1>0, <1>5, <2>4 DEF Lose, EndRead, SweepTypeOK, processVars, NoRead
    <2>5. CASE ReportFailure(l)
      BY <1>0, <1>5, <2>5 DEF ReportFailure, SweepTypeOK, processVars, dataVars
    <2>6. CASE Forget(l)
      BY <1>0, <2>6 DEF Forget, EndRead, SweepTypeOK, processVars, NoRead, Mode
    <2>7. CASE Throw(l)
      BY <1>0, <2>7 DEF Throw, EndRead, SweepTypeOK, loopVars, processVars, NoRead
    <2>8. CASE ReportThrows(l)
      BY <1>0, <1>6, <2>8 DEF ReportThrows, SweepTypeOK, processVars, dataVars
    <2> QED BY <1>7, <2>1, <2>2, <2>3, <2>4, <2>5, <2>6, <2>7, <2>8 DEF Progress
  <1>8. CASE Tick /\ UNCHANGED <<loopVars, processVars, dataVars>>
    BY <1>0, <1>8 DEF SweepTypeOK, loopVars, processVars, dataVars
  <1> QED BY <1>1, <1>2, <1>3, <1>4, <1>7, <1>8 DEF SweepNext

(* Nothing of the loop or the projection matters to a step that changes none  *)
(* of it and only lets time pass.                                            *)
LEMMA IdleInd ==
  ASSUME SweepInv, UNCHANGED <<loopVars, dataVars, queued, processed, attempts, task, attemptWorker>>,
         IndInv', SweepTypeOK'
  PROVE  SweepInv'
  <1>1. UngrantedUntouched' /\ Groups' /\ Awaited'
    BY StayInd DEF SweepInv, UngrantedUntouched, Untouched, TaskOf, WorkerOf, dataVars
  <1>2. Covers' /\ Reads' /\ Versions' /\ AcknowledgedIsReflected'
    BY DEF SweepInv, Covers, Reads, Versions, AcknowledgedIsReflected, loopVars, dataVars, IsLive
  <1> QED BY <1>1, <1>2 DEF SweepInv

(* A new event announces a version that no open recompute needs to have read. *)
LEMMA ProduceInd ==
  ASSUME SweepInv, NEW e \in Event, Produce(e), IndInv', SweepTypeOK'
  PROVE  SweepInv'
  <1> USE Pairs, SweepAssumption
  <1>1. /\ e \notin queued /\ queued' = queued \cup {e}
        /\ UNCHANGED <<processed, attempts, task, attemptWorker, loopVars, projected, readAt>>
        /\ OrgOf[e] \in Org /\ source[OrgOf[e]] \in Nat
        /\ \A o \in Org : source'[o] = IF o = OrgOf[e] THEN source[o] + 1 ELSE source[o]
        /\ \A d \in Event : writtenAt'[d] = IF d = e THEN source[OrgOf[e]] + 1 ELSE writtenAt[d]
    BY DEF Produce, Enqueue, attemptVars, SweepInv, SweepTypeOK
  <1>2. /\ \A o \in Org : source[o] \in Nat /\ projected[o] \in Nat /\ source[o] <= source'[o]
        /\ \A d \in Event : writtenAt[d] \in Nat /\ OrgOf[d] \in Org
        /\ \A l \in LeaseObject : readAt[l] \in Nat
    <2>1. /\ \A o \in Org : source[o] \in Nat /\ projected[o] \in Nat
          /\ \A d \in Event : writtenAt[d] \in Nat /\ OrgOf[d] \in Org
          /\ \A l \in LeaseObject : readAt[l] \in Nat
      BY DEF SweepInv, SweepTypeOK
    <2> QED BY <1>1, <2>1
  <1>3. UngrantedUntouched' /\ Groups' /\ Awaited'
    BY <1>1, StayInd DEF SweepInv, UngrantedUntouched, Untouched, TaskOf, WorkerOf
  <1>4. \A k \in LeaseObject : IsLive(k) => k[1] \in queued
    BY DEF SweepInv, Groups, InGroup
  <1>5. Covers'
    <2> SUFFICES ASSUME NEW l \in LeaseObject, mode[l] = "covered"
                 PROVE  /\ after[l] = l
                        /\ \A k \in LeaseObject : after[k] = l => k = l
                        /\ l[1] \in Coalesced
                        /\ writtenAt'[l[1]] <= projected[OrgOf[l[1]]]
      BY <1>1 DEF Covers, loopVars
    <2>1. l[1] # e
      BY <1>1, <1>4 DEF IsLive, Live
    <2> QED BY <1>1, <2>1 DEF SweepInv, Covers
  <1>6. Reads'
    <2> SUFFICES ASSUME NEW l \in LeaseObject, readAt[l] # NoRead
                 PROVE  /\ l[1] \in queued'
                        /\ writtenAt'[l[1]] <= readAt[l]
                        /\ projected[OrgOf[l[1]]] <= readAt[l]
                        /\ readAt[l] <= source'[OrgOf[l[1]]]
                        /\ \A k \in LeaseObject :
                              IsLive(k) /\ after[k] = l => writtenAt'[k[1]] <= readAt[l]
                        /\ \A k \in LeaseObject :
                              readAt[k] # NoRead /\ OrgOf[k[1]] = OrgOf[l[1]] => k = l
      BY <1>1 DEF Reads, loopVars, IsLive
    <2>1. /\ l[1] \in queued
          /\ writtenAt[l[1]] <= readAt[l]
          /\ projected[OrgOf[l[1]]] <= readAt[l]
          /\ readAt[l] <= source[OrgOf[l[1]]]
          /\ \A k \in LeaseObject : IsLive(k) /\ after[k] = l => writtenAt[k[1]] <= readAt[l]
          /\ \A k \in LeaseObject : readAt[k] # NoRead /\ OrgOf[k[1]] = OrgOf[l[1]] => k = l
      BY DEF SweepInv, Reads
    <2>2. readAt[l] <= source'[OrgOf[l[1]]]
      BY <1>1, <1>2, <2>1
    <2>3. ASSUME NEW k \in LeaseObject, IsLive(k), after[k] = l PROVE writtenAt'[k[1]] <= readAt[l]
      BY <1>1, <1>4, <2>1, <2>3
    <2> QED BY <1>1, <2>1, <2>2, <2>3
  <1>7. Versions'
    BY <1>1, <1>2 DEF SweepInv, Versions
  <1>8. AcknowledgedIsReflected'
    <2>1. processed \subseteq queued
      BY DEF SweepInv, IndInv, TypeOK
    <2> QED BY <1>1, <1>2, <2>1 DEF SweepInv, AcknowledgedIsReflected
  <1> QED BY <1>3, <1>5, <1>6, <1>7, <1>8 DEF SweepInv

(* The scan of an organization runs when no recompute of it is open. *)
LEMMA AttentionInd ==
  ASSUME SweepInv, NEW w \in Worker, NEW o \in Org, AttentionSweep(w, o), IndInv', SweepTypeOK'
  PROVE  SweepInv'
  <1> USE Pairs, SweepAssumption
  <1>1. /\ UNCHANGED <<vars, loopVars, source, writtenAt, readAt>>
        /\ \A p \in Org : projected'[p] = IF p = o THEN source[o] ELSE projected[p]
        /\ \A l \in LeaseObject : readAt[l] # NoRead => OrgOf[l[1]] # o
    BY DEF AttentionSweep, OrgLocked, SweepInv, SweepTypeOK
  <1>2. /\ \A p \in Org : /\ source[p] \in Nat /\ projected[p] \in Nat /\ projected'[p] \in Nat
                          /\ projected[p] <= projected'[p] /\ projected'[p] <= source[p]
        /\ \A d \in Event : writtenAt[d] \in Nat /\ OrgOf[d] \in Org
    <2>1. \A p \in Org : source[p] \in Nat /\ projected[p] \in Nat /\ projected[p] <= source[p]
      BY DEF SweepInv, SweepTypeOK, Versions
    <2>2. \A d \in Event : writtenAt[d] \in Nat /\ OrgOf[d] \in Org
      BY DEF SweepInv, SweepTypeOK
    <2> QED BY <1>1, <2>1, <2>2
  <1>3. UngrantedUntouched' /\ Groups' /\ Awaited'
    BY <1>1, StayInd DEF SweepInv, UngrantedUntouched, Untouched, TaskOf, WorkerOf, vars, rowVars, attemptVars
  <1>4. Covers'
    <2> SUFFICES ASSUME NEW l \in LeaseObject, mode[l] = "covered"
                 PROVE  writtenAt[l[1]] <= projected'[OrgOf[l[1]]]
      BY <1>1 DEF SweepInv, Covers, loopVars
    <2> QED BY <1>2 DEF SweepInv, Covers
  <1>5. Reads'
    BY <1>1, <1>2 DEF SweepInv, Reads, IsLive, loopVars, vars
  <1>6. Versions' /\ AcknowledgedIsReflected'
    BY <1>1, <1>2 DEF SweepInv, Versions, AcknowledgedIsReflected, vars, rowVars
  <1> QED BY <1>3, <1>4, <1>5, <1>6 DEF SweepInv

(* A recompute reads what its whole group announces.                          *)
LEMMA ReadInd ==
  ASSUME SweepInv, NEW l \in LeaseObject, ReadSources(l), IndInv', SweepTypeOK'
  PROVE  SweepInv'
  <1> USE Pairs, SweepAssumption
  <1> DEFINE o == OrgOf[l[1]]
  <1>1. /\ UNCHANGED <<vars, loopVars, source, writtenAt, projected>>
        /\ \A k \in LeaseObject : readAt'[k] = IF k = l THEN source[o] ELSE readAt[k]
        /\ \A k \in LeaseObject : OrgOf[k[1]] = o => readAt[k] = NoRead
        /\ IsLive(l) /\ after[l] = l /\ l[1] \in Coalesced
    BY DEF ReadSources, OrgLocked, SweepInv, SweepTypeOK, OnTurn, IsLive, Live, Recomputes
  <1>2. /\ l[1] \in queued /\ l[2] <= attempts[l[1]]
    <2>1. TaskOf(l) # "none" /\ l[1] \in queued
      BY <1>1 DEF SweepInv, Groups, InGroup
    <2>2. attempts[l[1]] \in Nat /\ l[2] \in Nat
      <3>1. l[1] \in Event /\ l[2] \in Attempt
        OBVIOUS
      <3> QED BY <3>1 DEF SweepInv, IndInv, TypeOK, Attempt
    <2> QED BY <2>1, <2>2 DEF SweepInv, UngrantedUntouched, Untouched
  <1>3. \A k \in LeaseObject : k[2] > attempts[k[1]] => readAt'[k] = NoRead
    <2> SUFFICES ASSUME NEW k \in LeaseObject, k[2] > attempts[k[1]] PROVE readAt'[k] = NoRead
      OBVIOUS
    <2>1. attempts[k[1]] \in Nat /\ k[2] \in Nat
      <3>1. k[1] \in Event /\ k[2] \in Attempt
        OBVIOUS
      <3>2. attempts \in [Event -> Nat] /\ MaxAttempts \in Nat
        BY OutboxAssumption DEF SweepInv, IndInv, TypeOK
      <3> QED BY <3>1, <3>2 DEF Attempt
    <2>2. k # l /\ readAt[k] = NoRead
      BY <1>2, <2>1 DEF SweepInv, UngrantedUntouched, Untouched
    <2> QED BY <1>1, <2>2
  <1>4. UngrantedUntouched' /\ Groups' /\ Awaited'
    BY <1>1, <1>3, StayInd DEF TaskOf, WorkerOf, vars, rowVars, attemptVars
  <1>5. Covers' /\ Versions' /\ AcknowledgedIsReflected'
    BY <1>1 DEF SweepInv, Covers, Versions, AcknowledgedIsReflected, loopVars, vars, rowVars
  <1>6. Reads'
    <2> SUFFICES ASSUME NEW m \in LeaseObject, readAt'[m] # NoRead
                 PROVE  /\ m[1] \in queued
                        /\ writtenAt[m[1]] <= readAt'[m]
                        /\ projected[OrgOf[m[1]]] <= readAt'[m]
                        /\ readAt'[m] <= source[OrgOf[m[1]]]
                        /\ \A k \in LeaseObject :
                              IsLive(k) /\ after[k] = m => writtenAt[k[1]] <= readAt'[m]
                        /\ \A k \in LeaseObject :
                              readAt'[k] # NoRead /\ OrgOf[k[1]] = OrgOf[m[1]] => k = m
      BY <1>1 DEF Reads, loopVars, IsLive, vars
    <2>1. CASE m = l
      <3>1. readAt'[m] = source[o] /\ source[o] \in Nat
        BY <1>1, <2>1 DEF SweepInv, SweepTypeOK
      <3>2. /\ writtenAt[l[1]] <= source[o] /\ projected[o] <= source[o]
        BY DEF SweepInv, Versions
      <3>3. ASSUME NEW k \in LeaseObject, IsLive(k), after[k] = m PROVE writtenAt[k[1]] <= readAt'[m]
        <4>1. OrgOf[k[1]] = o
          BY <2>1, <3>3 DEF SweepInv, Groups, InGroup, SameGroup
        <4> QED BY <3>1, <4>1 DEF SweepInv, Versions
      <3> QED BY <1>1, <1>2, <2>1, <3>1, <3>2, <3>3
    <2>2. CASE m # l
      <3>1. readAt'[m] = readAt[m] /\ readAt[m] # NoRead /\ OrgOf[m[1]] # o
        BY <1>1, <2>2
      <3> QED BY <1>1, <3>1 DEF SweepInv, Reads
    <2> QED BY <2>1, <2>2
  <1> QED BY <1>4, <1>5, <1>6 DEF SweepInv

(* A step on a lease that leaves tables and projection alone, after which it  *)
(* is still in hand.                                                         *)
LEMMA KeepInd ==
  ASSUME SweepInv, NEW l \in LeaseObject, OnTurn(l), TouchesOnly(l), TaskOf(l)' # "none",
         UNCHANGED <<loopVars, source, writtenAt, projected, processed>>,
         \A k \in LeaseObject : readAt'[k] \in {readAt[k], NoRead},
         IndInv', SweepTypeOK'
  PROVE  SweepInv'
  <1>1. TaskOf(l) # "none"
    BY DEF OnTurn, SweepInv, Groups, InGroup, IsLive, Live
  <1>2. UngrantedUntouched' /\ Groups' /\ Awaited'
    <2>1. \A k \in LeaseObject : k[2] > attempts[k[1]] => readAt'[k] = NoRead
      BY DEF SweepInv, UngrantedUntouched, Untouched
    <2> QED BY <1>1, <2>1, StayInd DEF TouchesOnly
  <1>3. Covers' /\ Versions' /\ AcknowledgedIsReflected'
    BY DEF SweepInv, Covers, Versions, AcknowledgedIsReflected, loopVars
  <1>4. Reads'
    BY DEF SweepInv, Reads, loopVars, IsLive, TouchesOnly
  <1> QED BY <1>2, <1>3, <1>4 DEF SweepInv

(* A step on a lease that returns without an acknowledgement. *)
LEMMA GiveBackInd ==
  ASSUME SweepInv, NEW l \in LeaseObject, OnTurn(l), TouchesOnly(l), Return(l, FALSE),
         UNCHANGED <<source, writtenAt, projected, processed>>,
         \A k \in LeaseObject : readAt'[k] \in {readAt[k], NoRead},
         IndInv', SweepTypeOK'
  PROVE  SweepInv'
  <1>1. \A o \in Org : projected[o] <= projected'[o] /\ projected'[o] \in Nat
    BY DEF SweepInv, SweepTypeOK
  <1>2. UngrantedUntouched' /\ Groups' /\ Covers' /\ Reads' /\ Awaited'
    BY <1>1, ReturnInd
  <1>3. Versions' /\ AcknowledgedIsReflected'
    BY DEF SweepInv, Versions, AcknowledgedIsReflected
  <1> QED BY <1>2, <1>3 DEF SweepInv

(* The acknowledgement commits with what the recompute has read.              *)
LEMMA CommitSweepInd ==
  ASSUME SweepInv, NEW l \in LeaseObject, Commit(l), IndInv', SweepTypeOK'
  PROVE  SweepInv'
  <1> USE Pairs, SweepAssumption
  <1> DEFINE o == OrgOf[l[1]]
  <1>1. /\ TouchesOnly(l)
        /\ OnTurn(l) /\ IsLive(l) /\ after[l] = l /\ InGroup(l)
        /\ processed' = processed \cup {l[1]}
        /\ UNCHANGED <<source, writtenAt>>
    <2>1. TouchesOnly(l)
      BY WorkTouches DEF Commit, Work, SweepInv, IndInv
    <2>2. OnTurn(l) /\ processed' = processed \cup {l[1]} /\ UNCHANGED <<source, writtenAt>>
      BY DEF Commit, CommitProcess
    <2> QED BY <2>1, <2>2 DEF OnTurn, IsLive, Live, SweepInv, Groups
  <1>2. /\ o \in Org
        /\ \A p \in Org : /\ source[p] \in Nat /\ projected[p] \in Nat /\ projected'[p] \in Nat
                          /\ projected[p] <= source[p]
                          /\ projected'[p] = IF p = o /\ Recomputes(l) THEN readAt[l] ELSE projected[p]
        /\ \A d \in Event : writtenAt[d] \in Nat /\ OrgOf[d] \in Org
        /\ \A k \in LeaseObject : readAt'[k] = IF k = l THEN NoRead ELSE readAt[k]
        /\ Recomputes(l) => readAt[l] # NoRead
    <2>1. \A p \in Org : source[p] \in Nat /\ projected[p] \in Nat /\ projected[p] <= source[p]
      BY DEF SweepInv, SweepTypeOK, Versions
    <2>2. \A p \in Org : projected'[p] \in Nat
      BY DEF SweepTypeOK
    <2>3. \A p \in Org : projected'[p] = IF p = o /\ Recomputes(l) THEN readAt[l] ELSE projected[p]
      BY DEF Commit, SweepInv, SweepTypeOK
    <2>4. \A d \in Event : writtenAt[d] \in Nat /\ OrgOf[d] \in Org
      BY DEF SweepInv, SweepTypeOK
    <2>5. \A k \in LeaseObject : readAt'[k] = IF k = l THEN NoRead ELSE readAt[k]
      BY DEF Commit, EndRead, SweepInv, SweepTypeOK
    <2>6. Recomputes(l) => readAt[l] # NoRead
      BY DEF Commit, HandlerDone
    <2> QED BY <2>1, <2>2, <2>3, <2>4, <2>5, <2>6
  <1>3. Recomputes(l) => /\ projected[o] <= readAt[l] /\ readAt[l] <= source[o]
                         /\ \A k \in LeaseObject :
                               IsLive(k) /\ after[k] = l => writtenAt[k[1]] <= readAt[l]
                         /\ \A k \in LeaseObject :
                               readAt[k] # NoRead /\ OrgOf[k[1]] = o => k = l
    BY <1>2 DEF SweepInv, Reads
  <1>4. \A p \in Org : projected[p] <= projected'[p] /\ projected'[p] <= source[p]
    <2> SUFFICES ASSUME NEW p \in Org
                 PROVE  projected[p] <= projected'[p] /\ projected'[p] <= source[p]
      OBVIOUS
    <2> QED BY <1>2, <1>3
  <1>5. \A k \in LeaseObject : readAt'[k] # NoRead =>
            readAt'[k] = readAt[k] /\ projected'[OrgOf[k[1]]] = projected[OrgOf[k[1]]]
    <2> SUFFICES ASSUME NEW k \in LeaseObject, readAt'[k] # NoRead
                 PROVE  readAt'[k] = readAt[k] /\ projected'[OrgOf[k[1]]] = projected[OrgOf[k[1]]]
      OBVIOUS
    <2>1. k # l /\ readAt'[k] = readAt[k] /\ readAt[k] # NoRead
      BY <1>2
    <2>2. Recomputes(l) => OrgOf[k[1]] # o
      BY <1>3, <2>1
    <2>3. OrgOf[k[1]] \in Org
      BY <1>2
    <2> QED BY <1>2, <2>1, <2>2, <2>3
  <1>6. \A k \in LeaseObject : IsLive(k) /\ after[k] = l /\ k # l =>
            writtenAt[k[1]] <= projected'[OrgOf[k[1]]]
    <2> SUFFICES ASSUME NEW k \in LeaseObject, IsLive(k), after[k] = l, k # l
                 PROVE  writtenAt[k[1]] <= projected'[OrgOf[k[1]]]
      OBVIOUS
    <2>1. l[1] \in Coalesced /\ OrgOf[k[1]] = o
      BY DEF SweepInv, Groups, InGroup, SameGroup
    <2>2. mode[l] # "covered"
      BY DEF SweepInv, Covers
    <2>3. Recomputes(l)
      BY <1>1, <2>1, <2>2 DEF Recomputes, IsLive, Live
    <2> QED BY <1>2, <1>3, <2>1, <2>3
  <1>7. UngrantedUntouched' /\ Groups' /\ Covers' /\ Reads' /\ Awaited'
    <2>1. CASE Return(l, TRUE)
      BY <1>1, <1>2, <1>4, <1>5, <1>6, <2>1, ReturnInd
    <2>2. CASE UNCHANGED loopVars /\ TaskOf(l)' # "none"
      <3>1. TaskOf(l) # "none"
        BY <1>1 DEF InGroup
      <3>2. UngrantedUntouched' /\ Groups' /\ Awaited'
        <4>1. \A k \in LeaseObject : k[2] > attempts[k[1]] => readAt'[k] = NoRead
          BY <1>2 DEF SweepInv, UngrantedUntouched, Untouched
        <4> QED BY <1>1, <2>2, <3>1, <4>1, StayInd DEF TouchesOnly
      <3>3. Covers'
        <4> SUFFICES ASSUME NEW k \in LeaseObject, mode[k] = "covered"
                     PROVE  writtenAt[k[1]] <= projected'[OrgOf[k[1]]]
          BY <1>1, <2>2 DEF SweepInv, Covers, loopVars
        <4>1. writtenAt[k[1]] <= projected[OrgOf[k[1]]]
          BY DEF SweepInv, Covers
        <4>2. OrgOf[k[1]] \in Org /\ writtenAt[k[1]] \in Nat
          BY <1>2
        <4> QED BY <1>2, <1>4, <4>1, <4>2
      <3>4. Reads'
        <4> SUFFICES ASSUME NEW m \in LeaseObject, readAt'[m] # NoRead
                     PROVE  /\ m[1] \in queued'
                            /\ writtenAt[m[1]] <= readAt'[m]
                            /\ projected'[OrgOf[m[1]]] <= readAt'[m]
                            /\ readAt'[m] <= source[OrgOf[m[1]]]
                            /\ \A k \in LeaseObject :
                                  IsLive(k) /\ after[k] = m => writtenAt[k[1]] <= readAt'[m]
                            /\ \A k \in LeaseObject :
                                  readAt'[k] # NoRead /\ OrgOf[k[1]] = OrgOf[m[1]] => k = m
          BY <1>1, <2>2 DEF Reads, IsLive, loopVars
        <4>1. readAt'[m] = readAt[m] /\ projected'[OrgOf[m[1]]] = projected[OrgOf[m[1]]]
          BY <1>5
        <4> QED BY <1>1, <1>5, <4>1 DEF SweepInv, Reads, TouchesOnly
      <3> QED BY <3>2, <3>3, <3>4
    <2> QED BY <2>1, <2>2 DEF Commit, TaskOf
  <1>8. Versions'
    BY <1>1, <1>4 DEF SweepInv, Versions
  <1>9. AcknowledgedIsReflected'
    <2> SUFFICES ASSUME NEW e \in Coalesced, e \in processed'
                 PROVE  writtenAt[e] <= projected'[OrgOf[e]]
      BY <1>1 DEF AcknowledgedIsReflected
    <2>1. CASE e \in processed
      <3>1. writtenAt[e] <= projected[OrgOf[e]] /\ e \in Event
        BY <2>1 DEF SweepInv, AcknowledgedIsReflected
      <3> QED BY <1>2, <1>4, <3>1
    <2>2. CASE e = l[1] /\ mode[l] = "covered"
      <3>1. writtenAt[e] <= projected[o]
        BY <2>2 DEF SweepInv, Covers
      <3>2. e \in Event
        BY <2>2
      <3> QED BY <1>2, <1>4, <2>2, <3>1, <3>2
    <2>3. CASE e = l[1] /\ mode[l] = "recompute"
      <3>1. Recomputes(l)
        BY <2>3 DEF Recomputes
      <3> QED BY <1>1, <1>2, <1>3, <2>3, <3>1
    <2> QED BY <1>1, <2>1, <2>2, <2>3 DEF IsLive, Live
  <1> QED BY <1>7, <1>8, <1>9 DEF SweepInv

(* What the steps of the loop on one lease do.                                *)
LEMMA LeaseStepInd ==
  ASSUME SweepInv, NEW l \in LeaseObject, Progress(l) \/ Throw(l) \/ ReportThrows(l),
         IndInv', SweepTypeOK'
  PROVE  SweepInv'
  <1> USE Pairs
  <1>0. TypeOK
    BY DEF SweepInv, IndInv
  <1>1. CASE Begin(l)
    <2>1. TouchesOnly(l) /\ OnTurn(l) /\ UNCHANGED <<processed, dataVars>>
      BY <1>0, <1>1, WorkTouches DEF Begin, Work, BeginProcess, rowVars
    <2>2. CASE Return(l, FALSE)
      BY <2>1, <2>2, GiveBackInd DEF dataVars
    <2>3. CASE UNCHANGED loopVars /\ TaskOf(l)' # "none"
      BY <2>1, <2>3, KeepInd DEF dataVars
    <2> QED BY <1>1, <2>2, <2>3 DEF Begin, TaskOf
  <1>2. CASE ReadSources(l)
    BY <1>2, ReadInd
  <1>3. CASE Commit(l)
    BY <1>3, CommitSweepInd
  <1>4. \A k \in LeaseObject : readAt[k] \in Nat
    BY DEF SweepInv, SweepTypeOK
  <1>5. CASE Lose(l)
    <2>1. TouchesOnly(l) /\ OnTurn(l) /\ Return(l, FALSE)
          /\ UNCHANGED <<processed, source, writtenAt, projected>>
      BY <1>0, <1>5, WorkTouches DEF Lose, Work, LoseLease, rowVars
    <2>2. \A k \in LeaseObject : readAt'[k] \in {readAt[k], NoRead}
      BY <1>5 DEF Lose, EndRead, SweepInv, SweepTypeOK
    <2> QED BY <2>1, <2>2, GiveBackInd
  <1>6. CASE ReportFailure(l)
    <2>1. TouchesOnly(l) /\ OnTurn(l) /\ Return(l, FALSE) /\ UNCHANGED <<processed, dataVars>>
      BY <1>0, <1>6, WorkTouches DEF ReportFailure, Work, FailLease, FailTooLate, rowVars
    <2> QED BY <2>1, GiveBackInd DEF dataVars
  <1>7. CASE Forget(l)
    <2>1. UngrantedUntouched' /\ Groups' /\ Covers' /\ Reads' /\ Awaited'
      BY <1>7, ForgetInd
    <2>2. UNCHANGED <<processed, source, writtenAt, projected>>
      BY <1>7 DEF Forget, Abandon, vars, rowVars
    <2>3. Versions' /\ AcknowledgedIsReflected'
      BY <2>2 DEF SweepInv, Versions, AcknowledgedIsReflected
    <2> QED BY <2>1, <2>3 DEF SweepInv
  <1>8. CASE Throw(l)
    <2>1. TouchesOnly(l) /\ OnTurn(l)
          /\ UNCHANGED <<processed, loopVars, source, writtenAt, projected>>
      BY <1>0, <1>8, WorkTouches DEF Throw, ProcessThrows, rowVars
    <2>2. \A k \in LeaseObject : readAt'[k] \in {readAt[k], NoRead}
      BY <1>8 DEF Throw, EndRead, SweepInv, SweepTypeOK
    <2>3. TaskOf(l)' # "none"
      BY <1>0, <1>8 DEF Throw, ProcessThrows, SetTask, TaskOf, TypeOK
    <2> QED BY <2>1, <2>2, <2>3, KeepInd
  <1>9. CASE ReportThrows(l)
    <2>1. TouchesOnly(l) /\ OnTurn(l) /\ Reject(l) /\ UNCHANGED <<processed, dataVars>>
      BY <1>0, <1>9, WorkTouches DEF ReportThrows, Work, FailLease, Abandon, rowVars
    <2>2. UngrantedUntouched' /\ Groups' /\ Covers' /\ Reads' /\ Awaited'
      BY <2>1, RejectInd DEF dataVars
    <2>3. Versions' /\ AcknowledgedIsReflected'
      BY <2>1 DEF SweepInv, Versions, AcknowledgedIsReflected, dataVars
    <2> QED BY <2>2, <2>3 DEF SweepInv
  <1> QED BY <1>1, <1>2, <1>3, <1>5, <1>6, <1>7, <1>8, <1>9 DEF Progress

-----------------------------------------------------------------------------
(* Every step of the loop keeps the invariant. *)
LEMMA SweepStepInd == SweepInv /\ [SweepNext]_allVars => SweepInv'
  <1> SUFFICES ASSUME SweepInv, [SweepNext]_allVars PROVE SweepInv'
    OBVIOUS
  <1>1. IndInv'
    BY LoopStep, NextInd DEF SweepInv
  <1>2. CASE UNCHANGED allVars
    BY <1>1, <1>2, IdleInd
       DEF allVars, vars, rowVars, attemptVars, processVars, loopVars, dataVars, SweepInv, SweepTypeOK, IndInv
  <1>3. ASSUME SweepNext PROVE SweepTypeOK'
    BY <1>1, <1>3, SweepTypes
  <1>4. ASSUME NEW e \in Event, Produce(e), SweepNext PROVE SweepInv'
    BY <1>1, <1>3, <1>4, ProduceInd
  <1>5. ASSUME NEW w \in Worker, StartSweep(w), SweepNext PROVE SweepInv'
    <2>1. UngrantedUntouched' /\ Groups' /\ Covers' /\ Reads' /\ Awaited'
      BY <1>1, <1>5, StartInd
    <2>2. UNCHANGED dataVars /\ processed' = processed
      BY <1>5 DEF StartSweep, Lease, LeaseRows
    <2>3. Versions' /\ AcknowledgedIsReflected'
      BY <2>2 DEF SweepInv, Versions, AcknowledgedIsReflected, dataVars
    <2> QED BY <1>1, <1>3, <1>5, <2>1, <2>3 DEF SweepInv
  <1>6. ASSUME NEW w \in Worker, Restart(w), SweepNext PROVE SweepInv'
    <2>1. UngrantedUntouched' /\ Groups' /\ Covers' /\ Reads' /\ Awaited'
      BY <1>6, RestartInd
    <2>2. UNCHANGED dataVars /\ processed' = processed
      BY <1>6 DEF Restart, vars, rowVars
    <2>3. Versions' /\ AcknowledgedIsReflected'
      BY <2>2 DEF SweepInv, Versions, AcknowledgedIsReflected, dataVars
    <2> QED BY <1>1, <1>3, <1>6, <2>1, <2>3 DEF SweepInv
  <1>7. ASSUME NEW w \in Worker, Stop(w) \/ Exit(w), SweepNext PROVE SweepInv'
    BY <1>1, <1>3, <1>7, IdleInd DEF Stop, Exit, vars, rowVars, attemptVars
  <1>8. ASSUME NEW w \in Worker, NEW o \in Org, AttentionSweep(w, o), SweepNext PROVE SweepInv'
    BY <1>1, <1>3, <1>8, AttentionInd
  <1>9. ASSUME NEW l \in LeaseObject, Progress(l) \/ Throw(l) \/ ReportThrows(l), SweepNext
        PROVE  SweepInv'
    BY <1>1, <1>3, <1>9, LeaseStepInd
  <1>10. ASSUME Tick, UNCHANGED <<loopVars, processVars, dataVars>>, SweepNext PROVE SweepInv'
    BY <1>1, <1>3, <1>10, IdleInd DEF Tick, attemptVars
  <1> QED BY <1>2, <1>4, <1>5, <1>6, <1>7, <1>8, <1>9, <1>10 DEF SweepNext

(* No worker runs, nothing is claimed, every organization is at version 1.    *)
LEMMA SweepInitInd == SweepInit => SweepInv
  <1> SUFFICES ASSUME SweepInit PROVE SweepInv
    OBVIOUS
  <1> USE Pairs, SweepAssumption
  <1>1. IndInv
    BY InitInd DEF SweepInit
  <1>2. SweepTypeOK
    BY <1>1 DEF IndInv, SweepInit, SweepTypeOK, Mode, NoRead
  <1>3. UngrantedUntouched /\ Groups /\ Covers /\ Reads /\ Awaited
    BY DEF SweepInit, Init, UngrantedUntouched, Untouched, Groups, Covers, Reads, Awaited,
           IsLive, Live, TaskOf, NoRead
  <1>4. Versions /\ AcknowledgedIsReflected
    BY DEF SweepInit, Init, Versions, AcknowledgedIsReflected
  <1> QED BY <1>1, <1>2, <1>3, <1>4 DEF SweepInv

(* The invariant of the loop. *)
THEOREM SweepInductive == SweepSpec => []SweepInv
  BY SweepInitInd, SweepStepInd, PTL DEF SweepSpec

(* An acknowledged event is reflected in the projection, recomputed for it or *)
(* covered by the recompute of its batch, and no sweep awaits a lease that    *)
(* nobody has in hand: for any workers, organizations and batches.            *)
THEOREM SweepIsConsistent == SweepSpec => []SweepConsistent
  <1>1. SweepInv => SweepConsistent
    <2> SUFFICES ASSUME SweepInv PROVE SweepConsistent
      OBVIOUS
    <2>1. SweepAwaitsLiveLeases
      <3> SUFFICES ASSUME NEW w \in Worker, NEW l \in sweep[w]
                   PROVE  /\ WorkerOf(l) = w
                          /\ mode[l] \in {"recompute", "covered"}
                          /\ TaskOf(l) # "none"
                          /\ after[l] \in sweep[w]
                          /\ after[after[l]] = after[l]
        BY DEF SweepAwaitsLiveLeases
      <3>1. l \in LeaseObject
        BY DEF SweepInv, SweepTypeOK
      <3> QED BY <3>1 DEF SweepInv, Awaited, Groups, InGroup, IsLive, Live
    <2> QED BY <2>1 DEF SweepInv, SweepConsistent
  <1> QED BY SweepInductive, <1>1, PTL

(* Whatever several workers read when, the projection never goes back.        *)
THEOREM NeverRegresses == SweepSpec => ProjectionNeverRegresses
  <1>1. SweepInv /\ [SweepNext]_allVars => [\A o \in Org : projected[o] <= projected'[o]]_projected
    <2> SUFFICES ASSUME SweepInv, [SweepNext]_allVars, projected' # projected
                 PROVE  \A o \in Org : projected[o] <= projected'[o]
      OBVIOUS
    <2> USE Pairs, SweepAssumption
    <2>1. \A o \in Org : projected[o] \in Nat /\ source[o] \in Nat /\ projected[o] <= source[o]
      BY DEF SweepInv, SweepTypeOK, Versions
    <2>2. ASSUME NEW w \in Worker, NEW p \in Org, AttentionSweep(w, p)
          PROVE  \A o \in Org : projected[o] <= projected'[o]
      BY <2>1, <2>2 DEF AttentionSweep, SweepInv, SweepTypeOK
    <2>3. ASSUME NEW l \in LeaseObject, Commit(l)
          PROVE  \A o \in Org : projected[o] <= projected'[o]
      <3>1. \A o \in Org : projected'[o] = IF o = OrgOf[l[1]] /\ Recomputes(l) THEN readAt[l] ELSE projected[o]
        BY <2>3 DEF Commit, SweepInv, SweepTypeOK
      <3>2. Recomputes(l) => projected[OrgOf[l[1]]] <= readAt[l]
        BY <2>3 DEF Commit, HandlerDone, SweepInv, Reads
      <3> QED BY <2>1, <3>1, <3>2
    <2> QED BY <2>2, <2>3
         DEF SweepNext, Progress, Produce, StartSweep, Stop, Exit, Restart, Begin, ReadSources, Lose,
             ReportFailure, Forget, Throw, ReportThrows, allVars, dataVars
  <1> QED BY SweepInductive, <1>1, PTL DEF SweepSpec, ProjectionNeverRegresses
=============================================================================
