---------------------------- MODULE SignalsProofs ----------------------------
(*****************************************************************************)
(* Proofs about the signals and the rooms, for every number of subjects,     *)
(* workers, rooms, users and requests.                                       *)
(*                                                                           *)
(* Signals: at most one signal of a subject is active, since under the       *)
(* organization's lock active rows only go away between the reads and the    *)
(* write of a recompute; so what it found it had to close beside a row it    *)
(* creates still covers every active row of that subject when it writes.     *)
(* Rooms: what holds of each room (RoomInv) stays true because what a request *)
(* found on its way in still stands when it writes (CallStands), and the     *)
(* requests it depends on are kept out by their locks (LocksInv).            *)
(*****************************************************************************)
EXTENDS Attention, Rooms, FiniteSetTheorems, WellFoundedInduction, TLAPS

(* TypeOK without its count of the recomputes under way; and no plan without *)
(* signals read.                                                             *)
Types ==
    /\ today \in Day
    /\ version \in [Subject -> Version]
    /\ due \in [Subject -> {Always} \cup Day]
    /\ status \in [Signal -> Status]
    /\ phase \in [Worker -> {"idle", "sources", "signals"}]
    /\ context \in [Worker -> Day]
    /\ desired \in [Worker -> SUBSET Signal]
    /\ plan \in [Worker -> [changed : SUBSET Signal, cleared : SUBSET Signal,
                            created : SUBSET Signal]]
    /\ \A w \in Worker : plan[w].created \subseteq desired[w]
    /\ \A w \in Worker : phase[w] # "signals" => plan[w].created = {}

OneRecompute == \A w, u \in Worker : ~Idle(w) /\ ~Idle(u) => w = u

(* The sources call for one version of each subject. *)
DesiredIsOneEach ==
    \A w \in Worker : \A s, r \in desired[w] : SubjectOf(s) = SubjectOf(r) => s = r

(* What is active beside a signal that a plan creates, the plan closes. *)
PlanClosesTheRest ==
    \A w \in Worker : phase[w] = "signals" =>
        \A r \in plan[w].created, s \in ActiveSignals :
            SubjectOf(s) = SubjectOf(r) /\ s # r => s \in plan[w].changed \cup plan[w].cleared

IndInv == Types /\ OneRecompute /\ DesiredIsOneEach /\ PlanClosesTheRest /\ OneActivePerSubject

LEMMA TypesCount == Types /\ OneRecompute => TypeOK
  <1> SUFFICES ASSUME Types, OneRecompute
               PROVE  Cardinality({w \in Worker : ~Idle(w)}) <= 1
    BY DEF Types, TypeOK
  <1> DEFINE busy == {w \in Worker : ~Idle(w)}
  <1>1. CASE busy = {}
    BY <1>1, FS_EmptySet
  <1>2. CASE busy # {}
    <2>1. PICK w \in Worker : ~Idle(w)
      BY <1>2
    <2>2. busy = {w}
      BY <2>1 DEF OneRecompute
    <2> QED BY <2>2, FS_Singleton
  <1> QED BY <1>1, <1>2

LEMMA InitInv == Init => IndInv
  <1> SUFFICES ASSUME Init PROVE IndInv
    OBVIOUS
  <1>1. 1 \in Version /\ 0 \in Day
    BY AttentionAssumption DEF Version, Day
  <1>2. NoPlan \in [changed : SUBSET Signal, cleared : SUBSET Signal, created : SUBSET Signal]
        /\ NoPlan.created = {}
    BY DEF NoPlan
  <1>3. Types
    BY <1>1, <1>2 DEF Init, Types, Status
  <1>4. \A s \in Signal : status[s] # "active"
    BY DEF Init
  <1> QED BY <1>3, <1>4 DEF Init, IndInv, OneRecompute, Idle, DesiredIsOneEach,
                            PlanClosesTheRest, OneActivePerSubject, ActiveSignals

-----------------------------------------------------------------------------
LEMMA SubjectStep ==
    ASSUME IndInv, UNCHANGED <<status, phase, desired, plan>>,
           today' \in Day, version' \in [Subject -> Version],
           due' \in [Subject -> {Always} \cup Day], context' \in [Worker -> Day]
    PROVE  IndInv'
  BY DEF IndInv, Types, OneRecompute, Idle, DesiredIsOneEach, PlanClosesTheRest,
         OneActivePerSubject, ActiveSignals

LEMMA ActStep ==
    ASSUME IndInv, NEW s \in Signal, NEW verdict \in {"resolved", "dismissed"}, Act(s, verdict)
    PROVE  IndInv'
  <1>1. status' = [status EXCEPT ![s] = verdict] /\ UNCHANGED <<sourceVars, workerVars>>
    BY DEF Act
  <1>2. status \in [Signal -> Status] /\ verdict \in Status /\ verdict # "active"
    BY DEF IndInv, Types, Status, Closed
  <1>3. status' \in [Signal -> Status]
    BY <1>1, <1>2
  <1>4. ActiveSignals' \subseteq ActiveSignals
    BY <1>1, <1>2 DEF ActiveSignals
  <1>5. Types' /\ OneRecompute' /\ DesiredIsOneEach'
    BY <1>1, <1>3 DEF IndInv, Types, OneRecompute, DesiredIsOneEach, Idle, sourceVars, workerVars
  <1>6. PlanClosesTheRest'
    BY <1>1, <1>4 DEF IndInv, PlanClosesTheRest, workerVars
  <1>7. OneActivePerSubject'
    BY <1>4 DEF IndInv, OneActivePerSubject
  <1> QED BY <1>5, <1>6, <1>7 DEF IndInv

LEMMA DesiredOfSources ==
    ASSUME Types, NEW date
    PROVE  /\ DesiredOn(date) \subseteq Signal
           /\ \A s, r \in DesiredOn(date) : SubjectOf(s) = SubjectOf(r) => s = r
  BY DEF Types, DesiredOn, Signal, SubjectOf

LEMMA ReadSourcesStep ==
    ASSUME IndInv, NEW w \in Worker, ReadSources(w)
    PROVE  IndInv'
  <1>1. /\ Idle(w) /\ ~Locked
        /\ desired' = [desired EXCEPT ![w] = DesiredOn(context[w])]
        /\ phase' = [phase EXCEPT ![w] = "sources"]
        /\ UNCHANGED <<sourceVars, status, context, plan>>
    BY DEF ReadSources
  <1>2. Types
    BY DEF IndInv
  <1>3. /\ desired \in [Worker -> SUBSET Signal] /\ phase \in [Worker -> {"idle", "sources", "signals"}]
        /\ plan \in [Worker -> [changed : SUBSET Signal, cleared : SUBSET Signal,
                                created : SUBSET Signal]]
    BY <1>2 DEF Types
  <1>4. \A u \in Worker : Idle(u)
    BY <1>1, <1>3 DEF Locked, Idle
  <1>5. /\ DesiredOn(context[w]) \subseteq Signal
        /\ \A s, r \in DesiredOn(context[w]) : SubjectOf(s) = SubjectOf(r) => s = r
    BY <1>2, DesiredOfSources
  <1>6. \A u \in Worker : /\ desired'[u] = IF u = w THEN DesiredOn(context[w]) ELSE desired[u]
                          /\ phase'[u] = IF u = w THEN "sources" ELSE "idle"
    BY <1>1, <1>3, <1>4 DEF Idle
  <1>7. desired' \in [Worker -> SUBSET Signal] /\ phase' \in [Worker -> {"idle", "sources", "signals"}]
    BY <1>1, <1>3, <1>5
  <1>8. OneRecompute' /\ PlanClosesTheRest'
    BY <1>6 DEF OneRecompute, Idle, PlanClosesTheRest
  <1>9. DesiredIsOneEach'
    BY <1>5, <1>6 DEF IndInv, DesiredIsOneEach
  <1>10. OneActivePerSubject'
    BY <1>1 DEF IndInv, OneActivePerSubject, ActiveSignals
  <1>11. \A u \in Worker : plan'[u].created = {}
    BY <1>1, <1>2, <1>4 DEF Types, Idle
  <1>12. Types'
    BY <1>1, <1>2, <1>7, <1>11 DEF Types, sourceVars
  <1> QED BY <1>8, <1>9, <1>10, <1>12 DEF IndInv

LEMMA PlanOfSignals ==
    ASSUME Types, NEW wanted \in SUBSET Signal,
           \A s, r \in wanted : SubjectOf(s) = SubjectOf(r) => s = r
    PROVE  LET p == PlanFor(wanted) IN
           /\ p \in [changed : SUBSET Signal, cleared : SUBSET Signal, created : SUBSET Signal]
           /\ p.created \subseteq wanted
           /\ \A r \in p.created, s \in ActiveSignals :
                 SubjectOf(s) = SubjectOf(r) /\ s # r => s \in p.changed \cup p.cleared
  <1>1. ActiveSignals \subseteq Signal
    BY DEF ActiveSignals
  <1>2. PlanFor(wanted) \in [changed : SUBSET Signal, cleared : SUBSET Signal, created : SUBSET Signal]
    BY <1>1 DEF PlanFor
  <1>3. PlanFor(wanted).created \subseteq wanted
    BY DEF PlanFor
  <1>4. ASSUME NEW r \in PlanFor(wanted).created, NEW s \in ActiveSignals,
               SubjectOf(s) = SubjectOf(r), s # r
        PROVE  s \in PlanFor(wanted).changed
    <2>1. r \in wanted /\ s \notin wanted
      BY <1>3, <1>4
    <2> QED BY <1>4, <2>1 DEF PlanFor
  <1> QED BY <1>2, <1>3, <1>4

LEMMA ReadSignalsStep ==
    ASSUME IndInv, NEW w \in Worker, ReadSignals(w)
    PROVE  IndInv'
  <1> DEFINE p == PlanFor(desired[w])
  <1>1. /\ phase[w] = "sources" /\ plan' = [plan EXCEPT ![w] = p]
        /\ phase' = [phase EXCEPT ![w] = "signals"]
        /\ UNCHANGED <<sourceVars, status, context, desired>>
    BY DEF ReadSignals
  <1>2. Types /\ desired[w] \in SUBSET Signal
    BY DEF IndInv, Types
  <1>3. /\ p \in [changed : SUBSET Signal, cleared : SUBSET Signal, created : SUBSET Signal]
        /\ p.created \subseteq desired[w]
        /\ \A r \in p.created, s \in ActiveSignals :
              SubjectOf(s) = SubjectOf(r) /\ s # r => s \in p.changed \cup p.cleared
    BY <1>2, PlanOfSignals DEF IndInv, DesiredIsOneEach
  <1> HIDE DEF p
  <1>4. \A u \in Worker : /\ plan'[u] = IF u = w THEN p ELSE plan[u]
                          /\ phase'[u] = IF u = w THEN "signals" ELSE phase[u]
    BY <1>1, <1>2 DEF Types
  <1>5. ActiveSignals' = ActiveSignals
    BY <1>1 DEF ActiveSignals
  <1>6. /\ plan' \in [Worker -> [changed : SUBSET Signal, cleared : SUBSET Signal,
                                 created : SUBSET Signal]]
        /\ phase' \in [Worker -> {"idle", "sources", "signals"}]
    BY <1>1, <1>2, <1>3 DEF Types
  <1>7. \A u \in Worker : /\ plan'[u].created \subseteq desired[u]
                          /\ phase'[u] # "signals" => plan'[u].created = {}
    BY <1>2, <1>3, <1>4 DEF Types
  <1>8. Types'
    BY <1>1, <1>2, <1>6, <1>7 DEF Types, sourceVars
  <1>9. OneRecompute'
    BY <1>1, <1>4 DEF IndInv, OneRecompute, Idle
  <1>10. PlanClosesTheRest'
    BY <1>3, <1>4, <1>5 DEF IndInv, PlanClosesTheRest
  <1> QED BY <1>1, <1>5, <1>8, <1>9, <1>10 DEF IndInv, DesiredIsOneEach, OneActivePerSubject

(* A recompute is over: its worker is idle again and has no plan. *)
LEMMA FinishStep ==
    ASSUME IndInv, NEW w \in Worker, Finish(w), ~Idle(w),
           UNCHANGED <<sourceVars, context>>,
           status' \in [Signal -> Status], OneActivePerSubject'
    PROVE  IndInv'
  <1>1. Types
    BY DEF IndInv
  <1>2. \A u \in Worker : Idle(u)' /\ plan'[u].created = {}
    <2> SUFFICES ASSUME NEW u \in Worker PROVE phase'[u] = "idle" /\ plan'[u].created = {}
      BY DEF Idle
    <2>1. CASE u = w
      BY <1>1, <2>1 DEF Finish, Types, NoPlan
    <2>2. CASE u # w
      <3>1. phase[u] = "idle"
        BY <2>2 DEF IndInv, OneRecompute, Idle
      <3> QED BY <1>1, <2>2, <3>1 DEF Finish, Types
    <2> QED BY <2>1, <2>2
  <1>3. NoPlan \in [changed : SUBSET Signal, cleared : SUBSET Signal, created : SUBSET Signal]
    BY DEF NoPlan
  <1>4. Types'
    BY <1>1, <1>2, <1>3 DEF Types, Finish, sourceVars, Idle
  <1>5. DesiredIsOneEach'
    BY <1>1 DEF IndInv, Finish, DesiredIsOneEach, Types
  <1>6. OneRecompute' /\ PlanClosesTheRest'
    BY <1>2 DEF OneRecompute, PlanClosesTheRest, Idle
  <1> QED BY <1>4, <1>5, <1>6 DEF IndInv

LEMMA WriteStep ==
    ASSUME IndInv, NEW w \in Worker, Write(w)
    PROVE  IndInv'
  <1>1. /\ phase[w] = "signals" /\ Finish(w) /\ UNCHANGED <<sourceVars, context>>
        /\ status' = [s \in Signal |->
              IF status[s] = "active" /\ s \in plan[w].changed THEN "changed"
              ELSE IF status[s] = "active" /\ s \in plan[w].cleared THEN "cleared"
              ELSE IF status[s] = "none" /\ s \in plan[w].created THEN "active"
              ELSE status[s]]
    BY DEF Write
  <1>2. status' \in [Signal -> Status]
    BY <1>1 DEF IndInv, Types, Status, Closed
  <1>3. \A s \in ActiveSignals' :
          \/ s \in plan[w].created
          \/ s \in ActiveSignals /\ s \notin plan[w].changed \cup plan[w].cleared
    BY <1>1 DEF ActiveSignals
  <1>4. \A s, r \in plan[w].created : SubjectOf(s) = SubjectOf(r) => s = r
    BY DEF IndInv, Types, DesiredIsOneEach
  <1>5. \A r \in plan[w].created, s \in ActiveSignals :
          SubjectOf(s) = SubjectOf(r) /\ s # r => s \in plan[w].changed \cup plan[w].cleared
    BY <1>1 DEF IndInv, PlanClosesTheRest
  <1>6. OneActivePerSubject'
    BY <1>3, <1>4, <1>5 DEF IndInv, OneActivePerSubject
  <1> QED BY <1>1, <1>2, <1>6, FinishStep DEF Idle

-----------------------------------------------------------------------------
LEMMA Inductive == IndInv /\ [Next]_vars => IndInv'
  <1> SUFFICES ASSUME IndInv, [Next]_vars PROVE IndInv'
    OBVIOUS
  <1>0. Types
    BY DEF IndInv
  <1>1. ASSUME NEW k \in Subject, Edit(k) PROVE IndInv'
    <2>1. PICK date \in {Always} \cup Day : due' = [due EXCEPT ![k] = date]
      BY <1>1 DEF Edit
    <2>2. version' \in [Subject -> Version]
      BY <1>0, <1>1, AttentionAssumption DEF Edit, Types, Version
    <2> QED BY <1>0, <1>1, <2>1, <2>2, SubjectStep DEF Edit, Types, workerVars
  <1>2. CASE NextDay
    BY <1>0, <1>2, AttentionAssumption, SubjectStep DEF NextDay, Types, Day, workerVars
  <1>3. ASSUME NEW s \in Signal, NEW verdict \in {"resolved", "dismissed"}, Act(s, verdict)
        PROVE  IndInv'
    BY <1>3, ActStep
  <1>4. ASSUME NEW w \in Worker, TakeContext(w) PROVE IndInv'
    BY <1>0, <1>4, SubjectStep DEF TakeContext, Types, sourceVars
  <1>5. ASSUME NEW w \in Worker, Recompute(w) PROVE IndInv'
    BY <1>5, ReadSourcesStep, ReadSignalsStep, WriteStep DEF Recompute
  <1>6. ASSUME NEW w \in Worker, Rollback(w) PROVE IndInv'
    <2>1. status' \in [Signal -> Status] /\ OneActivePerSubject'
      BY <1>0, <1>6 DEF Rollback, IndInv, Types, OneActivePerSubject, ActiveSignals
    <2> QED BY <1>6, <2>1, FinishStep DEF Rollback
  <1>7. CASE UNCHANGED vars
    BY <1>0, <1>7, SubjectStep DEF vars, Types
  <1> QED BY <1>1, <1>2, <1>3, <1>4, <1>5, <1>6, <1>7 DEF Next

(* The tables and the workers are what they should be, one recompute at most *)
(* is under way, and its plan is about what it read.                        *)
THEOREM TypeCorrect == Spec => []TypeOK
  <1>1. IndInv => TypeOK
    BY TypesCount DEF IndInv
  <1> QED BY InitInv, Inductive, <1>1, PTL DEF Spec

(* No subject has two active signals, whatever commits between the reads and *)
(* the write of a recompute.                                                *)
THEOREM OneActive == Spec => []OneActivePerSubject
  <1>1. IndInv => OneActivePerSubject
    BY DEF IndInv
  <1> QED BY InitInv, Inductive, <1>1, PTL DEF Spec

(* No recompute and no user touches a signal that is closed. *)
THEOREM ClosedStays == Spec => ClosedIsFinal
  <1>1. ASSUME [Next]_vars, NEW s \in Signal, status \in [Signal -> Status], status[s] \in Closed
        PROVE  status'[s] = status[s]
    <2>1. status[s] # "active" /\ status[s] # "none"
      BY <1>1 DEF Closed
    <2>2. ASSUME NEW r \in Signal, NEW verdict, Act(r, verdict) PROVE status'[s] = status[s]
      BY <1>1, <2>1, <2>2 DEF Act
    <2>3. ASSUME NEW w \in Worker, Write(w) PROVE status'[s] = status[s]
      BY <2>1, <2>3 DEF Write
    <2> QED BY <1>1, <2>2, <2>3 DEF Next, vars, Edit, NextDay, TakeContext, Recompute,
                                    ReadSources, ReadSignals, Rollback
  <1>2. IndInv => status \in [Signal -> Status]
    BY DEF IndInv, Types
  <1>3. IndInv /\ [Next]_vars =>
          [\A s \in Signal : status[s] \in Closed => status'[s] = status[s]]_vars
    BY <1>1, <1>2
  <1> QED BY InitInv, Inductive, <1>3, PTL DEF Spec, ClosedIsFinal

(* The page of a subject shows one signal, whatever commits in between.        *)
THEOREM Consistent == Spec => []AttentionConsistent
  <1>1. TypeOK /\ OneActivePerSubject => AttentionConsistent
    BY DEF AttentionConsistent
  <1> QED BY TypeCorrect, OneActive, <1>1, PTL

-----------------------------------------------------------------------------
(* Rooms. What holds of one room, what each request under way may rely on,    *)
(* and which requests exclude each other, are an invariant together.          *)

TeamOp == {"setTeamMember", "removeTeamMember"}
ConversationOp == {"addParticipant", "removeParticipant", "sendMessage"}
CreateOp == {"createTeam", "createConversation"}

(* A team room has the team in it, and its lead is its only owner.            *)
TeamRoomInv(r) ==
    /\ seated[r] = {u \in User : team[r][u] # "none"}
    /\ open[r] = "open" =>
        \E u \in User :
            /\ Eligible(u)
            /\ {v \in User : team[r][v] = "lead"} = {u}
            /\ {v \in seated[r] : seat[r][v] = "owner"} = {u}

RoomInv(r) ==
    /\ seated[r] \subseteq active
    /\ r \in TeamRoom => TeamRoomInv(r)
    /\ Kind[r] = "external" /\ open[r] = "open" => \E u \in seated[r] : ActiveGuest(u)

(* What a request found under its locks is still so when it writes.           *)
CreationStands(c) ==
    /\ open[c.room] = "absent"
    /\ c.user \in User /\ Eligible(c.user)
    /\ c.with \subseteq active \ {c.user}
    /\ c.op = "createTeam" => c.room \in TeamRoom /\ \A u \in c.with : role[u] # "guest"
    /\ c.op = "createConversation" =>
        /\ c.room \in OwnRoom
        /\ Kind[c.room] = "external" => \E u \in c.with : role[u] = "guest"

TeamChangeStands(c) ==
    /\ c.room \in TeamRoom /\ open[c.room] = "open"
    /\ c.op = "setTeamMember" =>
        /\ c.user \in active /\ role[c.user] # "guest"
        /\ c.as \in {"lead", "member"}
        /\ c.as = "lead" => role[c.user] # "viewer"
        /\ c.as = "member" => team[c.room][c.user] # "lead"
    /\ c.op = "removeTeamMember" => c.user \in User /\ team[c.room][c.user] = "member"

ConversationChangeStands(c) ==
    /\ c.room \in Room /\ open[c.room] = "open" /\ c.user \in active
    /\ c.op \in {"addParticipant", "removeParticipant"} => c.room \in OwnRoom
    /\ c.op = "addParticipant" => c.as \in {"owner", "member", "guest"}
    /\ c.op = "removeParticipant" =>
        /\ seat[c.room][c.user] = "owner" => HasOtherOwner(c.room, c.user)
        /\ Kind[c.room] = "external" => HasOtherGuest(c.room, c.user)

MembershipChangeStands(c) ==
    /\ c.user \in User /\ c.as \in Role /\ c.with \subseteq {c.user} /\ c.room = None
    /\ role[c.user] = "owner" /\ c.user \in active /\ (c.as # "owner" \/ Revokes(c)) =>
          \E v \in active \ {c.user} : role[v] = "owner"
    /\ role[c.user] = "guest" /\ c.as # "guest" => PromotionKeepsGuests(c.user)

CallStands(c) ==
    /\ c.op \in CreateOp => CreationStands(c)
    /\ c.op \in TeamOp => TeamChangeStands(c)
    /\ c.op \in ConversationOp => ConversationChangeStands(c)
    /\ c.op = "updateMembership" => MembershipChangeStands(c)

(* The locks: two requests never write the same rows.                         *)
Exclusive(c, d) ==
    /\ c.op # "updateMembership"
    /\ c.room = d.room => \A ops \in {TeamOp, ConversationOp, CreateOp} :
          ~(c.op \in ops /\ d.op \in ops)

LocksInv == \A p, q \in Request :
    p # q /\ ~Free(p) /\ ~Free(q) => Exclusive(request[p], request[q])

RoomsInv ==
    /\ RoomsTypeOK
    /\ OwnerRetained
    /\ \A r \in Room : RoomInv(r)
    /\ \A p \in Request : CallStands(request[p])
    /\ LocksInv
LEMMA LeastInd ==
  ASSUME NEW S \in SUBSET User, S # {}
  PROVE  Least(S) \in S
  <1> DEFINE R == OpToRel(<, Nat)
  <1>1. S \subseteq Nat
    BY RoomsAssumption
  <1>2. ASSUME NEW u \in Nat, NEW v \in Nat, v < u
        PROVE  <<v, u>> \in R
    <2>1. <<v, u>> \in Nat \X Nat /\ <<v, u>>[1] = v /\ <<v, u>>[2] = u
      OBVIOUS
    <2>2. R = {ss \in Nat \X Nat : ss[1] < ss[2]}
      BY DEF OpToRel
    <2> QED BY <1>2, <2>1, <2>2
  <1>3. IsWellFoundedOn(R, Nat)
    BY NatLessThanWellFounded
  <1> HIDE DEF R
  <1>4. PICK u \in S : \A v \in S : ~(<<v, u>> \in R)
    BY <1>1, <1>3, WFMin
  <1>5. ASSUME NEW v \in S
        PROVE  u <= v
    <2>1. u \in Nat /\ v \in Nat
      BY <1>1
    <2>2. ~(v < u)
      BY <1>2, <1>4, <2>1
    <2> QED BY <2>1, <2>2
  <1> QED BY <1>5 DEF Least

(* The kinds of rooms are those that the definitions name.                    *)
LEMMA RoomKinds ==
  /\ TeamRoom \subseteq Room /\ OwnRoom \subseteq Room /\ TeamRoom \cap OwnRoom = {}
  /\ \A r \in Room : r \in TeamRoom \/ r \in OwnRoom
  /\ \A r \in TeamRoom : Kind[r] # "external"
  BY DEF TeamRoom, OwnRoom

(* The members may only become more.                                          *)
MembersGrow ==
    /\ active \subseteq active' /\ active' \subseteq User
    /\ \A u \in active : role'[u] = role[u]

SameRoom(r) ==
    /\ seated'[r] = seated[r] /\ seat'[r] = seat[r] /\ open'[r] = open[r]
    /\ r \in TeamRoom => team'[r] = team[r]

(* A room that a step does not write stays in order.                          *)
LEMMA RoomFrame ==
  ASSUME RoomsInv, NEW r \in Room, MembersGrow, SameRoom(r)
  PROVE  RoomInv(r)'
  <1>1. seated[r] \subseteq active /\ active \subseteq User
    BY DEF RoomsInv, RoomInv, RoomsTypeOK
  <1>2. seated'[r] \subseteq active'
    BY <1>1 DEF MembersGrow, SameRoom
  <1>3. ASSUME r \in TeamRoom
        PROVE  TeamRoomInv(r)'
    <2>1. TeamRoomInv(r) /\ team'[r] = team[r]
      BY <1>3 DEF RoomsInv, RoomInv, SameRoom
    <2>2. \A u \in User : Eligible(u) => Eligible(u)'
      BY DEF Eligible, MembersGrow
    <2> QED BY <2>1, <2>2 DEF TeamRoomInv, SameRoom
  <1>4. ASSUME Kind[r] = "external", open'[r] = "open"
        PROVE  \E u \in seated'[r] : ActiveGuest(u)'
    <2>1. PICK u \in seated[r] : ActiveGuest(u)
      BY <1>4 DEF RoomsInv, RoomInv, SameRoom
    <2> QED BY <2>1 DEF ActiveGuest, MembersGrow, SameRoom
  <1> QED BY <1>2, <1>3, <1>4 DEF RoomInv

(* So does a request on a room that a step does not write.                    *)
LEMMA CallFrame ==
  ASSUME RoomsInv, NEW q \in Request, request'[q] = request[q],
         request[q].op # "updateMembership", MembersGrow,
         request[q].room \in Room => SameRoom(request[q].room)
  PROVE  CallStands(request[q])'
  <1> DEFINE c == request[q]
             r == c.room
  <1>1. CallStands(c) /\ active \subseteq User
    BY DEF RoomsInv, RoomsTypeOK
  <1>2. \A u \in User : Eligible(u) => Eligible(u)'
    BY DEF Eligible, MembersGrow
  <1>3. \A u \in User : ActiveGuest(u) => ActiveGuest(u)'
    BY DEF ActiveGuest, MembersGrow
  <1>4. c.op \in CreateOp => CreationStands(c)'
    <2>1. ASSUME CreationStands(c), c.op \in CreateOp
          PROVE  CreationStands(c)'
      <3>1. c.room \in Room /\ SameRoom(c.room)
        BY <2>1, RoomKinds DEF CreationStands, CreateOp
      <3> QED BY <1>1, <1>2, <2>1, <3>1 DEF CreationStands, MembersGrow, SameRoom
    <2> QED BY <1>1, <2>1 DEF CallStands
  <1>5. c.op \in TeamOp => TeamChangeStands(c)'
    <2>1. ASSUME TeamChangeStands(c)
          PROVE  TeamChangeStands(c)'
      <3>1. c.room \in Room /\ SameRoom(c.room)
        BY <2>1, RoomKinds DEF TeamChangeStands
      <3> QED BY <1>1, <2>1, <3>1 DEF TeamChangeStands, MembersGrow, SameRoom
    <2> QED BY <1>1, <2>1 DEF CallStands
  <1>6. c.op \in ConversationOp => ConversationChangeStands(c)'
    <2>1. ASSUME ConversationChangeStands(c)
          PROVE  ConversationChangeStands(c)'
      <3>1. c.room \in Room /\ SameRoom(c.room) /\ seated[c.room] \subseteq User
        BY <2>1 DEF ConversationChangeStands, RoomsInv, RoomsTypeOK
      <3>2. HasOtherOwner(c.room, c.user) => HasOtherOwner(c.room, c.user)'
        BY <3>1 DEF HasOtherOwner, SameRoom
      <3>3. HasOtherGuest(c.room, c.user) => HasOtherGuest(c.room, c.user)'
        BY <1>3, <3>1 DEF HasOtherGuest, SameRoom
      <3> QED BY <1>1, <2>1, <3>1, <3>2, <3>3 DEF ConversationChangeStands, MembersGrow,
                 SameRoom
    <2> QED BY <1>1, <2>1 DEF CallStands
  <1> QED BY <1>4, <1>5, <1>6 DEF CallStands

(* A step that writes some rooms and ends requests, or none.                  *)
LEMMA RoomStepInd ==
  ASSUME RoomsInv, RoomsTypeOK', MembersGrow, NEW R \in SUBSET Room,
         \A s \in Room \ R : SameRoom(s),
         \A s \in R : RoomInv(s)',
         \A q \in Request : request'[q] = request[q] \/ request'[q] = NoCall,
         \A q \in Request : request'[q].op # "none" =>
            request[q].op # "updateMembership" /\ request[q].room \notin R
  PROVE  RoomsInv'
  <1>1. OwnerRetained'
    BY DEF RoomsInv, OwnerRetained, MembersGrow
  <1>2. \A s \in Room : RoomInv(s)'
    BY RoomFrame
  <1>3. ASSUME NEW q \in Request
        PROVE  CallStands(request[q])'
    <2>1. CASE request'[q].op = "none"
      BY <2>1 DEF CallStands, CreateOp, TeamOp, ConversationOp
    <2>2. CASE request'[q].op # "none"
      <3>1. /\ request'[q] = request[q] /\ request[q].op # "updateMembership"
            /\ request[q].room \notin R
        BY <2>2 DEF NoCall
      <3> QED BY <3>1, CallFrame
    <2> QED BY <2>1, <2>2
  <1>4. LocksInv'
    BY DEF RoomsInv, LocksInv, Free, NoCall, Exclusive
  <1> QED BY <1>1, <1>2, <1>3, <1>4 DEF RoomsInv

(* A step that begins a request.                                              *)
LEMMA RoomBeginInd ==
  ASSUME RoomsInv, NEW p \in Request, NEW c \in Call,
         request' = [request EXCEPT ![p] = c], UNCHANGED <<members, rooms, ask>>,
         CallStands(c),
         \A q \in Request \ {p} : ~Free(q) => Exclusive(c, request[q]) /\ Exclusive(request[q], c)
  PROVE  RoomsInv'
  <1>1. /\ request \in [Request -> Call] /\ request'[p] = c
        /\ \A q \in Request \ {p} : request'[q] = request[q]
        /\ UNCHANGED <<role, active, team, seat, seated, open, ask>>
    BY DEF RoomsInv, RoomsTypeOK, members, rooms
  <1>2. RoomsTypeOK'
    BY <1>1 DEF RoomsInv, RoomsTypeOK
  <1>3. OwnerRetained' /\ \A r \in Room : RoomInv(r)'
    BY <1>1 DEF RoomsInv, OwnerRetained, RoomInv, TeamRoomInv, Eligible, ActiveGuest
  <1>4. ASSUME NEW q \in Request
        PROVE  CallStands(request[q])'
    <2>1. CASE q = p
      BY <1>1, <2>1 DEF CallStands, CreationStands, TeamChangeStands,
         ConversationChangeStands, MembershipChangeStands, Revokes, PromotionKeepsGuests,
         HasOtherOwner, HasOtherGuest, Eligible, ActiveGuest
    <2>2. CASE q # p
      BY <1>1, <2>2 DEF RoomsInv, CallStands, CreationStands, TeamChangeStands,
         ConversationChangeStands, MembershipChangeStands, Revokes, PromotionKeepsGuests,
         HasOtherOwner, HasOtherGuest, Eligible, ActiveGuest
    <2> QED BY <2>1, <2>2
  <1>5. LocksInv'
    <2>1. ASSUME NEW a \in Request, NEW b \in Request, a # b, ~Free(a)', ~Free(b)'
          PROVE  Exclusive(request'[a], request'[b])
      BY <1>1, <2>1 DEF RoomsInv, LocksInv, Free
    <2> QED BY <2>1 DEF LocksInv, Exclusive
  <1> QED BY <1>2, <1>3, <1>4, <1>5 DEF RoomsInv

LEMMA RoomsInitInd ==
  ASSUME RoomsInit
  PROVE  RoomsInv
  <1>1. RoomsTypeOK
    BY RoomsAssumption DEF RoomsInit, RoomsTypeOK, TeamRole, Seat, ResponseState, Call, NoCall, Op
  <1>2. OwnerRetained
    BY DEF RoomsInit, OwnerRetained
  <1>3. \A r \in Room : RoomInv(r)
    BY RoomKinds DEF RoomsInit, RoomInv, TeamRoomInv
  <1>4. \A p \in Request : CallStands(request[p]) /\ Free(p)
    BY DEF RoomsInit, NoCall, CallStands, CreateOp, TeamOp, ConversationOp, Free
  <1> QED BY <1>1, <1>2, <1>3, <1>4 DEF RoomsInv, LocksInv

(* Requests begin.                                                            *)
Undisturbed(p, op, r) ==
    \A q \in Request \ {p} : request[q].room = r =>
        \A ops \in {TeamOp, ConversationOp, CreateOp} : op \in ops => request[q].op \notin ops

LEMMA BeginInd ==
  ASSUME RoomsInv, NEW p \in Request, NEW op, NEW r, NEW u, NEW as, NEW with,
         Begin(p, op, r, u, as, with), op # "updateMembership",
         [op |-> op, room |-> r, user |-> u, as |-> as, with |-> with] \in Call,
         CallStands([op |-> op, room |-> r, user |-> u, as |-> as, with |-> with]),
         Undisturbed(p, op, r)
  PROVE  RoomsInv'
  <1> DEFINE c == [op |-> op, room |-> r, user |-> u, as |-> as, with |-> with]
  <1>1. /\ c \in Call /\ c.op = op /\ c.room = r /\ CallStands(c)
        /\ request' = [request EXCEPT ![p] = c] /\ UNCHANGED <<members, rooms, ask>>
    BY DEF Begin
  <1>2. \A q \in Request : request[q].op # "updateMembership"
    BY DEF Begin, MayBegin
  <1> HIDE DEF c
  <1>3. \A q \in Request \ {p} :
           ~Free(q) => Exclusive(c, request[q]) /\ Exclusive(request[q], c)
    BY <1>1, <1>2 DEF Exclusive, Undisturbed
  <1> QED BY <1>1, <1>3, RoomBeginInd

LEMMA CreateTeamInd ==
  ASSUME RoomsInv, NEW p \in Request, NEW r \in TeamRoom, NEW u \in User,
         NEW with \in SUBSET (User \ {u}), CreateTeam(p, r, u, with)
  PROVE  RoomsInv'
  <1> DEFINE c == [op |-> "createTeam", room |-> r, user |-> u, as |-> "lead", with |-> with]
  <1>1. r \in Room /\ c \in Call
    BY RoomKinds DEF Call, Op
  <1>2. CallStands(c)
    BY <1>1 DEF CreateTeam, CallStands, CreationStands, Eligible, CreateOp, TeamOp,
       ConversationOp
  <1>3. Undisturbed(p, "createTeam", r)
    BY DEF CreateTeam, Undisturbed, TeamOp, ConversationOp
  <1> QED BY <1>1, <1>2, <1>3, BeginInd DEF CreateTeam

LEMMA CreateConversationInd ==
  ASSUME RoomsInv, NEW p \in Request, NEW r \in OwnRoom, NEW u \in User,
         NEW with \in SUBSET (User \ {u}), CreateConversation(p, r, u, with)
  PROVE  RoomsInv'
  <1> DEFINE c == [op |-> "createConversation", room |-> r, user |-> u, as |-> "owner",
                   with |-> with]
  <1>1. r \in Room /\ c \in Call
    BY RoomKinds DEF Call, Op, Role
  <1>2. CallStands(c)
    BY <1>1 DEF CreateConversation, CallStands, CreationStands, CreateOp, TeamOp,
       ConversationOp
  <1>3. Undisturbed(p, "createConversation", r)
    BY DEF CreateConversation, Undisturbed, TeamOp, ConversationOp
  <1> QED BY <1>1, <1>2, <1>3, BeginInd DEF CreateConversation

(* An open room is of no request that creates one.                            *)
LEMMA NobodyCreates ==
  ASSUME RoomsInv, NEW q \in Request, request[q].op \in CreateOp
  PROVE  open[request[q].room] = "absent"
  BY DEF RoomsInv, CallStands, CreationStands

LEMMA SetTeamMemberInd ==
  ASSUME RoomsInv, NEW p \in Request, NEW r \in TeamRoom, NEW u \in User,
         NEW as \in {"lead", "member"}, SetTeamMember(p, r, u, as)
  PROVE  RoomsInv'
  <1> DEFINE c == [op |-> "setTeamMember", room |-> r, user |-> u, as |-> as, with |-> {}]
  <1>1. r \in Room /\ c \in Call
    BY RoomKinds DEF Call, Op, Role
  <1>2. CallStands(c)
    BY <1>1 DEF SetTeamMember, CallStands, TeamChangeStands, CreateOp, TeamOp, ConversationOp
  <1>3. \A q \in Request \ {p} : request[q].room = r => request[q].op \notin TeamOp
    BY DEF SetTeamMember, TeamLocked, TeamOp
  <1>4. "setTeamMember" \notin ConversationOp /\ "setTeamMember" \notin CreateOp
    BY DEF ConversationOp, CreateOp
  <1>5. Undisturbed(p, "setTeamMember", r)
    BY <1>3, <1>4 DEF Undisturbed
  <1>6. Begin(p, "setTeamMember", r, u, as, {})
    BY DEF SetTeamMember
  <1> QED BY <1>1, <1>2, <1>5, <1>6, BeginInd

LEMMA RemoveTeamMemberInd ==
  ASSUME RoomsInv, NEW p \in Request, NEW r \in TeamRoom, NEW u \in User,
         RemoveTeamMember(p, r, u)
  PROVE  RoomsInv'
  <1> DEFINE c == [op |-> "removeTeamMember", room |-> r, user |-> u, as |-> "none", with |-> {}]
  <1>1. r \in Room /\ c \in Call
    BY RoomKinds DEF Call, Op
  <1>2. CallStands(c)
    BY <1>1 DEF RemoveTeamMember, CallStands, TeamChangeStands, CreateOp, TeamOp,
       ConversationOp
  <1>3. \A q \in Request \ {p} : request[q].room = r => request[q].op \notin TeamOp
    BY DEF RemoveTeamMember, TeamLocked, TeamOp
  <1>4. "removeTeamMember" \notin ConversationOp /\ "removeTeamMember" \notin CreateOp
    BY DEF ConversationOp, CreateOp
  <1>5. Undisturbed(p, "removeTeamMember", r)
    BY <1>3, <1>4 DEF Undisturbed
  <1>6. Begin(p, "removeTeamMember", r, u, "none", {})
    BY DEF RemoveTeamMember
  <1> QED BY <1>1, <1>2, <1>5, <1>6, BeginInd

LEMMA AddParticipantInd ==
  ASSUME RoomsInv, NEW p \in Request, NEW r \in OwnRoom, NEW u \in User,
         NEW as \in {"owner", "member"}, AddParticipant(p, r, u, as)
  PROVE  RoomsInv'
  <1> DEFINE seatAs == IF role[u] = "guest" THEN "guest" ELSE as
             c == [op |-> "addParticipant", room |-> r, user |-> u, as |-> seatAs, with |-> {}]
  <1>1. r \in Room /\ c \in Call
    BY RoomKinds DEF Call, Op, Role
  <1>2. CallStands(c)
    BY <1>1 DEF AddParticipant, CallStands, ConversationChangeStands, CreateOp, TeamOp,
       ConversationOp
  <1>3. \A q \in Request \ {p} : request[q].room = r => request[q].op \notin ConversationOp
    BY DEF AddParticipant, ConversationLocked, ConversationOp
  <1>4. "addParticipant" \notin TeamOp /\ "addParticipant" \notin CreateOp
    BY DEF TeamOp, CreateOp
  <1>5. Undisturbed(p, "addParticipant", r)
    BY <1>3, <1>4 DEF Undisturbed
  <1>6. Begin(p, "addParticipant", r, u, seatAs, {})
    BY DEF AddParticipant
  <1> QED BY <1>1, <1>2, <1>5, <1>6, BeginInd

LEMMA RemoveParticipantInd ==
  ASSUME RoomsInv, NEW p \in Request, NEW r \in OwnRoom, NEW u \in User,
         RemoveParticipant(p, r, u)
  PROVE  RoomsInv'
  <1> DEFINE c == [op |-> "removeParticipant", room |-> r, user |-> u, as |-> "none",
                   with |-> {}]
  <1>1. r \in Room /\ c \in Call
    BY RoomKinds DEF Call, Op
  <1>2. CallStands(c)
    BY <1>1 DEF RemoveParticipant, CallStands, ConversationChangeStands, CreateOp, TeamOp,
       ConversationOp
  <1>3. \A q \in Request \ {p} : request[q].room = r => request[q].op \notin ConversationOp
    BY DEF RemoveParticipant, ConversationLocked, ConversationOp
  <1>4. "removeParticipant" \notin TeamOp /\ "removeParticipant" \notin CreateOp
    BY DEF TeamOp, CreateOp
  <1>5. Undisturbed(p, "removeParticipant", r)
    BY <1>3, <1>4 DEF Undisturbed
  <1>6. Begin(p, "removeParticipant", r, u, "none", {})
    BY DEF RemoveParticipant
  <1> QED BY <1>1, <1>2, <1>5, <1>6, BeginInd

LEMMA SendMessageInd ==
  ASSUME RoomsInv, NEW p \in Request, NEW r \in Room, NEW u \in User, SendMessage(p, r, u)
  PROVE  RoomsInv'
  <1> DEFINE c == [op |-> "sendMessage", room |-> r, user |-> u, as |-> "none", with |-> {}]
  <1>1. r \in Room /\ c \in Call
    BY DEF Call, Op
  <1>2. CallStands(c)
    BY <1>1 DEF SendMessage, CallStands, ConversationChangeStands, CreateOp, TeamOp,
       ConversationOp
  <1>3. \A q \in Request \ {p} : request[q].room = r => request[q].op \notin ConversationOp
    BY DEF SendMessage, ConversationLocked, ConversationOp
  <1>4. "sendMessage" \notin TeamOp /\ "sendMessage" \notin CreateOp
    BY DEF TeamOp, CreateOp
  <1>5. Undisturbed(p, "sendMessage", r)
    BY <1>3, <1>4 DEF Undisturbed
  <1>6. Begin(p, "sendMessage", r, u, "none", {})
    BY DEF SendMessage
  <1> QED BY <1>1, <1>2, <1>5, <1>6, BeginInd

LEMMA UpdateMembershipInd ==
  ASSUME RoomsInv, NEW p \in Request, NEW u \in User, NEW as \in Role, NEW stays \in BOOLEAN,
         UpdateMembership(p, u, as, stays)
  PROVE  RoomsInv'
  <1> DEFINE with == IF stays THEN {u} ELSE {}
             c == [op |-> "updateMembership", room |-> None, user |-> u, as |-> as,
                   with |-> with]
  <1>1. c \in Call
    BY DEF Call, Op
  <1>2. CallStands(c)
    BY DEF UpdateMembership, CallStands, MembershipChangeStands, Revokes, CreateOp, TeamOp,
       ConversationOp
  <1>3. \A q \in Request : Free(q)
    BY DEF UpdateMembership
  <1>4. request' = [request EXCEPT ![p] = c] /\ UNCHANGED <<members, rooms, ask>>
    BY DEF UpdateMembership
  <1> HIDE DEF c
  <1> QED BY <1>1, <1>2, <1>3, <1>4, RoomBeginInd

(* Requests write and commit.                                                 *)
LEMMA DoneFacts ==
  ASSUME RoomsInv, NEW p \in Request, Done(p)
  PROVE  /\ request \in [Request -> Call] /\ request' \in [Request -> Call]
         /\ request'[p] = NoCall /\ request[p] \in Call
         /\ \A q \in Request \ {p} : request'[q] = request[q]
         /\ CallStands(request[p])
  <1>1. NoCall \in Call
    BY DEF NoCall, Call, Op
  <1> QED BY <1>1 DEF RoomsInv, RoomsTypeOK, Done

(* No request that is under way writes the room of one that commits.          *)
LEMMA OthersElsewhere ==
  ASSUME RoomsInv, NEW p \in Request, NEW q \in Request \ {p}, ~Free(q),
         \/ request[p].op \in CreateOp
         \/ request[p].op \in TeamOp /\ ~ConversationLocked(request[p].room)
         \/ request[p].op \in ConversationOp /\ request[p].room \in OwnRoom
  PROVE  request[q].op # "updateMembership" /\ request[q].room # request[p].room
  <1> DEFINE c == request[p]
             d == request[q]
  <1>1. /\ CallStands(c) /\ CallStands(d) /\ Exclusive(d, c) /\ c.op # "none" /\ d.op \in Op
    BY DEF RoomsInv, RoomsTypeOK, Call, LocksInv, Free, CreateOp, TeamOp, ConversationOp
  <1>2. d.op \in CreateOp \/ d.op \in TeamOp \/ d.op \in ConversationOp
    BY <1>1 DEF Exclusive, Op, Free, CreateOp, TeamOp, ConversationOp
  <1>3. ASSUME d.room = c.room
        PROVE  FALSE
    <2>1. CASE c.op \in CreateOp
      BY <1>1, <1>2, <1>3, <2>1 DEF Exclusive, CallStands, CreationStands, TeamChangeStands,
         ConversationChangeStands
    <2>2. CASE c.op \in TeamOp /\ ~ConversationLocked(c.room)
      BY <1>1, <1>2, <1>3, <2>2 DEF Exclusive, CallStands, CreationStands, TeamChangeStands,
         ConversationLocked, ConversationOp
    <2>3. CASE c.op \in ConversationOp /\ c.room \in OwnRoom
      BY <1>1, <1>2, <1>3, <2>3, RoomKinds DEF Exclusive, CallStands, CreationStands,
         TeamChangeStands, ConversationChangeStands
    <2> QED BY <2>1, <2>2, <2>3
  <1> QED BY <1>1, <1>3 DEF Exclusive

(* A commit is in order if what it writes of its own room is.                 *)
LEMMA CommitInd ==
  ASSUME RoomsInv, NEW p \in Request, Done(p), RoomsTypeOK', UNCHANGED members,
         NEW r \in Room, r = request[p].room,
         \/ request[p].op \in CreateOp
         \/ request[p].op \in TeamOp /\ ~ConversationLocked(r)
         \/ request[p].op \in ConversationOp /\ r \in OwnRoom,
         \A s \in Room \ {r} : SameRoom(s),
         RoomInv(r)'
  PROVE  RoomsInv'
  <1> DEFINE R == {r}
  <1>1. R \in SUBSET Room /\ (\A s \in R : RoomInv(s)') /\ \A s \in Room \ R : SameRoom(s)
    OBVIOUS
  <1>2. MembersGrow
    BY DEF members, MembersGrow, RoomsInv, RoomsTypeOK
  <1>3. \A q \in Request : request'[q] = request[q] \/ request'[q] = NoCall
    BY DoneFacts
  <1>4. \A q \in Request : request'[q].op # "none" =>
            request[q].op # "updateMembership" /\ request[q].room \notin R
    BY DoneFacts, OthersElsewhere DEF NoCall, Free
  <1> HIDE DEF R
  <1> QED BY <1>1, <1>2, <1>3, <1>4, RoomStepInd

LEMMA CommitTeamInd ==
  ASSUME RoomsInv, NEW p \in Request, CommitTeam(p)
  PROVE  RoomsInv'
  <1> PICK c : c = request[p]
    OBVIOUS
  <1> DEFINE r == c.room
  <1>1. Done(p) /\ UNCHANGED <<members, ask>> /\ c.op = "createTeam" /\ c.op \in CreateOp
    BY DEF CommitTeam, CreateOp
  <1>2. /\ r \in TeamRoom /\ r \in Room /\ r \notin OwnRoom /\ Kind[r] # "external"
        /\ c.user \in User /\ Eligible(c.user) /\ c.with \subseteq active \ {c.user}
        /\ open[r] = "absent"
    BY <1>1, DoneFacts, RoomKinds DEF CallStands, CreationStands
  <1>3. /\ team'[r] = [u \in User |->
              IF u = c.user THEN "lead" ELSE IF u \in c.with THEN "member" ELSE "none"]
        /\ seat'[r] = [u \in User |->
              IF u = c.user THEN "owner" ELSE IF u \in c.with THEN "member" ELSE "none"]
        /\ seated'[r] = c.with \cup {c.user} /\ UNCHANGED <<role, active>>
    BY <1>2 DEF CommitTeam, RoomsInv, RoomsTypeOK, members
  <1>4. RoomsTypeOK'
    <2>1. c.with \subseteq User
      BY <1>2 DEF RoomsInv, RoomsTypeOK
    <2> QED BY <1>1, <1>2, <2>1, DoneFacts DEF CommitTeam, RoomsInv, RoomsTypeOK, members,
               TeamRole, Seat
  <1>5. \A s \in Room \ {r} : SameRoom(s)
    BY <1>2 DEF CommitTeam, SameRoom, RoomsInv, RoomsTypeOK
  <1>6. RoomInv(r)'
    <2>1. seated'[r] \subseteq active /\ active \subseteq User
      BY <1>2, <1>3 DEF Eligible, RoomsInv, RoomsTypeOK
    <2>2. seated'[r] = {u \in User : team'[r][u] # "none"}
      BY <1>2, <1>3, <2>1
    <2>3. {v \in User : team'[r][v] = "lead"} = {c.user}
      BY <1>2, <1>3
    <2>4. {v \in seated'[r] : seat'[r][v] = "owner"} = {c.user}
      BY <1>2, <1>3, <2>1
    <2>5. Eligible(c.user)'
      BY <1>2, <1>3, DoneFacts, <1>1 DEF Eligible
    <2> QED BY <1>2, <1>3, <2>1, <2>2, <2>3, <2>4, <2>5 DEF RoomInv, TeamRoomInv, Eligible
  <1> QED BY <1>1, <1>2, <1>4, <1>5, <1>6, CommitInd

LEMMA CommitConversationInd ==
  ASSUME RoomsInv, NEW p \in Request, CommitConversation(p)
  PROVE  RoomsInv'
  <1> PICK c : c = request[p]
    OBVIOUS
  <1> DEFINE r == c.room
  <1>1. /\ Done(p) /\ UNCHANGED <<members, team, ask>> /\ UNCHANGED <<role, active>>
        /\ c.op = "createConversation" /\ c.op \in CreateOp
    BY DEF CommitConversation, CreateOp, members
  <1>2. /\ r \in OwnRoom /\ r \in Room /\ r \notin TeamRoom
        /\ c.user \in User /\ Eligible(c.user) /\ c.with \subseteq active \ {c.user}
        /\ Kind[r] = "external" => \E u \in c.with : role[u] = "guest"
    BY <1>1, DoneFacts, RoomKinds DEF CallStands, CreationStands
  <1>3. seated'[r] = c.with \cup {c.user}
    BY <1>2 DEF CommitConversation, RoomsInv, RoomsTypeOK
  <1>4. RoomsTypeOK'
    <2>1. c.with \subseteq User
      BY <1>2 DEF RoomsInv, RoomsTypeOK
    <2> QED BY <1>1, <1>2, <2>1, DoneFacts DEF CommitConversation, RoomsInv, RoomsTypeOK, Seat
  <1>5. \A s \in Room \ {r} : SameRoom(s)
    BY <1>1, <1>2 DEF CommitConversation, SameRoom, RoomsInv, RoomsTypeOK
  <1>6. RoomInv(r)'
    BY <1>1, <1>2, <1>3 DEF RoomInv, ActiveGuest, Eligible
  <1> QED BY <1>1, <1>2, <1>4, <1>5, <1>6, CommitInd

LEMMA CommitTeamMemberInd ==
  ASSUME RoomsInv, NEW p \in Request, CommitTeamMember(p)
  PROVE  RoomsInv'
  <1> PICK c : c = request[p]
    OBVIOUS
  <1> DEFINE r == c.room
             u == c.user
             others == IF c.as = "lead" THEN Replaced(team[r], User, "lead", "member")
                       ELSE team[r]
  <1>1. /\ Done(p) /\ UNCHANGED <<members, open, ask>> /\ UNCHANGED <<role, active>>
        /\ c.op = "setTeamMember" /\ c.op \in TeamOp /\ ~ConversationLocked(r)
    BY DEF CommitTeamMember, TeamOp, members
  <1>2. /\ r \in TeamRoom /\ r \in Room /\ r \notin OwnRoom /\ Kind[r] # "external"
        /\ open[r] = "open" /\ u \in active /\ u \in User /\ role[u] # "guest"
        /\ c.as \in {"lead", "member"} /\ (c.as = "lead" => role[u] # "viewer")
        /\ c.as = "member" => team[r][u] # "lead"
    BY <1>1, DoneFacts, RoomKinds DEF CallStands, TeamChangeStands, RoomsInv, RoomsTypeOK
  <1>3. /\ team'[r] = [others EXCEPT ![u] = c.as]
        /\ seat'[r] = TeamSeats(r, u, c.as) /\ seated'[r] = seated[r] \cup {u}
    BY <1>2 DEF CommitTeamMember, RoomsInv, RoomsTypeOK
  <1>4. /\ team[r] \in [User -> TeamRole] /\ seat[r] \in [User -> Seat]
        /\ seated[r] \subseteq active /\ active \subseteq User
        /\ seated[r] = {v \in User : team[r][v] # "none"}
    BY <1>2 DEF RoomsInv, RoomsTypeOK, RoomInv, TeamRoomInv
  <1>5. others \in [User -> TeamRole] /\ team'[r] \in [User -> TeamRole]
        /\ seat'[r] \in [User -> Seat]
    <2>1. others \in [User -> TeamRole]
      BY <1>4 DEF Replaced, TeamRole
    <2>2. team'[r] \in [User -> TeamRole]
      BY <1>2, <1>3, <2>1 DEF TeamRole
    <2>3. Replaced(seat[r], seated[r], "owner", "member") \in [User -> Seat]
      BY <1>4 DEF Replaced, Seat
    <2>4. TeamSeats(r, u, c.as) \in [User -> Seat]
      BY <1>4, <2>3 DEF TeamSeats, Seat
    <2> QED BY <1>3, <2>1, <2>2, <2>4
  <1>6. RoomsTypeOK'
    BY <1>1, <1>2, <1>3, <1>4, <1>5, DoneFacts DEF CommitTeamMember, RoomsInv, RoomsTypeOK
  <1>7. \A s \in Room \ {r} : SameRoom(s)
    BY <1>1, <1>2 DEF CommitTeamMember, SameRoom, RoomsInv, RoomsTypeOK
  <1>8. RoomInv(r)'
    <2>1. seated'[r] = {v \in User : team'[r][v] # "none"}
      BY <1>2, <1>3, <1>4 DEF Replaced, TeamRole
    <2>2. PICK x \in User : /\ Eligible(x)
                            /\ {v \in User : team[r][v] = "lead"} = {x}
                            /\ {v \in seated[r] : seat[r][v] = "owner"} = {x}
      BY <1>2 DEF RoomsInv, RoomInv, TeamRoomInv
    <2>3. CASE c.as = "lead"
      <3>1. {v \in User : team'[r][v] = "lead"} = {u}
        BY <1>2, <1>3, <1>4, <2>3 DEF Replaced
      <3>2. {v \in seated'[r] : seat'[r][v] = "owner"} = {u}
        BY <1>2, <1>3, <1>4, <2>3 DEF Replaced, TeamSeats
      <3>3. Eligible(u)'
        BY <1>1, <1>2, <2>3, DoneFacts DEF Eligible
      <3> QED BY <1>1, <1>2, <1>3, <1>4, <2>1, <3>1, <3>2, <3>3, SMTT(20) DEF RoomInv, TeamRoomInv,
                 Eligible
    <2>4. CASE c.as = "member"
      <3>1. u # x
        BY <1>2, <2>2, <2>4
      <3>2. {v \in User : team'[r][v] = "lead"} = {x}
        BY <1>2, <1>3, <1>4, <2>2, <2>4, <3>1
      <3>3. {v \in seated'[r] : seat'[r][v] = "owner"} = {x}
        BY <1>2, <1>3, <1>4, <2>2, <2>4, <3>1 DEF TeamSeats
      <3>4. Eligible(x)'
        BY <1>1, <2>2 DEF Eligible
      <3> QED BY <1>1, <1>2, <1>3, <1>4, <2>1, <3>2, <3>3, <3>4, SMTT(20) DEF RoomInv, TeamRoomInv
    <2> QED BY <1>2, <2>3, <2>4
  <1> QED BY <1>1, <1>2, <1>6, <1>7, <1>8, CommitInd

LEMMA CommitTeamRemovalInd ==
  ASSUME RoomsInv, NEW p \in Request, CommitTeamRemoval(p)
  PROVE  RoomsInv'
  <1> PICK c : c = request[p]
    OBVIOUS
  <1> DEFINE r == c.room
             u == c.user
  <1>1. /\ Done(p) /\ UNCHANGED <<members, seat, open, ask>> /\ UNCHANGED <<role, active>>
        /\ c.op = "removeTeamMember" /\ c.op \in TeamOp /\ ~ConversationLocked(r)
    BY DEF CommitTeamRemoval, TeamOp, members
  <1>2. /\ r \in TeamRoom /\ r \in Room /\ r \notin OwnRoom /\ Kind[r] # "external"
        /\ open[r] = "open" /\ u \in User /\ team[r][u] = "member"
    BY <1>1, DoneFacts, RoomKinds DEF CallStands, TeamChangeStands
  <1>3. /\ team'[r] = [team[r] EXCEPT ![u] = "none"] /\ seated'[r] = seated[r] \ {u}
    BY <1>2 DEF CommitTeamRemoval, RoomsInv, RoomsTypeOK
  <1>4. /\ team[r] \in [User -> TeamRole] /\ seat[r] \in [User -> Seat]
        /\ seated[r] \subseteq active /\ active \subseteq User
        /\ seated[r] = {v \in User : team[r][v] # "none"}
    BY <1>2 DEF RoomsInv, RoomsTypeOK, RoomInv, TeamRoomInv
  <1>5. RoomsTypeOK'
    BY <1>1, <1>2, <1>4, DoneFacts DEF CommitTeamRemoval, RoomsInv, RoomsTypeOK, TeamRole
  <1>6. \A s \in Room \ {r} : SameRoom(s)
    BY <1>1, <1>2 DEF CommitTeamRemoval, SameRoom, RoomsInv, RoomsTypeOK
  <1>7. RoomInv(r)'
    <2>1. PICK x \in User : /\ Eligible(x)
                            /\ {v \in User : team[r][v] = "lead"} = {x}
                            /\ {v \in seated[r] : seat[r][v] = "owner"} = {x}
      BY <1>2 DEF RoomsInv, RoomInv, TeamRoomInv
    <2>2. u # x
      BY <1>2, <2>1
    <2>3. {v \in User : team'[r][v] = "lead"} = {x}
      BY <1>2, <1>3, <1>4, <2>1, <2>2
    <2>4. {v \in seated'[r] : seat'[r][v] = "owner"} = {x}
      BY <1>1, <1>3, <1>4, <2>1, <2>2
    <2>5. Eligible(x)'
      BY <1>1, <2>1 DEF Eligible
    <2>6. seated'[r] = {v \in User : team'[r][v] # "none"}
      BY <1>2, <1>3, <1>4
    <2> QED BY <1>1, <1>2, <1>3, <1>4, <2>3, <2>4, <2>5, <2>6 DEF RoomInv, TeamRoomInv
  <1> QED BY <1>1, <1>2, <1>5, <1>6, <1>7, CommitInd

LEMMA CommitParticipantInd ==
  ASSUME RoomsInv, NEW p \in Request, CommitParticipant(p)
  PROVE  RoomsInv'
  <1> PICK c : c = request[p]
    OBVIOUS
  <1> DEFINE r == c.room
             u == c.user
  <1>1. /\ Done(p) /\ UNCHANGED <<members, team, open, ask>> /\ UNCHANGED <<role, active>>
        /\ c.op = "addParticipant" /\ c.op \in ConversationOp
    BY DEF CommitParticipant, ConversationOp, members
  <1>2. /\ r \in OwnRoom /\ r \in Room /\ r \notin TeamRoom
        /\ u \in active /\ u \in User /\ c.as \in {"owner", "member", "guest"}
    BY <1>1, DoneFacts, RoomKinds DEF CallStands, ConversationChangeStands, RoomsInv,
       RoomsTypeOK
  <1>3. seated'[r] = seated[r] \cup {u} /\ seat'[r] = ParticipantSeats(r, u, c.as)
    BY <1>2 DEF CommitParticipant, RoomsInv, RoomsTypeOK
  <1>4. /\ seat[r] \in [User -> Seat] /\ seat'[r] \in [User -> Seat]
        /\ seated[r] \subseteq User
    BY <1>2, <1>3, SMTT(20) DEF RoomsInv, RoomsTypeOK, Seat, ParticipantSeats, Replaced
  <1>5. RoomsTypeOK'
    BY <1>1, <1>2, <1>3, <1>4, DoneFacts DEF CommitParticipant, RoomsInv, RoomsTypeOK
  <1>6. \A s \in Room \ {r} : SameRoom(s)
    BY <1>1, <1>2 DEF CommitParticipant, SameRoom, RoomsInv, RoomsTypeOK
  <1>7. RoomInv(r)'
    <2>1. RoomInv(r)
      BY <1>2 DEF RoomsInv
    <2> QED BY <1>1, <1>2, <1>3, <2>1 DEF RoomInv, ActiveGuest
  <1> QED BY <1>1, <1>2, <1>5, <1>6, <1>7, CommitInd

LEMMA CommitRemovalInd ==
  ASSUME RoomsInv, NEW p \in Request, CommitRemoval(p)
  PROVE  RoomsInv'
  <1> PICK c : c = request[p]
    OBVIOUS
  <1> DEFINE r == c.room
             u == c.user
  <1>1. /\ Done(p) /\ UNCHANGED <<members, team, seat, open, ask>> /\ UNCHANGED <<role, active>>
        /\ c.op = "removeParticipant" /\ c.op \in ConversationOp
    BY DEF CommitRemoval, ConversationOp, members
  <1>2. /\ r \in OwnRoom /\ r \in Room /\ r \notin TeamRoom
        /\ Kind[r] = "external" => HasOtherGuest(r, u)
    BY <1>1, DoneFacts, RoomKinds DEF CallStands, ConversationChangeStands
  <1>3. seated'[r] = seated[r] \ {u}
    BY <1>2 DEF CommitRemoval, RoomsInv, RoomsTypeOK
  <1>4. RoomsTypeOK'
    BY <1>1, <1>2, DoneFacts DEF CommitRemoval, RoomsInv, RoomsTypeOK
  <1>5. \A s \in Room \ {r} : SameRoom(s)
    BY <1>1, <1>2 DEF CommitRemoval, SameRoom, RoomsInv, RoomsTypeOK
  <1>6. RoomInv(r)'
    <2>1. RoomInv(r)
      BY <1>2 DEF RoomsInv
    <2> QED BY <1>1, <1>2, <1>3, <2>1 DEF RoomInv, ActiveGuest, HasOtherGuest
  <1> QED BY <1>1, <1>2, <1>4, <1>5, <1>6, CommitInd

LEMMA AcceptInvitationInd ==
  ASSUME RoomsInv, NEW p \in Request, NEW r \in TeamRoom, NEW u \in User, NEW as \in Role,
         AcceptInvitation(p, r, u, as)
  PROVE  RoomsInv'
  <1> DEFINE R == {r}
  <1>1. /\ u \notin active /\ as \notin {"owner", "guest"} /\ open[r] = "open"
        /\ ~TeamLocked(r) /\ ~ConversationLocked(r) /\ UNCHANGED <<open, ask, request>>
        /\ \A q \in Request : request[q].op # "updateMembership"
    BY DEF AcceptInvitation, MayBegin
  <1>2. r \in Room /\ r \notin OwnRoom /\ Kind[r] # "external"
    BY RoomKinds
  <1>3. /\ team[r] \in [User -> TeamRole] /\ seat[r] \in [User -> Seat]
        /\ seated[r] \subseteq active /\ active \subseteq User
        /\ seated[r] = {v \in User : team[r][v] # "none"} /\ role \in [User -> Role]
    BY <1>2 DEF RoomsInv, RoomsTypeOK, RoomInv, TeamRoomInv
  <1>4. /\ role' = [role EXCEPT ![u] = as] /\ active' = active \cup {u}
        /\ team'[r] = [team[r] EXCEPT ![u] = "member"]
        /\ seat'[r] = [seat[r] EXCEPT ![u] = "member"]
        /\ seated'[r] = seated[r] \cup {u}
    BY <1>2 DEF AcceptInvitation, RoomsInv, RoomsTypeOK
  <1>5. MembersGrow
    BY <1>1, <1>3, <1>4 DEF MembersGrow
  <1>6. RoomsTypeOK'
    <2>1. role' \in [User -> Role] /\ active' \subseteq User
      BY <1>3, <1>4
    <2>2. team' \in [TeamRoom -> [User -> TeamRole]]
      BY DEF AcceptInvitation, RoomsInv, RoomsTypeOK, TeamRole
    <2>3. seat' \in [Room -> [User -> Seat]]
      BY DEF AcceptInvitation, RoomsInv, RoomsTypeOK, Seat
    <2>4. seated' \in [Room -> SUBSET User]
      BY DEF AcceptInvitation, RoomsInv, RoomsTypeOK
    <2> QED BY <1>1, <2>1, <2>2, <2>3, <2>4 DEF RoomsInv, RoomsTypeOK
  <1>7. \A s \in Room \ {r} : SameRoom(s)
    BY <1>1, <1>2 DEF AcceptInvitation, SameRoom, RoomsInv, RoomsTypeOK
  <1>8. RoomInv(r)'
    <2>1. PICK x \in User : /\ Eligible(x)
                            /\ {v \in User : team[r][v] = "lead"} = {x}
                            /\ {v \in seated[r] : seat[r][v] = "owner"} = {x}
      BY <1>1, <1>2 DEF RoomsInv, RoomInv, TeamRoomInv
    <2>2. u # x /\ Eligible(x)'
      BY <1>1, <1>5, <2>1 DEF Eligible, MembersGrow
    <2>3. {v \in User : team'[r][v] = "lead"} = {x}
      BY <1>3, <1>4, <2>1, <2>2
    <2>4. {v \in seated'[r] : seat'[r][v] = "owner"} = {x}
      BY <1>3, <1>4, <2>1, <2>2
    <2>5. seated'[r] = {v \in User : team'[r][v] # "none"}
      BY <1>3, <1>4
    <2> QED BY <1>1, <1>2, <1>3, <1>4, <2>2, <2>3, <2>4, <2>5 DEF RoomInv, TeamRoomInv
  <1>9. ASSUME NEW q \in Request, request[q].op # "none"
        PROVE  request[q].room # r
    <2>1. CallStands(request[q]) /\ request[q].op \in Op
      BY DEF RoomsInv, RoomsTypeOK, Call
    <2>2. CASE request[q].op \in CreateOp
      BY <1>1, <2>1, <2>2 DEF CallStands, CreationStands
    <2>3. CASE request[q].op \in TeamOp \cup ConversationOp
      BY <1>1, <2>3 DEF TeamLocked, ConversationLocked, TeamOp, ConversationOp
    <2> QED BY <1>1, <1>9, <2>1, <2>2, <2>3 DEF Op, CreateOp, TeamOp, ConversationOp
  <1>10. /\ R \in SUBSET Room /\ (\A s \in R : RoomInv(s)') /\ \A s \in Room \ R : SameRoom(s)
         /\ \A q \in Request : request'[q].op # "none" =>
               request[q].op # "updateMembership" /\ request[q].room \notin R
    BY <1>1, <1>2, <1>7, <1>8, <1>9
  <1> HIDE DEF R
  <1> QED BY <1>1, <1>5, <1>6, <1>10, RoomStepInd

(* Nobody and nowhere changes, and requests end or none does.                 *)
LEMMA RoomsQuietInd ==
  ASSUME RoomsInv, UNCHANGED <<members, rooms>>, RoomsTypeOK',
         \A q \in Request : request'[q] = request[q] \/ request'[q] = NoCall,
         \A q \in Request : request'[q].op # "none" => request[q].op # "updateMembership"
  PROVE  RoomsInv'
  <1> DEFINE R == {}
  <1>1. MembersGrow /\ \A s \in Room \ R : SameRoom(s)
    BY DEF members, rooms, MembersGrow, SameRoom, RoomsInv, RoomsTypeOK
  <1>2. R \in SUBSET Room /\ (\A s \in R : RoomInv(s)')
    OBVIOUS
  <1>3. \A q \in Request : request'[q].op # "none" =>
            request[q].op # "updateMembership" /\ request[q].room \notin R
    OBVIOUS
  <1> HIDE DEF R
  <1> QED BY <1>1, <1>2, <1>3, RoomStepInd

LEMMA CommitMessageInd ==
  ASSUME RoomsInv, NEW p \in Request, CommitMessage(p)
  PROVE  RoomsInv'
  <1>1. Done(p) /\ UNCHANGED <<members, rooms>> /\ request[p].op = "sendMessage"
    BY DEF CommitMessage
  <1>2. request[p].user \in active /\ active \subseteq User
    BY <1>1, DoneFacts DEF CallStands, ConversationChangeStands, ConversationOp, RoomsInv,
       RoomsTypeOK
  <1>3. RoomsTypeOK'
    BY <1>1, <1>2, DoneFacts DEF CommitMessage, members, rooms, RoomsInv, RoomsTypeOK,
       ResponseState
  <1>4. \A q \in Request : /\ request'[q] = request[q] \/ request'[q] = NoCall
                           /\ request'[q].op # "none" => request[q].op # "updateMembership"
    BY <1>1, DoneFacts DEF NoCall, RoomsInv, LocksInv, Free, Exclusive
  <1> QED BY <1>1, <1>3, <1>4, RoomsQuietInd

LEMMA SetMessageResponseInd ==
  ASSUME RoomsInv, NEW p \in Request, NEW r \in Room, NEW state \in {"open", "resolved"},
         SetMessageResponse(p, r, state)
  PROVE  RoomsInv'
  <1>1. /\ UNCHANGED <<members, rooms>> /\ UNCHANGED request
        /\ \A q \in Request : request[q].op # "updateMembership"
    BY DEF SetMessageResponse, MayBegin
  <1>2. RoomsTypeOK'
    BY <1>1, SMTT(20) DEF SetMessageResponse, members, rooms, RoomsInv, RoomsTypeOK, ResponseState
  <1> QED BY <1>1, <1>2, RoomsQuietInd

LEMMA RollBackRoomInd ==
  ASSUME RoomsInv, NEW p \in Request, RollBackRoom(p)
  PROVE  RoomsInv'
  <1>1. Done(p) /\ UNCHANGED <<members, rooms, ask>> /\ ~Free(p)
    BY DEF RollBackRoom
  <1>2. RoomsTypeOK'
    BY <1>1, DoneFacts DEF members, rooms, RoomsInv, RoomsTypeOK
  <1>3. \A q \in Request : /\ request'[q] = request[q] \/ request'[q] = NoCall
                           /\ request'[q].op # "none" => request[q].op # "updateMembership"
    BY <1>1, DoneFacts, SMTT(20) DEF NoCall, RoomsInv, LocksInv, Free, Exclusive
  <1> QED BY <1>1, <1>2, <1>3, RoomsQuietInd

-----------------------------------------------------------------------------
(* A membership changes.                                                      *)
LEMMA MembershipFacts ==
  ASSUME RoomsInv, NEW p \in Request, CommitMembership(p), NEW c, c = request[p]
  PROVE  /\ c \in Call /\ c.user \in User /\ c.as \in Role /\ Done(p)
         /\ MembershipChangeStands(c)
         /\ role' = [role EXCEPT ![c.user] = c.as]
         /\ role \in [User -> Role]
         /\ active' = IF Revokes(c) THEN active \ {c.user} ELSE active \cup {c.user}
         /\ active \subseteq User /\ active' \subseteq User
         /\ \A u \in User \ {c.user} : role'[u] = role[u] /\ (u \in active <=> u \in active')
         /\ \A u \in User \ {c.user} : Eligible(u) <=> Eligible(u)'
  <1>1. c.op = "updateMembership" /\ Done(p)
    BY DEF CommitMembership
  <1>2. c \in Call /\ MembershipChangeStands(c)
    BY <1>1, DoneFacts DEF CallStands
  <1>3. c.user \in User /\ c.as \in Role
    BY <1>2 DEF MembershipChangeStands
  <1>4. /\ role' = [role EXCEPT ![c.user] = c.as]
        /\ active' = IF Revokes(c) THEN active \ {c.user} ELSE active \cup {c.user}
    BY DEF CommitMembership
  <1>5. role \in [User -> Role] /\ active \subseteq User
    BY DEF RoomsInv, RoomsTypeOK
  <1>6. \A u \in User \ {c.user} : role'[u] = role[u] /\ (u \in active <=> u \in active')
    BY <1>4, <1>5
  <1>7. \A u \in User \ {c.user} : Eligible(u) <=> Eligible(u)'
    BY <1>6 DEF Eligible
  <1>8. active' \subseteq User
    BY <1>3, <1>4, <1>5
  <1> QED BY <1>1, <1>2, <1>3, <1>4, <1>5, <1>6, <1>7, <1>8

(* Heirs are entitled to what they are given.                                 *)
LEMMA HeirFacts ==
  ASSUME RoomsInv, NEW c, c.user \in User, NEW r \in Room
  PROVE  /\ SeatedAfter(c)[r] \subseteq seated[r]
         /\ seated[r] \subseteq SeatedAfter(c)[r] \cup {c.user}
         /\ TeamHeirs(c, r) # {} => Least(TeamHeirs(c, r)) \in TeamHeirs(c, r)
         /\ RoomHeirs(c, r) # {} => Least(RoomHeirs(c, r)) \in RoomHeirs(c, r)
         /\ TeamHeirs(c, r) \subseteq User \ {c.user} /\ RoomHeirs(c, r) \subseteq User \ {c.user}
  <1>1. seated[r] \subseteq User
    BY DEF RoomsInv, RoomsTypeOK
  <1>2. SeatedAfter(c)[r] = IF r \in LostRooms(c) THEN seated[r] \ {c.user} ELSE seated[r]
    BY DEF SeatedAfter
  <1>3. TeamHeirs(c, r) \in SUBSET User /\ RoomHeirs(c, r) \in SUBSET User
        /\ TeamHeirs(c, r) \subseteq User \ {c.user} /\ RoomHeirs(c, r) \subseteq User \ {c.user}
    BY <1>1, <1>2 DEF TeamHeirs, RoomHeirs
  <1> QED BY <1>2, <1>3, LeastInd

LEMMA SeatsAfterType ==
  ASSUME RoomsInv, NEW c, c.user \in User, NEW r \in Room
  PROVE  SeatsAfter(c, r) \in [User -> Seat]
  <1> DEFINE mine == [seat[r] EXCEPT ![c.user] = OwnSeat(c, r)]
  <1>1. seat[r] \in [User -> Seat]
    BY DEF RoomsInv, RoomsTypeOK
  <1>2. OwnSeat(c, r) \in Seat
    BY <1>1 DEF OwnSeat, Seat
  <1>3. mine \in [User -> Seat]
    BY <1>1, <1>2
  <1> HIDE DEF mine
  <1>4. Replaced(mine, SeatedAfter(c)[r], "owner", "member") \in [User -> Seat]
    BY <1>3 DEF Replaced, Seat
  <1>5. \A h : [mine EXCEPT ![h] = "owner"] \in [User -> Seat]
    BY <1>3 DEF Seat
  <1>6. \A h : [Replaced(mine, SeatedAfter(c)[r], "owner", "member") EXCEPT ![h] = "owner"]
                  \in [User -> Seat]
    BY <1>4 DEF Seat
  <1> QED BY <1>3, <1>5, <1>6 DEF SeatsAfter, mine

LEMMA TeamAfterType ==
  ASSUME RoomsInv, NEW c, c.user \in User, NEW r \in TeamRoom
  PROVE  TeamAfter(c, r) \in [User -> TeamRole]
  <1> DEFINE mine == IF Revokes(c) \/ ToGuest(c) THEN "none"
                     ELSE IF LeadLost(c, r) THEN "member" ELSE team[r][c.user]
             without == [team[r] EXCEPT ![c.user] = mine]
  <1>1. team[r] \in [User -> TeamRole]
    BY DEF RoomsInv, RoomsTypeOK
  <1>2. mine \in TeamRole
    BY <1>1 DEF TeamRole
  <1>3. without \in [User -> TeamRole]
    BY <1>1, <1>2
  <1> HIDE DEF without
  <1>4. \A h : [without EXCEPT ![h] = "lead"] \in [User -> TeamRole]
    BY <1>3 DEF TeamRole
  <1> QED BY <1>3, <1>4 DEF TeamAfter, without

LEMMA AskAfterType ==
  ASSUME RoomsInv, NEW c, c.user \in User, NEW r \in Room
  PROVE  AskAfter(c, r) \in [state : ResponseState, owner : User \cup {None}]
  <1> DEFINE owners == {u \in Answerers(c, r) : SeatsAfter(c, r)[u] = "owner"}
             S == IF owners # {} THEN owners ELSE Answerers(c, r)
  <1>1. ask[r] \in [state : ResponseState, owner : User \cup {None}] /\ seated[r] \subseteq User
    BY DEF RoomsInv, RoomsTypeOK
  <1>2. Answerers(c, r) \subseteq User
    BY <1>1, HeirFacts DEF Answerers
  <1>3. S \in SUBSET User /\ (Answerers(c, r) # {} => S # {})
    BY <1>2
  <1> HIDE DEF S
  <1>4. Answerers(c, r) # {} => Least(S) \in User
    BY <1>3, LeastInd
  <1> QED BY <1>1, <1>4 DEF AskAfter, S, ResponseState

LEMMA MembershipType ==
  ASSUME RoomsInv, NEW p \in Request, CommitMembership(p), NEW c, c = request[p]
  PROVE  RoomsTypeOK'
  <1>1. /\ c.user \in User /\ c.as \in Role /\ Done(p)
        /\ role' = [role EXCEPT ![c.user] = c.as] /\ role \in [User -> Role]
        /\ active' \subseteq User
    BY MembershipFacts
  <1>2. /\ team' = [r \in TeamRoom |-> TeamAfter(c, r)]
        /\ seat' = [r \in Room |-> SeatsAfter(c, r)]
        /\ seated' = SeatedAfter(c)
        /\ open' = [r \in Room |-> OpenAfter(c, r)]
        /\ ask' = [r \in Room |-> AskAfter(c, r)]
    BY DEF CommitMembership
  <1>3. role' \in [User -> Role]
    BY <1>1
  <1>4. team' \in [TeamRoom -> [User -> TeamRole]]
    BY <1>1, <1>2, TeamAfterType
  <1>5. seat' \in [Room -> [User -> Seat]]
    BY <1>1, <1>2, SeatsAfterType
  <1>6. seated' \in [Room -> SUBSET User]
    BY <1>2 DEF SeatedAfter, RoomsInv, RoomsTypeOK
  <1>7. open' \in [Room -> {"absent", "open", "archived"}]
    BY <1>2 DEF OpenAfter, RoomsInv, RoomsTypeOK
  <1>8. ask' \in [Room -> [state : ResponseState, owner : User \cup {None}]]
    BY <1>1, <1>2, AskAfterType
  <1>9. request' \in [Request -> Call]
    BY <1>1, DoneFacts
  <1> QED BY <1>1, <1>3, <1>4, <1>5, <1>6, <1>7, <1>8, <1>9 DEF RoomsTypeOK

LEMMA MembershipOwners ==
  ASSUME RoomsInv, NEW p \in Request, CommitMembership(p), NEW c, c = request[p]
  PROVE  OwnerRetained'
  <1>1. PICK v \in active : role[v] = "owner" /\ v \in User
    BY DEF RoomsInv, OwnerRetained, RoomsTypeOK
  <1>2. CASE v # c.user
    BY <1>1, <1>2, MembershipFacts DEF OwnerRetained
  <1>3. CASE v = c.user /\ (c.as # "owner" \/ Revokes(c))
    <2>1. PICK w \in active \ {c.user} : role[w] = "owner"
      BY <1>1, <1>3, MembershipFacts DEF MembershipChangeStands
    <2> QED BY <2>1, MembershipFacts DEF OwnerRetained
  <1>4. CASE v = c.user /\ c.as = "owner" /\ ~Revokes(c)
    BY <1>1, <1>4, MembershipFacts DEF OwnerRetained
  <1> QED BY <1>2, <1>3, <1>4

(* What a change of a membership leaves of a team and of its room.            *)
LEMMA MembershipTeamRoom ==
  ASSUME RoomsInv, NEW p \in Request, CommitMembership(p), NEW c, c = request[p],
         NEW r \in TeamRoom
  PROVE  seated'[r] \subseteq active' /\ TeamRoomInv(r)'
  <1> PICK h : h = Least(TeamHeirs(c, r))
    OBVIOUS
  <1> DEFINE u == c.user
             mine == IF Revokes(c) \/ ToGuest(c) THEN "none"
                     ELSE IF LeadLost(c, r) THEN "member" ELSE team[r][u]
             without == [team[r] EXCEPT ![u] = mine]
             gone == Revokes(c) \/ ToGuest(c)
  <1>1. r \in Room /\ r \notin OwnRoom /\ Kind[r] # "external"
    BY RoomKinds
  <1>2. /\ team[r] \in [User -> TeamRole] /\ seat[r] \in [User -> Seat]
        /\ seated[r] \subseteq active /\ active \subseteq User /\ u \in User
        /\ seated[r] = {v \in User : team[r][v] # "none"}
    BY <1>1, MembershipFacts DEF RoomsInv, RoomsTypeOK, RoomInv, TeamRoomInv
  <1>3. /\ team'[r] = TeamAfter(c, r) /\ seat'[r] = SeatsAfter(c, r)
        /\ seated'[r] = SeatedAfter(c)[r] /\ open'[r] = OpenAfter(c, r)
    BY <1>1 DEF CommitMembership
  <1>4. seated'[r] = IF gone THEN seated[r] \ {u} ELSE seated[r]
    BY <1>1, <1>2, <1>3 DEF SeatedAfter, LostRooms
  <1>5. seated'[r] \subseteq active'
    BY <1>2, <1>4, MembershipFacts
  <1>6. /\ team'[r] = IF LeadLost(c, r) /\ TeamHeirs(c, r) # {}
                      THEN [without EXCEPT ![h] = "lead"] ELSE without
        /\ without \in [User -> TeamRole]
    BY <1>2, <1>3 DEF TeamAfter, TeamRole
  <1>7. TeamHeirs(c, r) # {} => h \in User \ {u} /\ team[r][h] # "none" /\ Eligible(h)
    BY <1>1, <1>2, HeirFacts DEF TeamHeirs
  <1>8. LeadLost(c, r) <=> team[r][u] = "lead" /\ (gone \/ ToViewer(c))
    BY DEF LeadLost
  <1>9. seated'[r] = {v \in User : team'[r][v] # "none"}
    <2>1. \A v \in User : without[v] # "none" <=> v \in seated'[r]
      BY <1>2, <1>4, <1>8
    <2>2. TeamHeirs(c, r) # {} => h \in seated'[r]
      BY <1>2, <1>4, <1>7
    <2> HIDE DEF without
    <2> QED BY <1>2, <1>4, <1>6, <2>1, <2>2
  <1>10. ASSUME open'[r] = "open"
         PROVE  \E x \in User : /\ Eligible(x)'
                                /\ {v \in User : team'[r][v] = "lead"} = {x}
                                /\ {v \in seated'[r] : seat'[r][v] = "owner"} = {x}
    <2>1. open[r] = "open" /\ ~Orphaned(c, r)
      BY <1>3, <1>10, <1>1 DEF OpenAfter, RoomsInv, RoomsTypeOK
    <2>2. PICK x \in User : /\ Eligible(x)
                            /\ {v \in User : team[r][v] = "lead"} = {x}
                            /\ {v \in seated[r] : seat[r][v] = "owner"} = {x}
      BY <1>1, <2>1 DEF RoomsInv, RoomInv, TeamRoomInv
    <2> DEFINE own == [seat[r] EXCEPT ![u] = OwnSeat(c, r)]
    <2>3. ~LeadLost(c, r) => OwnSeat(c, r) = seat[r][u]
      <3>1. ASSUME r \in GivenUp(c)
            PROVE  team[r][u] = "lead" /\ ToViewer(c)
        BY <1>1, <3>1 DEF GivenUp
      <3> QED BY <1>1, <1>8, <3>1 DEF OwnSeat
    <2>4. own \in [User -> Seat]
      BY <1>2, SeatsAfterType, <1>1 DEF OwnSeat, Seat
    <2>5. CASE LeadLost(c, r)
      <3>1. u = x /\ TeamHeirs(c, r) # {}
        BY <1>2, <1>8, <2>1, <2>2, <2>5 DEF Orphaned
      <3>2. h \in User \ {u} /\ Eligible(h)' /\ h \in seated'[r]
        BY <1>2, <1>4, <1>7, <3>1, MembershipFacts
      <3>3. {v \in User : team'[r][v] = "lead"} = {h}
        BY <1>2, <1>6, <2>2, <2>5, <3>1, <3>2
      <3>4. seat'[r] = [Replaced(own, seated'[r], "owner", "member") EXCEPT ![h] = "owner"]
        BY <1>3, <2>1, <2>5 DEF SeatsAfter
      <3>5. {v \in seated'[r] : seat'[r][v] = "owner"} = {h}
        BY <1>2, <1>4, <2>4, <3>2, <3>4 DEF Replaced
      <3> QED BY <3>2, <3>3, <3>5
    <2>6. CASE ~LeadLost(c, r)
      <3>1. seat'[r] = seat[r]
        BY <1>1, <1>2, <1>3, <2>1, <2>3, <2>6 DEF SeatsAfter, Touched
      <3>2. team'[r] = without
        BY <1>6, <2>6
      <3>3. CASE u # x
        <4>1. {v \in User : team'[r][v] = "lead"} = {x}
          BY <1>2, <2>2, <2>6, <3>2, <3>3
        <4>2. {v \in seated'[r] : seat'[r][v] = "owner"} = {x}
          BY <1>4, <2>2, <3>1, <3>3
        <4>3. Eligible(x)'
          BY <2>2, <3>3, MembershipFacts
        <4> QED BY <4>1, <4>2, <4>3
      <3>4. CASE u = x
        <4>1. ~gone /\ ~ToViewer(c)
          BY <1>8, <2>2, <2>6, <3>4
        <4>2. team'[r] = team[r] /\ seated'[r] = seated[r]
          BY <1>2, <1>4, <2>6, <3>2, <4>1
        <4>3. Eligible(x)'
          BY <2>2, <3>4, <4>1, MembershipFacts DEF Eligible, ToGuest, ToViewer, RoleChanges
        <4> QED BY <2>2, <3>1, <4>2, <4>3
      <3> QED BY <3>3, <3>4
    <2> QED BY <2>5, <2>6
  <1> QED BY <1>5, <1>9, <1>10 DEF TeamRoomInv

(* What it leaves of another room.                                            *)
LEMMA MembershipOwnRoom ==
  ASSUME RoomsInv, NEW p \in Request, CommitMembership(p), NEW c, c = request[p],
         NEW r \in OwnRoom
  PROVE  /\ seated'[r] \subseteq active'
         /\ Kind[r] = "external" /\ open'[r] = "open" => \E u \in seated'[r] : ActiveGuest(u)'
  <1> DEFINE u == c.user
  <1>1. r \in Room /\ r \notin TeamRoom
    BY RoomKinds
  <1>2. /\ seated[r] \subseteq active /\ active \subseteq User /\ u \in User
        /\ Kind[r] = "external" /\ open[r] = "open" => \E v \in seated[r] : ActiveGuest(v)
    BY <1>1, MembershipFacts DEF RoomsInv, RoomsTypeOK, RoomInv
  <1>3. seated'[r] = IF r \in LostRooms(c) THEN seated[r] \ {u} ELSE seated[r]
    BY <1>1 DEF CommitMembership, SeatedAfter
  <1>4. seated'[r] \subseteq active'
    BY <1>1, <1>2, <1>3, MembershipFacts DEF LostRooms
  <1>5. \A v \in User \ {u} : ActiveGuest(v) => ActiveGuest(v)'
    BY MembershipFacts DEF ActiveGuest
  <1>6. ASSUME Kind[r] = "external", open'[r] = "open"
        PROVE  \E v \in seated'[r] : ActiveGuest(v)'
    <2>1. open[r] = "open" /\ ~Orphaned(c, r)
      BY <1>1, <1>6 DEF CommitMembership, OpenAfter, RoomsInv, RoomsTypeOK
    <2>2. CASE HasOtherGuest(r, u)
      BY <1>2, <1>3, <1>5, <2>2 DEF HasOtherGuest
    <2>3. CASE ~HasOtherGuest(r, u)
      <3>1. u \in seated[r] /\ u \in active /\ role[u] = "guest"
        BY <1>2, <1>6, <2>1, <2>3 DEF HasOtherGuest, ActiveGuest
      <3>2. c.as = "guest"
        BY <1>1, <1>6, <2>1, <2>3, <3>1, MembershipFacts DEF MembershipChangeStands,
           PromotionKeepsGuests
      <3>3. ~Revokes(c)
        <4>1. ASSUME Revokes(c)
              PROVE  FALSE
          <5>1. r \in Touched(c) /\ ~ToGuest(c)
            BY <2>1, <3>1, <4>1 DEF Touched, ToGuest, RoleChanges
          <5> QED BY <1>6, <2>1, <2>3, <5>1 DEF Orphaned, GuestRemains
        <4> QED BY <4>1
      <3>4. r \notin LostRooms(c)
        BY <1>6, <3>3 DEF LostRooms
      <3> QED BY <1>3, <3>1, <3>2, <3>3, <3>4, MembershipFacts DEF ActiveGuest
    <2> QED BY <2>2, <2>3
  <1> QED BY <1>4, <1>6

LEMMA CommitMembershipInd ==
  ASSUME RoomsInv, NEW p \in Request, CommitMembership(p)
  PROVE  RoomsInv'
  <1> PICK c : c = request[p]
    OBVIOUS
  <1>1. RoomsTypeOK' /\ OwnerRetained'
    BY MembershipType, MembershipOwners
  <1>2. ASSUME NEW r \in Room
        PROVE  RoomInv(r)'
    <2>1. CASE r \in TeamRoom
      BY <2>1, MembershipTeamRoom, RoomKinds DEF RoomInv
    <2>2. CASE r \in OwnRoom
      BY <2>2, MembershipOwnRoom, RoomKinds DEF RoomInv
    <2> QED BY <2>1, <2>2, RoomKinds
  <1>3. \A q \in Request : request'[q].op = "none"
    <2>1. Done(p) /\ request[p].op = "updateMembership"
      BY DEF CommitMembership
    <2>2. \A q \in Request \ {p} : request[q].op = "none"
      BY <2>1 DEF RoomsInv, LocksInv, Free, Exclusive
    <2> QED BY <2>1, <2>2, DoneFacts DEF NoCall
  <1>4. \A q \in Request : CallStands(request[q])'
    BY <1>3 DEF CallStands, CreateOp, TeamOp, ConversationOp
  <1>5. LocksInv'
    BY <1>3 DEF LocksInv, Free
  <1> QED BY <1>1, <1>2, <1>4, <1>5 DEF RoomsInv

LEMMA RoomsNextInd ==
  ASSUME RoomsInv, [RoomsNext]_roomsVars
  PROVE  RoomsInv'
  <1>1. ASSUME NEW p \in Request, Creation(p)
        PROVE  RoomsInv'
    BY <1>1, CreateTeamInd, CreateConversationInd, CommitTeamInd, CommitConversationInd
       DEF Creation
  <1>2. ASSUME NEW p \in Request, TeamChange(p)
        PROVE  RoomsInv'
    BY <1>2, SetTeamMemberInd, RemoveTeamMemberInd, AcceptInvitationInd, CommitTeamMemberInd,
       CommitTeamRemovalInd DEF TeamChange
  <1>3. ASSUME NEW p \in Request, ParticipantChange(p)
        PROVE  RoomsInv'
    BY <1>3, AddParticipantInd, RemoveParticipantInd, CommitParticipantInd, CommitRemovalInd
       DEF ParticipantChange
  <1>4. ASSUME NEW p \in Request, MessageChange(p)
        PROVE  RoomsInv'
    BY <1>4, SendMessageInd, SetMessageResponseInd, CommitMessageInd DEF MessageChange
  <1>5. ASSUME NEW p \in Request, MembershipChange(p)
        PROVE  RoomsInv'
    BY <1>5, UpdateMembershipInd, CommitMembershipInd DEF MembershipChange
  <1>6. CASE UNCHANGED roomsVars
    <2>1. UNCHANGED <<role, active, team, seat, seated, open, ask, request>>
      BY <1>6 DEF roomsVars
    <2>2. RoomsTypeOK' /\ OwnerRetained'
      BY <2>1 DEF RoomsInv, RoomsTypeOK, OwnerRetained
    <2>3. ASSUME NEW r \in Room PROVE RoomInv(r)'
      BY <2>1 DEF RoomsInv, RoomInv, TeamRoomInv, Eligible, ActiveGuest
    <2>4. ASSUME NEW p \in Request PROVE CallStands(request[p])'
      <3>1. CallStands(request[p])
        BY DEF RoomsInv
      <3>2. request[p].op \in CreateOp => CreationStands(request[p])'
        BY <2>1, <3>1 DEF CallStands, CreationStands, Eligible
      <3>3. request[p].op \in TeamOp => TeamChangeStands(request[p])'
        BY <2>1, <3>1 DEF CallStands, TeamChangeStands
      <3>4. request[p].op \in ConversationOp => ConversationChangeStands(request[p])'
        BY <2>1, <3>1 DEF CallStands, ConversationChangeStands, HasOtherOwner, HasOtherGuest,
           ActiveGuest
      <3>5. request[p].op = "updateMembership" => MembershipChangeStands(request[p])'
        BY <2>1, <3>1 DEF CallStands, MembershipChangeStands, Revokes, PromotionKeepsGuests,
           HasOtherGuest, ActiveGuest
      <3> QED BY <2>1, <3>2, <3>3, <3>4, <3>5 DEF CallStands
    <2>5. LocksInv'
      BY <2>1 DEF RoomsInv, LocksInv, Free, Exclusive
    <2> QED BY <2>2, <2>3, <2>4, <2>5 DEF RoomsInv
  <1> QED BY <1>1, <1>2, <1>3, <1>4, <1>5, <1>6, RollBackRoomInd DEF RoomsNext

(* What a request under way relies on still holds when it writes: its locks,  *)
(* and the shared lock of the organization, see to it.                        *)
THEOREM RoomsInductive == RoomsSpec => []RoomsInv
  <1>1. RoomsInit => RoomsInv
    BY RoomsInitInd
  <1>2. RoomsInv /\ [RoomsNext]_roomsVars => RoomsInv'
    BY RoomsNextInd
  <1> QED BY <1>1, <1>2, PTL DEF RoomsSpec

(* An organization keeps an owner, a team one lead entitled to lead it, a     *)
(* team's room the team's people, a room for guests a guest, and no room      *)
(* anybody who was revoked: repairViewerCollaborationOwnership and its        *)
(* siblings of updateMembership, beside every other request.                  *)
THEOREM RoomsAgree == RoomsSpec => []RoomsConsistent
  <1>1. RoomsInv => RoomsConsistent
    <2>1. ASSUME RoomsInv
          PROVE  OneEligibleLead /\ RoomMirrorsTeam
      BY <2>1, RoomKinds DEF RoomsInv, RoomInv, TeamRoomInv, OneEligibleLead, RoomMirrorsTeam
    <2>2. ASSUME RoomsInv
          PROVE  NobodyStaysBehind /\ ExternalRoomsHaveGuests
      BY <2>2 DEF RoomsInv, RoomInv, NobodyStaysBehind, ExternalRoomsHaveGuests
    <2> QED BY <2>1, <2>2 DEF RoomsInv, RoomsConsistent
  <1> QED BY <1>1, RoomsInductive, PTL

-----------------------------------------------------------------------------
(* Owners of a room, as far as they may own it.                               *)
OwnedInOrder(r) ==
    LET owners == {u \in seated[r] : seat[r][u] = "owner"} IN
    owners # {} /\ \A u \in owners : Eligible(u)

HasOwner(r) == \E u \in seated[r] : seat[r][u] = "owner"

LEMMA MembershipKeepsOwner ==
  ASSUME RoomsInv, NEW p \in Request, CommitMembership(p), NEW c, c = request[p],
         NEW r \in OwnRoom, open[r] = "open", open'[r] = "open", OwnedInOrder(r)
  PROVE  HasOwner(r)'
  <1> PICK h : h = Least(RoomHeirs(c, r))
    OBVIOUS
  <1> DEFINE u == c.user
             mine == [seat[r] EXCEPT ![u] = OwnSeat(c, r)]
  <1>1. r \in Room /\ r \notin TeamRoom /\ u \in User
    BY RoomKinds, MembershipFacts
  <1>2. seat[r] \in [User -> Seat] /\ seated[r] \subseteq active /\ active \subseteq User
    BY <1>1 DEF RoomsInv, RoomsTypeOK, RoomInv
  <1>3. /\ seat'[r] = SeatsAfter(c, r) /\ seated'[r] = SeatedAfter(c)[r]
        /\ ~Orphaned(c, r) /\ ~LeadLost(c, r)
    BY <1>1 DEF CommitMembership, OpenAfter, LeadLost
  <1>4. CASE r \in Touched(c) /\ ~OwnerRemains(c, r)
    <2>1. h \in RoomHeirs(c, r) /\ h \in User
      BY <1>1, <1>3, <1>4, HeirFacts DEF Orphaned
    <2>2. seat'[r] = [mine EXCEPT ![h] = "owner"]
      BY <1>3, <1>4 DEF SeatsAfter
    <2>3. mine \in [User -> Seat]
      BY <1>1, <1>2 DEF OwnSeat, Seat
    <2> QED BY <1>3, <2>1, <2>2, <2>3 DEF RoomHeirs, HasOwner
  <1>5. CASE r \in Touched(c) /\ OwnerRemains(c, r)
    <2>1. PICK v \in SeatedAfter(c)[r] \ {u} : seat[r][v] = "owner"
      BY <1>5 DEF OwnerRemains
    <2>2. seat'[r] = mine /\ v \in User
      BY <1>1, <1>2, <1>3, <1>5, <2>1, HeirFacts DEF SeatsAfter
    <2> QED BY <1>1, <1>2, <1>3, <2>1, <2>2 DEF HasOwner
  <1>6. CASE r \notin Touched(c)
    <2>1. PICK v \in seated[r] : seat[r][v] = "owner" /\ Eligible(v)
      BY DEF OwnedInOrder
    <2>2. seat'[r] = mine
      BY <1>3, <1>6 DEF SeatsAfter
    <2>3. CASE v # u
      BY <1>1, <1>2, <1>3, <2>1, <2>2, <2>3, HeirFacts DEF HasOwner
    <2>4. CASE v = u
      <3>1. ~Revokes(c) /\ ~ToGuest(c) /\ r \notin GivenUp(c)
        BY <1>6, <2>1, <2>4 DEF Touched
      <3>2. ~FromGuest(c)
        BY <2>1, <2>4 DEF Eligible, FromGuest
      <3>3. OwnSeat(c, r) = "owner" /\ r \notin LostRooms(c)
        BY <2>1, <2>4, <3>1, <3>2 DEF OwnSeat, LostRooms
      <3> QED BY <1>1, <1>2, <1>3, <2>1, <2>2, <2>4, <3>3 DEF HasOwner, SeatedAfter
    <2> QED BY <2>3, <2>4
  <1> QED BY <1>4, <1>5, <1>6

(* The other steps that change who sits where in a room of one's own.         *)
LEMMA ParticipantsKeepOwner ==
  ASSUME RoomsInv, NEW p \in Request, CommitParticipant(p) \/ CommitRemoval(p),
         NEW r \in OwnRoom, HasOwner(r)
  PROVE  HasOwner(r)'
  <1> PICK c : c = request[p]
    OBVIOUS
  <1> DEFINE u == c.user
  <1>1. /\ seat[r] \in [User -> Seat] /\ seated[r] \subseteq User
        /\ r \in Room /\ c.room \in Room /\ u \in active /\ active \subseteq User
        /\ Done(p) /\ CallStands(c)
        /\ seat \in [Room -> [User -> Seat]] /\ seated \in [Room -> SUBSET User]
    BY RoomKinds, DoneFacts DEF CommitParticipant, CommitRemoval, CallStands,
       ConversationChangeStands, ConversationOp, RoomsInv, RoomsTypeOK
  <1>2. PICK v \in seated[r] : seat[r][v] = "owner"
    BY DEF HasOwner
  <1>3. CASE r # c.room
    BY <1>1, <1>2, <1>3 DEF CommitParticipant, CommitRemoval, HasOwner
  <1>4. CASE r = c.room /\ CommitParticipant(p)
    <2>1. seated'[r] = seated[r] \cup {u} /\ seat'[r] = ParticipantSeats(r, u, c.as)
      BY <1>1, <1>4 DEF CommitParticipant
    <2>2. CASE c.as = "owner" \/ v = u
      <3>1. seat'[r][u] = "owner"
        BY <1>1, <1>2, <2>1, <2>2 DEF ParticipantSeats, Replaced
      <3> QED BY <2>1, <3>1 DEF HasOwner
    <2>3. CASE c.as # "owner" /\ v # u
      <3>1. seat'[r][v] = "owner"
        BY <1>1, <1>2, <2>1, <2>3 DEF ParticipantSeats
      <3> QED BY <1>2, <2>1, <3>1 DEF HasOwner
    <2> QED BY <2>2, <2>3
  <1>5. CASE r = c.room /\ CommitRemoval(p)
    <2>1. seated'[r] = seated[r] \ {u} /\ UNCHANGED seat /\ c.op = "removeParticipant"
      BY <1>1, <1>5 DEF CommitRemoval
    <2>2. seat[r][u] = "owner" => HasOtherOwner(r, u)
      BY <1>1, <1>5, <2>1 DEF CallStands, ConversationChangeStands, ConversationOp
    <2> QED BY <1>2, <2>1, <2>2 DEF HasOwner, HasOtherOwner
  <1> QED BY <1>3, <1>4, <1>5

LEMMA OwnershipStep ==
  ASSUME RoomsInv, [RoomsNext]_roomsVars, NEW r \in OwnRoom,
         open[r] = "open", open'[r] = "open", OwnedInOrder(r)
  PROVE  HasOwner(r)'
  <1>1. r \in Room /\ r \notin TeamRoom /\ HasOwner(r)
    BY RoomKinds DEF OwnedInOrder, HasOwner
  <1>2. seat[r]' = seat[r] /\ seated[r]' = seated[r] => HasOwner(r)'
    BY <1>1 DEF HasOwner
  <1>3. ASSUME NEW p \in Request, Creation(p)
        PROVE  HasOwner(r)'
    <2>1. CASE CommitTeam(p) \/ CommitConversation(p)
      <3>1. open[request[p].room] = "absent"
        BY <2>1, NobodyCreates DEF CommitTeam, CommitConversation, CreateOp
      <3>2. PICK s : s = request[p].room /\ s # r
        BY <3>1
      <3>3. seat \in [Room -> [User -> Seat]] /\ seated \in [Room -> SUBSET User]
        BY DEF RoomsInv, RoomsTypeOK
      <3>4. seat'[r] = seat[r] /\ seated'[r] = seated[r]
        BY <1>1, <2>1, <3>2, <3>3 DEF CommitTeam, CommitConversation
      <3> QED BY <1>2, <3>4
    <2>2. CASE UNCHANGED rooms
      BY <1>2, <2>2 DEF rooms
    <2> QED BY <1>3, <2>1, <2>2 DEF Creation, CreateTeam, CreateConversation, Begin
  <1>4. ASSUME NEW p \in Request, TeamChange(p)
        PROVE  HasOwner(r)'
    <2>1. CASE CommitTeamMember(p) \/ CommitTeamRemoval(p)
      <3>1. request[p].room \in TeamRoom
        <4>1. request[p].op \in TeamOp /\ CallStands(request[p])
          BY <2>1, DoneFacts DEF CommitTeamMember, CommitTeamRemoval, TeamOp
        <4> QED BY <4>1 DEF CallStands, TeamChangeStands
      <3> QED BY <1>1, <1>2, <2>1, <3>1 DEF CommitTeamMember, CommitTeamRemoval, RoomsInv,
                 RoomsTypeOK
    <2>2. CASE \E s \in TeamRoom, u \in User, as \in Role : AcceptInvitation(p, s, u, as)
      BY <1>1, <1>2, <2>2 DEF AcceptInvitation, RoomsInv, RoomsTypeOK
    <2>3. CASE UNCHANGED rooms
      BY <1>2, <2>3 DEF rooms
    <2> QED BY <1>4, <2>1, <2>2, <2>3 DEF TeamChange, SetTeamMember, RemoveTeamMember, Begin
  <1>5. ASSUME NEW p \in Request, ParticipantChange(p)
        PROVE  HasOwner(r)'
    <2>1. CASE CommitParticipant(p) \/ CommitRemoval(p)
      BY <1>1, <2>1, ParticipantsKeepOwner
    <2>2. CASE UNCHANGED rooms
      BY <1>2, <2>2 DEF rooms
    <2> QED BY <1>5, <2>1, <2>2 DEF ParticipantChange, AddParticipant, RemoveParticipant, Begin
  <1>6. ASSUME NEW p \in Request, MembershipChange(p)
        PROVE  HasOwner(r)'
    <2>1. CASE CommitMembership(p)
      BY <2>1, MembershipKeepsOwner
    <2>2. CASE UNCHANGED rooms
      BY <1>2, <2>2 DEF rooms
    <2> QED BY <1>6, <2>1, <2>2 DEF MembershipChange, UpdateMembership
  <1>7. ASSUME NEW p \in Request, MessageChange(p) \/ RollBackRoom(p)
        PROVE  UNCHANGED rooms
    BY <1>7 DEF MessageChange, SendMessage, SetMessageResponse, CommitMessage, RollBackRoom,
       Begin
  <1>8. CASE UNCHANGED roomsVars
    BY <1>2, <1>8 DEF roomsVars, rooms
  <1> QED BY <1>2, <1>3, <1>4, <1>5, <1>6, <1>7, <1>8 DEF RoomsNext, rooms

(* A membership change hands on what its member owed.                         *)
LEMMA MembershipHandsOn ==
  ASSUME RoomsInv, NEW p \in Request, CommitMembership(p), NEW r \in Room, NEW u \in User,
         OwesAnswer(u, r), u \in active,
         \/ u \notin active' /\ u \in seated[r]
         \/ role[u] # "viewer" /\ role'[u] = "viewer" /\ u \in active'
  PROVE  /\ ask'[r].owner # u
         /\ ask'[r].state = "open" =>
               /\ ask'[r].owner \in seated'[r] \cap active'
               /\ role'[ask'[r].owner] # "viewer"
               /\ open'[r] = "open"
  <1> PICK c : c = request[p]
    OBVIOUS
  <1> DEFINE owners == {v \in Answerers(c, r) : SeatsAfter(c, r)[v] = "owner"}
             S == IF owners # {} THEN owners ELSE Answerers(c, r)
  <1>1. u = c.user
    BY MembershipFacts
  <1>2. ToViewer(c) \/ r \in LostRooms(c)
    BY <1>1, MembershipFacts DEF ToViewer, RoleChanges, Revokes, LostRooms
  <1>3. /\ ask'[r] = AskAfter(c, r) /\ open'[r] = OpenAfter(c, r)
        /\ seated'[r] = SeatedAfter(c)[r]
    BY DEF CommitMembership
  <1>4. CASE OpenAfter(c, r) # "open" \/ Answerers(c, r) = {}
    BY <1>1, <1>2, <1>3, <1>4, RoomsAssumption DEF AskAfter
  <1>5. CASE OpenAfter(c, r) = "open" /\ Answerers(c, r) # {}
    <2>1. S \in SUBSET Answerers(c, r) /\ S # {}
      BY <1>5
    <2>2. Answerers(c, r) \subseteq SeatedAfter(c)[r] \ {u} /\ SeatedAfter(c)[r] \subseteq User
      BY <1>1, HeirFacts DEF Answerers, RoomsInv, RoomsTypeOK
    <2>3. ask'[r].state = "open" /\ ask'[r].owner = Least(S)
      BY <1>1, <1>2, <1>3, <1>5 DEF AskAfter
    <2> HIDE DEF S
    <2>4. Least(S) \in Answerers(c, r)
      <3>1. S \in SUBSET User
        BY <2>1, <2>2
      <3> QED BY <2>1, <3>1, LeastInd
    <2>5. PICK v : v = Least(S)
      OBVIOUS
    <2>6. v \in User /\ v # u /\ v \in seated'[r] /\ v \in active /\ role[v] # "viewer"
      BY <1>3, <2>2, <2>4, <2>5 DEF Answerers
    <2>7. v \in active' /\ role'[v] # "viewer"
      BY <1>1, <2>6, MembershipFacts
    <2> QED BY <1>3, <1>5, <2>3, <2>5, <2>6, <2>7
  <1> QED BY <1>4, <1>5

(* Nothing else takes anybody's membership, or makes a member a viewer.       *)
LEMMA OthersKeepMembers ==
  ASSUME RoomsInv, [RoomsNext]_roomsVars, ~\E p \in Request : CommitMembership(p)
  PROVE  MembersGrow
  <1>1. UNCHANGED members => MembersGrow
    BY DEF members, MembersGrow, RoomsInv, RoomsTypeOK
  <1>2. ASSUME NEW p \in Request, Creation(p) \/ ParticipantChange(p) \/ MessageChange(p)
                                  \/ RollBackRoom(p)
        PROVE  UNCHANGED members
    BY <1>2 DEF Creation, CreateTeam, CreateConversation, CommitTeam, CommitConversation,
       ParticipantChange, AddParticipant, RemoveParticipant, CommitParticipant, CommitRemoval,
       MessageChange, SendMessage, SetMessageResponse, CommitMessage, RollBackRoom, Begin
  <1>3. ASSUME NEW p \in Request, TeamChange(p)
        PROVE  MembersGrow
    <2>1. CASE \E s \in TeamRoom, u \in User, as \in Role : AcceptInvitation(p, s, u, as)
      BY <2>1 DEF AcceptInvitation, MembersGrow, RoomsInv, RoomsTypeOK
    <2>2. CASE UNCHANGED members
      BY <1>1, <2>2
    <2> QED BY <1>3, <2>1, <2>2 DEF TeamChange, SetTeamMember, RemoveTeamMember,
               CommitTeamMember, CommitTeamRemoval, Begin
  <1>4. ASSUME NEW p \in Request, MembershipChange(p)
        PROVE  UNCHANGED members
    BY <1>4 DEF MembershipChange, UpdateMembership
  <1>5. CASE UNCHANGED roomsVars
    BY <1>1, <1>5 DEF roomsVars, members
  <1> QED BY <1>1, <1>2, <1>3, <1>4, <1>5 DEF RoomsNext

LEMMA HandoffStep ==
  ASSUME RoomsInv, [RoomsNext]_roomsVars, NEW u \in User, NEW r \in Room,
         OwesAnswer(u, r), u \in active,
         \/ u \notin active' /\ u \in seated[r]
         \/ role[u] # "viewer" /\ role'[u] = "viewer" /\ u \in active'
  PROVE  /\ ask'[r].owner # u
         /\ ask'[r].state = "open" =>
               /\ ask'[r].owner \in seated'[r] \cap active'
               /\ role'[ask'[r].owner] # "viewer"
               /\ open'[r] = "open"
  <1>1. \E p \in Request : CommitMembership(p)
    BY OthersKeepMembers DEF MembersGrow
  <1> QED BY <1>1, MembershipHandsOn

(* A room whose owners may own it keeps one while it is open, and what a      *)
(* leaver or a new viewer owed passes to somebody who may answer it or is     *)
(* cancelled (handoffOpenResponseObligations), in any organization.           *)
THEOREM NothingOrphaned == RoomsSpec => NothingIsOrphaned
  <1>1. RoomsInv /\ [RoomsNext]_roomsVars =>
           \A r \in OwnRoom :
              LET owners == {u \in seated[r] : seat[r][u] = "owner"} IN
              open[r] = "open" /\ open'[r] = "open" /\ owners # {}
                  /\ (\A u \in owners : Eligible(u))
              => \E u \in seated'[r] : seat'[r][u] = "owner"
    BY OwnershipStep DEF OwnedInOrder, HasOwner
  <1>2. RoomsInv /\ [RoomsNext]_roomsVars =>
           \A u \in User, r \in Room :
              LET leaves == u \in active /\ u \notin active' /\ u \in seated[r]
                  views == u \in active /\ role[u] # "viewer" /\ role'[u] = "viewer"
                  next == ask'[r].owner
              IN OwesAnswer(u, r) /\ (leaves \/ (views /\ u \in active')) =>
                  /\ next # u
                  /\ ask'[r].state = "open" =>
                      /\ next \in seated'[r] \cap active'
                      /\ role'[next] # "viewer"
                      /\ open'[r] = "open"
    BY HandoffStep
  <1> QED BY <1>1, <1>2, RoomsInductive, PTL
          DEF RoomsSpec, NothingIsOrphaned, OwnershipIsKept, HandoffIsComplete
=============================================================================
