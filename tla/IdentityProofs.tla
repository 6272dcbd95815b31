--------------------------- MODULE IdentityProofs ----------------------------
(*****************************************************************************)
(* Proofs about the idempotent commands, for every number of commands, keys, *)
(* aggregates and requests, about invitations, for every number of           *)
(* invitations, addresses and accounts, and about the change of a login      *)
(* address, for every number of accounts, addresses, requests and            *)
(* connections of the pool.                                                  *)
(*                                                                           *)
(* Commands: a request that executes holds its key alone, and the record it  *)
(* found is still as it was (KeyDiscipline); a request that has saved holds  *)
(* the row alone, at the version it compared (RowDiscipline).  So a commit   *)
(* adds the one effect that its record stands for.  A command that met a     *)
(* conflict was formed from a version that has passed, and versions only grow *)
(* (ClientDiscipline), so it never takes effect afterwards.  Invitations: a  *)
(* mail is of the row as it is or as it was (MailInv), a membership is that of *)
(* an account which held the invited address (PeopleInv), and a claim ties   *)
(* the two together (ClaimInv).  Login addresses: one request at a time has   *)
(* an account's lock (JobsInv), the step it has reached says what the links  *)
(* and the profile of the account are (StepsInOrder), a link is of a start   *)
(* and a second link of an opened first one (LinksAreStarted), and a change  *)
(* that can still give the account its address has not ended                 *)
(* (OngoingIsNotEnded).                                                      *)
(*****************************************************************************)
EXTENDS Commands, Invitations, EmailChange, SequenceTheorems, FiniteSetTheorems, TLAPS

(* A key is held by one request, and what the request found is still there.   *)
KeyDiscipline ==
    /\ \A r, q \in Request :
         /\ phase[r] \in {"executing", "saved"}
         /\ phase[q] \in {"executing", "saved"}
         /\ KeyFor(r) = KeyFor(q)
         => r = q
    /\ \A r \in Request :
         IF r \in reclaiming
           THEN phase[r] \in {"executing", "saved"} /\ KeyFor(r) \in expired
           ELSE phase[r] \in {"executing", "saved"} => record[KeyFor(r)] = NoRecord
    /\ \A k \in expired : record[k] # NoRecord /\ reclaimed[k] < MaxReclaims
    /\ \A k \in Key : record[k] = NoRecord => reclaimed[k] = 0

(* A row is held by one request, and has the version that it compared.        *)
RowDiscipline ==
    /\ \A r, q \in Request :
         /\ phase[r] \in {"saved", "recording"} /\ command[r] \in Versioned
         /\ phase[q] \in {"saved", "recording"} /\ command[q] \in Versioned
         /\ Target(r) = Target(q)
         => r = q
    /\ \A r \in Request :
         /\ phase[r] = "saved" /\ command[r] \in Versioned
              => Version(Target(r)) = seen[command[r]]
         /\ phase[r] = "recording" => Version(Target(r)) = base[r]
         /\ phase[r] \in {"delivering", "recording"} => command[r] \in Deferred

(* Requests carry commands that were formed, from versions that existed.      *)
ClientDiscipline ==
    /\ \A r \in Request : phase[r] # "idle" => command[r] \in formed
    /\ \A c \in formed : seen[c] <= Version(AggregateOf[c])

(* A command that met a conflict can never be saved any more.                 *)
ConflictIsFinal ==
    \A m \in answers : m.verdict = "conflict" /\ m.command \notin Deferred =>
        /\ m.command \in formed \cap Versioned
        /\ seen[m.command] < Version(AggregateOf[m.command])

IndInv ==
    /\ TypeOK
    /\ KeyDiscipline
    /\ RowDiscipline
    /\ ClientDiscipline
    /\ ConflictIsFinal
    /\ OneEffectPerRecord
    /\ AnswersAreOwn
    /\ ConflictMeansNoEffect
    /\ NoLostUpdate

AnswerSet == [command : Command, verdict : Verdict, effect : Nat]

-----------------------------------------------------------------------------
(* Nothing has happened yet. *)
LEMMA InitInd == Init => IndInv
  <1> SUFFICES ASSUME Init PROVE IndInv
    OBVIOUS
  <1> USE CommandsAssumption DEF Init
  <1>1. TypeOK
    <2>1. (CHOOSE c \in Command : TRUE) \in Command
      OBVIOUS
    <2> QED BY <2>1 DEF TypeOK, Phase, Update
  <1>2. KeyDiscipline /\ RowDiscipline /\ ClientDiscipline /\ ConflictIsFinal
    BY DEF KeyDiscipline, RowDiscipline, ClientDiscipline, ConflictIsFinal
  <1>3. OneEffectPerRecord /\ AnswersAreOwn /\ ConflictMeansNoEffect /\ NoLostUpdate
    BY DEF OneEffectPerRecord, AnswersAreOwn, ConflictMeansNoEffect, NoLostUpdate
  <1> QED BY <1>1, <1>2, <1>3 DEF IndInv

(* What is known of an answer that was just given. *)
LEMMA AnswerAdds ==
  ASSUME answers \subseteq AnswerSet, NEW r \in Request, command[r] \in Command,
         NEW v \in Verdict, NEW i \in Nat, Answer(r, v, i)
  PROVE  /\ answers' \subseteq AnswerSet
         /\ \A m \in answers' :
              m \in answers \/ (m.command = command[r] /\ m.verdict = v /\ m.effect = i)
  BY DEF Answer, AnswerSet

(* The properties of answers, when a request is answered and nothing that     *)
(* they speak of changes.                                                     *)
LEMMA AnswerInd ==
  ASSUME IndInv, NEW r \in Request, UNCHANGED <<history, keyVars, clientVars>>,
         NEW v \in Verdict, NEW i \in Nat, Answer(r, v, i),
         v = "ok" => /\ i \in 1 .. Len(made[KeyFor(r)])
                     /\ made[KeyFor(r)][i] = command[r],
         v = "conflict" /\ command[r] \notin Deferred =>
           /\ command[r] \in formed \cap Versioned
           /\ seen[command[r]] < Version(Target(r))
           /\ \A j \in DOMAIN made[KeyFor(r)] : made[KeyFor(r)][j] = command[r] =>
                j <= reclaimed[KeyFor(r)] \/ KeyFor(r) \in expired
  PROVE  /\ answers' \subseteq AnswerSet
         /\ AnswersAreOwn' /\ ConflictMeansNoEffect' /\ ConflictIsFinal'
  <1>1. /\ answers \subseteq AnswerSet
        /\ command[r] \in Command
    BY DEF IndInv, TypeOK, AnswerSet
  <1>2. /\ answers' \subseteq AnswerSet
        /\ \A m \in answers' :
             m \in answers \/ (m.command = command[r] /\ m.verdict = v /\ m.effect = i)
    BY <1>1, AnswerAdds
  <1>3. AnswersAreOwn'
    BY <1>2 DEF IndInv, AnswersAreOwn, KeyFor, keyVars
  <1>4. ConflictMeansNoEffect'
    BY <1>2 DEF IndInv, ConflictMeansNoEffect, KeyFor, keyVars
  <1>5. ConflictIsFinal'
    BY <1>2 DEF IndInv, ConflictIsFinal, Target, Version, clientVars
  <1> QED BY <1>2, <1>3, <1>4, <1>5

(* The same, when nobody is answered. *)
LEMMA SilentInd ==
  ASSUME IndInv, UNCHANGED <<history, keyVars, clientVars, answers>>
  PROVE  /\ answers' \subseteq AnswerSet
         /\ AnswersAreOwn' /\ ConflictMeansNoEffect' /\ ConflictIsFinal'
  BY DEF IndInv, TypeOK, AnswerSet, AnswersAreOwn, ConflictMeansNoEffect, ConflictIsFinal,
         Version, keyVars, clientVars

(* A request that leaves lets go of what it holds. *)
LEMMA LeaveInd ==
  ASSUME IndInv, NEW r \in Request, Leave(r), answers' \subseteq AnswerSet,
         AnswersAreOwn', ConflictMeansNoEffect', ConflictIsFinal'
  PROVE  IndInv'
  <1> USE DEF IndInv, Leave, keyVars, clientVars
  <1>1. TypeOK'
    BY DEF TypeOK, Phase, AnswerSet
  <1>2. KeyDiscipline'
    BY DEF TypeOK, KeyDiscipline, KeyFor, Phase
  <1>3. RowDiscipline'
    BY DEF TypeOK, RowDiscipline, Target, Version, Phase
  <1>4. ClientDiscipline'
    BY DEF TypeOK, ClientDiscipline, Version, Phase
  <1>5. OneEffectPerRecord' /\ NoLostUpdate'
    BY DEF OneEffectPerRecord, NoLostUpdate
  <1> QED BY <1>1, <1>2, <1>3, <1>4, <1>5

-----------------------------------------------------------------------------
(* A request that fails answers nothing. *)
LEMMA RollbackInd == ASSUME IndInv, NEW r \in Request, Rollback(r) PROVE IndInv'
  <1>1. Leave(r) /\ UNCHANGED <<history, keyVars, clientVars, answers>>
    BY DEF Rollback, Leave
  <1> QED BY <1>1, SilentInd, LeaveInd

(* What is replayed is the effect that the record stands for. *)
LEMMA ReplayInd == ASSUME IndInv, NEW r \in Request, Replay(r) PROVE IndInv'
  <1> DEFINE k == KeyFor(r)
  <1>1. Leave(r) /\ UNCHANGED <<history, keyVars, clientVars>>
    BY DEF Replay, Leave
  <1>2. k \in Key /\ command[r] \in Command /\ made[k] \in Seq(Command)
    BY CommandsAssumption DEF IndInv, TypeOK, KeyFor
  <1>3. CASE Answer(r, "reused", 0)
    BY <1>1, <1>3, AnswerInd, LeaveInd DEF Verdict
  <1>4. CASE Answer(r, "unavailable", 0)
    BY <1>1, <1>4, AnswerInd, LeaveInd DEF Verdict
  <1>5. CASE /\ Answer(r, "ok", Len(made[k]))
             /\ record[k].command = command[r]
             /\ record[k].state = "completed"
    <2>1. record[k] # NoRecord
      BY <1>5 DEF NoRecord
    <2>2. Len(made[k]) = reclaimed[k] + 1 /\ made[k][Len(made[k])] = command[r]
      BY <2>1, <1>2, <1>5 DEF IndInv, OneEffectPerRecord
    <2>3. reclaimed[k] \in Nat
      BY <1>2, CommandsAssumption DEF IndInv, TypeOK
    <2>4. Len(made[k]) \in Nat /\ Len(made[k]) \in 1 .. Len(made[k])
      BY <2>2, <2>3
    <2> QED BY <1>1, <1>5, <2>2, <2>4, AnswerInd, LeaveInd DEF Verdict
  <1> QED BY <1>3, <1>4, <1>5 DEF Replay

(* A request that holds its key and meets another version has had no effect. *)
LEMMA ConflictInd == ASSUME IndInv, NEW r \in Request, Conflict(r) PROVE IndInv'
  <1> DEFINE k == KeyFor(r)
             c == command[r]
  <1>1. /\ Leave(r) /\ UNCHANGED <<history, keyVars, clientVars>>
        /\ Answer(r, "conflict", 0)
    BY DEF Conflict, Leave
  <1>2. c \in Command /\ k \in Key /\ c \in formed \cap Versioned
    BY CommandsAssumption DEF IndInv, TypeOK, ClientDiscipline, KeyFor, Conflict
  <1>3. seen[c] \in Nat /\ Version(Target(r)) \in Nat
    BY <1>2, CommandsAssumption DEF IndInv, TypeOK, Version, Target
  <1>4. seen[c] < Version(Target(r))
    BY <1>2, <1>3 DEF IndInv, ClientDiscipline, Conflict, Target
  <1>5. record[k] = NoRecord \/ k \in expired
    BY DEF IndInv, KeyDiscipline, Conflict
  <1>6. \A j \in DOMAIN made[k] : made[k][j] = c => j <= reclaimed[k] \/ k \in expired
    BY <1>2, <1>5 DEF IndInv, OneEffectPerRecord
  <1> QED BY <1>1, <1>2, <1>4, <1>6, AnswerInd, LeaveInd DEF Verdict

(* A delivery that comes too late changes nothing. *)
LEMMA SupersededInd == ASSUME IndInv, NEW r \in Request, DeliverySuperseded(r) PROVE IndInv'
  <1>1. /\ Leave(r) /\ UNCHANGED <<history, keyVars, clientVars>>
        /\ Answer(r, "conflict", 0)
    BY DEF DeliverySuperseded, Leave
  <1>2. command[r] \in Deferred
    BY DEF IndInv, RowDiscipline, DeliverySuperseded
  <1> QED BY <1>1, <1>2, AnswerInd, LeaveInd DEF Verdict

(* A delivery whose record is gone changes nothing. *)
LEMMA RefusedInd == ASSUME IndInv, NEW r \in Request, FinalizeRefused(r) PROVE IndInv'
  <1>1. /\ Leave(r) /\ UNCHANGED <<history, keyVars, clientVars>>
        /\ Answer(r, "unavailable", 0)
    BY DEF FinalizeRefused, Leave
  <1> QED BY <1>1, AnswerInd, LeaveInd DEF Verdict

(* A request arrives. *)
LEMMA BeginInd == ASSUME IndInv, NEW r \in Request, NEW c \in Command, Begin(r, c) PROVE IndInv'
  <1> USE CommandsAssumption DEF IndInv, Begin, keyVars, clientVars
  <1>1. TypeOK'
    BY DEF TypeOK, Phase
  <1>2. KeyDiscipline'
    BY DEF TypeOK, KeyDiscipline, KeyFor, Phase
  <1>3. RowDiscipline'
    BY SMTT(20) DEF TypeOK, RowDiscipline, Target, Version, Phase
  <1>4. ClientDiscipline'
    BY DEF TypeOK, ClientDiscipline, Version, Phase
  <1>5. OneEffectPerRecord' /\ NoLostUpdate'
    BY DEF OneEffectPerRecord, NoLostUpdate
  <1>6. AnswersAreOwn' /\ ConflictMeansNoEffect' /\ ConflictIsFinal'
    BY SilentInd
  <1> QED BY <1>1, <1>2, <1>3, <1>4, <1>5, <1>6

(* A request takes its key, which nobody holds, or learns that it has a record. *)
LEMMA AcquireInd == ASSUME IndInv, NEW r \in Request, Acquire(r) PROVE IndInv'
  <1>1. /\ phase[r] = "begun" /\ ~KeyHeld(KeyFor(r))
        /\ UNCHANGED <<history, keyVars, clientVars, command, base, answers>>
    BY DEF Acquire
  <1>2. PICK p \in {"executing", "conflicting"} : phase' = [phase EXCEPT ![r] = p]
    BY DEF Acquire
  <1>3. phase \in [Request -> Phase] /\ r \notin reclaiming
    BY <1>1 DEF IndInv, TypeOK, KeyDiscipline
  <1>4. \A q \in Request :
          KeyFor(q)' = KeyFor(q) /\ phase'[q] = IF q = r THEN p ELSE phase[q]
    BY <1>1, <1>2, <1>3 DEF KeyFor, keyVars
  <1>5. TypeOK'
    BY <1>1, <1>2 DEF IndInv, Acquire, TypeOK, Phase, keyVars, clientVars
  <1>6. KeyDiscipline'
    <2>1. \A q, s \in Request :
            (phase[q] \in {"executing", "saved"} /\ phase[s] \in {"executing", "saved"}
              /\ KeyFor(q) = KeyFor(s) => q = s)'
      <3>1. \A q \in Request : phase[q] \in {"executing", "saved"} => KeyFor(q) # KeyFor(r)
        BY <1>1 DEF KeyHeld
      <3>2. \A q, s \in Request :
              phase[q] \in {"executing", "saved"} /\ phase[s] \in {"executing", "saved"}
                /\ KeyFor(q) = KeyFor(s) => q = s
        BY DEF IndInv, KeyDiscipline
      <3> SUFFICES ASSUME NEW q \in Request, NEW s \in Request,
                          phase'[q] \in {"executing", "saved"},
                          phase'[s] \in {"executing", "saved"}, KeyFor(q)' = KeyFor(s)'
                   PROVE  q = s
        OBVIOUS
      <3> QED BY <1>4, <3>1, <3>2
    <2>2. \A q \in Request : (IF q \in reclaiming
             THEN phase[q] \in {"executing", "saved"} /\ KeyFor(q) \in expired
             ELSE phase[q] \in {"executing", "saved"} => record[KeyFor(q)] = NoRecord)'
      <3>1. CASE p = "executing" /\ record[KeyFor(r)].state = "none" /\ reclaiming' = reclaiming
        <4>1. record[KeyFor(r)] = NoRecord
          BY <3>1, CommandsAssumption DEF IndInv, TypeOK, KeyFor
        <4> QED BY <1>1, <1>3, <1>4, <3>1, <4>1 DEF IndInv, KeyDiscipline, keyVars
      <3>2. CASE p = "executing" /\ KeyFor(r) \in expired /\ reclaiming' = reclaiming \cup {r}
        BY <1>1, <1>3, <1>4, <3>2 DEF IndInv, KeyDiscipline, keyVars
      <3>3. CASE p = "conflicting" /\ reclaiming' = reclaiming
        BY <1>1, <1>3, <1>4, <3>3 DEF IndInv, KeyDiscipline, keyVars
      <3>4. phase'[r] = p
        BY <1>4
      <3> QED BY <1>2, <1>3, <3>1, <3>2, <3>3, <3>4 DEF Acquire
    <2>3. \A k \in expired' : (record[k] # NoRecord /\ reclaimed[k] < MaxReclaims)'
      BY <1>1 DEF IndInv, KeyDiscipline, keyVars
    <2>4. \A k \in Key : (record[k] = NoRecord => reclaimed[k] = 0)'
      BY <1>1 DEF IndInv, KeyDiscipline, keyVars
    <2> QED BY <2>1, <2>2, <2>3, <2>4 DEF KeyDiscipline
  <1>7. RowDiscipline'
    BY <1>1, <1>4 DEF IndInv, RowDiscipline, Target, Version, clientVars
  <1>8. ClientDiscipline'
    BY <1>1, <1>4 DEF IndInv, ClientDiscipline, Version, clientVars
  <1>9. OneEffectPerRecord' /\ NoLostUpdate'
    BY <1>1 DEF IndInv, OneEffectPerRecord, NoLostUpdate, keyVars
  <1>10. AnswersAreOwn' /\ ConflictMeansNoEffect' /\ ConflictIsFinal'
    BY <1>1, SilentInd
  <1> QED BY <1>5, <1>6, <1>7, <1>8, <1>9, <1>10 DEF IndInv

(* A request locks the row at the version that it expects. *)
LEMMA SaveInd == ASSUME IndInv, NEW r \in Request, Save(r) PROVE IndInv'
  <1> USE CommandsAssumption DEF IndInv, Save, keyVars, clientVars
  <1>1. TypeOK'
    BY DEF TypeOK, Phase
  <1>2. KeyDiscipline'
    BY DEF TypeOK, KeyDiscipline, KeyFor, Phase
  <1>3. RowDiscipline'
    <2>1. phase'[r] = "saved" /\ \A q \in Request \ {r} : phase'[q] = phase[q]
      BY DEF TypeOK
    <2>2. UNCHANGED <<history, command, seen, base>>
      OBVIOUS
    <2>3. command[r] \in Versioned =>
             /\ Version(Target(r)) = seen[command[r]]
             /\ \A q \in Request : ~(/\ phase[q] \in {"saved", "recording"}
                                     /\ command[q] \in Versioned /\ Target(q) = Target(r))
      BY DEF RowHeld, Target
    <2>4. RowDiscipline
      OBVIOUS
    <2> HIDE DEF IndInv, Save
    <2> QED BY <2>1, <2>2, <2>3, <2>4 DEF RowDiscipline, Target, Version
  <1>4. ClientDiscipline'
    BY DEF TypeOK, ClientDiscipline, Version, Phase
  <1>5. OneEffectPerRecord' /\ NoLostUpdate'
    BY DEF OneEffectPerRecord, NoLostUpdate
  <1>6. AnswersAreOwn' /\ ConflictMeansNoEffect' /\ ConflictIsFinal'
    BY SilentInd
  <1> QED BY <1>1, <1>2, <1>3, <1>4, <1>5, <1>6

(* A delivery locks the row at the version that it applies to. *)
LEMMA RecordDeliveryInd == ASSUME IndInv, NEW r \in Request, RecordDelivery(r) PROVE IndInv'
  <1> USE CommandsAssumption DEF IndInv, RecordDelivery, keyVars, clientVars
  <1>1. TypeOK'
    BY DEF TypeOK, Phase
  <1>2. KeyDiscipline'
    BY DEF TypeOK, KeyDiscipline, KeyFor, Phase
  <1>3. RowDiscipline'
    <2>1. phase'[r] = "recording" /\ \A q \in Request \ {r} : phase'[q] = phase[q]
      BY DEF TypeOK
    <2>2. UNCHANGED <<history, command, seen, base>>
      OBVIOUS
    <2>3. /\ phase[r] = "delivering" /\ Version(Target(r)) = base[r]
          /\ \A q \in Request : ~(/\ phase[q] \in {"saved", "recording"}
                                  /\ command[q] \in Versioned /\ Target(q) = Target(r))
      BY DEF RowHeld, Target
    <2>4. RowDiscipline
      OBVIOUS
    <2> HIDE DEF IndInv, RecordDelivery
    <2> QED BY <2>1, <2>2, <2>3, <2>4 DEF RowDiscipline, Target, Version
  <1>4. ClientDiscipline'
    BY DEF TypeOK, ClientDiscipline, Version, Phase
  <1>5. OneEffectPerRecord' /\ NoLostUpdate'
    BY DEF OneEffectPerRecord, NoLostUpdate
  <1>6. AnswersAreOwn' /\ ConflictMeansNoEffect' /\ ConflictIsFinal'
    BY SilentInd
  <1> QED BY <1>1, <1>2, <1>3, <1>4, <1>5, <1>6

-----------------------------------------------------------------------------
(* A client forms a command from the present version. *)
LEMMA FormInd == ASSUME IndInv, NEW x \in Command, Form(x) PROVE IndInv'
  <1> USE CommandsAssumption DEF IndInv, Form, keyVars, requestVars
  <1>1. \A a \in Aggregate : Version(a) \in Nat /\ Version(a)' = Version(a)
    BY DEF TypeOK, Version
  <1>2. seen' \in [Command -> Nat] /\ \A c \in formed : seen'[c] = seen[c]
    BY <1>1 DEF TypeOK
  <1>3. TypeOK'
    <2>1. TypeOK /\ formed' \subseteq Command
      BY DEF TypeOK
    <2>2. UNCHANGED <<history, made, record, expired, reclaimed, phase, command, reclaiming,
                      base, answers>>
      OBVIOUS
    <2> HIDE DEF IndInv, Form
    <2> QED BY <1>2, <2>1, <2>2 DEF TypeOK
  <1>4. KeyDiscipline'
    BY DEF KeyDiscipline, KeyFor
  <1>5. RowDiscipline'
    BY <1>2 DEF RowDiscipline, ClientDiscipline, Target, Version
  <1>6. ClientDiscipline'
    <2>1. \A q \in Request : phase'[q] # "idle" => command'[q] \in formed'
      BY DEF ClientDiscipline
    <2>2. seen'[x] = Version(AggregateOf[x])
      BY DEF TypeOK
    <2>3. \A c \in formed' : seen'[c] <= Version(AggregateOf[c])
      BY <1>1, <1>2, <2>2 DEF TypeOK, ClientDiscipline
    <2> QED BY <1>1, <2>1, <2>3 DEF TypeOK, ClientDiscipline, Version
  <1>7. ConflictIsFinal'
    BY <1>2 DEF ConflictIsFinal, Version
  <1>8. OneEffectPerRecord' /\ NoLostUpdate' /\ AnswersAreOwn' /\ ConflictMeansNoEffect'
    BY DEF OneEffectPerRecord, NoLostUpdate, AnswersAreOwn, ConflictMeansNoEffect
  <1> QED BY <1>3, <1>4, <1>5, <1>6, <1>7, <1>8

(* A record passes its expiry. *)
LEMMA ExpireInd == ASSUME IndInv, NEW x \in Key, Expire(x) PROVE IndInv'
  <1> USE CommandsAssumption DEF IndInv, Expire, clientVars, requestVars
  <1>1. TypeOK'
    BY DEF TypeOK
  <1>2. KeyDiscipline'
    <2>1. record[x] # NoRecord /\ reclaimed[x] < MaxReclaims
      BY DEF NoRecord
    <2>2. expired' = expired \cup {x} /\ x \notin expired /\ x \in Key
          /\ UNCHANGED <<record, reclaimed, phase, command, reclaiming>>
      OBVIOUS
    <2>3. KeyDiscipline
      OBVIOUS
    <2> HIDE DEF IndInv, Expire
    <2> QED BY <2>1, <2>2, <2>3 DEF KeyDiscipline, KeyFor
  <1>3. RowDiscipline' /\ ClientDiscipline' /\ ConflictIsFinal'
    BY DEF RowDiscipline, ClientDiscipline, ConflictIsFinal, Target, Version
  <1>4. OneEffectPerRecord' /\ NoLostUpdate' /\ AnswersAreOwn' /\ ConflictMeansNoEffect'
    BY DEF OneEffectPerRecord, NoLostUpdate, AnswersAreOwn, ConflictMeansNoEffect
  <1> QED BY <1>1, <1>2, <1>3, <1>4

(* The completed records of a user are deleted. *)
LEMMA DeleteCompletedInd == ASSUME IndInv, DeleteCompleted PROVE IndInv'
  <1> DEFINE gone == {k \in Key \ expired : record[k].state = "completed"}
  <1> USE CommandsAssumption DEF IndInv, DeleteCompleted, clientVars, requestVars
  <1>1. TypeOK'
    BY DEF TypeOK
  <1>2. KeyDiscipline'
    <2>1. \A x \in gone : x \in Key \ expired /\ record[x] # NoRecord /\ reclaimed[x] < MaxReclaims
      BY DEF NoRecord
    <2>2. /\ expired' = expired \cup gone
          /\ UNCHANGED <<record, reclaimed, phase, command, reclaiming>>
      OBVIOUS
    <2>3. KeyDiscipline
      OBVIOUS
    <2> HIDE DEF gone, IndInv, DeleteCompleted
    <2> QED BY <2>1, <2>2, <2>3 DEF KeyDiscipline, KeyFor
  <1>3. RowDiscipline' /\ ClientDiscipline' /\ ConflictIsFinal'
    BY DEF RowDiscipline, ClientDiscipline, ConflictIsFinal, Target, Version
  <1>4. OneEffectPerRecord' /\ NoLostUpdate' /\ AnswersAreOwn' /\ ConflictMeansNoEffect'
    BY DEF OneEffectPerRecord, NoLostUpdate, AnswersAreOwn, ConflictMeansNoEffect
  <1> QED BY <1>1, <1>2, <1>3, <1>4

-----------------------------------------------------------------------------
(* What appending does to a sequence. *)
LEMMA AppendFacts ==
  ASSUME NEW S, NEW s \in Seq(S), NEW e \in S
  PROVE  /\ Append(s, e) \in Seq(S)
         /\ Len(s) \in Nat
         /\ Len(Append(s, e)) = Len(s) + 1
         /\ DOMAIN s = 1 .. Len(s)
         /\ DOMAIN Append(s, e) = 1 .. (Len(s) + 1)
         /\ \A i \in 1 .. Len(s) : Append(s, e)[i] = s[i]
         /\ Append(s, e)[Len(s) + 1] = e
  BY AppendProperties, LenProperties

(* What a step does that appends to the history of an aggregate an update     *)
(* from its present version: no update is lost, and no version goes back.     *)
LEMMA HistoryGrows ==
  ASSUME IndInv, NEW t \in Aggregate, NEW u \in Update, u.from = Version(t),
         history' = [history EXCEPT ![t] = Append(@, u)]
  PROVE  /\ history' \in [Aggregate -> Seq(Update)]
         /\ \A a \in Aggregate : a # t => history'[a] = history[a]
         /\ Version(t)' = Version(t) + 1
         /\ \A a \in Aggregate : Version(a) \in Nat /\ Version(a)' \in Nat
                                /\ Version(a) <= Version(a)'
         /\ NoLostUpdate'
  <1>1. history \in [Aggregate -> Seq(Update)]
    BY DEF IndInv, TypeOK
  <1>2. history[t] \in Seq(Update)
    BY <1>1
  <1>3. /\ Append(history[t], u) \in Seq(Update)
        /\ Len(history[t]) \in Nat
        /\ Len(Append(history[t], u)) = Len(history[t]) + 1
        /\ DOMAIN history[t] = 1 .. Len(history[t])
        /\ DOMAIN Append(history[t], u) = 1 .. (Len(history[t]) + 1)
        /\ \A i \in 1 .. Len(history[t]) : Append(history[t], u)[i] = history[t][i]
        /\ Append(history[t], u)[Len(history[t]) + 1] = u
    BY <1>2, AppendFacts
  <1>4. /\ history'[t] = Append(history[t], u)
        /\ \A a \in Aggregate : a # t => history'[a] = history[a]
        /\ history' \in [Aggregate -> Seq(Update)]
    BY <1>1, <1>3
  <1>5. \A a \in Aggregate : Len(history[a]) \in Nat
    BY <1>1
  <1>6. NoLostUpdate'
    <2> SUFFICES ASSUME NEW a \in Aggregate, NEW i \in DOMAIN history'[a]
                 PROVE  history'[a][i].from = i - 1
      BY DEF NoLostUpdate
    <2>1. CASE a # t
      BY <1>4, <2>1 DEF IndInv, NoLostUpdate
    <2>2. CASE a = t /\ i \in 1 .. Len(history[t])
      BY <1>3, <1>4, <2>2 DEF IndInv, NoLostUpdate
    <2>3. CASE a = t /\ i = Len(history[t]) + 1
      BY <1>3, <1>4, <2>3 DEF Version
    <2> QED BY <1>3, <1>4, <2>1, <2>2, <2>3
  <1> QED BY <1>3, <1>4, <1>5, <1>6 DEF Version

(* What a commit does to its key: one more effect, and a fresh record of it.  *)
LEMMA CommitKey ==
  ASSUME IndInv, NEW r \in Request, Commit(r)
  PROVE  LET k == KeyFor(r) IN
         /\ k \in Key /\ command[r] \in Command
         /\ Len(made[k]) \in 0 .. MaxReclaims
         /\ reclaimed' = [reclaimed EXCEPT ![k] = Len(made[k])]
         /\ made' \in [Key -> Seq(Command)]
         /\ \A j \in Key : j # k => made'[j] = made[j]
         /\ DOMAIN made[k] = 1 .. Len(made[k])
         /\ DOMAIN made'[k] = 1 .. (Len(made[k]) + 1)
         /\ Len(made'[k]) = Len(made[k]) + 1
         /\ \A i \in 1 .. Len(made[k]) : made'[k][i] = made[k][i]
         /\ made'[k][Len(made[k]) + 1] = command[r]
         /\ \A q \in Request : q # r /\ phase[q] \in {"executing", "saved"} => KeyFor(q) # k
  <1> DEFINE k == KeyFor(r)
             c == command[r]
  <1>1. k \in Key /\ c \in Command /\ phase[r] = "saved"
    BY CommandsAssumption DEF IndInv, TypeOK, KeyFor, Commit
  <1>2. made \in [Key -> Seq(Command)] /\ made[k] \in Seq(Command)
    BY <1>1 DEF IndInv, TypeOK
  <1>3. made' = [made EXCEPT ![k] = Append(@, c)]
    BY DEF Commit
  <1>4. made'[k] = Append(made[k], c) /\ \A j \in Key : j # k => made'[j] = made[j]
    BY <1>1, <1>2, <1>3
  <1>5. /\ Append(made[k], c) \in Seq(Command)
        /\ Len(made[k]) \in Nat
        /\ Len(Append(made[k], c)) = Len(made[k]) + 1
        /\ DOMAIN made[k] = 1 .. Len(made[k])
        /\ DOMAIN Append(made[k], c) = 1 .. (Len(made[k]) + 1)
        /\ \A i \in 1 .. Len(made[k]) : Append(made[k], c)[i] = made[k][i]
        /\ Append(made[k], c)[Len(made[k]) + 1] = c
    BY <1>1, <1>2, AppendFacts
  <1>6. reclaimed \in [Key -> 0 .. MaxReclaims]
    BY DEF IndInv, TypeOK
  <1>7. Len(made[k]) \in 0 .. MaxReclaims /\ reclaimed' = [reclaimed EXCEPT ![k] = Len(made[k])]
    <2>1. CASE r \in reclaiming
      <3>1. record[k] # NoRecord /\ reclaimed[k] < MaxReclaims
        BY <2>1 DEF IndInv, KeyDiscipline
      <3>2. Len(made[k]) = reclaimed[k] + 1
        BY <1>1, <3>1 DEF IndInv, OneEffectPerRecord
      <3>3. reclaimed' = [reclaimed EXCEPT ![k] = reclaimed[k] + 1]
        BY <2>1 DEF Commit
      <3>4. Len(made[k]) \in 0 .. MaxReclaims
        BY <1>1, <1>6, <3>1, <3>2, CommandsAssumption
      <3> QED BY <3>2, <3>3, <3>4
    <2>2. CASE r \notin reclaiming
      <3>1. record[k] = NoRecord
        BY <1>1, <2>2 DEF IndInv, KeyDiscipline
      <3>2. made[k] = <<>> /\ reclaimed[k] = 0
        BY <1>1, <3>1 DEF IndInv, OneEffectPerRecord, KeyDiscipline
      <3>3. reclaimed' = [reclaimed EXCEPT ![k] = reclaimed[k]]
        BY <2>2 DEF Commit
      <3> QED BY <3>2, <3>3, CommandsAssumption
    <2> QED BY <2>1, <2>2
  <1>8. made' \in [Key -> Seq(Command)]
    BY <1>1, <1>2, <1>3, <1>5
  <1>9. \A q \in Request : q # r /\ phase[q] \in {"executing", "saved"} => KeyFor(q) # k
    BY <1>1 DEF IndInv, KeyDiscipline
  <1> QED BY <1>1, <1>4, <1>5, <1>7, <1>8, <1>9

(* What a commit does to the rows: one more update, from the version that was *)
(* compared, and nobody else holds the row.                                   *)
LEMMA CommitRows ==
  ASSUME IndInv, NEW r \in Request, Commit(r)
  PROVE  /\ history' \in [Aggregate -> Seq(Update)]
         /\ \A a \in Aggregate : Version(a) \in Nat /\ Version(a)' \in Nat
                                /\ Version(a) <= Version(a)'
         /\ \A q \in Request :
              /\ q # r /\ command[q] \in Versioned /\ phase[q] \in {"saved", "recording"}
              => Version(Target(q))' = Version(Target(q))
         /\ command[r] \in Versioned => seen[command[r]] < Version(Target(r))'
         /\ NoLostUpdate'
  <1>1. command[r] \in Command /\ phase[r] = "saved" /\ command' = command
    BY DEF IndInv, TypeOK, Commit
  <1>2. history \in [Aggregate -> Seq(Update)] /\ seen \in [Command -> Nat]
    BY DEF IndInv, TypeOK
  <1>3. \A q \in Request : Target(q) \in Aggregate /\ Target(q)' = Target(q)
    BY <1>1, CommandsAssumption DEF IndInv, TypeOK, Target
  <1>4. PICK c \in Command, t \in Aggregate : c = command[r] /\ t = Target(r)
    BY <1>1, <1>3
  <1>5. CASE c \in Versioned
    <2>1. seen[c] = Version(t)
      BY <1>1, <1>5, <1>4 DEF IndInv, RowDiscipline
    <2>2. PICK u \in Update : u = [by |-> c, from |-> Version(t)]
      BY <1>1, <1>2, <1>4, <2>1 DEF Update
    <2>3. history' = [history EXCEPT ![t] = Append(@, u)]
      BY <1>5, <1>4, <2>1, <2>2 DEF Commit
    <2>4. /\ history' \in [Aggregate -> Seq(Update)]
          /\ \A a \in Aggregate : a # t => history'[a] = history[a]
          /\ Version(t)' = Version(t) + 1
          /\ \A a \in Aggregate : Version(a) \in Nat /\ Version(a)' \in Nat
                                 /\ Version(a) <= Version(a)'
          /\ NoLostUpdate'
      BY <2>2, <2>3, HistoryGrows
    <2>5. \A q \in Request :
            /\ q # r /\ command[q] \in Versioned /\ phase[q] \in {"saved", "recording"}
            => Target(q) # t
      BY <1>1, <1>5, <1>4 DEF IndInv, RowDiscipline
    <2>6. \A q \in Request :
            /\ q # r /\ command[q] \in Versioned /\ phase[q] \in {"saved", "recording"}
            => Version(Target(q))' = Version(Target(q))
      BY <1>3, <2>4, <2>5 DEF Version
    <2>7. seen[c] < Version(t)'
      BY <2>1, <2>4
    <2> QED BY <1>3, <1>4, <2>4, <2>6, <2>7 DEF Version
  <1>6. CASE c \notin Versioned
    <2>1. history' = history
      BY <1>6, <1>4 DEF Commit
    <2>2. \A a \in Aggregate : Version(a) \in Nat /\ Version(a)' = Version(a)
      BY <1>2, <2>1 DEF Version
    <2>3. NoLostUpdate'
      BY <2>1 DEF IndInv, NoLostUpdate
    <2> QED BY <1>2, <1>3, <1>6, <1>4, <2>1, <2>2, <2>3 DEF Version
  <1> QED BY <1>5, <1>6

(* A commit: the effect, its record and the answer agree. *)
LEMMA CommitInd == ASSUME IndInv, NEW r \in Request, Commit(r) PROVE IndInv'
  <1>1. PICK k \in Key, c \in Command : k = KeyFor(r) /\ c = command[r]
    BY CommitKey
  <1>2. /\ Len(made[k]) \in 0 .. MaxReclaims
        /\ reclaimed' = [reclaimed EXCEPT ![k] = Len(made[k])]
        /\ made' \in [Key -> Seq(Command)]
        /\ \A j \in Key : j # k => made'[j] = made[j]
        /\ DOMAIN made[k] = 1 .. Len(made[k])
        /\ DOMAIN made'[k] = 1 .. (Len(made[k]) + 1)
        /\ Len(made'[k]) = Len(made[k]) + 1
        /\ \A i \in 1 .. Len(made[k]) : made'[k][i] = made[k][i]
        /\ made'[k][Len(made[k]) + 1] = c
        /\ \A q \in Request : q # r /\ phase[q] \in {"executing", "saved"} => KeyFor(q) # k
    BY <1>1, CommitKey
  <1>3. /\ history' \in [Aggregate -> Seq(Update)]
        /\ \A a \in Aggregate : Version(a) \in Nat /\ Version(a)' \in Nat
                               /\ Version(a) <= Version(a)'
        /\ \A q \in Request :
             /\ q # r /\ command[q] \in Versioned /\ phase[q] \in {"saved", "recording"}
             => Version(Target(q))' = Version(Target(q))
        /\ command[r] \in Versioned => seen[command[r]] < Version(Target(r))'
        /\ NoLostUpdate'
    BY CommitRows
  <1>4. /\ phase[r] = "saved" /\ command' = command /\ seen' = seen /\ formed' = formed
        /\ reclaiming' = reclaiming \ {r} /\ expired' = expired \ {k}
        /\ record' = [record EXCEPT ![k] =
             [command |-> c, state |-> IF c \in Deferred THEN "pending" ELSE "completed"]]
    BY <1>1 DEF Commit, RenewExpiry, clientVars
  <1>5. /\ phase \in [Request -> Phase] /\ base \in [Request -> Nat]
        /\ command \in [Request -> Command] /\ answers \subseteq AnswerSet
        /\ reclaimed \in [Key -> 0 .. MaxReclaims] /\ reclaiming \subseteq Request
        /\ expired \subseteq Key
        /\ seen \in [Command -> Nat] /\ formed \subseteq Command
        /\ record \in [Key -> {NoRecord} \cup
                              [command : Command, state : {"pending", "completed"}]]
    BY DEF IndInv, TypeOK, AnswerSet
  <1>6. \A q \in Request : /\ KeyFor(q) \in Key /\ KeyFor(q)' = KeyFor(q)
                           /\ Target(q) \in Aggregate /\ Target(q)' = Target(q)
    BY <1>4, <1>5, CommandsAssumption DEF KeyFor, Target
  <1>7. PICK n \in Nat : n = Len(history'[Target(r)])
    BY <1>3, <1>6 DEF Version
  <1>8. /\ phase' = [phase EXCEPT ![r] = IF c \in Deferred THEN "delivering" ELSE "idle"]
        /\ base' = IF c \in Deferred THEN [base EXCEPT ![r] = n] ELSE base
        /\ \A m \in answers' :
             m \in answers \/ (m.command = c /\ m.verdict = "ok" /\ m.effect = Len(made[k]) + 1)
        /\ answers' \subseteq AnswerSet
    <2>1. CASE c \in Deferred
      BY <1>1, <1>5, <1>7, <2>1 DEF Commit
    <2>2. CASE c \notin Deferred
      <3>1. /\ phase' = [phase EXCEPT ![r] = "idle"] /\ base' = base
            /\ answers' = answers \cup
                 {[command |-> c, verdict |-> "ok", effect |-> Len(made[k]) + 1]}
        BY <1>1, <1>2, <2>2 DEF Commit, Answer
      <3>2. [command |-> c, verdict |-> "ok", effect |-> Len(made[k]) + 1] \in AnswerSet
        BY <1>2 DEF AnswerSet, Verdict
      <3> QED BY <1>5, <2>2, <3>1, <3>2
    <2> QED BY <2>1, <2>2
  <1>9. TypeOK'
    <2>1. record' \in [Key -> {NoRecord} \cup
                             [command : Command, state : {"pending", "completed"}]]
      BY <1>4, <1>5
    <2>2. reclaimed' \in [Key -> 0 .. MaxReclaims]
      BY <1>2, <1>5
    <2>3. phase' \in [Request -> Phase] /\ base' \in [Request -> Nat]
      BY <1>5, <1>8 DEF Phase
    <2> QED BY <1>2, <1>3, <1>4, <1>5, <1>8, <2>1, <2>2, <2>3 DEF TypeOK, AnswerSet
  <1>10. \A q \in Request : phase'[q] =
           IF q = r THEN (IF c \in Deferred THEN "delivering" ELSE "idle") ELSE phase[q]
    BY <1>5, <1>8
  <1>11. KeyDiscipline'
    <2>1. \A q, s \in Request :
            (phase[q] \in {"executing", "saved"} /\ phase[s] \in {"executing", "saved"}
              /\ KeyFor(q) = KeyFor(s) => q = s)'
      BY <1>6, <1>10 DEF IndInv, KeyDiscipline
    <2>2. \A q \in Request : (IF q \in reclaiming
             THEN phase[q] \in {"executing", "saved"} /\ KeyFor(q) \in expired
             ELSE phase[q] \in {"executing", "saved"} => record[KeyFor(q)] = NoRecord)'
      <3> SUFFICES ASSUME NEW q \in Request
                   PROVE  (IF q \in reclaiming
             THEN phase[q] \in {"executing", "saved"} /\ KeyFor(q) \in expired
             ELSE phase[q] \in {"executing", "saved"} => record[KeyFor(q)] = NoRecord)'
        OBVIOUS
      <3>1. CASE q = r
        BY <1>4, <1>10, <3>1
      <3>2. CASE q # r
        <4>1. record'[KeyFor(q)] = record[KeyFor(q)] \/ KeyFor(q) = k
          BY <1>4, <1>5, <1>6
        <4> QED BY <1>2, <1>4, <1>6, <1>10, <3>2, <4>1 DEF IndInv, KeyDiscipline
      <3> QED BY <3>1, <3>2
    <2>3. record'[k] # NoRecord
      BY <1>4, <1>5, CommandsAssumption DEF NoRecord
    <2>4. \A j \in Key : j # k => record'[j] = record[j] /\ reclaimed'[j] = reclaimed[j]
      BY <1>2, <1>4, <1>5
    <2>5. \A j \in expired' : (record[j] # NoRecord /\ reclaimed[j] < MaxReclaims)'
      BY <1>4, <1>5, <2>4 DEF IndInv, KeyDiscipline
    <2>6. \A j \in Key : (record[j] = NoRecord => reclaimed[j] = 0)'
      BY <2>3, <2>4 DEF IndInv, KeyDiscipline
    <2> QED BY <2>1, <2>2, <2>5, <2>6 DEF KeyDiscipline
  <1>12. RowDiscipline'
    <2>1. \A q, s \in Request :
            ( /\ phase[q] \in {"saved", "recording"} /\ command[q] \in Versioned
              /\ phase[s] \in {"saved", "recording"} /\ command[s] \in Versioned
              /\ Target(q) = Target(s)
              => q = s)'
      BY <1>4, <1>6, <1>10 DEF IndInv, RowDiscipline
    <2>2. \A q \in Request :
            ( /\ phase[q] = "saved" /\ command[q] \in Versioned
                   => Version(Target(q)) = seen[command[q]]
              /\ phase[q] = "recording" => Version(Target(q)) = base[q]
              /\ phase[q] \in {"delivering", "recording"} => command[q] \in Deferred)'
      <3> SUFFICES ASSUME NEW q \in Request
                   PROVE ( /\ phase[q] = "saved" /\ command[q] \in Versioned
                                => Version(Target(q)) = seen[command[q]]
                           /\ phase[q] = "recording" => Version(Target(q)) = base[q]
                           /\ phase[q] \in {"delivering", "recording"} => command[q] \in Deferred)'
        OBVIOUS
      <3>1. CASE q = r
        BY <1>1, <1>4, <1>10, <3>1
      <3>2. CASE q # r
        <4>1. base'[q] = base[q] /\ phase'[q] = phase[q] /\ command'[q] = command[q]
          BY <1>4, <1>5, <1>8, <1>10, <3>2
        <4>2. phase[q] = "recording" => command[q] \in Versioned
          BY CommandsAssumption DEF IndInv, RowDiscipline
        <4> QED BY <1>3, <1>4, <3>2, <4>1, <4>2 DEF IndInv, RowDiscipline
      <3> QED BY <3>1, <3>2
    <2> QED BY <2>1, <2>2 DEF RowDiscipline
  <1>13. ClientDiscipline'
    <2>1. \A x \in formed : AggregateOf[x] \in Aggregate /\ seen[x] \in Nat
      BY <1>5, CommandsAssumption
    <2>2. \A x \in formed : seen[x] <= Version(AggregateOf[x])'
      BY <1>3, <2>1 DEF IndInv, ClientDiscipline
    <2> QED BY <1>4, <1>10, <2>2 DEF IndInv, ClientDiscipline
  <1>14. ConflictIsFinal'
    <2> SUFFICES ASSUME NEW m \in answers', m.verdict = "conflict", m.command \notin Deferred
                 PROVE  /\ m.command \in formed \cap Versioned
                        /\ seen[m.command] < Version(AggregateOf[m.command])'
      BY <1>4 DEF ConflictIsFinal
    <2>1. m \in answers
      BY <1>8
    <2>2. /\ m.command \in formed \cap Versioned
          /\ seen[m.command] < Version(AggregateOf[m.command])
      BY <2>1 DEF IndInv, ConflictIsFinal
    <2>3. AggregateOf[m.command] \in Aggregate /\ seen[m.command] \in Nat
      BY <1>5, <2>2, CommandsAssumption
    <2> QED BY <1>3, <2>2, <2>3
  <1>15. OneEffectPerRecord'
    <2>1. record'[k] # NoRecord /\ record'[k].command = c
      BY <1>4, <1>5, CommandsAssumption DEF NoRecord
    <2>2. reclaimed'[k] = Len(made[k])
      BY <1>2, <1>5
    <2>3. \A j \in Key : j # k =>
            record'[j] = record[j] /\ reclaimed'[j] = reclaimed[j] /\ made'[j] = made[j]
      BY <1>2, <1>4, <1>5
    <2> QED BY <1>2, <2>1, <2>2, <2>3, SMTT(20) DEF IndInv, OneEffectPerRecord
  <1>16. AnswersAreOwn'
    <2> SUFFICES ASSUME NEW m \in answers', m.verdict = "ok"
                 PROVE  /\ m.effect \in 1 .. Len(made'[KeyOf[m.command]])
                        /\ made'[KeyOf[m.command]][m.effect] = m.command
      BY DEF AnswersAreOwn
    <2>1. CASE m \in answers
      <3>1. /\ m.effect \in 1 .. Len(made[KeyOf[m.command]])
            /\ made[KeyOf[m.command]][m.effect] = m.command
        BY <2>1 DEF IndInv, AnswersAreOwn
      <3>2. KeyOf[m.command] \in Key
        BY <1>5, <2>1, CommandsAssumption DEF AnswerSet
      <3>3. CASE KeyOf[m.command] # k
        BY <1>2, <3>1, <3>2, <3>3
      <3>4. CASE KeyOf[m.command] = k
        <4>1. PICK i \in 1 .. Len(made[k]) : i = m.effect
          BY <3>1, <3>4
        <4>2. made'[k][i] = m.command
          BY <1>2, <3>1, <3>4, <4>1
        <4>3. i \in 1 .. Len(made'[k])
          BY <1>2
        <4> QED BY <3>4, <4>1, <4>2, <4>3
      <3> QED BY <3>3, <3>4
    <2>2. CASE m.command = c /\ m.effect = Len(made[k]) + 1
      BY <1>1, <1>2, <2>2 DEF KeyFor
    <2> QED BY <1>8, <2>1, <2>2
  <1>17. ConflictMeansNoEffect'
    <2> SUFFICES ASSUME NEW m \in answers', m.verdict = "conflict", m.command \notin Deferred,
                        NEW i \in DOMAIN made'[KeyOf[m.command]],
                        made'[KeyOf[m.command]][i] = m.command
                 PROVE  i <= reclaimed'[KeyOf[m.command]] \/ KeyOf[m.command] \in expired'
      BY DEF ConflictMeansNoEffect
    <2>1. m \in answers
      BY <1>8
    <2>2. KeyOf[m.command] \in Key
      BY <1>5, <2>1, CommandsAssumption DEF AnswerSet
    <2>3. CASE KeyOf[m.command] # k
      BY <1>2, <1>4, <1>5, <2>1, <2>2, <2>3 DEF IndInv, ConflictMeansNoEffect
    <2>4. CASE KeyOf[m.command] = k
      <3>1. m.command # c
        <4>1. m.command \in Versioned /\ seen[m.command] < Version(AggregateOf[m.command])
          BY <2>1 DEF IndInv, ConflictIsFinal
        <4>2. c \in Versioned => Version(AggregateOf[c]) = seen[c]
          BY <1>1, <1>4 DEF IndInv, RowDiscipline, Target
        <4>3. c \in Versioned => seen[c] \in Nat
          BY <1>5
        <4> QED BY <4>1, <4>2, <4>3
      <3>2. i \in 1 .. Len(made[k])
        BY <1>2, <2>4, <3>1
      <3> QED BY <1>2, <1>5, <2>4, <3>2
    <2> QED BY <2>3, <2>4
  <1> QED BY <1>3, <1>9, <1>11, <1>12, <1>13, <1>14, <1>15, <1>16, <1>17 DEF IndInv

(* A delivery is recorded: the record it completes is that of its command.    *)
LEMMA FinalizeInd == ASSUME IndInv, NEW r \in Request, Finalize(r) PROVE IndInv'
  <1>1. PICK c \in Command, k \in Key, t \in Aggregate :
          c = command[r] /\ k = KeyFor(r) /\ t = Target(r)
    BY CommandsAssumption DEF IndInv, TypeOK, KeyFor, Target
  <1>2. /\ phase[r] = "recording" /\ ~KeyHeld(k)
        /\ record[k] = [command |-> c, state |-> "pending"]
        /\ record' = [record EXCEPT ![k].state = "completed"]
        /\ phase' = [phase EXCEPT ![r] = "idle"]
        /\ UNCHANGED <<made, expired, reclaimed, seen, formed, command, reclaiming, base>>
    BY <1>1 DEF Finalize, Finalizable, clientVars
  <1>3. /\ phase \in [Request -> Phase] /\ base \in [Request -> Nat]
        /\ command \in [Request -> Command] /\ answers \subseteq AnswerSet
        /\ seen \in [Command -> Nat] /\ formed \subseteq Command
        /\ made \in [Key -> Seq(Command)] /\ reclaimed \in [Key -> 0 .. MaxReclaims]
        /\ history \in [Aggregate -> Seq(Update)] /\ expired \subseteq Key
        /\ record \in [Key -> {NoRecord} \cup
                              [command : Command, state : {"pending", "completed"}]]
    BY DEF IndInv, TypeOK, AnswerSet
  <1>4. \A q \in Request : /\ KeyFor(q) \in Key /\ KeyFor(q)' = KeyFor(q)
                           /\ Target(q) \in Aggregate /\ Target(q)' = Target(q)
    BY <1>2, <1>3, CommandsAssumption DEF KeyFor, Target
  <1>5. base[r] = Version(t) /\ c \in Deferred /\ c \in Versioned
    BY <1>1, <1>2, CommandsAssumption DEF IndInv, RowDiscipline
  <1>6. PICK u \in Update : u = [by |-> c, from |-> Version(t)]
    BY <1>3, <1>5 DEF Update
  <1>7. /\ history' \in [Aggregate -> Seq(Update)]
        /\ \A a \in Aggregate : a # t => history'[a] = history[a]
        /\ \A a \in Aggregate : Version(a) \in Nat /\ Version(a)' \in Nat
                               /\ Version(a) <= Version(a)'
        /\ NoLostUpdate'
    <2>1. history' = [history EXCEPT ![t] = Append(@, u)]
      BY <1>1, <1>5, <1>6 DEF Finalize
    <2> QED BY <1>6, <2>1, HistoryGrows
  <1>8. record' = [record EXCEPT ![k] = [command |-> c, state |-> "completed"]]
    <2>1. PICK old : old = record[k]
      OBVIOUS
    <2>2. [old EXCEPT !.state = "completed"] = [command |-> c, state |-> "completed"]
      BY <1>2, <2>1
    <2>3. record' = [record EXCEPT ![k] = [old EXCEPT !.state = "completed"]]
      BY <1>2, <2>1
    <2> QED BY <2>2, <2>3
  <1>9. \A j \in Key : record'[j].command = record[j].command
                      /\ (record'[j] = NoRecord <=> record[j] = NoRecord)
    BY <1>2, <1>3, <1>8 DEF NoRecord
  <1>10. \A q \in Request : phase'[q] = IF q = r THEN "idle" ELSE phase[q]
    BY <1>2, <1>3
  <1>11. Len(made[k]) \in Nat /\ Len(made[k]) \in 1 .. Len(made[k]) /\ made[k][Len(made[k])] = c
    <2>1. record[k] # NoRecord
      BY <1>2 DEF NoRecord
    <2>2. Len(made[k]) = reclaimed[k] + 1 /\ made[k][Len(made[k])] = record[k].command
      BY <2>1 DEF IndInv, OneEffectPerRecord
    <2>3. reclaimed[k] \in Nat
      BY <1>3, CommandsAssumption
    <2> QED BY <1>2, <2>2, <2>3
  <1>12. /\ answers' \subseteq AnswerSet
         /\ \A m \in answers' :
              m \in answers \/ (m.command = c /\ m.verdict = "ok" /\ m.effect = Len(made[k]))
    <2>1. Answer(r, "ok", Len(made[k]))
      BY <1>1 DEF Finalize
    <2>2. "ok" \in Verdict
      BY DEF Verdict
    <2>3. PICK n \in Nat : n = Len(made[k])
      BY <1>11
    <2> QED BY <1>1, <1>3, <2>1, <2>2, <2>3, AnswerAdds
  <1>13. TypeOK'
    <2>1. record' \in [Key -> {NoRecord} \cup
                             [command : Command, state : {"pending", "completed"}]]
      BY <1>3, <1>8
    <2>2. phase' \in [Request -> Phase]
      BY <1>2, <1>3 DEF Phase
    <2> QED BY <1>2, <1>7, <1>12, <2>1, <2>2 DEF IndInv, TypeOK, AnswerSet
  <1>14. KeyDiscipline'
    BY <1>2, <1>4, <1>9, <1>10 DEF IndInv, TypeOK, KeyDiscipline
  <1>15. RowDiscipline'
    <2>1. \A q \in Request :
            /\ q # r /\ command[q] \in Versioned /\ phase[q] \in {"saved", "recording"}
            => Version(Target(q))' = Version(Target(q))
      <3>1. \A q \in Request :
              /\ q # r /\ command[q] \in Versioned /\ phase[q] \in {"saved", "recording"}
              => Target(q) # t
        BY <1>1, <1>2, <1>5 DEF IndInv, RowDiscipline
      <3> QED BY <1>4, <1>7, <3>1 DEF Version
    <2>2. \A q \in Request : phase[q] = "recording" => command[q] \in Versioned
      BY CommandsAssumption DEF IndInv, RowDiscipline
    <2> QED BY <1>2, <1>4, <1>10, <2>1, <2>2 DEF IndInv, RowDiscipline
  <1>16. ClientDiscipline' /\ ConflictIsFinal'
    <2>1. \A x \in Command : AggregateOf[x] \in Aggregate /\ seen[x] \in Nat
      BY <1>3, CommandsAssumption
    <2>2. ClientDiscipline'
      <3>1. \A x \in formed : seen[x] <= Version(AggregateOf[x])'
        BY <1>3, <1>7, <2>1 DEF IndInv, ClientDiscipline
      <3> QED BY <1>2, <1>10, <3>1 DEF IndInv, ClientDiscipline
    <2>3. ConflictIsFinal'
      <3> SUFFICES ASSUME NEW m \in answers', m.verdict = "conflict", m.command \notin Deferred
                   PROVE  /\ m.command \in formed \cap Versioned
                          /\ seen[m.command] < Version(AggregateOf[m.command])'
        BY <1>2 DEF ConflictIsFinal
      <3>1. m \in answers
        BY <1>12
      <3>2. /\ m.command \in formed \cap Versioned
            /\ seen[m.command] < Version(AggregateOf[m.command])
        BY <3>1 DEF IndInv, ConflictIsFinal
      <3> QED BY <1>3, <1>7, <2>1, <3>2
    <2> QED BY <2>2, <2>3
  <1>17. OneEffectPerRecord'
    BY <1>2, <1>9 DEF IndInv, OneEffectPerRecord
  <1>18. AnswersAreOwn'
    BY <1>1, <1>2, <1>11, <1>12 DEF IndInv, AnswersAreOwn, KeyFor
  <1>19. ConflictMeansNoEffect'
    BY <1>2, <1>12 DEF IndInv, ConflictMeansNoEffect
  <1> QED BY <1>7, <1>13, <1>14, <1>15, <1>16, <1>17, <1>18, <1>19 DEF IndInv

(* Nothing happens. *)
LEMMA StutterInd == ASSUME IndInv, UNCHANGED vars PROVE IndInv'
  <1> USE DEF IndInv, vars, keyVars, clientVars, requestVars
  <1>1. TypeOK' /\ KeyDiscipline' /\ RowDiscipline' /\ ClientDiscipline'
    BY DEF TypeOK, KeyDiscipline, RowDiscipline, ClientDiscipline, KeyFor, Target, Version
  <1>2. OneEffectPerRecord' /\ NoLostUpdate'
    BY DEF OneEffectPerRecord, NoLostUpdate
  <1>3. AnswersAreOwn' /\ ConflictMeansNoEffect' /\ ConflictIsFinal'
    BY SilentInd
  <1> QED BY <1>1, <1>2, <1>3

(* Every step keeps the invariant. *)
LEMMA NextInd == IndInv /\ [Next]_vars => IndInv'
  <1> SUFFICES ASSUME IndInv, [Next]_vars PROVE IndInv'
    OBVIOUS
  <1>1. ASSUME NEW c \in Command, Form(c) PROVE IndInv'
    BY <1>1, FormInd
  <1>2. ASSUME NEW r \in Request, NEW c \in Command, Begin(r, c) PROVE IndInv'
    BY <1>2, BeginInd
  <1>3. ASSUME NEW r \in Request, Progress(r) PROVE IndInv'
    <2>1. CASE Acquire(r) \/ Replay(r) \/ Conflict(r)
      BY <2>1, AcquireInd, ReplayInd, ConflictInd
    <2>2. CASE Save(r) \/ Commit(r)
      BY <2>2, SaveInd, CommitInd
    <2>3. CASE RecordDelivery(r) \/ DeliverySuperseded(r)
      BY <2>3, RecordDeliveryInd, SupersededInd
    <2>4. CASE Finalize(r) \/ FinalizeRefused(r)
      BY <2>4, FinalizeInd, RefusedInd
    <2> QED BY <1>3, <2>1, <2>2, <2>3, <2>4 DEF Progress
  <1>4. ASSUME NEW r \in Request, Rollback(r) PROVE IndInv'
    BY <1>4, RollbackInd
  <1>5. ASSUME NEW k \in Key, Expire(k) PROVE IndInv'
    BY <1>5, ExpireInd
  <1>6. CASE DeleteCompleted
    BY <1>6, DeleteCompletedInd
  <1>7. CASE UNCHANGED vars
    BY <1>7, StutterInd
  <1> QED BY <1>1, <1>2, <1>3, <1>4, <1>5, <1>6, <1>7 DEF Next

-----------------------------------------------------------------------------
(* The disciplines of keys, rows and clients hold in every state, together    *)
(* with what they are for.                                                    *)
THEOREM Inductive == Spec => []IndInv
  BY InitInd, NextInd, PTL DEF Spec

(* Every variable keeps its type. *)
THEOREM TypeCorrect == Spec => []TypeOK
  <1>1. IndInv => TypeOK
    BY DEF IndInv
  <1> QED BY <1>1, Inductive, PTL

(* However many requests carry a key, and wherever they die, one command has  *)
(* taken effect under the key's record, once (withIdempotency).               *)
THEOREM EffectOncePerRecord == Spec => []OneEffectPerRecord
  <1>1. IndInv => OneEffectPerRecord
    BY DEF IndInv
  <1> QED BY <1>1, Inductive, PTL

(* A client is never given the result of another command, although clients    *)
(* may use a key for two commands (the request hash of withIdempotency).      *)
THEOREM OwnAnswers == Spec => []AnswersAreOwn
  <1>1. IndInv => AnswersAreOwn
    BY DEF IndInv
  <1> QED BY <1>1, Inductive, PTL

(* A retry is not told version_conflict because of its own first attempt      *)
(* (the key is looked up before the version is compared).                     *)
THEOREM NoFalseConflict == Spec => []ConflictMeansNoEffect
  <1>1. IndInv => ConflictMeansNoEffect
    BY DEF IndInv
  <1> QED BY <1>1, Inductive, PTL

(* No update of an aggregate overwrites one that its author had not seen      *)
(* (UPDATE ... WHERE version = expectedVersion).                              *)
THEOREM UpdatesChain == Spec => []NoLostUpdate
  <1>1. IndInv => NoLostUpdate
    BY DEF IndInv
  <1> QED BY <1>1, Inductive, PTL

(* Effects under a key, and updates of an aggregate, are single.               *)
THEOREM SingleEffects == Spec => []EffectsAreSingle
  <1>1. TypeOK /\ OneEffectPerRecord /\ NoLostUpdate => EffectsAreSingle
    BY DEF EffectsAreSingle
  <1> QED BY TypeCorrect, EffectOncePerRecord, UpdatesChain, <1>1, PTL

(* What a client is told of its command is true.                               *)
THEOREM TrueAnswers == Spec => []AnswersAreTrue
  <1>1. AnswersAreOwn /\ ConflictMeansNoEffect => AnswersAreTrue
    BY DEF AnswersAreTrue
  <1> QED BY OwnAnswers, NoFalseConflict, <1>1, PTL

-----------------------------------------------------------------------------
(* Invitations. A row's mail, the accounts with their addresses, and the      *)
(* claims that bind the two are invariants of their own.                      *)

(* A mail under way is of the row as it is, or of an earlier version of it.   *)
MailInv ==
    /\ SentIsTheOpenToken
    /\ \A i \in Invitation : row[i].status = "absent" =>
          row[i].version = 0 /\ row[i].delivery = "pending"
    /\ \A s \in sending :
        /\ s.outcome = "sent" => <<s.invitation, s.token>> \in mailed
        /\ s.version <= row[s.invitation].version
        /\ s.version = row[s.invitation].version => s.token = row[s.invitation].token

(* An address has one account, an account one application user, and a new     *)
(* account none.                                                              *)
PeopleInv ==
    /\ \A a, b \in Account : Live(a) /\ email[a] = email[b] => a = b
    /\ \A a \in Account : mapped[a] # None => Live(a) /\ address[mapped[a]] = email[a]
    /\ \A a \in Account : Live(a) /\ mapped[a] = None => address[a] = None
    /\ \A r \in admitted : ~Live(r.account) /\ address[r.account] = None
    /\ \A r, s \in admitted : r.account = s.account => r = s
    /\ \A a \in founding : Live(a)

(* A claim is of the account that was born by it, and outlives it.            *)
ClaimInv ==
    /\ InvitedDoNotFound
    /\ \A i \in Invitation :
        /\ claim[i] = None => born[i] = {}
        /\ claim[i] \in Account => born[i] = {claim[i]}
        /\ claim[i] = Tombstone => \E a \in Account : born[i] = {a}
        /\ row[i].by # None => row[i].status = "accepted"

InvitationsInv == InvitationsTypeOK /\ MailInv /\ PeopleInv /\ ClaimInv

LEMMA InvitationsInitInd ==
  ASSUME InvitationsInit
  PROVE  InvitationsInv
  <1> USE InvitationsAssumption DEF InvitationsInit
  <1>1. InvitationsTypeOK
    BY DEF InvitationsTypeOK, Row, Status, Delivery
  <1>2. MailInv
    BY DEF MailInv, SentIsTheOpenToken
  <1>3. PeopleInv
    BY DEF PeopleInv, Live
  <1>4. ClaimInv
    BY DEF ClaimInv, InvitedDoNotFound
  <1> QED BY <1>1, <1>2, <1>3, <1>4 DEF InvitationsInv

(* Rows and mails may change beside the people and the claims.                *)
LEMMA PeopleStay ==
  ASSUME InvitationsInv, UNCHANGED <<email, mapped, address, admitted, founding>>
  PROVE  PeopleInv'
  BY DEF InvitationsInv, PeopleInv, Live

LEMMA ClaimsStay ==
  ASSUME InvitationsInv, UNCHANGED <<claim, born>>,
         founding' \subseteq founding,
         \A i \in Invitation : /\ row'[i].by = row[i].by
                               /\ row[i].status = "accepted" => row'[i].status = "accepted"
  PROVE  ClaimInv'
  BY DEF InvitationsInv, ClaimInv, InvitedDoNotFound

LEMMA MailStays ==
  ASSUME InvitationsInv, UNCHANGED <<row, sending, mailed>>
  PROVE  MailInv'
  BY DEF InvitationsInv, MailInv, SentIsTheOpenToken

(* What a step on one row leaves of the rows.                                 *)
LEMMA RowKinds ==
  ASSUME InvitationsInv, NEW i \in Invitation
  PROVE  /\ row[i].token \in 0..MaxToken /\ row[i].version \in Nat
         /\ row[i].status \in Status /\ row[i].expired \in BOOLEAN
         /\ row[i].delivery \in Delivery /\ row[i].by \in Account \cup {None}
         /\ row[i] \in Row /\ row \in [Invitation -> Row] /\ MaxToken \in Nat \ {0}
  BY InvitationsAssumption DEF InvitationsInv, InvitationsTypeOK, Row

(* A new mail, of a row that has counted up.                                  *)
LEMMA DispatchInd ==
  ASSUME InvitationsInv, NEW i \in Invitation, NEW from \in {"manager", "superadmin"},
         NEW new \in Row, row' = [row EXCEPT ![i] = new],
         new.version > row[i].version, new.token > 0, new.delivery # "sent",
         new.by = row[i].by, row[i].status # "accepted", new.status # "absent",
         Dispatch(i, from), UNCHANGED mailed
  PROVE  /\ MailInv'
         /\ sending' \subseteq Sending
         /\ row' \in [Invitation -> Row]
         /\ \A j \in Invitation : /\ row'[j].by = row[j].by
                                  /\ row[j].status = "accepted" => row'[j].status = "accepted"
  <1>1. /\ row \in [Invitation -> Row] /\ sending \subseteq Sending
        /\ row'[i] = new /\ \A j \in Invitation \ {i} : row'[j] = row[j]
    BY DEF InvitationsInv, InvitationsTypeOK
  <1>2. row[i].version \in Nat /\ new.version \in Nat /\ new.token \in 1..MaxToken
    BY RowKinds DEF Row
  <1> DEFINE d == [invitation |-> i, token |-> new.token, version |-> new.version,
                   from |-> from, outcome |-> "due"]
  <1>3. sending' = sending \cup {d} /\ d \in Sending
    BY <1>1, <1>2 DEF Dispatch, Sending
  <1>4. /\ SentIsTheOpenToken'
        /\ \A j \in Invitation : row'[j].status = "absent" =>
              row'[j].version = 0 /\ row'[j].delivery = "pending"
    BY <1>1 DEF InvitationsInv, MailInv, SentIsTheOpenToken
  <1>5. ASSUME NEW s \in sending'
        PROVE  /\ s.outcome = "sent" => <<s.invitation, s.token>> \in mailed
               /\ s.version <= row'[s.invitation].version
               /\ s.version = row'[s.invitation].version => s.token = row'[s.invitation].token
    <2>1. CASE s = d
      BY <1>1, <1>2, <2>1
    <2>2. CASE s \in sending
      <3>1. s.version \in Nat /\ s.invitation \in Invitation
        BY <1>1, <2>2 DEF Sending
      <3> QED BY <1>1, <1>2, <2>2, <3>1 DEF InvitationsInv, MailInv
    <2> QED BY <1>3, <1>5, <2>1, <2>2
  <1>6. MailInv'
    BY <1>4, <1>5 DEF MailInv
  <1> QED BY <1>1, <1>3, <1>6

(* Another step on a row, which keeps its token.                              *)
LEMMA RowStepInd ==
  ASSUME InvitationsInv, NEW i \in Invitation, NEW new \in Row,
         row' = [row EXCEPT ![i] = new],
         new.version >= row[i].version, new.token = row[i].token,
         new.status # "absent",
         new.delivery = "sent" => <<i, new.token>> \in mailed,
         sending' \subseteq sending, UNCHANGED mailed
  PROVE  /\ MailInv'
         /\ sending' \subseteq Sending
         /\ row' \in [Invitation -> Row]
  <1>1. /\ row \in [Invitation -> Row] /\ sending \subseteq Sending
        /\ row'[i] = new /\ \A j \in Invitation \ {i} : row'[j] = row[j]
    BY DEF InvitationsInv, InvitationsTypeOK
  <1>2. row[i].version \in Nat /\ new.version \in Nat
    BY RowKinds DEF Row
  <1>3. /\ SentIsTheOpenToken'
        /\ \A j \in Invitation : row'[j].status = "absent" =>
              row'[j].version = 0 /\ row'[j].delivery = "pending"
    BY <1>1 DEF InvitationsInv, MailInv, SentIsTheOpenToken
  <1>4. ASSUME NEW s \in sending'
        PROVE  /\ s.outcome = "sent" => <<s.invitation, s.token>> \in mailed
               /\ s.version <= row'[s.invitation].version
               /\ s.version = row'[s.invitation].version => s.token = row'[s.invitation].token
    <2>1. s \in sending /\ s.version \in Nat /\ s.invitation \in Invitation
      BY <1>1 DEF Sending
    <2> QED BY <1>1, <1>2, <2>1 DEF InvitationsInv, MailInv
  <1> QED BY <1>1, <1>3, <1>4 DEF MailInv

(* The actions of the mail.                                                   *)
LEMMA CreateInd ==
  ASSUME InvitationsInv, NEW i \in Invitation, Create(i)
  PROVE  InvitationsInv'
  <1> DEFINE new == [row[i] EXCEPT !.status = "open", !.token = 1, !.version = 1]
  <1>1. /\ row[i].status = "absent" /\ row[i].version = 0 /\ row[i].by = None
        /\ row[i].delivery # "sent"
    BY DEF Create, InvitationsInv, MailInv, ClaimInv
  <1>2. row' = [row EXCEPT ![i] = new] /\ new \in Row
    <2>1. row[i] \in Row /\ row \in [Invitation -> Row] /\ 1 \in 0..MaxToken
      BY RowKinds
    <2> QED BY <2>1 DEF Create, Row, Status
  <1>3. /\ MailInv' /\ sending' \subseteq Sending /\ row' \in [Invitation -> Row]
        /\ \A j \in Invitation : /\ row'[j].by = row[j].by
                                 /\ row[j].status = "accepted" => row'[j].status = "accepted"
    <2>1. /\ new.version > row[i].version /\ new.token > 0 /\ new.delivery # "sent"
          /\ new.by = row[i].by /\ row[i].status # "accepted" /\ new.status # "absent"
      BY <1>1, RowKinds DEF Row
    <2>2. Dispatch(i, "manager") /\ UNCHANGED mailed
      BY DEF Create
    <2> HIDE DEF new
    <2> QED BY <1>2, <2>1, <2>2, DispatchInd
  <1>4. PeopleInv' /\ ClaimInv'
    BY <1>3, PeopleStay, ClaimsStay DEF Create, delivery, people, places
  <1> QED BY <1>3, <1>4 DEF Create, delivery, people, places, InvitationsInv, InvitationsTypeOK,
             Live

LEMMA ResentInd ==
  ASSUME InvitationsInv, NEW i \in Invitation, NEW from \in {"manager", "superadmin"},
         Open(i), row[i].token < MaxToken, Renewed(i), Dispatch(i, from), UNCHANGED mailed
  PROVE  /\ MailInv' /\ sending' \subseteq Sending /\ row' \in [Invitation -> Row]
         /\ \A j \in Invitation : /\ row'[j].by = row[j].by
                                  /\ row[j].status = "accepted" => row'[j].status = "accepted"
  <1> DEFINE new == [row[i] EXCEPT !.token = @ + 1, !.version = @ + 1, !.expired = FALSE,
                                   !.delivery = "pending"]
  <1>1. row[i] \in Row /\ row \in [Invitation -> Row]
        /\ row[i].token \in Nat /\ row[i].version \in Nat /\ row[i].token + 1 \in 0..MaxToken
    BY RowKinds
  <1>2. row' = [row EXCEPT ![i] = new] /\ new \in Row
    BY <1>1 DEF Renewed, Row, Delivery
  <1>3. /\ new.version > row[i].version /\ new.token > 0 /\ new.delivery # "sent"
        /\ new.by = row[i].by /\ row[i].status # "accepted" /\ new.status # "absent"
    BY <1>1 DEF Open, Row
  <1> HIDE DEF new
  <1> QED BY <1>2, <1>3, DispatchInd

LEMMA ResendInd ==
  ASSUME InvitationsInv, NEW i \in Invitation, ResendInvitation(i)
  PROVE  InvitationsInv'
  <1>1. /\ MailInv' /\ sending' \subseteq Sending /\ row' \in [Invitation -> Row]
        /\ \A j \in Invitation : /\ row'[j].by = row[j].by
                                 /\ row[j].status = "accepted" => row'[j].status = "accepted"
    BY ResentInd DEF ResendInvitation
  <1>2. PeopleInv' /\ ClaimInv'
    BY <1>1, PeopleStay, ClaimsStay DEF ResendInvitation, people, places
  <1> QED BY <1>1, <1>2 DEF ResendInvitation, people, places, InvitationsInv,
             InvitationsTypeOK, Live

LEMMA ResendOrganizationInd ==
  ASSUME InvitationsInv, NEW i \in Invitation, ResendOrganizationInvitation(i)
  PROVE  InvitationsInv'
  <1>1. /\ MailInv' /\ sending' \subseteq Sending /\ row' \in [Invitation -> Row]
        /\ \A j \in Invitation : /\ row'[j].by = row[j].by
                                 /\ row[j].status = "accepted" => row'[j].status = "accepted"
    <2>1. CASE Open(i) /\ row[i].token < MaxToken
      BY <2>1, ResentInd DEF ResendOrganizationInvitation
    <2>2. CASE ~(Open(i) /\ row[i].token < MaxToken)
      BY <2>2, MailStays DEF ResendOrganizationInvitation, InvitationsInv, InvitationsTypeOK
    <2> QED BY <2>1, <2>2
  <1>2. PeopleInv' /\ ClaimInv'
    BY <1>1, PeopleStay, ClaimsStay DEF ResendOrganizationInvitation, people, places
  <1> QED BY <1>1, <1>2 DEF ResendOrganizationInvitation, people, places, InvitationsInv,
             InvitationsTypeOK, Live

LEMMA SeeUnclaimedInd ==
  ASSUME InvitationsInv, NEW i \in Invitation, SeeUnclaimed(i)
  PROVE  InvitationsInv'
  BY PeopleStay, ClaimsStay, MailStays DEF SeeUnclaimed, delivery, people, places,
     InvitationsInv, InvitationsTypeOK, Live

(* A step on one row that sends nothing.                                      *)
LEMMA RowOnlyInd ==
  ASSUME InvitationsInv, NEW i \in Invitation, NEW new \in Row,
         row' = [row EXCEPT ![i] = new],
         new.version >= row[i].version, new.token = row[i].token,
         new.status # "absent", new.by = row[i].by,
         row[i].status = "accepted" => new.status = "accepted",
         new.delivery = "sent" => <<i, new.token>> \in mailed,
         sending' \subseteq sending,
         UNCHANGED <<unclaimed, claim, mailed, admitted, people, places, born, replayed>>
  PROVE  InvitationsInv'
  <1>1. MailInv' /\ sending' \subseteq Sending /\ row' \in [Invitation -> Row]
    BY RowStepInd
  <1>2. \A j \in Invitation : /\ row'[j].by = row[j].by
                              /\ row[j].status = "accepted" => row'[j].status = "accepted"
    BY RowKinds
  <1>3. PeopleInv' /\ ClaimInv'
    BY <1>2, PeopleStay, ClaimsStay DEF people, places
  <1> QED BY <1>1, <1>3 DEF people, places, InvitationsInv, InvitationsTypeOK, Live

LEMMA RevokeInvitationInd ==
  ASSUME InvitationsInv, NEW i \in Invitation, Revoke(i)
  PROVE  InvitationsInv'
  <1> DEFINE new == [row[i] EXCEPT !.status = "revoked", !.version = @ + 1]
  <1>1. row[i] \in Row /\ row \in [Invitation -> Row] /\ row[i].version \in Nat
    BY RowKinds
  <1>2. row' = [row EXCEPT ![i] = new] /\ new \in Row
    BY <1>1 DEF Revoke, Row, Status
  <1>3. /\ new.version >= row[i].version /\ new.token = row[i].token
        /\ new.status # "absent" /\ new.by = row[i].by /\ row[i].status # "accepted"
        /\ new.delivery = "sent" => <<i, new.token>> \in mailed
    BY <1>1 DEF Revoke, Open, Row, InvitationsInv, MailInv, SentIsTheOpenToken
  <1> HIDE DEF new
  <1> QED BY <1>2, <1>3, RowOnlyInd DEF Revoke, delivery

LEMMA LinkExpiresInd ==
  ASSUME InvitationsInv, NEW i \in Invitation, LinkExpires(i)
  PROVE  InvitationsInv'
  <1> DEFINE new == [row[i] EXCEPT !.expired = TRUE]
  <1>1. row[i] \in Row /\ row \in [Invitation -> Row] /\ row[i].version \in Nat
    BY RowKinds
  <1>2. row' = [row EXCEPT ![i] = new] /\ new \in Row
    BY <1>1 DEF LinkExpires, Row
  <1>3. /\ new.version >= row[i].version /\ new.token = row[i].token
        /\ new.status # "absent" /\ new.by = row[i].by /\ row[i].status = new.status
        /\ new.delivery = "sent" => <<i, new.token>> \in mailed
    BY <1>1 DEF LinkExpires, Row, InvitationsInv, MailInv, SentIsTheOpenToken
  <1> HIDE DEF new
  <1> QED BY <1>2, <1>3, RowOnlyInd DEF LinkExpires, delivery

LEMMA DeliverInd ==
  ASSUME InvitationsInv, NEW s \in sending, Deliver(s)
  PROVE  InvitationsInv'
  <1> PICK o \in {"sent", "failed"} :
        /\ sending' = (sending \ {s}) \cup {[s EXCEPT !.outcome = o]}
        /\ mailed' = IF o = "sent" THEN mailed \cup {<<s.invitation, s.token>>} ELSE mailed
    BY DEF Deliver
  <1> DEFINE d == [s EXCEPT !.outcome = o]
  <1>1. s \in Sending /\ UNCHANGED row
    BY DEF Deliver, InvitationsInv, InvitationsTypeOK
  <1>2. d \in Sending /\ sending' \subseteq Sending /\ mailed \subseteq mailed'
        /\ mailed' \subseteq Invitation \X (1..MaxToken)
    BY <1>1 DEF Sending, InvitationsInv, InvitationsTypeOK
  <1>3. /\ d.outcome = o /\ d.invitation = s.invitation /\ d.token = s.token
        /\ d.version = s.version
    BY <1>1 DEF Sending
  <1>4. MailInv'
    <2>1. d.outcome = "sent" => <<d.invitation, d.token>> \in mailed'
      BY <1>1, <1>3
    <2>2. ASSUME NEW m \in sending'
          PROVE  /\ m.outcome = "sent" => <<m.invitation, m.token>> \in mailed'
                 /\ m.version <= row[m.invitation].version
                 /\ m.version = row[m.invitation].version => m.token = row[m.invitation].token
      <3>1. CASE m = d
        BY <1>1, <1>3, <2>1, <3>1 DEF InvitationsInv, MailInv
      <3>2. CASE m \in sending
        BY <1>2, <3>2 DEF InvitationsInv, MailInv
      <3> QED BY <3>1, <3>2
    <2>3. SentIsTheOpenToken'
      BY <1>1, <1>2 DEF InvitationsInv, MailInv, SentIsTheOpenToken
    <2> QED BY <1>1, <2>2, <2>3 DEF InvitationsInv, MailInv
  <1>5. PeopleInv' /\ ClaimInv'
    BY <1>1, PeopleStay, ClaimsStay DEF Deliver, people, places
  <1> QED BY <1>1, <1>2, <1>4, <1>5 DEF Deliver, people, places, InvitationsInv,
             InvitationsTypeOK, Live

LEMMA RecordSendingInd ==
  ASSUME InvitationsInv, NEW s \in sending, RecordSending(s)
  PROVE  InvitationsInv'
  <1> DEFINE i == s.invitation
             new == [row[i] EXCEPT !.delivery = s.outcome,
                                   !.version = IF s.from = "manager" THEN @ + 1 ELSE @]
  <1>1. /\ s \in Sending /\ i \in Invitation /\ row[i] \in Row /\ row \in [Invitation -> Row]
        /\ s.outcome \in {"sent", "failed"} /\ sending' \subseteq sending
    BY RowKinds DEF RecordSending, Sending, InvitationsInv, InvitationsTypeOK
  <1>2. CASE Recordable(s)
    <2>1. row' = [row EXCEPT ![i] = new] /\ new \in Row
      <3>1. row' = [row EXCEPT ![i] = new]
        BY <1>1, <1>2 DEF RecordSending, Row
      <3>2. row[i].version \in Nat /\ row[i].version + 1 \in Nat
        BY <1>1 DEF Row
      <3> QED BY <1>1, <3>1, <3>2 DEF Row, Delivery
    <2>2. row[i].token = s.token /\ row[i].status = "open" /\ row[i].version \in Nat
      BY <1>1, <1>2 DEF Recordable, Open, InvitationsInv, MailInv, Row
    <2>3. /\ new.version >= row[i].version /\ new.token = row[i].token
          /\ new.status # "absent" /\ new.by = row[i].by /\ row[i].status # "accepted"
          /\ new.delivery = "sent" => <<i, new.token>> \in mailed
      BY <1>1, <2>2 DEF Row, InvitationsInv, MailInv
    <2> HIDE DEF new
    <2> QED BY <1>1, <2>1, <2>3, RowOnlyInd DEF RecordSending
  <1>3. CASE ~Recordable(s)
    <2>1. MailInv'
      BY <1>1, <1>3 DEF RecordSending, InvitationsInv, MailInv, SentIsTheOpenToken
    <2>2. PeopleInv' /\ ClaimInv'
      BY <1>3, PeopleStay, ClaimsStay DEF RecordSending, people, places
    <2> QED BY <1>3, <2>1, <2>2 DEF RecordSending, people, places, InvitationsInv,
               InvitationsTypeOK, Live
  <1> QED BY <1>2, <1>3

LEMMA CrashInd ==
  ASSUME InvitationsInv, NEW s \in sending, Crash(s)
  PROVE  InvitationsInv'
  <1>1. MailInv'
    BY DEF Crash, InvitationsInv, MailInv, SentIsTheOpenToken
  <1>2. PeopleInv' /\ ClaimInv'
    BY PeopleStay, ClaimsStay DEF Crash, people, places
  <1> QED BY <1>1, <1>2 DEF Crash, people, places, InvitationsInv, InvitationsTypeOK, Live

-----------------------------------------------------------------------------
(* The accounts. The application user that an account arrives at is nobody    *)
(* else's, whatever address was used before.                                  *)
LEMMA PersonIsOwn ==
  ASSUME InvitationsInv, NEW a \in Account, Live(a)
  PROVE  /\ Person(a) \in Account
         /\ mapped[a] # None => Person(a) = mapped[a]
         /\ \A b \in Account \ {a} : mapped[b] # Person(a)
         /\ \A b \in Account \ {a} : Live(b) /\ mapped[b] = None => b # Person(a)
         /\ \A r \in admitted : r.account # Person(a)
  <1> DEFINE p == Person(a)
  <1>1. email[a] # None /\ mapped \in [Account -> Account \cup {None}]
    BY DEF Live, InvitationsInv, InvitationsTypeOK
  <1>2. CASE p \in Account /\ address[p] = email[a] /\ (mapped[a] # None => p = mapped[a])
    <2> HIDE DEF p
    <2>1. ASSUME NEW b \in Account \ {a}, mapped[b] = p
          PROVE  FALSE
      <3>1. Live(b) /\ address[p] = email[b]
        BY <1>2, <2>1, InvitationsAssumption DEF InvitationsInv, PeopleInv
      <3> QED BY <1>2, <3>1 DEF InvitationsInv, PeopleInv
    <2>2. ASSUME NEW b \in Account, address[b] = None
          PROVE  b # p
      BY <1>1, <1>2, <2>2
    <2>3. \A r \in admitted : r.account \in Account /\ address[r.account] = None
      BY DEF InvitationsInv, InvitationsTypeOK, PeopleInv
    <2>4. \A b \in Account \ {a} : Live(b) /\ mapped[b] = None => b # p
      BY <2>2 DEF InvitationsInv, PeopleInv
    <2>5. \A r \in admitted : r.account # p
      BY <2>2, <2>3
    <2>6. p \in Account /\ (mapped[a] # None => p = mapped[a])
      BY <1>2
    <2>7. \A b \in Account \ {a} : mapped[b] # p
      BY <2>1
    <2> QED BY <2>4, <2>5, <2>6, <2>7 DEF p
  <1>3. CASE mapped[a] # None
    BY <1>1, <1>2, <1>3 DEF Person, InvitationsInv, PeopleInv
  <1>4. CASE mapped[a] = None /\ \E q \in Account : address[q] = email[a]
    BY <1>1, <1>2, <1>4 DEF Person
  <1>5. CASE mapped[a] = None /\ ~\E q \in Account : address[q] = email[a]
    <2>1. p = a /\ address[a] = None
      BY <1>5 DEF Person, InvitationsInv, PeopleInv
    <2>2. \A b \in Account \ {a} : mapped[b] # a
      BY <1>1, <2>1, InvitationsAssumption DEF InvitationsInv, PeopleInv, Live
    <2> QED BY <1>5, <2>1, <2>2 DEF InvitationsInv, PeopleInv
  <1> QED BY <1>3, <1>4, <1>5

LEMMA MappedInd ==
  ASSUME InvitationsInv, NEW a \in verified, MapTo(a, Person(a)),
         UNCHANGED <<email, admitted>>, founding' \subseteq founding \cup {a}
  PROVE  /\ PeopleInv'
         /\ mapped' \in [Account -> Account \cup {None}]
         /\ address' \in [Account -> Email \cup {None}]
  <1> DEFINE p == Person(a)
  <1>1. a \in Account /\ Live(a)
    BY DEF InvitationsInv, InvitationsTypeOK
  <1>2. /\ p \in Account
        /\ \A b \in Account \ {a} : mapped[b] # p
        /\ \A b \in Account \ {a} : Live(b) /\ mapped[b] = None => b # p
        /\ \A r \in admitted : r.account # p
    BY <1>1, PersonIsOwn
  <1>3. /\ mapped' \in [Account -> Account \cup {None}]
        /\ address' \in [Account -> Email \cup {None}]
        /\ mapped'[a] = p /\ address'[p] = email[a]
        /\ \A b \in Account \ {a} : mapped'[b] = mapped[b]
        /\ \A b \in Account \ {p} : address'[b] = address[b]
    BY <1>1, <1>2 DEF MapTo, InvitationsInv, InvitationsTypeOK
  <1>4. \A b \in Account : Live(b)' <=> Live(b)
    BY DEF Live
  <1>5. p # None
    BY <1>2, InvitationsAssumption
  <1>6. \A b \in Account : mapped'[b] # None => Live(b) /\ address'[mapped'[b]] = email[b]
    BY <1>1, <1>2, <1>3 DEF InvitationsInv, InvitationsTypeOK, PeopleInv
  <1>7. \A b \in Account : Live(b) /\ mapped'[b] = None => address'[b] = None
    BY <1>2, <1>3, <1>5 DEF InvitationsInv, PeopleInv
  <1>8. \A r \in admitted : ~Live(r.account) /\ address'[r.account] = None
    BY <1>2, <1>3 DEF InvitationsInv, InvitationsTypeOK, PeopleInv
  <1>9. \A b \in founding' : Live(b)
    BY <1>1 DEF InvitationsInv, PeopleInv
  <1> HIDE DEF p
  <1> QED BY <1>3, <1>4, <1>6, <1>7, <1>8, <1>9 DEF InvitationsInv, PeopleInv, Live

LEMMA AdmitAccountInd ==
  ASSUME InvitationsInv, NEW a \in Account, NEW i \in Invitation, Admit(a, i)
  PROVE  InvitationsInv'
  <1> DEFINE new == [account |-> a, invitation |-> i, token |-> row[i].token]
  <1>1. /\ ~Live(a) /\ address[a] = None /\ \A r \in admitted : r.account # a
        /\ new \in [account : Account, invitation : Invitation, token : 1..MaxToken]
    BY DEF Admit, Fresh, InvitationsInv, InvitationsTypeOK
  <1>2. PeopleInv'
    BY <1>1 DEF Admit, people, places, InvitationsInv, PeopleInv, Live
  <1>3. MailInv' /\ ClaimInv'
    BY MailStays, ClaimsStay DEF Admit, delivery, people, places
  <1> QED BY <1>1, <1>2, <1>3 DEF Admit, delivery, people, places, InvitationsInv,
             InvitationsTypeOK, Live

(* A new account gets an address that is free.                                *)
LEMMA NewAccount ==
  ASSUME InvitationsInv, NEW a \in Account, NEW e \in Email, ~Live(a), address[a] = None,
         Free(e), email' = [email EXCEPT ![a] = e], admitted' \subseteq admitted,
         \A r \in admitted' : r.account # a, UNCHANGED <<mapped, address, founding>>
  PROVE  /\ PeopleInv'
         /\ email' \in [Account -> Email \cup {None}]
         /\ \A b \in Account : Live(b) => Live(b)'
  <1>1. /\ email' \in [Account -> Email \cup {None}] /\ email'[a] = e
        /\ \A b \in Account \ {a} : email'[b] = email[b]
    BY DEF InvitationsInv, InvitationsTypeOK
  <1>2. mapped[a] = None
    BY DEF InvitationsInv, PeopleInv
  <1>3. \A b, c \in Account : Live(b)' /\ email'[b] = email'[c] => b = c
    BY <1>1 DEF Free, Live, InvitationsInv, PeopleInv
  <1>4. \A b \in Account : mapped[b] # None => Live(b)' /\ address[mapped[b]] = email'[b]
    BY <1>1, <1>2 DEF Live, InvitationsInv, PeopleInv
  <1>5. \A b \in Account : Live(b)' /\ mapped[b] = None => address[b] = None
    BY <1>1 DEF Live, InvitationsInv, PeopleInv
  <1>6. \A r \in admitted' : ~Live(r.account)' /\ address[r.account] = None
    BY <1>1 DEF Live, InvitationsInv, InvitationsTypeOK, PeopleInv
  <1>7. \A b \in Account : Live(b) => Live(b)'
    BY <1>1, InvitationsAssumption DEF Live
  <1>8. \A b \in founding : Live(b)'
    BY <1>7 DEF InvitationsInv, InvitationsTypeOK, PeopleInv
  <1> QED BY <1>1, <1>3, <1>4, <1>5, <1>6, <1>7, <1>8 DEF PeopleInv, InvitationsInv

LEMMA RegisterInd ==
  ASSUME InvitationsInv, NEW r \in admitted, Register(r)
  PROVE  InvitationsInv'
  <1> DEFINE a == r.account
             i == r.invitation
  <1>1. /\ a \in Account /\ i \in Invitation /\ ~Live(a) /\ address[a] = None
        /\ admitted' \subseteq admitted /\ \A s \in admitted' : s.account # a
        /\ a \notin founding /\ Address[i] \in Email
    BY InvitationsAssumption DEF Register, InvitationsInv, InvitationsTypeOK, PeopleInv
  <1>2. MailInv'
    BY MailStays DEF Register, delivery
  <1>3. CASE Claimable(r) /\ Free(Address[i])
    <2>1. /\ claim[i] = None /\ born[i] = {} /\ row[i].by = None
          /\ claim' = [claim EXCEPT ![i] = a] /\ email' = [email EXCEPT ![a] = Address[i]]
          /\ born' = [born EXCEPT ![i] = @ \cup {a}]
      BY <1>1, <1>3 DEF Register, Claimable, Acceptable, Open, InvitationsInv, ClaimInv
    <2>2. /\ PeopleInv' /\ email' \in [Account -> Email \cup {None}]
          /\ \A b \in Account : Live(b) => Live(b)'
      BY <1>1, <1>3, <2>1, NewAccount DEF Register, places
    <2>3. /\ claim' \in [Invitation -> Account \cup {None, Tombstone}]
          /\ born' \in [Invitation -> SUBSET Account]
          /\ claim'[i] = a /\ born'[i] = {a}
          /\ \A j \in Invitation \ {i} : claim'[j] = claim[j] /\ born'[j] = born[j]
      BY <1>1, <2>1 DEF InvitationsInv, InvitationsTypeOK
    <2>4. ClaimInv'
      BY <1>1, <2>3, InvitationsAssumption DEF Register, places, InvitationsInv, ClaimInv,
         InvitedDoNotFound
    <2> QED BY <1>1, <1>2, <2>2, <2>3, <2>4 DEF Register, delivery, places, InvitationsInv,
               InvitationsTypeOK
  <1>4. CASE ~(Claimable(r) /\ Free(Address[i]))
    <2>1. PeopleInv'
      BY <1>1, <1>4 DEF Register, places, InvitationsInv, PeopleInv, Live
    <2>2. ClaimInv'
      BY <1>4, ClaimsStay DEF Register, places
    <2> QED BY <1>1, <1>2, <1>4, <2>1, <2>2 DEF Register, delivery, places, InvitationsInv,
               InvitationsTypeOK, Live
  <1> QED BY <1>3, <1>4

LEMMA RegisterOpenlyInd ==
  ASSUME InvitationsInv, NEW a \in Account, NEW e \in Email, RegisterOpenly(a, e)
  PROVE  InvitationsInv'
  <1>1. /\ PeopleInv' /\ email' \in [Account -> Email \cup {None}]
        /\ \A b \in Account : Live(b) => Live(b)'
    BY NewAccount DEF RegisterOpenly, Fresh, places
  <1>2. MailInv' /\ ClaimInv'
    BY MailStays, ClaimsStay DEF RegisterOpenly, delivery, places
  <1> QED BY <1>1, <1>2 DEF RegisterOpenly, delivery, places, InvitationsInv, InvitationsTypeOK

LEMMA VerifyInd ==
  ASSUME InvitationsInv, NEW a \in Account, Verify(a)
  PROVE  InvitationsInv'
  BY MailStays, ClaimsStay, PeopleStay DEF Verify, delivery, places, InvitationsInv,
     InvitationsTypeOK, Live

LEMMA ChangeEmailInd ==
  ASSUME InvitationsInv, NEW a \in Account, NEW e \in Email, ChangeEmail(a, e)
  PROVE  InvitationsInv'
  <1> DEFINE p == mapped[a]
  <1>1. /\ Live(a) /\ email' \in [Account -> Email \cup {None}] /\ email'[a] = e
        /\ \A b \in Account \ {a} : email'[b] = email[b]
        /\ address' \in [Account -> Email \cup {None}]
        /\ mapped \in [Account -> Account \cup {None}]
    BY DEF ChangeEmail, InvitationsInv, InvitationsTypeOK
  <1>2. \A b \in Account : Live(b)' <=> Live(b)
    BY <1>1, InvitationsAssumption DEF Live
  <1>3. /\ p = None => address' = address
        /\ p # None => p \in Account /\ address'[p] = e
                       /\ \A q \in Account \ {p} : address'[q] = address[q]
    BY <1>1 DEF ChangeEmail, InvitationsInv, InvitationsTypeOK
  <1>4. \A b \in Account \ {a} : p # None => mapped[b] # p
    BY <1>1 DEF Live, InvitationsInv, PeopleInv
  <1>5. \A b, c \in Account : Live(b)' /\ email'[b] = email'[c] => b = c
    BY <1>1, <1>2 DEF ChangeEmail, Free, Live, InvitationsInv, PeopleInv
  <1>6. \A b \in Account : mapped[b] # None => Live(b)' /\ address'[mapped[b]] = email'[b]
    BY <1>1, <1>2, <1>3, <1>4 DEF InvitationsInv, PeopleInv
  <1>7. p # None => /\ address[p] # None
                    /\ \A b \in Account : Live(b) /\ mapped[b] = None => b # p
                    /\ \A r \in admitted : r.account # p
    BY <1>1 DEF Live, InvitationsInv, PeopleInv
  <1>8. \A b \in Account : Live(b)' /\ mapped[b] = None => address'[b] = None
    BY <1>2, <1>3, <1>7 DEF InvitationsInv, PeopleInv
  <1>9. \A r \in admitted : ~Live(r.account)' /\ address'[r.account] = None
    BY <1>2, <1>3, <1>7 DEF InvitationsInv, InvitationsTypeOK, PeopleInv
  <1>10. PeopleInv'
    BY <1>2, <1>5, <1>6, <1>8, <1>9 DEF ChangeEmail, places, InvitationsInv,
       InvitationsTypeOK, PeopleInv
  <1>11. MailInv' /\ ClaimInv'
    BY MailStays, ClaimsStay DEF ChangeEmail, delivery, places
  <1> QED BY <1>1, <1>2, <1>10, <1>11 DEF ChangeEmail, delivery, places, InvitationsInv,
             InvitationsTypeOK

(* The claim of an account that is gone stays, as a tombstone.                *)
LEMMA ReleasedClaims ==
  ASSUME InvitationsInv, NEW a \in Account, claim' = Released(a), UNCHANGED born,
         \A i \in Invitation : row'[i].by # None => row'[i].status = "accepted",
         \A i \in Invitation : row[i].status = "accepted" => row'[i].status = "accepted",
         founding' \subseteq founding
  PROVE  ClaimInv' /\ claim' \in [Invitation -> Account \cup {None, Tombstone}]
  <1>1. /\ claim' \in [Invitation -> Account \cup {None, Tombstone}]
        /\ \A i \in Invitation : claim'[i] = IF claim[i] = a THEN Tombstone ELSE claim[i]
    BY DEF Released, InvitationsInv, InvitationsTypeOK
  <1>2. InvitedDoNotFound'
    BY <1>1, InvitationsAssumption DEF InvitedDoNotFound, InvitationsInv, ClaimInv
  <1>3. \A i \in Invitation : /\ claim'[i] = None => born[i] = {}
                              /\ claim'[i] \in Account => born[i] = {claim'[i]}
                              /\ claim'[i] = Tombstone => \E b \in Account : born[i] = {b}
    BY <1>1, InvitationsAssumption DEF InvitationsInv, ClaimInv
  <1> QED BY <1>1, <1>2, <1>3 DEF ClaimInv

LEMMA DeleteAccountInd ==
  ASSUME InvitationsInv, NEW a \in Account, DeleteAccount(a)
  PROVE  InvitationsInv'
  <1>1. /\ email' \in [Account -> Email \cup {None}] /\ email'[a] = None
        /\ \A b \in Account \ {a} : email'[b] = email[b]
        /\ mapped' \in [Account -> Account \cup {None}] /\ mapped'[a] = None
        /\ \A b \in Account \ {a} : mapped'[b] = mapped[b]
        /\ founding' = founding \ {a} /\ verified' = verified \ {a}
        /\ UNCHANGED <<address, admitted>>
    BY DEF DeleteAccount, NotVerified, InvitationsInv, InvitationsTypeOK
  <1>2. /\ ~Live(a)' /\ \A b \in Account \ {a} : Live(b)' <=> Live(b)
    BY <1>1 DEF Live
  <1>3. PeopleInv'
    <2>1. \A b, c \in Account : Live(b)' /\ email'[b] = email'[c] => b = c
      BY <1>1, <1>2 DEF Live, InvitationsInv, PeopleInv
    <2>2. \A b \in Account : mapped'[b] # None => Live(b)' /\ address[mapped'[b]] = email'[b]
      BY <1>1, <1>2 DEF InvitationsInv, PeopleInv
    <2>3. \A b \in Account : Live(b)' /\ mapped'[b] = None => address[b] = None
      BY <1>1, <1>2 DEF InvitationsInv, PeopleInv
    <2>4. \A r \in admitted : ~Live(r.account)' /\ address[r.account] = None
      BY <1>2 DEF InvitationsInv, InvitationsTypeOK, PeopleInv
    <2>5. \A b \in founding' : Live(b)'
      BY <1>1, <1>2 DEF InvitationsInv, InvitationsTypeOK, PeopleInv
    <2> QED BY <1>1, <2>1, <2>2, <2>3, <2>4, <2>5 DEF InvitationsInv, PeopleInv
  <1>4. ClaimInv' /\ claim' \in [Invitation -> Account \cup {None, Tombstone}]
    BY <1>1, ReleasedClaims DEF DeleteAccount, InvitationsInv, ClaimInv
  <1>5. MailInv'
    BY MailStays DEF DeleteAccount, delivery
  <1> QED BY <1>1, <1>2, <1>3, <1>4, <1>5 DEF DeleteAccount, delivery, InvitationsInv,
             InvitationsTypeOK

LEMMA AcceptUnacceptedInd ==
  ASSUME InvitationsInv, NEW a \in Account, NEW i \in Invitation, AcceptUnaccepted(a, i)
  PROVE  InvitationsInv'
  <1> DEFINE p == Person(a)
             new == [row[i] EXCEPT !.status = "accepted", !.by = p, !.version = @ + 1]
  <1>1. a \in verified /\ Live(a) /\ p \in Account
    BY PersonIsOwn DEF AcceptUnaccepted, InvitationsInv, InvitationsTypeOK
  <1>2. /\ PeopleInv' /\ mapped' \in [Account -> Account \cup {None}]
        /\ address' \in [Account -> Email \cup {None}]
    BY <1>1, MappedInd DEF AcceptUnaccepted
  <1> HIDE DEF p
  <1>3. row[i] \in Row /\ row \in [Invitation -> Row] /\ row[i].version \in Nat
    BY RowKinds
  <1>4. row' = [row EXCEPT ![i] = new]
    BY <1>3 DEF AcceptUnaccepted, Row, p
  <1>5. new \in Row
    <2>1. row[i].version + 1 \in Nat
      BY <1>3
    <2> QED BY <1>1, <1>3, <2>1 DEF Row, Status
  <1>6. /\ new.version >= row[i].version /\ new.token = row[i].token
        /\ new.status = "accepted" /\ new.by = p
        /\ new.delivery = "sent" => <<i, new.token>> \in mailed
    BY <1>3 DEF Row, InvitationsInv, MailInv, SentIsTheOpenToken
  <1>7. /\ row'[i] = new /\ \A j \in Invitation \ {i} : row'[j] = row[j]
    BY <1>3, <1>4
  <1> HIDE DEF new
  <1>8. MailInv' /\ row' \in [Invitation -> Row]
    BY <1>4, <1>5, <1>6, RowStepInd DEF AcceptUnaccepted, delivery
  <1>9. ClaimInv' /\ claim' \in [Invitation -> Account \cup {None, Tombstone}]
    <2>1. \A j \in Invitation : /\ row'[j].by # None => row'[j].status = "accepted"
                                /\ row[j].status = "accepted" => row'[j].status = "accepted"
      BY <1>6, <1>7 DEF InvitationsInv, ClaimInv
    <2> QED BY <2>1, ReleasedClaims DEF AcceptUnaccepted
  <1>10. member' \in [Organization -> [Account -> {"none", "active", "removed"}]]
    <2>1. member' = [member EXCEPT ![Org[i]][p] = "active"]
      BY DEF AcceptUnaccepted, p
    <2>2. Org[i] \in Organization
      BY InvitationsAssumption
    <2> QED BY <1>1, <2>1, <2>2 DEF InvitationsInv, InvitationsTypeOK
  <1> QED BY <1>2, <1>8, <1>9, <1>10 DEF AcceptUnaccepted, delivery, InvitationsInv,
             InvitationsTypeOK, Live

LEMMA ReplayedAcceptanceInd ==
  ASSUME InvitationsInv, NEW a \in Account, NEW i \in Invitation, ReplayAcceptedInvitation(a, i)
  PROVE  InvitationsInv'
  BY PeopleStay, ClaimsStay, MailStays DEF ReplayAcceptedInvitation, ReplayEffect, delivery,
     people, InvitationsInv, InvitationsTypeOK, Live

LEMMA CompleteOnboardingInd ==
  ASSUME InvitationsInv, NEW a \in Account, CompleteOnboarding(a)
  PROVE  InvitationsInv'
  <1> DEFINE p == Person(a)
  <1>1. a \in verified /\ Live(a) /\ p \in Account
    BY PersonIsOwn DEF CompleteOnboarding, InvitationsInv, InvitationsTypeOK
  <1>2. /\ PeopleInv' /\ mapped' \in [Account -> Account \cup {None}]
        /\ address' \in [Account -> Email \cup {None}]
    BY <1>1, MappedInd DEF CompleteOnboarding
  <1>3. ClaimInv'
    BY DEF CompleteOnboarding, PendingClaim, InvitationsInv, ClaimInv, InvitedDoNotFound
  <1>4. MailInv'
    BY MailStays DEF CompleteOnboarding, delivery
  <1> HIDE DEF p
  <1>5. founder' = founder \cup {p} /\ founding' = founding \cup {a}
    BY DEF CompleteOnboarding, p
  <1> QED BY <1>1, <1>2, <1>3, <1>4, <1>5 DEF CompleteOnboarding, delivery, InvitationsInv,
             InvitationsTypeOK, Live

LEMMA RemoveMemberInd ==
  ASSUME InvitationsInv, NEW o \in Organization, NEW p \in Account, RemoveMember(o, p)
  PROVE  InvitationsInv'
  BY PeopleStay, ClaimsStay, MailStays DEF RemoveMember, delivery, people, InvitationsInv,
     InvitationsTypeOK, Live

LEMMA InvitationsStepInd ==
  ASSUME InvitationsInv, [InvitationsNext]_invitationsVars
  PROVE  InvitationsInv'
  <1>1. CASE \E i \in Invitation :
               \/ Create(i) \/ ResendInvitation(i)
               \/ SeeUnclaimed(i) \/ ResendOrganizationInvitation(i)
               \/ Revoke(i) \/ LinkExpires(i)
    BY <1>1, CreateInd, ResendInd, SeeUnclaimedInd, ResendOrganizationInd, RevokeInvitationInd,
       LinkExpiresInd
  <1>2. CASE \E s \in sending : Deliver(s) \/ RecordSending(s) \/ Crash(s)
    BY <1>2, DeliverInd, RecordSendingInd, CrashInd
  <1>3. CASE \E r \in admitted : Register(r)
    BY <1>3, RegisterInd
  <1>4. CASE \E a \in Account :
               \/ Verify(a) \/ DeleteAccount(a) \/ CompleteOnboarding(a)
               \/ \E e \in Email : RegisterOpenly(a, e) \/ ChangeEmail(a, e)
    BY <1>4, VerifyInd, DeleteAccountInd, CompleteOnboardingInd, RegisterOpenlyInd,
       ChangeEmailInd
  <1>5. CASE \E a \in Account, i \in Invitation :
               \/ Admit(a, i) \/ AcceptInvitation(a, i) \/ AcceptClaimedInvitation(a, i)
               \/ ReplayAcceptedInvitation(a, i)
    BY <1>5, AdmitAccountInd, AcceptUnacceptedInd, ReplayedAcceptanceInd
       DEF AcceptInvitation, AcceptClaimedInvitation
  <1>6. CASE \E a \in Account, o \in Organization : RemoveMember(o, a)
    BY <1>6, RemoveMemberInd
  <1>7. CASE UNCHANGED invitationsVars
    BY <1>7, PeopleStay, ClaimsStay, MailStays DEF invitationsVars, delivery, people, places,
       InvitationsInv, InvitationsTypeOK, Live
  <1> QED BY <1>1, <1>2, <1>3, <1>4, <1>5, <1>6, <1>7 DEF InvitationsNext

(* The invariant of invitations and accounts.                                 *)
THEOREM InvitationsInductive == InvitationsSpec => []InvitationsInv
  BY InvitationsInitInd, InvitationsStepInd, PTL DEF InvitationsSpec

(* One account for an invitation, none that waits has founded an organization, *)
(* and what is shown as sent can be opened: for any accounts and invitations. *)
THEOREM InvitationsAgree == InvitationsSpec => []InvitationsConsistent
  <1>1. ASSUME InvitationsInv PROVE OneAccountPerInvitation
    <2> SUFFICES ASSUME NEW i \in Invitation PROVE Cardinality(born[i]) <= 1
      BY DEF OneAccountPerInvitation
    <2>1. born[i] = {} \/ \E a \in Account : born[i] = {a}
      BY <1>1 DEF InvitationsInv, InvitationsTypeOK, ClaimInv
    <2> QED BY <2>1, FS_EmptySet, FS_Singleton
  <1>2. InvitationsInv => InvitationsConsistent
    BY <1>1 DEF InvitationsInv, InvitationsConsistent, ClaimInv, MailInv
  <1> QED BY InvitationsInductive, <1>2, PTL

-----------------------------------------------------------------------------
(* Who comes in, comes in by an acceptance or an onboarding.                  *)
LEMMA AcceptedByItsAccount ==
  ASSUME InvitationsInv, NEW b \in Account, NEW j \in Invitation, AcceptUnaccepted(b, j),
         NEW i \in Invitation, NEW a \in Account,
         row[i].by = None, row'[i].by # None, mapped'[a] = row'[i].by
  PROVE  born[i] \subseteq {a}
  <1>1. Live(b) /\ Person(b) \in Account /\ mapped \in [Account -> Account \cup {None}]
        /\ \A c \in Account \ {b} : mapped[c] # Person(b)
    BY PersonIsOwn DEF AcceptUnaccepted, InvitationsInv, InvitationsTypeOK
  <1>2. row \in [Invitation -> Row]
    BY RowKinds
  <1>3. i = j /\ row'[i].by = Person(b)
    BY <1>2 DEF AcceptUnaccepted, Row
  <1>4. a = b
    BY <1>1, <1>3 DEF AcceptUnaccepted, MapTo
  <1> QED BY <1>3, <1>4, InvitationsAssumption DEF AcceptUnaccepted, ClaimAllows,
             InvitationsInv, ClaimInv

(* No other step names who accepted, or makes somebody a member.              *)
LEMMA OthersAccept ==
  ASSUME InvitationsInv, [InvitationsNext]_invitationsVars,
         ~\E a \in Account, i \in Invitation : AcceptUnaccepted(a, i)
  PROVE  /\ \A i \in Invitation : row'[i].by = row[i].by
         /\ \A o \in Organization, p \in Account :
               member'[o][p] = "active" => member[o][p] = "active"
  <1>1. row \in [Invitation -> Row]
    BY DEF InvitationsInv, InvitationsTypeOK
  <1>2. \A i \in Invitation : row'[i].by = row[i].by
    <2>1. CASE \E i \in Invitation :
                 \/ Create(i) \/ ResendInvitation(i)
                 \/ SeeUnclaimed(i) \/ ResendOrganizationInvitation(i)
                 \/ Revoke(i) \/ LinkExpires(i)
      BY <1>1, <2>1 DEF Create, ResendInvitation, SeeUnclaimed, ResendOrganizationInvitation,
         Renewed, Revoke, LinkExpires, Row
    <2>2. CASE \E s \in sending : RecordSending(s)
      BY <1>1, <2>2 DEF RecordSending, Row
    <2>3. CASE UNCHANGED row
      BY <2>3
    <2> QED BY <2>1, <2>2, <2>3 DEF InvitationsNext, invitationsVars, Deliver, Crash, Register,
               Verify, DeleteAccount, CompleteOnboarding, RegisterOpenly, ChangeEmail, Admit,
               AcceptInvitation, AcceptClaimedInvitation, ReplayAcceptedInvitation, RemoveMember
  <1>3. \A o \in Organization, p \in Account :
           member'[o][p] = "active" => member[o][p] = "active"
    <2>1. CASE \E o \in Organization, p \in Account : RemoveMember(o, p)
      BY <2>1 DEF RemoveMember, InvitationsInv, InvitationsTypeOK
    <2>2. CASE UNCHANGED member
      BY <2>2
    <2> QED BY <2>1, <2>2, ZenonT(40) DEF InvitationsNext, invitationsVars, places, Create,
               ResendInvitation, SeeUnclaimed, ResendOrganizationInvitation, Revoke, LinkExpires,
               Deliver, RecordSending, Crash, Register, Verify, DeleteAccount,
               CompleteOnboarding, RegisterOpenly, ChangeEmail, Admit, AcceptInvitation,
               AcceptClaimedInvitation, ReplayAcceptedInvitation, ReplayEffect
  <1> QED BY <1>2, <1>3

LEMMA FoundersStep ==
  ASSUME InvitationsInv, [InvitationsNext]_invitationsVars
  PROVE  \A p \in founder' \ founder : \A o \in Organization : member[o][p] # "active"
  <1>1. CASE \E a \in Account : CompleteOnboarding(a)
    BY <1>1 DEF CompleteOnboarding, IsMember
  <1>2. CASE UNCHANGED founder
    BY <1>2
  <1>3. CASE \E i \in Invitation :
               \/ Create(i) \/ ResendInvitation(i)
               \/ SeeUnclaimed(i) \/ ResendOrganizationInvitation(i)
               \/ Revoke(i) \/ LinkExpires(i)
    BY <1>2, <1>3 DEF places, Create, ResendInvitation, SeeUnclaimed,
       ResendOrganizationInvitation, Revoke, LinkExpires
  <1>4. CASE \/ \E s \in sending : Deliver(s) \/ RecordSending(s) \/ Crash(s)
             \/ \E r \in admitted : Register(r)
    BY <1>2, <1>4 DEF places, Deliver, RecordSending, Crash, Register
  <1>5. CASE \E a \in Account :
               \/ Verify(a) \/ DeleteAccount(a)
               \/ \E e \in Email : RegisterOpenly(a, e) \/ ChangeEmail(a, e)
               \/ \E o \in Organization : RemoveMember(o, a)
    BY <1>2, <1>5 DEF places, Verify, DeleteAccount, RegisterOpenly, ChangeEmail, RemoveMember
  <1>6. CASE \E a \in Account, i \in Invitation :
               \/ Admit(a, i) \/ AcceptInvitation(a, i) \/ AcceptClaimedInvitation(a, i)
               \/ ReplayAcceptedInvitation(a, i)
    BY <1>2, <1>6 DEF places, Admit, AcceptInvitation, AcceptClaimedInvitation,
       AcceptUnaccepted, ReplayAcceptedInvitation
  <1>7. CASE UNCHANGED invitationsVars
    BY <1>2, <1>7 DEF places, invitationsVars
  <1> QED BY <1>1, <1>3, <1>4, <1>5, <1>6, <1>7 DEF InvitationsNext

LEMMA ReturnsStep ==
  ASSUME InvitationsInv, [InvitationsNext]_invitationsVars, NEW o \in Organization,
         NEW p \in Account, member[o][p] # "active", member'[o][p] = "active"
  PROVE  \E i \in Invitation : Org[i] = o /\ row[i].by = None /\ row'[i].by = p
  <1>1. PICK a \in Account, i \in Invitation : AcceptUnaccepted(a, i)
    BY OthersAccept
  <1>2. row[i] \in Row /\ row \in [Invitation -> Row]
    BY RowKinds
  <1>3. row'[i].by = Person(a) /\ row[i].by = None
    BY <1>1, <1>2 DEF AcceptUnaccepted, Acceptable, Open, Row, InvitationsInv, ClaimInv
  <1>4. Org[i] = o /\ Person(a) = p
    BY <1>1 DEF AcceptUnaccepted, InvitationsInv, InvitationsTypeOK
  <1> QED BY <1>3, <1>4

(* A membership, or an organization of one's own, comes about in one way: for *)
(* any accounts, invitations and organizations.                               *)
THEOREM MembersHaveEarnedIt == InvitationsSpec => MembershipsAreEarned
  <1>1. ASSUME InvitationsInv, [InvitationsNext]_invitationsVars
        PROVE  \A i \in Invitation, a \in Account :
                 (row[i].by = None /\ row'[i].by # None /\ mapped'[a] = row'[i].by)
                    => born[i] \subseteq {a}
    BY <1>1, AcceptedByItsAccount, OthersAccept
  <1>2. InvitationsInv /\ [InvitationsNext]_invitationsVars
          => [\A i \in Invitation, a \in Account :
                 (row[i].by = None /\ row'[i].by # None /\ mapped'[a] = row'[i].by)
                    => born[i] \subseteq {a}]_invitationsVars
    BY <1>1
  <1>3. InvitationsInv /\ [InvitationsNext]_invitationsVars
          => [\A p \in founder' \ founder : \A o \in Organization :
                 member[o][p] # "active"]_invitationsVars
    BY FoundersStep
  <1>4. InvitationsInv /\ [InvitationsNext]_invitationsVars
          => [\A o \in Organization, p \in Account :
                 (member[o][p] # "active" /\ member'[o][p] = "active") =>
                    \E i \in Invitation : Org[i] = o /\ row[i].by = None
                                          /\ row'[i].by = p]_invitationsVars
    BY ReturnsStep
  <1> QED BY InvitationsInductive, <1>2, <1>3, <1>4, PTL
          DEF InvitationsSpec, MembershipsAreEarned, OnlyItsAccountAccepts,
              FoundersBelongNowhere, RemovedStayOut

-----------------------------------------------------------------------------
(* The change of a login address, for every number of accounts, addresses,     *)
(* requests and connections: one request at a time has an account's lock, and  *)
(* what the profile and the usable link of the account are follows from the    *)
(* step it has reached.                                                        *)

(* The steps at which a request holds the lock of its account.                 *)
LockedSteps == {"locked", "vacant", "retired", "recorded", "remembered", "undelivered",
                "forgotten", "consumed", "applied", "finished"}

(* The link that a request sends, and what a profile shows of a link.          *)
linkOut(u) == IF u.kind = "start" THEN u.link ELSE [u.link EXCEPT !.stage = "verify-new"]
Showing(link) == [email |-> link.email, stage |-> link.stage, change |-> link.change]

(* A request's link, its kind and the steps it takes go together; a change of   *)
(* the profile is under the lock.                                              *)
Regular(r, u) ==
    /\ u.locked <=> u.step \in LockedSteps
    /\ u.kind = "start" => /\ u.link \in Link /\ u.link.account = u.account
                           /\ u.link.stage = "confirm-current" /\ u.link.change = r
    /\ u.kind = "open" => u.link \in Link /\ u.link.account = u.account
    /\ u.step \in {"vacant", "retired", "forgotten"} => u.kind = "start"
    /\ u.step \in {"recorded", "remembered", "undelivered"} =>
          u.kind = "start" \/ (u.kind = "open" /\ u.link.stage = "confirm-current")
    /\ u.step \in {"consumed", "applied"} => u.kind = "open"

(* One request has the lock of an account.                                     *)
OneLock ==
    \A r, q \in EmailRequest :
        job[r].locked /\ job[q].locked /\ job[r].account = job[q].account => r = q

(* The changes whose end is or will be answered were started and answered.     *)
WasStarted(c, a) ==
    job[c].step = "answered" /\ job[c].kind = "start" /\ job[c].account = a

EndsAreAnswered ==
    /\ \A c \in ended : \E a \in EmailAccount : WasStarted(c, a)
    /\ \A r \in EmailRequest : job[r] # Unsent =>
          \A c \in job[r].ends : WasStarted(c, job[r].account)

JobsInv ==
    /\ \A r \in EmailRequest : job[r] # Unsent => Regular(r, job[r])
    /\ OneLock /\ EndsAreAnswered

(* A link is of a start for its account, and a second link is of an opened     *)
(* first one.                                                                  *)
IsStarted(link) ==
    /\ job[link.change] # Unsent /\ job[link.change].kind = "start"
    /\ job[link.change].account = link.account
    /\ link.stage = "verify-new" =>
          \E f \in EmailRequest :
             /\ job[f] # Unsent /\ job[f].kind = "open"
             /\ job[f].link = [account |-> link.account, stage |-> "confirm-current",
                               email |-> link.email, change |-> link.change]

LinksAreStarted ==
    /\ \A link \in markers \cup inbox : IsStarted(link)
    /\ \A r \in EmailRequest : job[r] # Unsent /\ job[r].kind = "open" => IsStarted(job[r].link)

(* What a request that has the lock has made of the links M and the profile     *)
(* shown, unless time has taken it away.                                       *)
InOrder(u, M, shown) ==
    /\ u.step = "retired" =>
          (\A link \in M : link.account # u.account) /\ shown = NoPending
    /\ u.step \in {"recorded", "forgotten"} =>
          (\A link \in M : link.account # u.account) /\ shown \in {NoPending, Showing(linkOut(u))}
    /\ u.step \in {"remembered", "undelivered"} =>
          /\ \A link \in M : link.account = u.account => link = linkOut(u)
          /\ shown \in {NoPending, Showing(linkOut(u))}
    /\ u.step = "consumed" =>
          (\A link \in M : link.account # u.account) /\ shown \in {NoPending, Showing(u.link)}

StepsInOrder ==
    \A r \in EmailRequest : job[r] # Unsent => InOrder(job[r], markers, pending[job[r].account])

(* A change that can still give the account its address has not ended.         *)
Ongoing(c) ==
    \/ \E link \in markers : link.change = c
    \/ \E q \in EmailRequest : /\ job[q] # Unsent /\ job[q].kind = "open"
                               /\ job[q].step \in {"consumed", "recorded"}
                               /\ job[q].link.change = c

OngoingIsNotEnded ==
    \A c \in EmailRequest : Ongoing(c) =>
        /\ c \notin ended
        /\ \A r \in EmailRequest : job[r] # Unsent => c \notin job[r].ends

EmailInv ==
    /\ EmailChangeTypeOK /\ LinkIsOfThePending
    /\ JobsInv /\ LinksAreStarted /\ StepsInOrder /\ OngoingIsNotEnded

(* A step of the request r of the account a, which then is u.                  *)
Moves(r, a, u) ==
    /\ job[r] # Unsent /\ job[r].account = a /\ job[r].step # "answered"
    /\ job' = [job EXCEPT ![r] = u]
    /\ u.kind = job[r].kind /\ u.account = a /\ u.link = job[r].link
    /\ Regular(r, u)
    /\ u.locked => job[r].locked \/ LockIsFree(a)
    /\ u.connected => job[r].connected \/ free
    /\ u.ends \subseteq job[r].ends \/ u.ends \subseteq answeredStarts(a)
    /\ ended' \subseteq ended \cup job[r].ends

LEMMA EmailChangeInitInv == EmailChangeInit => EmailInv
  <1> SUFFICES ASSUME EmailChangeInit
               PROVE  EmailInv
    OBVIOUS
  <1>1. EmailChangeTypeOK
    <2> DEFINE C == {r \in EmailRequest : job[r].connected}
    <2>1. C = {}
      BY DEF EmailChangeInit, Unsent
    <2> HIDE DEF C
    <2>2. Cardinality(C) = 0
      BY <2>1, FS_EmptySet
    <2>3. Cardinality(C) <= PoolSize
      BY <2>2, EmailChangeAssumption
    <2> QED BY <2>3 DEF C, EmailChangeInit, EmailChangeTypeOK
  <1>2. \A r \in EmailRequest : job[r] = Unsent /\ ~job[r].locked
    BY DEF EmailChangeInit, Unsent
  <1>3. LinkIsOfThePending /\ LinksAreStarted
    BY <1>2 DEF EmailChangeInit, LinkIsOfThePending, LinksAreStarted
  <1>4. JobsInv
    BY <1>2 DEF EmailChangeInit, JobsInv, OneLock, EndsAreAnswered
  <1>5. StepsInOrder /\ OngoingIsNotEnded
    BY <1>2 DEF EmailChangeInit, StepsInOrder, OngoingIsNotEnded
  <1> QED BY <1>1, <1>3, <1>4, <1>5 DEF EmailInv

LEMMA JobIsSent ==
  ASSUME EmailChangeTypeOK, NEW r \in EmailRequest
  PROVE  /\ job[r] # Unsent => job[r] \in Job
         /\ job[r].step # "unsent" \/ job[r].locked => job[r] # Unsent
  <1>1. job[r] \in Job \cup {Unsent}
    BY DEF EmailChangeTypeOK
  <1>2. Unsent.step = "unsent" /\ ~Unsent.locked
    BY DEF Unsent
  <1> QED BY <1>1, <1>2

LEMMA SentIsNotUnsent ==
  ASSUME NEW u \in Job
  PROVE  u # Unsent /\ u.step # "unsent" /\ u.account \in EmailAccount /\ u.ends \subseteq EmailRequest
  BY DEF Job, Unsent

LEMMA MovesFacts ==
  ASSUME EmailChangeTypeOK, NEW r \in EmailRequest, NEW a, NEW u \in Job, Moves(r, a, u)
  PROVE  /\ job' \in [EmailRequest -> Job \cup {Unsent}] /\ job'[r] = u
         /\ \A q \in EmailRequest \ {r} : job'[q] = job[q]
         /\ \A q \in EmailRequest : job[q] # Unsent <=> job'[q] # Unsent
         /\ \A q \in EmailRequest : job[q] # Unsent =>
               /\ job'[q].kind = job[q].kind /\ job'[q].account = job[q].account
               /\ job'[q].link = job[q].link
  <1>1. /\ job' \in [EmailRequest -> Job \cup {Unsent}] /\ job'[r] = u
        /\ \A q \in EmailRequest \ {r} : job'[q] = job[q]
    BY DEF EmailChangeTypeOK, Moves
  <1>2. \A q \in EmailRequest : job[q] # Unsent <=> job'[q] # Unsent
    BY <1>1, SentIsNotUnsent DEF Moves
  <1>3. \A q \in EmailRequest : job[q] # Unsent =>
               /\ job'[q].kind = job[q].kind /\ job'[q].account = job[q].account
               /\ job'[q].link = job[q].link
    BY <1>1 DEF Moves
  <1> QED BY <1>1, <1>2, <1>3

(* What was answered, or started, stays so.                                    *)
LEMMA StartedKept ==
  ASSUME EmailChangeTypeOK, NEW r \in EmailRequest, NEW a, NEW u \in Job, Moves(r, a, u)
  PROVE  /\ \A c \in EmailRequest, b \in EmailAccount : WasStarted(c, b) => WasStarted(c, b)'
         /\ \A link \in Link : IsStarted(link) => IsStarted(link)'
  <1>1. ASSUME NEW c \in EmailRequest, NEW b \in EmailAccount, WasStarted(c, b)
        PROVE  WasStarted(c, b)'
    <2>1. c # r
      BY <1>1 DEF WasStarted, Moves
    <2> QED BY <1>1, <2>1, MovesFacts DEF WasStarted
  <1>2. ASSUME NEW link \in Link, IsStarted(link)
        PROVE  IsStarted(link)'
    <2>1. link.change \in EmailRequest
      BY DEF Link
    <2> QED BY <1>2, <2>1, MovesFacts DEF IsStarted
  <1> QED BY <1>1, <1>2

LEMMA PoolKept ==
  ASSUME EmailChangeTypeOK, NEW r \in EmailRequest, NEW a, NEW u \in Job, Moves(r, a, u)
  PROVE  Cardinality({q \in EmailRequest : job'[q].connected}) <= PoolSize
  <1> DEFINE C == {q \in EmailRequest : job[q].connected}
             D == {q \in EmailRequest : job'[q].connected}
  <1>1. IsFiniteSet(C) /\ IsFiniteSet(C \cup {r}) /\ Cardinality(C) <= PoolSize
    <2>1. C \subseteq EmailRequest /\ C \cup {r} \subseteq EmailRequest
      OBVIOUS
    <2> QED BY <2>1, FS_Subset, EmailChangeAssumption DEF EmailChangeTypeOK
  <1>2. /\ D \subseteq C \cup {r} /\ Cardinality(C) \in Nat
        /\ u.connected = FALSE \/ r \in C => D \subseteq C
    <2>1. u.connected \in BOOLEAN
      BY DEF Job
    <2> QED BY <1>1, <2>1, MovesFacts, FS_CardinalityType
  <1>3. CASE D \subseteq C
    <2>1. Cardinality(D) <= Cardinality(C) /\ Cardinality(D) \in Nat
      BY <1>1, <1>3, FS_Subset, FS_CardinalityType
    <2> HIDE DEF C, D
    <2>2. Cardinality(D) <= PoolSize
      BY <1>1, <1>2, <2>1, EmailChangeAssumption
    <2> QED BY <2>2 DEF D
  <1>4. CASE ~(D \subseteq C)
    <2>1. r \notin C /\ free
      BY <1>2, <1>4 DEF Moves, Job
    <2>2. Cardinality(C) < PoolSize
      BY <2>1, <1>2, EmailChangeAssumption DEF free
    <2>3. Cardinality(C \cup {r}) = Cardinality(C) + 1
      BY <1>1, <2>1, FS_AddElement
    <2>4. Cardinality(D) <= Cardinality(C \cup {r})
      BY <1>1, <1>2, FS_Subset
    <2>5. IsFiniteSet(D) /\ Cardinality(D) \in Nat
      BY <1>1, <1>2, FS_Subset, FS_CardinalityType
    <2> HIDE DEF C, D
    <2>6. Cardinality(D) <= PoolSize
      BY <1>2, <2>2, <2>3, <2>4, <2>5, EmailChangeAssumption
    <2> QED BY <2>6 DEF D
  <1> QED BY <1>3, <1>4

LEMMA JobsStep ==
  ASSUME EmailInv, NEW r \in EmailRequest, NEW a, NEW u \in Job, Moves(r, a, u)
  PROVE  JobsInv'
  <1>1. EmailChangeTypeOK /\ JobsInv
    BY DEF EmailInv
  <1>2. /\ job'[r] = u /\ \A q \in EmailRequest \ {r} : job'[q] = job[q]
        /\ \A q \in EmailRequest : job[q] # Unsent <=> job'[q] # Unsent
    BY <1>1, MovesFacts
  <1>3. \A q \in EmailRequest : job'[q] # Unsent => Regular(q, job'[q])
    BY <1>1, <1>2 DEF Moves, JobsInv
  <1>4. OneLock'
    BY <1>1, <1>2 DEF JobsInv, OneLock, Moves, LockIsFree
  <1>5. \A c \in ended' : \E b \in EmailAccount : WasStarted(c, b)'
    <2> SUFFICES ASSUME NEW c \in ended'
                 PROVE  \E b \in EmailAccount : WasStarted(c, b)'
      OBVIOUS
    <2>1. a \in EmailAccount /\ job[r].ends \subseteq EmailRequest /\ ended \subseteq EmailRequest
      BY <1>1, JobIsSent, SentIsNotUnsent DEF Moves, EmailChangeTypeOK
    <2>2. c \in EmailRequest /\ \E b \in EmailAccount : WasStarted(c, b)
      BY <1>1, <2>1 DEF Moves, JobsInv, EndsAreAnswered
    <2> QED BY <1>1, <2>2, StartedKept
  <1>6. ASSUME NEW q \in EmailRequest, job'[q] # Unsent,
               NEW b \in EmailAccount, b = job[q].account, NEW c \in job'[q].ends
        PROVE  WasStarted(c, b)'
    <2>1. job[q] # Unsent /\ (q # r => job'[q] = job[q])
      BY <1>2, <1>6
    <2>2. job'[q].ends \subseteq EmailRequest
      <3>1. job'[q] \in Job
        BY <1>1, <1>2, <2>1, JobIsSent
      <3> QED BY <3>1 DEF Job
    <2>3. WasStarted(c, b)
      <3>1. CASE q # r
        BY <1>1, <1>6, <2>1, <3>1 DEF JobsInv, EndsAreAnswered
      <3>2. CASE q = r
        BY <1>1, <1>2, <1>6, <2>1, <3>2
           DEF Moves, JobsInv, EndsAreAnswered, answeredStarts, WasStarted
      <3> QED BY <3>1, <3>2
    <2> QED BY <1>1, <2>2, <2>3, StartedKept
  <1>7. EndsAreAnswered'
    <2>1. ASSUME NEW q \in EmailRequest, job'[q] # Unsent
          PROVE  (\A c \in job[q].ends : WasStarted(c, job[q].account))'
      <3>1. job[q].account \in EmailAccount /\ job'[q].account = job[q].account
        BY <1>1, <1>2, <2>1, MovesFacts, JobIsSent, SentIsNotUnsent
      <3>2. PICK b \in EmailAccount : b = job[q].account
        BY <3>1
      <3>3. \A c \in job'[q].ends : WasStarted(c, b)'
        BY <1>6, <2>1, <3>2
      <3> QED BY <3>1, <3>2, <3>3 DEF WasStarted
    <2> QED BY <1>5, <2>1 DEF EndsAreAnswered
  <1> QED BY <1>3, <1>4, <1>7 DEF JobsInv, Regular

LEMMA LinksStep ==
  ASSUME EmailInv, NEW r \in EmailRequest, NEW a, NEW u \in Job, Moves(r, a, u),
         markers' \subseteq Link, inbox' \subseteq Link,
         \A link \in markers' \cup inbox' : link \in markers \cup inbox \/ IsStarted(link)
  PROVE  LinksAreStarted'
  <1>1. EmailChangeTypeOK /\ JobsInv /\ LinksAreStarted
    BY DEF EmailInv
  <1>2. ASSUME NEW link \in markers' \cup inbox'
        PROVE  IsStarted(link)'
    <2>1. link \in Link /\ IsStarted(link)
      BY <1>1 DEF LinksAreStarted
    <2> QED BY <1>1, <2>1, StartedKept
  <1>3. ASSUME NEW q \in EmailRequest, job'[q] # Unsent, job'[q].kind = "open"
        PROVE  IsStarted(job[q].link)'
    <2>1. job[q] # Unsent /\ job[q].kind = "open" /\ job'[q].link = job[q].link
      BY <1>1, <1>3, MovesFacts
    <2>2. job[q].link \in Link /\ IsStarted(job[q].link)
      BY <1>1, <2>1 DEF JobsInv, Regular, LinksAreStarted
    <2>3. ASSUME NEW link, link = job[q].link
          PROVE  IsStarted(link)'
      BY <1>1, <2>2, <2>3, StartedKept
    <2>4. PICK link : link = job[q].link
      OBVIOUS
    <2>5. link = job'[q].link /\ IsStarted(link)'
      BY <2>1, <2>3, <2>4
    <2> QED BY <2>5 DEF IsStarted
  <1> QED BY <1>2, <1>3 DEF LinksAreStarted

LEMMA OrderStep ==
  ASSUME EmailInv, NEW r \in EmailRequest, NEW a \in EmailAccount, NEW u \in Job, Moves(r, a, u),
         job[r].locked \/ (markers' \subseteq markers /\ pending' = pending),
         \A link \in markers' : link.account # a => link \in markers,
         \A b \in EmailAccount \ {a} : pending'[b] = pending[b],
         \A link \in markers' : link.account = a =>
            /\ \A other \in markers' : other.account = a => other = link
            /\ pending'[a] # NoPending => pending'[a] = Showing(link),
         InOrder(u, markers', pending'[a]), markers' \subseteq Link
  PROVE  LinkIsOfThePending' /\ StepsInOrder'
  <1>1. EmailChangeTypeOK /\ JobsInv /\ LinkIsOfThePending /\ StepsInOrder
    BY DEF EmailInv
  <1>2. ASSUME NEW link \in markers'
        PROVE  /\ \A other \in markers' : other.account = link.account => other = link
               /\ pending'[link.account] # NoPending =>
                     pending'[link.account] = Showing(link)
    <2>1. CASE link.account = a
      BY <2>1
    <2>2. CASE link.account # a
      <3>1. link \in markers /\ pending'[link.account] = pending[link.account]
        BY <2>2 DEF Link
      <3> QED BY <1>1, <2>2, <3>1 DEF LinkIsOfThePending, Showing
    <2> QED BY <2>1, <2>2
  <1>3. LinkIsOfThePending'
    BY <1>2 DEF LinkIsOfThePending, Showing
  <1>4. ASSUME NEW q \in EmailRequest, job'[q] # Unsent
        PROVE  InOrder(job[q], markers, pending[job[q].account])'
    <2>1. CASE q = r
      <3>1. job'[q] = u /\ u.account = a
        BY <1>1, <2>1, MovesFacts DEF Moves
      <3> QED BY <3>1 DEF InOrder, Showing, linkOut
    <2>2. CASE q # r
      <3>1. job'[q] = job[q] /\ job[q] # Unsent
        BY <1>1, <1>4, <2>2, MovesFacts
      <3>2. Regular(q, job[q]) /\ InOrder(job[q], markers, pending[job[q].account])
        BY <1>1, <3>1 DEF JobsInv, StepsInOrder
      <3>3. CASE markers' \subseteq markers /\ pending' = pending
        BY <3>1, <3>2, <3>3 DEF InOrder, Showing, linkOut
      <3>4. CASE ~job[q].locked
        BY <3>1, <3>2, <3>4 DEF InOrder, Regular, LockedSteps
      <3>5. CASE job[q].locked /\ job[r].locked
        <4>1. job[q].account # a /\ job[q].account \in EmailAccount
          BY <1>1, <2>2, <3>1, <3>5, JobIsSent, SentIsNotUnsent DEF JobsInv, OneLock, Moves
        <4>2. /\ pending'[job[q].account] = pending[job[q].account]
              /\ \A link \in markers' : link.account = job[q].account => link \in markers
          BY <4>1
        <4> QED BY <3>1, <3>2, <4>2 DEF InOrder, Showing, linkOut
      <3>6. job[q].locked \in BOOLEAN
        BY <1>1, <3>1, JobIsSent DEF Job
      <3> QED BY <3>3, <3>4, <3>5, <3>6
    <2> QED BY <2>1, <2>2
  <1>5. StepsInOrder'
    BY <1>4 DEF StepsInOrder
  <1> QED BY <1>3, <1>5

(* Another request that has the lock of its account is not about the change c   *)
(* of the account a.                                                           *)
LEMMA OngoingStep ==
  ASSUME EmailInv, NEW r \in EmailRequest, NEW a \in EmailAccount, NEW u \in Job, Moves(r, a, u),
         markers' \subseteq Link,
         \A link \in markers' : link \in markers \/ Ongoing(link.change) \/ link.change = r,
         u.kind = "open" /\ u.step \in {"consumed", "recorded"} => Ongoing(u.link.change),
         \/ u.ends \subseteq job[r].ends
         \/ /\ job[r].locked /\ u.kind # "open"
            /\ \A link \in markers' : link \in markers /\ link.account # a
  PROVE  OngoingIsNotEnded'
  <1>1. EmailChangeTypeOK /\ JobsInv /\ OngoingIsNotEnded /\ LinksAreStarted
    BY DEF EmailInv
  <1>2. /\ job'[r] = u /\ \A q \in EmailRequest \ {r} : job'[q] = job[q]
        /\ \A q \in EmailRequest : job[q] # Unsent <=> job'[q] # Unsent
    BY <1>1, MovesFacts
  <1>3. ASSUME NEW c \in EmailRequest, Ongoing(c)'
        PROVE  Ongoing(c) \/ c = r
    <2>1. CASE \E link \in markers' : link.change = c
      BY <2>1 DEF Ongoing
    <2>2. CASE \E q \in EmailRequest : /\ job'[q] # Unsent /\ job'[q].kind = "open"
                                       /\ job'[q].step \in {"consumed", "recorded"}
                                       /\ job'[q].link.change = c
      BY <1>2, <2>2 DEF Ongoing
    <2> QED BY <1>3, <2>1, <2>2 DEF Ongoing
  <1>4. /\ r \notin ended
        /\ \A q \in EmailRequest : job[q] # Unsent => r \notin job[q].ends
    BY <1>1 DEF Moves, JobsInv, EndsAreAnswered, WasStarted
  <1>5. ASSUME NEW c \in EmailRequest, Ongoing(c)'
        PROVE  /\ c \notin ended
               /\ \A q \in EmailRequest : job[q] # Unsent => c \notin job[q].ends
    BY <1>1, <1>3, <1>4, <1>5 DEF OngoingIsNotEnded
  <1>6. ASSUME NEW c \in EmailRequest, Ongoing(c)', u.ends \subseteq answeredStarts(a),
               job[r].locked, u.kind # "open",
               \A link \in markers' : link \in markers /\ link.account # a
        PROVE  c \notin u.ends
    <2>1. CASE \E link \in markers' : link.change = c
      <3>1. PICK link \in markers : link.change = c /\ link.account # a
        BY <1>6, <2>1
      <3>2. job[c].account # a
        BY <1>1, <3>1 DEF LinksAreStarted, IsStarted
      <3> QED BY <1>6, <3>2 DEF answeredStarts
    <2>2. CASE \E q \in EmailRequest : /\ job'[q] # Unsent /\ job'[q].kind = "open"
                                       /\ job'[q].step \in {"consumed", "recorded"}
                                       /\ job'[q].link.change = c
      <3>1. PICK q \in EmailRequest : /\ job'[q] # Unsent /\ job'[q].kind = "open"
                                      /\ job'[q].step \in {"consumed", "recorded"}
                                      /\ job'[q].link.change = c
        BY <2>2
      <3>2. q # r /\ job'[q] = job[q] /\ job[q] # Unsent
        BY <1>2, <1>6, <3>1
      <3>3. Regular(q, job[q]) /\ IsStarted(job[q].link)
        BY <1>1, <3>1, <3>2 DEF JobsInv, LinksAreStarted
      <3>4. job[q].locked /\ job[q].link.account = job[q].account
        BY <3>1, <3>2, <3>3 DEF Regular, LockedSteps
      <3>5. job[q].account # a
        BY <1>1, <1>6, <3>2, <3>4 DEF JobsInv, OneLock, Moves
      <3>6. job[c].account # a
        BY <3>1, <3>2, <3>3, <3>4, <3>5 DEF IsStarted
      <3> QED BY <1>6, <3>6 DEF answeredStarts
    <2> QED BY <1>6, <2>1, <2>2 DEF Ongoing
  <1>7. ASSUME NEW c \in EmailRequest, Ongoing(c)'
        PROVE  /\ c \notin ended'
               /\ \A q \in EmailRequest : job'[q] # Unsent => c \notin job'[q].ends
    <2>1. c \notin ended'
      BY <1>5, <1>7 DEF Moves
    <2>2. c \notin u.ends
      BY <1>5, <1>6, <1>7 DEF Moves
    <2> QED BY <1>2, <1>5, <1>7, <2>1, <2>2
  <1> QED BY <1>7 DEF OngoingIsNotEnded

LEMMA StepInd ==
  ASSUME EmailInv, NEW r \in EmailRequest, NEW a \in EmailAccount, NEW u \in Job, Moves(r, a, u),
         loginEmail' \in [EmailAccount -> LoginAddress],
         applied' \in [EmailAccount -> EmailRequest \cup {NoChange}],
         pending' \in [EmailAccount -> Pending \cup {NoPending}],
         markers' \subseteq Link, inbox' \subseteq Link,
         job[r].locked \/ (markers' \subseteq markers /\ pending' = pending),
         \A link \in markers' : link.account # a => link \in markers,
         \A b \in EmailAccount \ {a} : pending'[b] = pending[b],
         \A link \in markers' : link.account = a =>
            /\ \A other \in markers' : other.account = a => other = link
            /\ pending'[a] # NoPending => pending'[a] = Showing(link),
         InOrder(u, markers', pending'[a]),
         \A link \in markers' \cup inbox' : link \in markers \cup inbox \/ IsStarted(link),
         \A link \in markers' : link \in markers \/ Ongoing(link.change) \/ link.change = r,
         u.kind = "open" /\ u.step \in {"consumed", "recorded"} => Ongoing(u.link.change),
         \/ u.ends \subseteq job[r].ends
         \/ /\ job[r].locked /\ u.kind # "open"
            /\ \A link \in markers' : link \in markers /\ link.account # a
  PROVE  EmailInv'
  <1>1. EmailChangeTypeOK
    BY DEF EmailInv
  <1>2. EmailChangeTypeOK'
    <2>1. job' \in [EmailRequest -> Job \cup {Unsent}]
      BY <1>1, MovesFacts
    <2>2. ended' \subseteq EmailRequest
      BY <1>1, JobIsSent, SentIsNotUnsent DEF Moves, EmailChangeTypeOK
    <2> QED BY <1>1, <2>1, <2>2, PoolKept DEF EmailChangeTypeOK
  <1>3. JobsInv' /\ LinksAreStarted' /\ OngoingIsNotEnded'
    BY JobsStep, LinksStep, OngoingStep
  <1>4. LinkIsOfThePending' /\ StepsInOrder'
    BY OrderStep
  <1> QED BY <1>2, <1>3, <1>4 DEF EmailInv

(* A step that neither the links that may be used nor a profile shows.         *)
LEMMA QuietInd ==
  ASSUME EmailInv, NEW r \in EmailRequest, NEW a \in EmailAccount, NEW u \in Job, Moves(r, a, u),
         UNCHANGED <<pending, markers>>,
         loginEmail' \in [EmailAccount -> LoginAddress],
         applied' \in [EmailAccount -> EmailRequest \cup {NoChange}],
         inbox' \subseteq Link, \A link \in inbox' : link \in inbox \/ IsStarted(link),
         InOrder(u, markers, pending[a]), u.ends \subseteq job[r].ends,
         u.kind = "open" /\ u.step \in {"consumed", "recorded"} => Ongoing(u.link.change)
  PROVE  EmailInv'
  <1>0. EmailChangeTypeOK /\ LinkIsOfThePending /\ markers' = markers /\ pending' = pending
    BY DEF EmailInv
  <1>1. /\ pending' \in [EmailAccount -> Pending \cup {NoPending}] /\ markers' \subseteq Link
        /\ \A link \in markers' : link.account = a =>
              /\ \A other \in markers' : other.account = a => other = link
              /\ pending'[a] # NoPending => pending'[a] = Showing(link)
    BY <1>0 DEF EmailChangeTypeOK, LinkIsOfThePending, Showing
  <1>2. InOrder(u, markers', pending'[a])
    OBVIOUS
  <1> QED BY <1>1, <1>2, StepInd

-----------------------------------------------------------------------------
Steps == {"arrived", "identified", "connected", "locked", "vacant", "retired", "recorded",
          "remembered", "undelivered", "forgotten", "consumed", "applied", "finished",
          "answered", "lost"}

(* What a step makes of a request: only how far it is, and what it holds.       *)
Becomes(r, u, step, locked) ==
    /\ job' = [job EXCEPT ![r] = u]
    /\ u.kind = job[r].kind /\ u.account = job[r].account /\ u.link = job[r].link
    /\ u.step = step /\ u.locked = locked

LEMMA GoFacts ==
  ASSUME EmailChangeTypeOK, NEW r \in EmailRequest, job[r] # Unsent, NEW step \in Steps,
         go(r, step) \/ (step = "finished" /\ (finish(r, "ok") \/ finish(r, "failed")))
  PROVE  \E u \in Job : /\ Becomes(r, u, step, job[r].locked)
                        /\ u.connected = job[r].connected /\ u.ends = job[r].ends
  <1>1. job[r] \in Job
    BY JobIsSent
  <1>2. ASSUME go(r, step)
        PROVE  \E u \in Job : /\ Becomes(r, u, step, job[r].locked)
                              /\ u.connected = job[r].connected /\ u.ends = job[r].ends
    <2> DEFINE u == [job[r] EXCEPT !.step = step]
    <2>1. job' = [job EXCEPT ![r] = u]
      BY <1>2 DEF go
    <2>2. /\ u \in Job /\ u.kind = job[r].kind /\ u.account = job[r].account
          /\ u.link = job[r].link /\ u.step = step /\ u.locked = job[r].locked
          /\ u.connected = job[r].connected /\ u.ends = job[r].ends
      BY <1>1 DEF Job, Steps
    <2> HIDE DEF u
    <2> QED BY <2>1, <2>2 DEF Becomes
  <1>3. ASSUME NEW result \in {"ok", "failed"}, finish(r, result), step = "finished"
        PROVE  \E u \in Job : /\ Becomes(r, u, step, job[r].locked)
                              /\ u.connected = job[r].connected /\ u.ends = job[r].ends
    <2> DEFINE u == [job[r] EXCEPT !.step = "finished", !.result = result]
    <2>1. job' = [job EXCEPT ![r] = u]
      BY <1>3 DEF finish, EmailChangeTypeOK
    <2>2. /\ u \in Job /\ u.kind = job[r].kind /\ u.account = job[r].account
          /\ u.link = job[r].link /\ u.step = "finished" /\ u.locked = job[r].locked
          /\ u.connected = job[r].connected /\ u.ends = job[r].ends
      BY <1>1 DEF Job
    <2> HIDE DEF u
    <2> QED BY <1>3, <2>1, <2>2 DEF Becomes
  <1> QED BY <1>2, <1>3

LEMMA CloseFacts ==
  ASSUME EmailChangeTypeOK, NEW r \in EmailRequest, job[r] # Unsent, NEW step \in {"answered", "lost"},
         close(r, step)
  PROVE  \E u \in Job : Becomes(r, u, step, FALSE) /\ u.connected = FALSE /\ u.ends = {}
  <1>1. job[r] \in Job
    BY JobIsSent
  <1> DEFINE u == [job[r] EXCEPT !.step = step, !.result = "none", !.ends = {},
                                 !.connected = FALSE, !.locked = FALSE]
  <1>2. job' = [job EXCEPT ![r] = u]
    BY DEF close, EmailChangeTypeOK
  <1>3. /\ u \in Job /\ u.kind = job[r].kind /\ u.account = job[r].account
        /\ u.link = job[r].link /\ u.step = step /\ u.locked = FALSE
        /\ u.connected = FALSE /\ u.ends = {}
    BY <1>1 DEF Job
  <1> HIDE DEF u
  <1> QED BY <1>2, <1>3 DEF Becomes

(* What is known of a request at a step.                                       *)
LEMMA AtStep ==
  ASSUME EmailInv, NEW r \in EmailRequest, job[r].step # "unsent"
  PROVE  /\ EmailChangeTypeOK /\ job[r] # Unsent /\ job[r] \in Job /\ Regular(r, job[r])
         /\ job[r].account \in EmailAccount
         /\ InOrder(job[r], markers, pending[job[r].account])
  <1>1. EmailChangeTypeOK
    BY DEF EmailInv
  <1>2. job[r] # Unsent /\ job[r] \in Job
    BY <1>1, JobIsSent
  <1> QED BY <1>1, <1>2, SentIsNotUnsent DEF EmailInv, JobsInv, StepsInOrder

(* A request is answered, or its process ends.                                 *)
LEMMA CloseInd ==
  ASSUME EmailInv, NEW r \in EmailRequest, job[r].step \notin {"unsent", "answered"},
         NEW step \in {"answered", "lost"}, close(r, step),
         UNCHANGED <<loginEmail, pending, markers, inbox, applied>>,
         ended' \subseteq ended \cup job[r].ends
  PROVE  EmailInv'
  <1>1. /\ EmailChangeTypeOK /\ job[r] # Unsent /\ job[r] \in Job /\ Regular(r, job[r])
        /\ job[r].account \in EmailAccount
    BY AtStep
  <1>2. PICK a \in EmailAccount : a = job[r].account
    BY <1>1
  <1>3. PICK u \in Job : Becomes(r, u, step, FALSE) /\ u.connected = FALSE /\ u.ends = {}
    BY <1>1, CloseFacts
  <1>4. Regular(r, u)
    BY <1>1, <1>3 DEF Becomes, Regular, LockedSteps
  <1>5. Moves(r, a, u)
    BY <1>1, <1>2, <1>3, <1>4 DEF Becomes, Moves
  <1>6. InOrder(u, markers, pending[a]) /\ u.step \notin {"consumed", "recorded"}
    BY <1>3 DEF Becomes, InOrder
  <1>7. /\ loginEmail' \in [EmailAccount -> LoginAddress] /\ inbox' \subseteq Link
        /\ applied' \in [EmailAccount -> EmailRequest \cup {NoChange}]
        /\ \A link \in inbox' : link \in inbox
    BY <1>1 DEF EmailChangeTypeOK
  <1> QED BY <1>3, <1>5, <1>6, <1>7, QuietInd

(* A request goes on, and touches nothing else.                                *)
LEMMA GoInd ==
  ASSUME EmailInv, NEW r \in EmailRequest, job[r].step \notin {"unsent", "answered"},
         NEW step \in {"identified", "vacant", "finished"},
         go(r, step) \/ (step = "finished" /\ (finish(r, "ok") \/ finish(r, "failed"))),
         job[r].step \in LockedSteps <=> step \in LockedSteps,
         step = "vacant" => job[r].kind = "start",
         UNCHANGED <<loginEmail, pending, markers, inbox, ended, applied>>
  PROVE  EmailInv'
  <1>1. /\ EmailChangeTypeOK /\ job[r] # Unsent /\ job[r] \in Job /\ Regular(r, job[r])
        /\ job[r].account \in EmailAccount
    BY AtStep
  <1>2. PICK a \in EmailAccount : a = job[r].account
    BY <1>1
  <1>3. PICK u \in Job : /\ Becomes(r, u, step, job[r].locked)
                         /\ u.connected = job[r].connected /\ u.ends = job[r].ends
    BY <1>1, GoFacts DEF Steps
  <1>4. Regular(r, u)
    BY <1>1, <1>3 DEF Becomes, Regular, LockedSteps
  <1>5. Moves(r, a, u)
    BY <1>1, <1>2, <1>3, <1>4 DEF Becomes, Moves
  <1>6. InOrder(u, markers, pending[a]) /\ u.step \notin {"consumed", "recorded"}
    BY <1>3 DEF Becomes, InOrder
  <1>7. /\ loginEmail' \in [EmailAccount -> LoginAddress] /\ inbox' \subseteq Link
        /\ applied' \in [EmailAccount -> EmailRequest \cup {NoChange}]
        /\ \A link \in inbox' : link \in inbox
    BY <1>1 DEF EmailChangeTypeOK
  <1> QED BY <1>3, <1>5, <1>6, <1>7, QuietInd

LEMMA IdentifyInd ==
  ASSUME EmailInv, NEW r \in EmailRequest, identify(r)
  PROVE  EmailInv'
  <1>1. /\ job[r].step = "arrived" /\ (close(r, "answered") \/ go(r, "identified"))
        /\ UNCHANGED <<loginEmail, pending, markers, inbox, ended, applied>>
    BY DEF identify, on
  <1>2. "arrived" \notin LockedSteps /\ "identified" \notin LockedSteps
    BY DEF LockedSteps
  <1>3. CASE close(r, "answered")
    BY <1>1, <1>3, CloseInd
  <1>4. CASE go(r, "identified")
    BY <1>1, <1>2, <1>4, GoInd
  <1> QED BY <1>1, <1>3, <1>4

LEMMA CheckVacantInd ==
  ASSUME EmailInv, NEW r \in EmailRequest, checkVacant(r)
  PROVE  EmailInv'
  <1>1. /\ job[r].step = "locked" /\ job[r].kind = "start"
        /\ (finish(r, "ok") \/ go(r, "vacant"))
        /\ UNCHANGED <<loginEmail, pending, markers, inbox, ended, applied>>
    BY DEF checkVacant, at
  <1>2. "locked" \in LockedSteps /\ "vacant" \in LockedSteps /\ "finished" \in LockedSteps
    BY DEF LockedSteps
  <1>3. CASE finish(r, "ok")
    BY <1>1, <1>2, <1>3, GoInd
  <1>4. CASE go(r, "vacant")
    BY <1>1, <1>2, <1>4, GoInd
  <1> QED BY <1>1, <1>3, <1>4

LEMMA AnswerRequestInd ==
  ASSUME EmailInv, NEW r \in EmailRequest, answer(r)
  PROVE  EmailInv'
  <1>1. /\ job[r].step = "finished" /\ close(r, "answered")
        /\ ended' \subseteq ended \cup job[r].ends
        /\ UNCHANGED <<loginEmail, pending, markers, inbox, applied>>
    BY DEF answer
  <1> QED BY <1>1, CloseInd

LEMMA CrashRequestInd ==
  ASSUME EmailInv, NEW r \in EmailRequest, CrashRequest(r)
  PROVE  EmailInv'
  BY CloseInd DEF CrashRequest

LEMMA ConnectInd ==
  ASSUME EmailInv, NEW r \in EmailRequest, connect(r)
  PROVE  EmailInv'
  <1>1. /\ job[r].step = "identified" /\ free
        /\ job' = [job EXCEPT ![r].step = "connected", ![r].connected = TRUE]
        /\ UNCHANGED <<loginEmail, pending, markers, inbox, ended, applied>>
    BY DEF connect, on
  <1>2. /\ EmailChangeTypeOK /\ job[r] # Unsent /\ job[r] \in Job /\ Regular(r, job[r])
        /\ job[r].account \in EmailAccount
    BY <1>1, AtStep
  <1>3. PICK a \in EmailAccount : a = job[r].account
    BY <1>2
  <1> DEFINE u == [job[r] EXCEPT !.step = "connected", !.connected = TRUE]
  <1>4. job' = [job EXCEPT ![r] = u]
    BY <1>1, <1>2 DEF EmailChangeTypeOK
  <1>5. /\ u \in Job /\ u.kind = job[r].kind /\ u.account = job[r].account /\ u.link = job[r].link
        /\ u.step = "connected" /\ u.locked = job[r].locked /\ u.ends = job[r].ends
    BY <1>2 DEF Job
  <1> HIDE DEF u
  <1>6. Regular(r, u)
    BY <1>1, <1>2, <1>5 DEF Regular, LockedSteps
  <1>7. Moves(r, a, u)
    BY <1>1, <1>2, <1>3, <1>4, <1>5, <1>6 DEF Moves
  <1>8. InOrder(u, markers, pending[a]) /\ u.step \notin {"consumed", "recorded"}
    BY <1>5 DEF InOrder
  <1>9. /\ loginEmail' \in [EmailAccount -> LoginAddress] /\ inbox' \subseteq Link
        /\ applied' \in [EmailAccount -> EmailRequest \cup {NoChange}]
        /\ \A link \in inbox' : link \in inbox
    BY <1>1, <1>2 DEF EmailChangeTypeOK
  <1> QED BY <1>1, <1>5, <1>7, <1>8, <1>9, QuietInd

LEMMA TryLockInd ==
  ASSUME EmailInv, NEW r \in EmailRequest, tryLock(r)
  PROVE  EmailInv'
  <1>1. /\ job[r].step = "connected"
        /\ UNCHANGED <<loginEmail, pending, markers, inbox, ended, applied>>
    BY DEF tryLock
  <1>2. CASE close(r, "answered")
    BY <1>1, <1>2, CloseInd
  <1>3. CASE /\ LockIsFree(job[r].account)
             /\ job' = [job EXCEPT ![r].step = "locked", ![r].locked = TRUE]
    <2>1. /\ EmailChangeTypeOK /\ job[r] # Unsent /\ job[r] \in Job /\ Regular(r, job[r])
          /\ job[r].account \in EmailAccount
      BY <1>1, AtStep
    <2>2. PICK a \in EmailAccount : a = job[r].account
      BY <2>1
    <2> DEFINE u == [job[r] EXCEPT !.step = "locked", !.locked = TRUE]
    <2>3. job' = [job EXCEPT ![r] = u]
      BY <1>3, <2>1 DEF EmailChangeTypeOK
    <2>4. /\ u \in Job /\ u.kind = job[r].kind /\ u.account = job[r].account
          /\ u.link = job[r].link /\ u.step = "locked" /\ u.locked = TRUE
          /\ u.connected = job[r].connected /\ u.ends = job[r].ends
      BY <2>1 DEF Job
    <2> HIDE DEF u
    <2>5. Regular(r, u)
      BY <2>1, <2>4 DEF Regular, LockedSteps
    <2>6. Moves(r, a, u)
      BY <1>1, <1>3, <2>1, <2>2, <2>3, <2>4, <2>5 DEF Moves
    <2>7. InOrder(u, markers, pending[a]) /\ u.step \notin {"consumed", "recorded"}
      BY <2>4 DEF InOrder
    <2>8. /\ loginEmail' \in [EmailAccount -> LoginAddress] /\ inbox' \subseteq Link
          /\ applied' \in [EmailAccount -> EmailRequest \cup {NoChange}]
          /\ \A link \in inbox' : link \in inbox
      BY <1>1, <2>1 DEF EmailChangeTypeOK
    <2> QED BY <1>1, <2>4, <2>6, <2>7, <2>8, QuietInd
  <1> QED BY <1>2, <1>3 DEF tryLock

(* A request arrives.                                                          *)
LEMMA ArriveInd ==
  ASSUME EmailInv, NEW r \in EmailRequest, NEW kind \in {"start", "cancel", "open"},
         NEW a \in EmailAccount, NEW link \in Link \cup {NoLink},
         kind = "start" => /\ link \in Link /\ link.account = a
                           /\ link.stage = "confirm-current" /\ link.change = r,
         kind = "open" => link \in inbox /\ link.account = a,
         arrive(r, kind, a, link)
  PROVE  EmailInv'
  <1> DEFINE u == [kind |-> kind, account |-> a, link |-> link, step |-> "arrived",
                   result |-> "none", connected |-> FALSE, locked |-> FALSE, ends |-> {}]
  <1>1. /\ EmailChangeTypeOK /\ JobsInv /\ LinksAreStarted /\ StepsInOrder
        /\ OngoingIsNotEnded /\ LinkIsOfThePending
    BY DEF EmailInv
  <1>2. /\ job[r] = Unsent /\ job' = [job EXCEPT ![r] = u]
        /\ UNCHANGED <<loginEmail, pending, markers, inbox, ended, applied>>
    BY DEF arrive
  <1>3. /\ u \in Job /\ u # Unsent /\ u.kind = kind /\ u.account = a /\ u.link = link
        /\ u.step = "arrived" /\ u.connected = FALSE /\ u.locked = FALSE /\ u.ends = {}
    BY DEF Job, Unsent
  <1> HIDE DEF u
  <1>4. /\ job' \in [EmailRequest -> Job \cup {Unsent}] /\ job'[r] = u
        /\ \A q \in EmailRequest \ {r} : job'[q] = job[q]
    BY <1>1, <1>2, <1>3 DEF EmailChangeTypeOK
  <1>5. job[r].step = "unsent" /\ job[r].connected = FALSE
    BY <1>2 DEF Unsent
  <1>6. EmailChangeTypeOK'
    <2>1. {q \in EmailRequest : job'[q].connected} = {q \in EmailRequest : job[q].connected}
      BY <1>3, <1>4, <1>5
    <2> QED BY <1>1, <1>2, <1>4, <2>1 DEF EmailChangeTypeOK
  <1>7. /\ \A c \in EmailRequest, b \in EmailAccount : WasStarted(c, b) => WasStarted(c, b)'
        /\ \A l \in Link : IsStarted(l) => IsStarted(l)'
    <2>1. ASSUME NEW c \in EmailRequest, NEW b \in EmailAccount, WasStarted(c, b)
          PROVE  WasStarted(c, b)'
      BY <1>4, <1>5, <2>1 DEF WasStarted
    <2>2. ASSUME NEW l \in Link, IsStarted(l)
          PROVE  IsStarted(l)'
      <3>1. l.change \in EmailRequest
        BY DEF Link
      <3> QED BY <1>2, <1>4, <2>2, <3>1 DEF IsStarted
    <2> QED BY <2>1, <2>2
  <1>8. JobsInv'
    <2>1. Regular(r, u)
      BY <1>1, <1>3 DEF Regular, LockedSteps, EmailChangeTypeOK
    <2>2. \A q \in EmailRequest : job'[q] # Unsent => Regular(q, job'[q])
      BY <1>1, <1>4, <2>1 DEF JobsInv
    <2>3. OneLock'
      BY <1>1, <1>3, <1>4 DEF JobsInv, OneLock
    <2>4. \A c \in ended' : \E b \in EmailAccount : WasStarted(c, b)'
      BY <1>1, <1>2, <1>7 DEF JobsInv, EndsAreAnswered, EmailChangeTypeOK
    <2>5. ASSUME NEW q \in EmailRequest, job'[q] # Unsent
          PROVE  (\A c \in job[q].ends : WasStarted(c, job[q].account))'
      <3>1. CASE q = r
        BY <1>3, <1>4, <3>1
      <3>2. CASE q # r
        <4>1. job'[q] = job[q] /\ job[q] # Unsent
          BY <1>4, <2>5, <3>2
        <4>2. job[q].account \in EmailAccount /\ job[q].ends \subseteq EmailRequest
          BY <1>1, <4>1, JobIsSent, SentIsNotUnsent
        <4>3. PICK b \in EmailAccount : b = job[q].account
          BY <4>2
        <4>4. \A c \in job[q].ends : WasStarted(c, b)
          BY <1>1, <4>1, <4>3 DEF JobsInv, EndsAreAnswered
        <4>5. \A c \in job[q].ends : WasStarted(c, b)'
          BY <1>7, <4>2, <4>4
        <4> QED BY <4>1, <4>3, <4>5 DEF WasStarted
      <3> QED BY <3>1, <3>2
    <2>6. EndsAreAnswered'
      BY <2>4, <2>5 DEF EndsAreAnswered
    <2> QED BY <2>2, <2>3, <2>6 DEF JobsInv, Regular
  <1>9. LinksAreStarted'
    <2>1. ASSUME NEW l \in markers' \cup inbox'
          PROVE  IsStarted(l)'
      BY <1>1, <1>2, <1>7 DEF LinksAreStarted, EmailChangeTypeOK
    <2>2. ASSUME NEW q \in EmailRequest, job'[q] # Unsent, job'[q].kind = "open"
          PROVE  IsStarted(job[q].link)'
      <3>1. PICK l : l = job'[q].link
        OBVIOUS
      <3>2. l \in Link /\ IsStarted(l)
        <4>1. CASE q = r
          BY <1>1, <1>3, <1>4, <2>2, <3>1, <4>1 DEF LinksAreStarted, EmailChangeTypeOK
        <4>2. CASE q # r
          BY <1>1, <1>4, <2>2, <3>1, <4>2 DEF LinksAreStarted, JobsInv, Regular
        <4> QED BY <4>1, <4>2
      <3>3. IsStarted(l)'
        BY <1>7, <3>2
      <3> QED BY <3>1, <3>3 DEF IsStarted
    <2> QED BY <2>1, <2>2 DEF LinksAreStarted
  <1>10. StepsInOrder'
    <2>1. ASSUME NEW q \in EmailRequest, job'[q] # Unsent
          PROVE  InOrder(job'[q], markers, pending[job'[q].account])
      <3>1. CASE q = r
        BY <1>3, <1>4, <3>1 DEF InOrder
      <3>2. CASE q # r
        BY <1>1, <1>4, <2>1, <3>2 DEF StepsInOrder
      <3> QED BY <3>1, <3>2
    <2> QED BY <1>2, <2>1 DEF StepsInOrder, InOrder
  <1>11. OngoingIsNotEnded'
    <2>1. ASSUME NEW c \in EmailRequest, Ongoing(c)'
          PROVE  Ongoing(c)
      <3>1. \A q \in EmailRequest : job'[q].step \in {"consumed", "recorded"} => q # r
        BY <1>3, <1>4
      <3> QED BY <1>2, <1>4, <2>1, <3>1 DEF Ongoing
    <2> QED BY <1>1, <1>2, <1>3, <1>4, <2>1 DEF OngoingIsNotEnded
  <1>12. LinkIsOfThePending'
    BY <1>1, <1>2 DEF LinkIsOfThePending
  <1> QED BY <1>6, <1>8, <1>9, <1>10, <1>11, <1>12 DEF EmailInv

(* Time passes.                                                                *)
LEMMA ExpireLinksInd ==
  ASSUME EmailInv, ExpireLinks
  PROVE  EmailInv'
  <1>1. /\ EmailChangeTypeOK /\ JobsInv /\ LinksAreStarted /\ StepsInOrder
        /\ OngoingIsNotEnded /\ LinkIsOfThePending
    BY DEF EmailInv
  <1>2. /\ job' = job /\ UNCHANGED <<loginEmail, inbox, ended, applied>>
        /\ markers' \subseteq markers
        /\ pending' \in [EmailAccount -> Pending \cup {NoPending}]
        /\ \A a \in EmailAccount : pending'[a] \in {NoPending, pending[a]}
    BY <1>1 DEF ExpireLinks, EmailChangeTypeOK
  <1>3. EmailChangeTypeOK'
    BY <1>1, <1>2 DEF EmailChangeTypeOK
  <1>4. LinkIsOfThePending'
    <2>1. \A link \in markers' : link.account \in EmailAccount /\ link \in markers
      BY <1>1, <1>2 DEF EmailChangeTypeOK, Link
    <2> QED BY <1>1, <1>2, <2>1 DEF LinkIsOfThePending
  <1>5. JobsInv'
    BY <1>1, <1>2 DEF JobsInv, Regular, OneLock, EndsAreAnswered, WasStarted
  <1>6. LinksAreStarted'
    BY <1>1, <1>2 DEF LinksAreStarted, IsStarted
  <1>7. StepsInOrder'
    <2>1. ASSUME NEW r \in EmailRequest, job[r] # Unsent
          PROVE  InOrder(job[r], markers', pending'[job[r].account])
      <3>1. job[r].account \in EmailAccount
        BY <1>1, <2>1, JobIsSent, SentIsNotUnsent
      <3>2. InOrder(job[r], markers, pending[job[r].account])
        BY <1>1, <2>1 DEF StepsInOrder
      <3>3. pending'[job[r].account] \in {NoPending, pending[job[r].account]}
        BY <1>2, <3>1
      <3> QED BY <1>2, <3>2, <3>3 DEF InOrder
    <2> QED BY <1>2, <2>1 DEF StepsInOrder, InOrder, linkOut, Showing
  <1>8. OngoingIsNotEnded'
    <2>1. \A c \in EmailRequest : Ongoing(c)' => Ongoing(c)
      BY <1>2 DEF Ongoing
    <2> QED BY <1>1, <1>2, <2>1 DEF OngoingIsNotEnded
  <1> QED BY <1>3, <1>4, <1>5, <1>6, <1>7, <1>8 DEF EmailInv

(* The link that a request sends is of its account, and of a start.            *)
LEMMA OutgoingFacts ==
  ASSUME EmailInv, NEW r \in EmailRequest,
         job[r].step \in {"recorded", "remembered", "undelivered"}
  PROVE  /\ outgoing(r) = linkOut(job[r]) /\ outgoing(r) \in Link
         /\ outgoing(r).account = job[r].account /\ IsStarted(outgoing(r))
         /\ Ongoing(outgoing(r).change) \/ outgoing(r).change = r \/ job[r].step # "recorded"
  <1>1. /\ EmailChangeTypeOK /\ job[r] # Unsent /\ job[r] \in Job /\ Regular(r, job[r])
        /\ LinksAreStarted /\ outgoing(r) = linkOut(job[r])
    BY AtStep DEF EmailInv, outgoing, linkOut
  <1>2. CASE job[r].kind = "start"
    <2>1. /\ outgoing(r) = job[r].link /\ job[r].link \in Link /\ job[r].link.change = r
          /\ job[r].link.account = job[r].account /\ job[r].link.stage = "confirm-current"
      BY <1>1, <1>2 DEF outgoing, Regular
    <2>2. IsStarted(outgoing(r))
      BY <1>1, <1>2, <2>1 DEF IsStarted
    <2> QED BY <1>1, <2>1, <2>2
  <1>3. CASE job[r].kind # "start"
    <2>1. /\ job[r].kind = "open" /\ job[r].link.stage = "confirm-current"
          /\ job[r].link \in Link /\ job[r].link.account = job[r].account
      BY <1>1, <1>3 DEF Regular
    <2>2. IsStarted(job[r].link)
      BY <1>1, <2>1 DEF LinksAreStarted
    <2>3. PICK out : out = outgoing(r)
      OBVIOUS
    <2>4. /\ out \in Link /\ out.account = job[r].account /\ out.stage = "verify-new"
          /\ out.email = job[r].link.email /\ out.change = job[r].link.change
      BY <1>3, <2>1, <2>3 DEF outgoing, Link, Stage
    <2>5. job[r].link = [account |-> out.account, stage |-> "confirm-current",
                         email |-> out.email, change |-> out.change]
      BY <2>1, <2>4 DEF Link
    <2>6. IsStarted(out)
      BY <1>1, <2>1, <2>2, <2>4, <2>5 DEF IsStarted
    <2>7. job[r].step = "recorded" => Ongoing(out.change)
      BY <1>1, <2>1, <2>4 DEF Ongoing
    <2> QED BY <1>1, <2>3, <2>4, <2>6, <2>7
  <1> QED BY <1>2, <1>3

(* A request that has the lock goes on: what is known of it before and after.  *)
LEMMA LockedStep ==
  ASSUME EmailInv, NEW r \in EmailRequest, job[r].step \in LockedSteps, NEW step \in LockedSteps,
         go(r, step) \/ (step = "finished" /\ (finish(r, "ok") \/ finish(r, "failed"))),
         step \in {"vacant", "retired", "forgotten"} => job[r].kind = "start",
         step \in {"recorded", "remembered", "undelivered"} =>
            job[r].kind = "start" \/ (job[r].kind = "open" /\ job[r].link.stage = "confirm-current"),
         step \in {"consumed", "applied"} => job[r].kind = "open",
         ended' = ended
  PROVE  \E a \in EmailAccount, u \in Job :
            /\ Moves(r, a, u) /\ a = job[r].account /\ job[r].locked /\ job[r] # Unsent
            /\ u.step = step /\ u.ends = job[r].ends /\ Regular(r, job[r])
            /\ InOrder(job[r], markers, pending[a])
  <1>1. /\ EmailChangeTypeOK /\ job[r] # Unsent /\ job[r] \in Job /\ Regular(r, job[r])
        /\ job[r].account \in EmailAccount
        /\ InOrder(job[r], markers, pending[job[r].account])
    BY AtStep DEF LockedSteps
  <1>2. PICK a \in EmailAccount : a = job[r].account
    BY <1>1
  <1>3. PICK u \in Job : /\ Becomes(r, u, step, job[r].locked)
                         /\ u.connected = job[r].connected /\ u.ends = job[r].ends
    BY <1>1, GoFacts DEF Steps, LockedSteps
  <1>4. Regular(r, u) /\ job[r].locked
    BY <1>1, <1>3 DEF Becomes, Regular
  <1>5. Moves(r, a, u)
    BY <1>1, <1>2, <1>3, <1>4 DEF Becomes, Moves, LockedSteps
  <1> QED BY <1>1, <1>2, <1>3, <1>4, <1>5 DEF Becomes

LEMMA CancelEmailChangeInd ==
  ASSUME EmailInv, NEW r \in EmailRequest, cancelEmailChange(r)
  PROVE  EmailInv'
  <1>1. /\ job[r].step \in {"locked", "vacant"} /\ job[r].kind \in {"start", "cancel"}
        /\ UNCHANGED <<loginEmail, inbox, ended, applied>>
    BY DEF cancelEmailChange, at
  <1>2. /\ EmailChangeTypeOK /\ job[r] # Unsent /\ job[r] \in Job /\ Regular(r, job[r])
        /\ job[r].account \in EmailAccount
    BY <1>1, AtStep
  <1>3. PICK a \in EmailAccount : a = job[r].account
    BY <1>2
  <1>4. markers' = retired(a) /\ pending' = [pending EXCEPT ![a] = NoPending]
    BY <1>3 DEF cancelEmailChange
  <1> DEFINE step == IF job[r].kind = "start" THEN "retired" ELSE "finished"
             u == [job[r] EXCEPT !.ends = answeredStarts(a), !.step = step,
                                 !.result = IF job[r].kind = "start" THEN "none" ELSE "ok"]
  <1>5. job' = [job EXCEPT ![r] = u]
    BY <1>2, <1>3 DEF cancelEmailChange, EmailChangeTypeOK
  <1>6. /\ u \in Job /\ u.kind = job[r].kind /\ u.account = job[r].account
        /\ u.link = job[r].link /\ u.step = step /\ u.locked = job[r].locked
        /\ u.connected = job[r].connected /\ u.ends = answeredStarts(a)
    <2>1. answeredStarts(a) \in SUBSET EmailRequest
      BY DEF answeredStarts
    <2> QED BY <1>2, <2>1 DEF Job
  <1> HIDE DEF u
  <1>7. Regular(r, u) /\ job[r].locked
    BY <1>1, <1>2, <1>6 DEF Regular, LockedSteps
  <1>8. Moves(r, a, u)
    BY <1>1, <1>2, <1>3, <1>5, <1>6, <1>7 DEF Moves
  <1>9. /\ markers' \subseteq markers /\ \A link \in markers' : link.account # a
        /\ pending'[a] = NoPending /\ \A b \in EmailAccount \ {a} : pending'[b] = pending[b]
        /\ pending' \in [EmailAccount -> Pending \cup {NoPending}]
    BY <1>2, <1>4 DEF retired, EmailChangeTypeOK
  <1>10. InOrder(u, markers', pending'[a]) /\ u.step \notin {"consumed", "recorded"}
    BY <1>3, <1>6, <1>9 DEF InOrder
  <1>11. /\ loginEmail' \in [EmailAccount -> LoginAddress] /\ inbox' = inbox
         /\ applied' \in [EmailAccount -> EmailRequest \cup {NoChange}]
         /\ markers' \subseteq Link /\ inbox' \subseteq Link
    BY <1>1, <1>2, <1>9 DEF EmailChangeTypeOK
  <1> QED BY <1>1, <1>6, <1>7, <1>8, <1>9, <1>10, <1>11, StepInd

LEMMA RecordPendingInd ==
  ASSUME EmailInv, NEW r \in EmailRequest, recordPending(r)
  PROVE  EmailInv'
  <1>1. /\ job[r].step = "retired" /\ go(r, "recorded")
        /\ UNCHANGED <<loginEmail, markers, inbox, ended, applied>>
    BY DEF recordPending, on
  <1>2. EmailChangeTypeOK /\ job[r].kind = "start"
    BY <1>1, AtStep DEF Regular
  <1>3. PICK a \in EmailAccount, u \in Job :
            /\ Moves(r, a, u) /\ a = job[r].account /\ job[r].locked /\ job[r] # Unsent
            /\ u.step = "recorded" /\ u.ends = job[r].ends /\ Regular(r, job[r])
            /\ InOrder(job[r], markers, pending[a])
    BY <1>1, <1>2, LockedStep DEF LockedSteps
  <1>4. /\ u.kind = "start" /\ u.link = job[r].link /\ u.link \in Link /\ u.account = a
        /\ u.link.stage = "confirm-current" /\ u.link.change = r
    BY <1>2, <1>3 DEF Moves, Regular
  <1>5. pending' = [pending EXCEPT ![a] = Showing(linkOut(u))] /\ Showing(linkOut(u)) \in Pending
    BY <1>3, <1>4 DEF recordPending, Showing, linkOut, Link, Pending
  <1>6. /\ pending'[a] = Showing(linkOut(u)) /\ \A b \in EmailAccount \ {a} : pending'[b] = pending[b]
        /\ pending' \in [EmailAccount -> Pending \cup {NoPending}]
    BY <1>2, <1>5 DEF EmailChangeTypeOK
  <1>7. \A link \in markers : link.account # a
    BY <1>1, <1>3 DEF InOrder
  <1>8. InOrder(u, markers', pending'[a])
    BY <1>1, <1>3, <1>4, <1>6, <1>7 DEF InOrder
  <1>9. /\ loginEmail' \in [EmailAccount -> LoginAddress] /\ inbox' = inbox /\ markers' = markers
        /\ applied' \in [EmailAccount -> EmailRequest \cup {NoChange}]
        /\ markers' \subseteq Link /\ inbox' \subseteq Link
    BY <1>1, <1>2 DEF EmailChangeTypeOK
  <1> QED BY <1>3, <1>4, <1>6, <1>7, <1>8, <1>9, StepInd

LEMMA RememberInd ==
  ASSUME EmailInv, NEW r \in EmailRequest, rememberEmailVerificationToken(r)
  PROVE  EmailInv'
  <1>1. /\ job[r].step = "recorded" /\ go(r, "remembered") /\ markers' = markers \cup {outgoing(r)}
        /\ UNCHANGED <<loginEmail, pending, inbox, ended, applied>>
    BY DEF rememberEmailVerificationToken, on
  <1>2. /\ EmailChangeTypeOK
        /\ job[r].kind = "start" \/ (job[r].kind = "open" /\ job[r].link.stage = "confirm-current")
    BY <1>1, AtStep DEF Regular
  <1>3. PICK a \in EmailAccount, u \in Job :
            /\ Moves(r, a, u) /\ a = job[r].account /\ job[r].locked /\ job[r] # Unsent
            /\ u.step = "remembered" /\ u.ends = job[r].ends /\ Regular(r, job[r])
            /\ InOrder(job[r], markers, pending[a])
    BY <1>1, <1>2, LockedStep DEF LockedSteps
  <1>4. /\ outgoing(r) = linkOut(job[r]) /\ outgoing(r) \in Link
        /\ outgoing(r).account = a /\ IsStarted(outgoing(r))
        /\ Ongoing(outgoing(r).change) \/ outgoing(r).change = r
    BY <1>1, <1>3, OutgoingFacts
  <1>5. linkOut(u) = outgoing(r) /\ u.account = a
    BY <1>3, <1>4 DEF Moves, linkOut
  <1>6. /\ \A link \in markers' : link.account = a => link = linkOut(u)
        /\ \A link \in markers' : link.account # a => link \in markers
        /\ pending'[a] \in {NoPending, Showing(linkOut(u))}
    BY <1>1, <1>3, <1>4, <1>5 DEF InOrder, linkOut
  <1>7. InOrder(u, markers', pending'[a])
    BY <1>3, <1>5, <1>6 DEF InOrder
  <1>8. /\ loginEmail' \in [EmailAccount -> LoginAddress] /\ inbox' = inbox /\ pending' = pending
        /\ applied' \in [EmailAccount -> EmailRequest \cup {NoChange}]
        /\ markers' \subseteq Link /\ inbox' \subseteq Link
        /\ pending' \in [EmailAccount -> Pending \cup {NoPending}]
    BY <1>1, <1>2, <1>4 DEF EmailChangeTypeOK
  <1>9. \A link \in markers' \cup inbox' : link \in markers \cup inbox \/ IsStarted(link)
    BY <1>1, <1>4
  <1>10. \A link \in markers' : link \in markers \/ Ongoing(link.change) \/ link.change = r
    BY <1>1, <1>4
  <1> QED BY <1>3, <1>6, <1>7, <1>8, <1>9, <1>10, StepInd

LEMMA DeliverLinkInd ==
  ASSUME EmailInv, NEW r \in EmailRequest, deliver(r)
  PROVE  EmailInv'
  <1>1. /\ job[r].step = "remembered" /\ (go(r, "undelivered") \/ finish(r, "ok"))
        /\ inbox' \subseteq inbox \cup {outgoing(r)}
        /\ UNCHANGED <<loginEmail, pending, markers, ended, applied>>
    BY DEF deliver
  <1>2. /\ EmailChangeTypeOK
        /\ job[r].kind = "start" \/ (job[r].kind = "open" /\ job[r].link.stage = "confirm-current")
    BY <1>1, AtStep DEF Regular
  <1>3. PICK step \in {"undelivered", "finished"} :
            go(r, step) \/ (step = "finished" /\ (finish(r, "ok") \/ finish(r, "failed")))
    BY <1>1
  <1>4. PICK a \in EmailAccount, u \in Job :
            /\ Moves(r, a, u) /\ a = job[r].account /\ job[r].locked /\ job[r] # Unsent
            /\ u.step = step /\ u.ends = job[r].ends /\ Regular(r, job[r])
            /\ InOrder(job[r], markers, pending[a])
    BY <1>1, <1>2, <1>3, LockedStep DEF LockedSteps
  <1>5. outgoing(r) \in Link /\ IsStarted(outgoing(r))
    BY <1>1, OutgoingFacts
  <1>6. u.kind = job[r].kind /\ u.link = job[r].link /\ u.account = a
    BY <1>4 DEF Moves
  <1>7. InOrder(u, markers, pending[a])
    BY <1>1, <1>4, <1>6 DEF InOrder, linkOut
  <1>8. /\ loginEmail' \in [EmailAccount -> LoginAddress]
        /\ applied' \in [EmailAccount -> EmailRequest \cup {NoChange}]
        /\ inbox' \subseteq Link /\ \A link \in inbox' : link \in inbox \/ IsStarted(link)
    BY <1>1, <1>2, <1>5 DEF EmailChangeTypeOK
  <1> QED BY <1>1, <1>4, <1>7, <1>8, QuietInd

LEMMA ForgetInd ==
  ASSUME EmailInv, NEW r \in EmailRequest, forgetEmailVerificationToken(r)
  PROVE  EmailInv'
  <1>1. /\ job[r].step = "undelivered" /\ markers' = markers \ {outgoing(r)}
        /\ (job[r].kind = "start" /\ go(r, "forgotten")) \/ finish(r, "failed")
        /\ UNCHANGED <<loginEmail, pending, inbox, ended, applied>>
    BY DEF forgetEmailVerificationToken, on
  <1>2. EmailChangeTypeOK
    BY DEF EmailInv
  <1>3. PICK step \in {"forgotten", "finished"} :
            /\ go(r, step) \/ (step = "finished" /\ (finish(r, "ok") \/ finish(r, "failed")))
            /\ step = "forgotten" => job[r].kind = "start"
    BY <1>1
  <1>4. PICK a \in EmailAccount, u \in Job :
            /\ Moves(r, a, u) /\ a = job[r].account /\ job[r].locked /\ job[r] # Unsent
            /\ u.step = step /\ u.ends = job[r].ends /\ Regular(r, job[r])
            /\ InOrder(job[r], markers, pending[a])
    BY <1>1, <1>3, LockedStep DEF LockedSteps
  <1>5. outgoing(r) = linkOut(job[r])
    BY <1>1, OutgoingFacts
  <1>6. linkOut(u) = outgoing(r) /\ u.account = a
    BY <1>4, <1>5 DEF Moves, linkOut
  <1>7. /\ markers' \subseteq markers /\ \A link \in markers' : link.account # a
        /\ pending'[a] \in {NoPending, Showing(linkOut(u))}
    BY <1>1, <1>4, <1>5, <1>6 DEF InOrder
  <1>8. InOrder(u, markers', pending'[a])
    BY <1>4, <1>6, <1>7 DEF InOrder
  <1>9. /\ loginEmail' \in [EmailAccount -> LoginAddress] /\ inbox' = inbox /\ pending' = pending
        /\ applied' \in [EmailAccount -> EmailRequest \cup {NoChange}]
        /\ markers' \subseteq Link /\ inbox' \subseteq Link
        /\ pending' \in [EmailAccount -> Pending \cup {NoPending}]
        /\ u.step \notin {"consumed", "recorded"}
    BY <1>1, <1>2, <1>4, <1>7 DEF EmailChangeTypeOK
  <1> QED BY <1>4, <1>7, <1>8, <1>9, StepInd

LEMMA DropPendingInd ==
  ASSUME EmailInv, NEW r \in EmailRequest, dropPending(r)
  PROVE  EmailInv'
  <1>1. /\ job[r].step = "forgotten" /\ finish(r, "failed")
        /\ UNCHANGED <<loginEmail, markers, inbox, ended, applied>>
    BY DEF dropPending, on
  <1>2. EmailChangeTypeOK
    BY DEF EmailInv
  <1>3. PICK a \in EmailAccount, u \in Job :
            /\ Moves(r, a, u) /\ a = job[r].account /\ job[r].locked /\ job[r] # Unsent
            /\ u.step = "finished" /\ u.ends = job[r].ends /\ Regular(r, job[r])
            /\ InOrder(job[r], markers, pending[a])
    BY <1>1, LockedStep DEF LockedSteps
  <1>4. /\ \A b \in EmailAccount \ {a} : pending'[b] = pending[b]
        /\ pending' \in [EmailAccount -> Pending \cup {NoPending}]
    <2>1. pending' = [pending EXCEPT ![a] =
                         IF pending[a] # NoPending /\ pending[a].change = r THEN NoPending ELSE pending[a]]
      BY <1>2, <1>3 DEF dropPending, EmailChangeTypeOK
    <2> QED BY <1>2, <2>1 DEF EmailChangeTypeOK
  <1>5. \A link \in markers : link.account # a
    BY <1>1, <1>3 DEF InOrder, Moves
  <1>6. InOrder(u, markers', pending'[a])
    BY <1>3 DEF InOrder
  <1>7. /\ loginEmail' \in [EmailAccount -> LoginAddress] /\ inbox' = inbox /\ markers' = markers
        /\ applied' \in [EmailAccount -> EmailRequest \cup {NoChange}]
        /\ markers' \subseteq Link /\ inbox' \subseteq Link
        /\ u.step \notin {"consumed", "recorded"}
    BY <1>1, <1>2, <1>3 DEF EmailChangeTypeOK
  <1> QED BY <1>3, <1>4, <1>5, <1>6, <1>7, StepInd

(* A link is used once, and leads on with what the profile shows.              *)
LEMMA ConsumeInd ==
  ASSUME EmailInv, NEW r \in EmailRequest, consumeEmailVerificationToken(r)
  PROVE  EmailInv'
  <1>1. /\ job[r].step = "locked" /\ job[r].kind = "open" /\ markers' = markers \ {job[r].link}
        /\ (job[r].link \in markers /\ go(r, "consumed")) \/ finish(r, "failed")
        /\ job[r].link \notin markers => finish(r, "failed")
        /\ UNCHANGED <<loginEmail, pending, inbox, ended, applied>>
    BY DEF consumeEmailVerificationToken, at, used
  <1>2. EmailChangeTypeOK /\ LinkIsOfThePending
    BY DEF EmailInv
  <1>3. PICK step \in {"consumed", "finished"} :
            /\ go(r, step) \/ (step = "finished" /\ (finish(r, "ok") \/ finish(r, "failed")))
            /\ step = "consumed" => job[r].link \in markers
    BY <1>1
  <1>4. PICK a \in EmailAccount, u \in Job :
            /\ Moves(r, a, u) /\ a = job[r].account /\ job[r].locked /\ job[r] # Unsent
            /\ u.step = step /\ u.ends = job[r].ends /\ Regular(r, job[r])
            /\ InOrder(job[r], markers, pending[a])
    BY <1>1, <1>3, LockedStep DEF LockedSteps
  <1>5. /\ u.link = job[r].link /\ u.account = a /\ u.link \in Link /\ u.link.account = a
        /\ u.step = "consumed" => u.link \in markers
    BY <1>1, <1>3, <1>4 DEF Moves, Regular
  <1>6. ASSUME u.step = "consumed"
        PROVE  /\ \A link \in markers' : link.account # a
               /\ pending'[a] \in {NoPending, Showing(u.link)}
               /\ Ongoing(u.link.change)
    <2>1. PICK link \in markers : link = u.link /\ link.account = a
      BY <1>5, <1>6
    <2>2. /\ \A other \in markers : other.account = a => other = link
          /\ pending[a] # NoPending => pending[a] = Showing(link)
      BY <1>2, <2>1 DEF LinkIsOfThePending, Showing
    <2>3. markers' = markers \ {link} /\ pending' = pending
      BY <1>1, <1>5, <2>1
    <2> QED BY <2>1, <2>2, <2>3 DEF Ongoing
  <1>7. InOrder(u, markers', pending'[a])
    BY <1>3, <1>4, <1>5, <1>6 DEF InOrder
  <1>8. /\ markers' \subseteq markers
        /\ \A link \in markers' : link.account = a =>
              /\ \A other \in markers' : other.account = a => other = link
              /\ pending'[a] # NoPending => pending'[a] = Showing(link)
    BY <1>1, <1>2 DEF LinkIsOfThePending, Showing
  <1>9. /\ loginEmail' \in [EmailAccount -> LoginAddress] /\ inbox' = inbox /\ pending' = pending
        /\ applied' \in [EmailAccount -> EmailRequest \cup {NoChange}]
        /\ markers' \subseteq Link /\ inbox' \subseteq Link
        /\ pending' \in [EmailAccount -> Pending \cup {NoPending}]
        /\ u.step # "recorded"
    BY <1>1, <1>2, <1>3, <1>4, <1>8 DEF EmailChangeTypeOK
  <1> QED BY <1>4, <1>6, <1>7, <1>8, <1>9, StepInd

LEMMA AdvancePendingInd ==
  ASSUME EmailInv, NEW r \in EmailRequest, advancePending(r)
  PROVE  EmailInv'
  <1>1. /\ job[r].step = "consumed" /\ job[r].link.stage = "confirm-current"
        /\ \/ /\ pending[job[r].account] # NoPending
              /\ pending' = [pending EXCEPT ![job[r].account].stage = "verify-new"]
              /\ go(r, "recorded")
           \/ finish(r, "failed") /\ pending' = pending
        /\ UNCHANGED <<loginEmail, markers, inbox, ended, applied>>
    BY DEF advancePending, on
  <1>2. EmailChangeTypeOK /\ job[r].kind = "open" /\ job[r] # Unsent
    BY <1>1, AtStep DEF Regular
  <1>3. PICK step \in {"recorded", "finished"} :
            /\ go(r, step) \/ (step = "finished" /\ (finish(r, "ok") \/ finish(r, "failed")))
            /\ step = "recorded" => /\ pending[job[r].account] # NoPending
                                    /\ pending' = [pending EXCEPT ![job[r].account].stage = "verify-new"]
            /\ step = "finished" => pending' = pending
    BY <1>1
  <1>4. PICK a \in EmailAccount, u \in Job :
            /\ Moves(r, a, u) /\ a = job[r].account /\ job[r].locked /\ job[r] # Unsent
            /\ u.step = step /\ u.ends = job[r].ends /\ Regular(r, job[r])
            /\ InOrder(job[r], markers, pending[a])
    BY <1>1, <1>2, <1>3, LockedStep DEF LockedSteps
  <1>5. /\ u.kind = "open" /\ u.link = job[r].link /\ u.account = a /\ u.link \in Link
        /\ Ongoing(u.link.change)
    BY <1>1, <1>2, <1>4 DEF Moves, Regular, Ongoing
  <1>6. /\ \A link \in markers : link.account # a
        /\ pending[a] \in {NoPending, Showing(u.link)}
    BY <1>1, <1>4, <1>5 DEF InOrder
  <1>7. step = "recorded" => pending' = [pending EXCEPT ![a] = Showing(linkOut(u))]
    <2>1. ASSUME pending[a] = Showing(u.link)
          PROVE  [pending[a] EXCEPT !.stage = "verify-new"] = Showing(linkOut(u))
      BY <1>5, <2>1 DEF Showing, linkOut, Link
    <2>2. ASSUME step = "recorded"
          PROVE  /\ pending[a] = Showing(u.link)
                 /\ pending' = [pending EXCEPT ![a] = [pending[a] EXCEPT !.stage = "verify-new"]]
      BY <1>2, <1>3, <1>4, <1>6, <2>2 DEF EmailChangeTypeOK
    <2> QED BY <2>1, <2>2
  <1>8. Showing(linkOut(u)) \in Pending
    BY <1>5 DEF Showing, linkOut, Link, Pending, Stage
  <1>9. /\ \A b \in EmailAccount \ {a} : pending'[b] = pending[b]
        /\ pending' \in [EmailAccount -> Pending \cup {NoPending}]
        /\ step = "recorded" => pending'[a] = Showing(linkOut(u))
    BY <1>2, <1>3, <1>7, <1>8 DEF EmailChangeTypeOK
  <1>10. InOrder(u, markers', pending'[a])
    BY <1>1, <1>3, <1>4, <1>5, <1>6, <1>9 DEF InOrder
  <1>11. /\ loginEmail' \in [EmailAccount -> LoginAddress] /\ inbox' = inbox /\ markers' = markers
         /\ applied' \in [EmailAccount -> EmailRequest \cup {NoChange}]
         /\ markers' \subseteq Link /\ inbox' \subseteq Link
    BY <1>1, <1>2 DEF EmailChangeTypeOK
  <1> QED BY <1>4, <1>5, <1>6, <1>9, <1>10, <1>11, StepInd

LEMMA UpdateEmailInd ==
  ASSUME EmailInv, NEW r \in EmailRequest, updateEmail(r)
  PROVE  EmailInv'
  <1>1. /\ job[r].step = "consumed" /\ (go(r, "applied") \/ finish(r, "failed"))
        /\ UNCHANGED <<pending, markers, inbox, ended>>
    BY DEF updateEmail, on
  <1>2. EmailChangeTypeOK /\ job[r].kind = "open"
    BY <1>1, AtStep DEF Regular
  <1>3. PICK step \in {"applied", "finished"} :
            go(r, step) \/ (step = "finished" /\ (finish(r, "ok") \/ finish(r, "failed")))
    BY <1>1
  <1>4. PICK a \in EmailAccount, u \in Job :
            /\ Moves(r, a, u) /\ a = job[r].account /\ job[r].locked /\ job[r] # Unsent
            /\ u.step = step /\ u.ends = job[r].ends /\ Regular(r, job[r])
            /\ InOrder(job[r], markers, pending[a])
    BY <1>1, <1>2, <1>3, LockedStep DEF LockedSteps
  <1>5. job[r].link \in Link
    BY <1>2, <1>4 DEF Regular
  <1>6. /\ loginEmail' \in [EmailAccount -> LoginAddress]
        /\ applied' \in [EmailAccount -> EmailRequest \cup {NoChange}]
    BY <1>2, <1>5 DEF updateEmail, EmailChangeTypeOK, Link
  <1>7. InOrder(u, markers, pending[a]) /\ u.step \notin {"consumed", "recorded"}
    BY <1>3, <1>4 DEF InOrder
  <1>8. inbox' \subseteq Link /\ \A link \in inbox' : link \in inbox
    BY <1>1, <1>2 DEF EmailChangeTypeOK
  <1> QED BY <1>1, <1>4, <1>6, <1>7, <1>8, QuietInd

LEMMA AfterEmailVerificationInd ==
  ASSUME EmailInv, NEW r \in EmailRequest, afterEmailVerification(r)
  PROVE  EmailInv'
  <1>1. /\ job[r].step = "applied" /\ finish(r, "ok")
        /\ UNCHANGED <<loginEmail, inbox, ended, applied>>
    BY DEF afterEmailVerification, on
  <1>2. EmailChangeTypeOK /\ LinkIsOfThePending
    BY DEF EmailInv
  <1>3. PICK a \in EmailAccount, u \in Job :
            /\ Moves(r, a, u) /\ a = job[r].account /\ job[r].locked /\ job[r] # Unsent
            /\ u.step = "finished" /\ u.ends = job[r].ends /\ Regular(r, job[r])
            /\ InOrder(job[r], markers, pending[a])
    BY <1>1, LockedStep DEF LockedSteps
  <1>4. \/ pending' = [pending EXCEPT ![a] = NoPending] /\ markers' = retired(a)
        \/ pending' = pending /\ markers' = markers
    BY <1>3 DEF afterEmailVerification
  <1>5. /\ \A b \in EmailAccount \ {a} : pending'[b] = pending[b]
        /\ pending' \in [EmailAccount -> Pending \cup {NoPending}]
        /\ markers' \subseteq markers
        /\ \A link \in markers' : link.account = a =>
              /\ \A other \in markers' : other.account = a => other = link
              /\ pending'[a] # NoPending => pending'[a] = Showing(link)
    BY <1>2, <1>4 DEF EmailChangeTypeOK, LinkIsOfThePending, Showing, retired
  <1>6. InOrder(u, markers', pending'[a]) /\ u.step \notin {"consumed", "recorded"}
    BY <1>3 DEF InOrder
  <1>7. /\ loginEmail' \in [EmailAccount -> LoginAddress] /\ inbox' = inbox
        /\ applied' \in [EmailAccount -> EmailRequest \cup {NoChange}]
        /\ markers' \subseteq Link /\ inbox' \subseteq Link
    BY <1>1, <1>2, <1>5 DEF EmailChangeTypeOK
  <1> QED BY <1>3, <1>5, <1>6, <1>7, StepInd

-----------------------------------------------------------------------------

LEMMA EmailChangeInd == EmailInv /\ [EmailChangeNext]_emailChangeVars => EmailInv'
  <1> SUFFICES ASSUME EmailInv, [EmailChangeNext]_emailChangeVars
               PROVE  EmailInv'
    OBVIOUS
  <1>0. EmailChangeTypeOK
    BY DEF EmailInv
  <1>1. CASE UNCHANGED emailChangeVars
    BY <1>1 DEF emailChangeVars, EmailInv, EmailChangeTypeOK, LinkIsOfThePending, JobsInv, Regular,
                OneLock, EndsAreAnswered, WasStarted, LinksAreStarted, IsStarted, StepsInOrder,
                InOrder, Showing, linkOut, OngoingIsNotEnded, Ongoing
  <1>2. ASSUME NEW r \in EmailRequest, NEW a \in EmailAccount, NEW to \in LoginAddress, start(r, a, to)
        PROVE  EmailInv'
    <2>1. PICK link : link = [account |-> a, stage |-> "confirm-current", email |-> to, change |-> r]
      OBVIOUS
    <2>2. link \in Link /\ link.account = a /\ link.stage = "confirm-current" /\ link.change = r
      BY <2>1 DEF Link, Stage
    <2>3. arrive(r, "start", a, link)
      BY <1>2, <2>1 DEF start
    <2> QED BY <2>2, <2>3, ArriveInd
  <1>3. ASSUME NEW r \in EmailRequest, NEW a \in EmailAccount, cancel(r, a)
        PROVE  EmailInv'
    BY <1>3, ArriveInd DEF cancel
  <1>4. ASSUME NEW r \in EmailRequest, NEW link \in inbox, open(r, link)
        PROVE  EmailInv'
    <2>1. link \in Link /\ link.account \in EmailAccount /\ arrive(r, "open", link.account, link)
      BY <1>0, <1>4 DEF open, EmailChangeTypeOK, Link
    <2>2. PICK a \in EmailAccount : a = link.account
      BY <2>1
    <2> QED BY <2>1, <2>2, ArriveInd
  <1>5. ASSUME NEW r \in EmailRequest, Step(r)
        PROVE  EmailInv'
    BY <1>5, IdentifyInd, ConnectInd, TryLockInd, CheckVacantInd, CancelEmailChangeInd,
       RecordPendingInd, RememberInd, DeliverLinkInd, ForgetInd, DropPendingInd, ConsumeInd,
       AdvancePendingInd, UpdateEmailInd, AfterEmailVerificationInd, AnswerRequestInd
       DEF Step
  <1> QED BY <1>1, <1>2, <1>3, <1>4, <1>5, CrashRequestInd, ExpireLinksInd DEF EmailChangeNext

(* What a step that gives an account its address does.                         *)
LEMMA AddressSteps ==
  ASSUME EmailChangeTypeOK, [EmailChangeNext]_emailChangeVars,
         loginEmail' # loginEmail \/ applied' # applied
  PROVE  \E r \in EmailRequest : updateEmail(r)
  BY DEF EmailChangeNext, start, cancel, open, arrive, Step, identify, connect, tryLock, checkVacant,
         cancelEmailChange, recordPending, rememberEmailVerificationToken, deliver,
         forgetEmailVerificationToken, dropPending, consumeEmailVerificationToken, advancePending,
         afterEmailVerification, answer, CrashRequest, ExpireLinks, emailChangeVars

LEMMA UpdateFacts ==
  ASSUME EmailInv, NEW r \in EmailRequest, updateEmail(r), NEW a \in EmailAccount,
         loginEmail'[a] # loginEmail[a] \/ applied'[a] # applied[a]
  PROVE  /\ job[r] # Unsent /\ job[r].kind = "open" /\ job[r].step = "consumed"
         /\ job[r].link \in Link /\ job[r].link.account = a /\ job[r].link.stage = "verify-new"
         /\ loginEmail'[a] = job[r].link.email /\ applied'[a] = job[r].link.change
  <1>1. job[r].step = "consumed" /\ job[r].link.stage = "verify-new"
    BY DEF updateEmail, on
  <1>2. EmailChangeTypeOK /\ job[r] # Unsent /\ Regular(r, job[r]) /\ job[r].account \in EmailAccount
    BY <1>1, AtStep
  <1>3. job[r].kind = "open" /\ job[r].link \in Link /\ job[r].link.account = job[r].account
    BY <1>1, <1>2 DEF Regular
  <1>4. /\ job[r].account = a /\ loginEmail'[a] = job[r].link.email
        /\ applied'[a] = job[r].link.change
    BY <1>2 DEF updateEmail, EmailChangeTypeOK
  <1> QED BY <1>1, <1>2, <1>3, <1>4

LEMMA EndedStep ==
  ASSUME EmailInv, [EmailChangeNext]_emailChangeVars
  PROVE  \A a \in EmailAccount : applied'[a] # applied[a] => applied'[a] \notin ended
  <1> SUFFICES ASSUME NEW a \in EmailAccount, applied'[a] # applied[a]
               PROVE  applied'[a] \notin ended
    OBVIOUS
  <1>1. PICK r \in EmailRequest : updateEmail(r)
    BY AddressSteps DEF EmailInv
  <1>2. /\ job[r] # Unsent /\ job[r].kind = "open" /\ job[r].step = "consumed"
        /\ job[r].link \in Link /\ applied'[a] = job[r].link.change
    BY <1>1, UpdateFacts
  <1>3. job[r].link.change \in EmailRequest /\ Ongoing(job[r].link.change)
    BY <1>2 DEF Ongoing, Link
  <1> QED BY <1>2, <1>3 DEF EmailInv, OngoingIsNotEnded

LEMMA InboxesStep ==
  ASSUME EmailInv, [EmailChangeNext]_emailChangeVars
  PROVE  \A a \in EmailAccount : loginEmail'[a] # loginEmail[a] =>
            \E first, second \in EmailRequest :
               /\ first # second
               /\ at(second, "open", "consumed") /\ job[first] # Unsent /\ job[first].kind = "open"
               /\ job[first].link = [account |-> a, stage |-> "confirm-current",
                                     email |-> loginEmail'[a], change |-> job[second].link.change]
               /\ job[second].link.stage = "verify-new"
  <1> SUFFICES ASSUME NEW a \in EmailAccount, loginEmail'[a] # loginEmail[a]
               PROVE  \E first, second \in EmailRequest :
               /\ first # second
               /\ at(second, "open", "consumed") /\ job[first] # Unsent /\ job[first].kind = "open"
               /\ job[first].link = [account |-> a, stage |-> "confirm-current",
                                     email |-> loginEmail'[a], change |-> job[second].link.change]
               /\ job[second].link.stage = "verify-new"
    OBVIOUS
  <1>1. PICK second \in EmailRequest : updateEmail(second)
    BY AddressSteps DEF EmailInv
  <1>2. /\ job[second] # Unsent /\ job[second].kind = "open" /\ job[second].step = "consumed"
        /\ job[second].link.account = a /\ job[second].link.stage = "verify-new"
        /\ loginEmail'[a] = job[second].link.email
    BY <1>1, UpdateFacts
  <1>3. PICK first \in EmailRequest :
           /\ job[first] # Unsent /\ job[first].kind = "open"
           /\ job[first].link = [account |-> a, stage |-> "confirm-current",
                                 email |-> loginEmail'[a], change |-> job[second].link.change]
    BY <1>2 DEF EmailInv, LinksAreStarted, IsStarted
  <1>4. first # second
    BY <1>2, <1>3
  <1> QED BY <1>2, <1>3, <1>4 DEF at

(* An account has one usable link, the one of the change that its profile      *)
(* shows; a change whose end was answered never gives the account its address; *)
(* and the address changes to one whose owner has opened a link after the      *)
(* owner of the present one has, both links of one change.                     *)
THEOREM EmailChangeIsKept == EmailChangeSpec => EmailChangeKept
  <1>1. EmailInv => EmailChangeTypeOK /\ LinkIsOfThePending
    BY DEF EmailInv
  <1> QED BY <1>1, EmailChangeInitInv, EmailChangeInd, EndedStep, InboxesStep, PTL
          DEF EmailChangeSpec, EmailChangeKept, EndedStaysEnded, BothInboxesOpened

=============================================================================
