------------------------- MODULE ReportPlansProofs -------------------------
(***************************************************************************)
(* The record is never written unseen, whatever the number of devices,       *)
(* requests and texts.  The argument: a version names one content.  What an   *)
(* editor has open and what a transaction has read are the row if they have   *)
(* its version, and a request never expects more than its editor has seen;    *)
(* so the guard of the update, which compares the row with the version        *)
(* expected, says as well that the row is the one read and checked.          *)
(***************************************************************************)
EXTENDS ReportPlans, TLAPS

(* What an editor has open is the row, or older. *)
PagesAreOlder ==
    \A d \in Device : /\ page[d].version <= plan.version
                      /\ page[d].version = plan.version => page[d] = plan

(* A request expects no more than what its editor has seen. *)
ExpectsWhatWasSeen ==
    \A r \in Request :
        job[r].step # "unsent" => job[r].expected <= page[job[r].by].version

(* What a transaction has read is the row, or older, and passed the checks. *)
ReadsAreOlder ==
    \A r \in Request :
        job[r].step = "checked" =>
            /\ job[r].expected <= job[r].current.version
            /\ job[r].current.version <= plan.version
            /\ job[r].current.version = plan.version => job[r].current = plan
            /\ job[r].action = "update" /\ job[r].current.content.state = "published" =>
                  job[r].state = "published"

IndInv == TypeOK /\ PublishedHasItsDate /\ PagesAreOlder /\ ExpectsWhatWasSeen /\ ReadsAreOlder

-----------------------------------------------------------------------------
LEMMA InitInv == Init => IndInv
  <1> SUFFICES ASSUME Init PROVE IndInv
    OBVIOUS
  <1>1. PICK state \in {"draft", "published"}, text \in Text :
          plan = [version |-> 1,
                  publishedAt |-> IF state = "published" THEN 1 ELSE Unpublished,
                  content |-> [state |-> state, text |-> text, archived |-> FALSE]]
    BY DEF Init
  <1>2. 1 \in 1..MaxVersion
    BY ReportPlansAssumption
  <1>3. TypeOK
    <2>1. [state |-> state, text |-> text, archived |-> FALSE] \in Content
      BY DEF Content
    <2>2. (IF state = "published" THEN 1 ELSE Unpublished) \in 0..MaxVersion
      BY ReportPlansAssumption DEF Unpublished
    <2>3. plan \in Plan
      BY <1>1, <1>2, <2>1, <2>2 DEF Plan
    <2> QED BY <2>3 DEF Init, TypeOK
  <1>4. PublishedHasItsDate
    BY <1>1 DEF PublishedHasItsDate, Unpublished
  <1>5. PagesAreOlder
    <2>1. plan.version = 1
      BY <1>1
    <2>2. \A d \in Device : page[d] = NoPage
      BY DEF Init
    <2>3. NoPage.version = 0
      BY DEF NoPage
    <2>4. \A d \in Device : page[d].version = 0
      BY <2>2, <2>3
    <2>5. ASSUME NEW d \in Device
          PROVE  page[d].version <= plan.version /\ page[d].version # plan.version
      <3> DEFINE seen == page[d].version
                 now == plan.version
      <3>1. seen = 0 /\ now = 1
        BY <2>1, <2>4
      <3> HIDE DEF seen, now
      <3>2. seen <= now /\ seen # now
        BY <3>1
      <3> QED BY <3>2 DEF seen, now
    <2> QED BY <2>5 DEF PagesAreOlder
  <1>6. ExpectsWhatWasSeen /\ ReadsAreOlder
    BY DEF Init, ExpectsWhatWasSeen, ReadsAreOlder, Unsent
  <1> QED BY <1>3, <1>4, <1>5, <1>6 DEF IndInv
-----------------------------------------------------------------------------
(* The steps that change nothing but one request. *)
LEMMA RequestStep ==
    ASSUME IndInv, NEW r \in Request, NEW request \in {Unsent} \cup Sent \cup Checked,
           UNCHANGED <<plan, page, mayWrite, workspaceOpen>>,
           job' = [job EXCEPT ![r] = request],
           request.step # "unsent" => request.expected <= page[request.by].version,
           request.step = "checked" =>
              /\ request.expected <= request.current.version
              /\ request.current.version <= plan.version
              /\ request.current.version = plan.version => request.current = plan
              /\ request.action = "update" /\ request.current.content.state = "published" =>
                    request.state = "published"
    PROVE  IndInv'
  <1>1. job \in [Request -> {Unsent} \cup Sent \cup Checked]
    BY DEF IndInv, TypeOK
  <1>2. \A q \in Request : job'[q] = IF q = r THEN request ELSE job[q]
    BY <1>1
  <1>3. TypeOK'
    BY <1>1 DEF IndInv, TypeOK
  <1>4. PublishedHasItsDate' /\ PagesAreOlder'
    BY DEF IndInv, PublishedHasItsDate, PagesAreOlder
  <1>5. ExpectsWhatWasSeen'
    BY <1>2 DEF IndInv, ExpectsWhatWasSeen
  <1>6. ReadsAreOlder'
    BY <1>2 DEF IndInv, ReadsAreOlder
  <1> QED BY <1>3, <1>4, <1>5, <1>6 DEF IndInv

LEMMA SendStep ==
    ASSUME IndInv, NEW d \in Device, NEW r \in Request,
           NEW action \in {"update", "archive"}, NEW state \in {"draft", "published"},
           NEW text \in Text, page[d] # NoPage,
           UNCHANGED <<plan, page, mayWrite, workspaceOpen>>,
           job' = [job EXCEPT ![r] = [step |-> "sent", by |-> d, expected |-> page[d].version,
                                      action |-> action, state |-> state, text |-> text]]
    PROVE  IndInv'
  <1> DEFINE request == [step |-> "sent", by |-> d, expected |-> page[d].version,
                         action |-> action, state |-> state, text |-> text]
  <1>1. page[d] \in Plan
    BY DEF IndInv, TypeOK
  <1>2. page[d].version \in 1..MaxVersion
    BY <1>1 DEF Plan
  <1>3. request \in Sent
    BY <1>2 DEF Sent
  <1>4. request.step # "checked" /\ request.expected <= page[request.by].version
    BY <1>2, ReportPlansAssumption
  <1>5. job' = [job EXCEPT ![r] = request]
    OBVIOUS
  <1> HIDE DEF request
  <1> QED BY <1>3, <1>4, <1>5, RequestStep

LEMMA ForgetStep ==
    ASSUME IndInv, NEW r \in Request, NEW step \in {"refused", "aborted", "written", "sent"},
           job[r].step \in {"sent", "checked", "aborted"}
    PROVE  /\ forget(r, step) \in Sent
           /\ forget(r, step).step = step
           /\ forget(r, step).expected <= page[forget(r, step).by].version
  <1>1. job[r] \in Sent \cup Checked
    BY DEF IndInv, TypeOK, Unsent
  <1>2. forget(r, step) \in Sent
    BY <1>1 DEF Sent, Checked, forget
  <1>3. job[r].expected <= page[job[r].by].version
    BY DEF IndInv, ExpectsWhatWasSeen
  <1> QED BY <1>2, <1>3 DEF forget

(* The guard of the update makes the row the one that was read and checked, *)
(* and one that the editor has open.                                       *)
LEMMA WriterHasTheRow ==
    ASSUME IndInv, NEW r \in Request, write(r)
    PROVE  /\ job[r] \in Checked
           /\ job[r].current = plan
           /\ job[r].expected = plan.version
           /\ page[job[r].by].version = plan.version
           /\ plan.version + 1 \in 1..MaxVersion
           /\ job[r].action = "update" /\ plan.content.state = "published" =>
                 job[r].state = "published"
  <1>1. job[r].step = "checked" /\ plan.version = job[r].expected /\ job[r].expected < MaxVersion
    BY DEF write
  <1>2. job[r] \in Checked
    BY <1>1 DEF IndInv, TypeOK, Unsent, Sent
  <1>3. job[r].current \in Plan /\ plan \in Plan /\ job[r].by \in Device
    BY <1>2 DEF Checked, IndInv, TypeOK
  <1>4. plan.version \in 1..MaxVersion /\ job[r].current.version \in 1..MaxVersion
    BY <1>3 DEF Plan
  <1>5. job[r].current.version = plan.version /\ job[r].current = plan
    BY <1>1, <1>4, ReportPlansAssumption DEF IndInv, ReadsAreOlder
  <1>6. page[job[r].by] \in Plan \cup {NoPage}
    BY <1>3 DEF IndInv, TypeOK
  <1>7. page[job[r].by].version \in 0..MaxVersion
    BY <1>6, ReportPlansAssumption DEF Plan, NoPage
  <1>8. page[job[r].by].version = plan.version
    BY <1>1, <1>3, <1>4, <1>7, ReportPlansAssumption DEF IndInv, PagesAreOlder, ExpectsWhatWasSeen
  <1>9. job[r].action = "update" /\ plan.content.state = "published" => job[r].state = "published"
    BY <1>1, <1>5 DEF IndInv, ReadsAreOlder
  <1> QED BY <1>1, <1>2, <1>4, <1>5, <1>8, <1>9, ReportPlansAssumption

(* What is written is a row, with a date if and only if it is published, *)
(* keeps the date it had, and is a change the record allows.             *)
LEMMA WrittenRow ==
    ASSUME IndInv, NEW r \in Request, write(r)
    PROVE  /\ plan' \in Plan
           /\ plan'.version = plan.version + 1
           /\ PublishedHasItsDate'
           /\ plan.content.state = "published" =>
                 plan'.content.state = "published" /\ plan'.publishedAt = plan.publishedAt
           /\ <<plan.content, plan'.content>> \in Allowed
  <1>1. /\ job[r].current = plan /\ job[r].expected = plan.version
        /\ plan.version + 1 \in 1..MaxVersion
        /\ job[r].action = "update" /\ plan.content.state = "published" => job[r].state = "published"
        /\ job[r] \in Checked
    BY WriterHasTheRow
  <1>2. plan \in Plan /\ PublishedHasItsDate
    BY DEF IndInv, TypeOK
  <1>3. plan.content \in Content /\ plan.publishedAt \in 0..MaxVersion
    BY <1>2 DEF Plan
  <1>4. ~plan.content.archived /\ plan' = written(r)
    BY DEF write
  <1>5. CASE job[r].action = "archive"
    <2>1. plan' = [plan EXCEPT !.version = plan.version + 1, !.content.archived = TRUE]
      BY <1>1, <1>4, <1>5 DEF written
    <2>2. plan' = [version |-> plan.version + 1, publishedAt |-> plan.publishedAt,
                   content |-> [state |-> plan.content.state, text |-> plan.content.text,
                                archived |-> TRUE]]
      BY <1>2, <2>1 DEF Plan, Content
    <2>3. plan'.content \in Content
      BY <1>3, <2>2 DEF Content
    <2>4. plan' \in Plan
      BY <1>1, <1>3, <2>2, <2>3 DEF Plan
    <2>5. plan'.version = plan.version + 1 /\ plan'.publishedAt = plan.publishedAt
          /\ plan'.content.state = plan.content.state
      BY <2>2
    <2>6. PublishedHasItsDate'
      BY <1>2, <2>5 DEF PublishedHasItsDate
    <2> QED BY <1>3, <1>4, <2>3, <2>4, <2>5, <2>6 DEF Allowed
  <1>6. CASE job[r].action = "update"
    <2> DEFINE date == IF plan.publishedAt # Unpublished THEN plan.publishedAt
                       ELSE IF job[r].state = "published" THEN plan.version + 1 ELSE Unpublished
    <2>1. plan' = [version |-> plan.version + 1, publishedAt |-> date,
                   content |-> [state |-> job[r].state, text |-> job[r].text,
                                archived |-> plan.content.archived]]
      BY <1>1, <1>4, <1>6 DEF written
    <2>2. job[r].state \in {"draft", "published"} /\ job[r].text \in Text
      BY <1>1 DEF Checked
    <2>3. plan'.content \in Content
      BY <1>3, <2>1, <2>2 DEF Content
    <2>4. date \in 0..MaxVersion
      BY <1>1, <1>3, ReportPlansAssumption DEF Unpublished
    <2>5. plan' \in Plan
      BY <1>1, <2>1, <2>3, <2>4 DEF Plan
    <2>6. plan'.version = plan.version + 1 /\ plan'.publishedAt = date
          /\ plan'.content.state = job[r].state
      BY <2>1
    <2>7. plan.content.state = "published" => job[r].state = "published"
      BY <1>1, <1>6
    <2>8. PublishedHasItsDate'
      BY <1>1, <1>2, <1>3, <2>2, <2>6, <2>7 DEF PublishedHasItsDate, Unpublished
    <2>9. plan.content.state = "published" => date = plan.publishedAt
      BY <1>2 DEF PublishedHasItsDate
    <2> QED BY <1>3, <1>4, <2>3, <2>5, <2>6, <2>7, <2>8, <2>9 DEF Allowed
  <1> QED BY <1>1, <1>5, <1>6 DEF Checked

LEMMA WriteStep ==
    ASSUME IndInv, NEW r \in Request, write(r)
    PROVE  IndInv'
  <1>1. /\ plan' \in Plan /\ plan'.version = plan.version + 1 /\ PublishedHasItsDate'
    BY WrittenRow
  <1>2. UNCHANGED <<page, mayWrite, workspaceOpen>> /\ job[r].step = "checked"
        /\ job' = [job EXCEPT ![r] = forget(r, "written")]
    BY DEF write
  <1>3. /\ forget(r, "written") \in Sent /\ forget(r, "written").step = "written"
        /\ forget(r, "written").expected <= page[forget(r, "written").by].version
    BY <1>2, ForgetStep
  <1>4. plan \in Plan /\ job \in [Request -> {Unsent} \cup Sent \cup Checked]
    BY DEF IndInv, TypeOK
  <1>5. plan.version \in Nat
    BY <1>4 DEF Plan
  <1>6. \A q \in Request : job'[q] = IF q = r THEN forget(r, "written") ELSE job[q]
    BY <1>2, <1>4
  <1>7. TypeOK'
    BY <1>1, <1>2, <1>3, <1>4 DEF IndInv, TypeOK
  <1>8. \A d \in Device : page[d].version \in Nat
    BY DEF IndInv, TypeOK, Plan, NoPage
  <1>9. PagesAreOlder'
    BY <1>1, <1>2, <1>5, <1>8 DEF IndInv, PagesAreOlder
  <1>10. ExpectsWhatWasSeen'
    BY <1>2, <1>3, <1>6 DEF IndInv, ExpectsWhatWasSeen
  <1>11. ReadsAreOlder'
    <2> SUFFICES ASSUME NEW q \in Request, job[q].step = "checked", q # r
                 PROVE  /\ job[q].expected <= job[q].current.version
                        /\ job[q].current.version <= plan'.version
                        /\ job[q].current.version = plan'.version => job[q].current = plan'
                        /\ job[q].action = "update" /\ job[q].current.content.state = "published" =>
                              job[q].state = "published"
      BY <1>3, <1>6 DEF ReadsAreOlder
    <2>1. job[q] \in Checked
      BY <1>4 DEF Unsent, Sent
    <2>2. job[q].current.version \in Nat
      BY <2>1 DEF Checked, Plan
    <2> QED BY <1>1, <1>5, <2>2 DEF IndInv, ReadsAreOlder
  <1> QED BY <1>1, <1>7, <1>9, <1>10, <1>11 DEF IndInv

LEMMA OpenStep ==
    ASSUME IndInv, NEW d \in Device, openEditor(d)
    PROVE  IndInv'
  <1>1. page' = [page EXCEPT ![d] = plan] /\ UNCHANGED <<plan, job, mayWrite, workspaceOpen>>
    BY DEF openEditor
  <1>2. plan \in Plan /\ page \in [Device -> Plan \cup {NoPage}]
        /\ job \in [Request -> {Unsent} \cup Sent \cup Checked]
    BY DEF IndInv, TypeOK
  <1>3. \A e \in Device : page'[e] = IF e = d THEN plan ELSE page[e]
    BY <1>1, <1>2
  <1>4. plan.version \in Nat
    BY <1>2 DEF Plan
  <1>5. TypeOK'
    BY <1>1, <1>2 DEF IndInv, TypeOK
  <1>6. PagesAreOlder'
    BY <1>1, <1>3, <1>4 DEF IndInv, PagesAreOlder
  <1>7. ExpectsWhatWasSeen'
    <2> SUFFICES ASSUME NEW r \in Request, job[r].step # "unsent"
                 PROVE  job[r].expected <= page'[job[r].by].version
      BY <1>1 DEF ExpectsWhatWasSeen
    <2>1. job[r] \in Sent \cup Checked
      BY <1>2 DEF Unsent
    <2>2. job[r].expected \in Nat /\ job[r].by \in Device
      BY <2>1 DEF Sent, Checked
    <2>3. page[job[r].by].version \in Nat
      BY <1>2, <2>2 DEF Plan, NoPage
    <2>4. job[r].expected <= page[job[r].by].version /\ page[job[r].by].version <= plan.version
      BY <2>2 DEF IndInv, ExpectsWhatWasSeen, PagesAreOlder
    <2> QED BY <1>3, <1>4, <2>2, <2>3, <2>4
  <1>8. PublishedHasItsDate' /\ ReadsAreOlder'
    BY <1>1 DEF IndInv, PublishedHasItsDate, ReadsAreOlder
  <1> QED BY <1>5, <1>6, <1>7, <1>8 DEF IndInv

LEMMA CheckStep ==
    ASSUME IndInv, NEW r \in Request, check(r)
    PROVE  IndInv'
  <1> DEFINE request == [step |-> "checked", by |-> job[r].by, expected |-> job[r].expected,
                         action |-> job[r].action, state |-> job[r].state, text |-> job[r].text,
                         current |-> plan]
  <1>1. job[r].step = "sent" /\ accepts(r) /\ UNCHANGED <<plan, page, mayWrite, workspaceOpen>>
        /\ job' = [job EXCEPT ![r] = request]
    BY DEF check
  <1>2. job[r] \in Sent
    BY <1>1 DEF IndInv, TypeOK, Unsent, Checked
  <1>3. plan \in Plan /\ job[r].by \in Device /\ job[r].expected \in Nat
    BY <1>2 DEF IndInv, TypeOK, Sent
  <1>4. request \in Checked
    BY <1>2, <1>3 DEF Sent, Checked
  <1>5. page[job[r].by].version \in Nat /\ plan.version \in Nat
    BY <1>3 DEF IndInv, TypeOK, Plan, NoPage
  <1>6. job[r].expected <= page[job[r].by].version /\ page[job[r].by].version <= plan.version
    BY <1>1, <1>3 DEF IndInv, ExpectsWhatWasSeen, PagesAreOlder
  <1>7. /\ request.step = "checked" /\ request.expected <= request.current.version
        /\ request.current = plan /\ request.expected <= page[request.by].version
        /\ request.current.version <= plan.version
        /\ request.action = "update" /\ request.current.content.state = "published" =>
              request.state = "published"
    BY <1>1, <1>3, <1>5, <1>6 DEF accepts
  <1> HIDE DEF request
  <1> QED BY <1>1, <1>4, <1>7, RequestStep

-----------------------------------------------------------------------------
LEMMA Inductive == IndInv /\ [Next]_vars => IndInv'
  <1> SUFFICES ASSUME IndInv, [Next]_vars PROVE IndInv'
    OBVIOUS
  <1>1. ASSUME NEW d \in Device, openEditor(d) PROVE IndInv'
    BY <1>1, OpenStep
  <1>2. ASSUME NEW d \in Device, NEW r \in Request, NEW state \in {"draft", "published"},
               NEW text \in Text, save(d, r, state, text)
        PROVE  IndInv'
    BY <1>2, SendStep DEF save
  <1>3. ASSUME NEW d \in Device, NEW r \in Request, archive(d, r) PROVE IndInv'
    <2>1. page[d] \in Plan
      BY <1>3 DEF archive, IndInv, TypeOK
    <2>2. page[d].content.state \in {"draft", "published"} /\ page[d].content.text \in Text
      BY <2>1 DEF Plan, Content
    <2> QED BY <1>3, <2>2, SendStep DEF archive
  <1>4. ASSUME NEW r \in Request, NEW step \in {"refused", "aborted", "sent"},
               job[r].step \in {"sent", "checked", "aborted"},
               job' = [job EXCEPT ![r] = forget(r, step)],
               UNCHANGED <<plan, page, mayWrite, workspaceOpen>>
        PROVE  IndInv'
    BY <1>4, ForgetStep, RequestStep
  <1>5. ASSUME NEW r \in Request, retry(r) \/ Refuse(r) \/ reportConflict(r) \/ Abort(r) PROVE IndInv'
    BY <1>4, <1>5 DEF retry, Refuse, reportConflict, Abort
  <1>6. ASSUME NEW r \in Request, check(r) PROVE IndInv'
    BY <1>6, CheckStep
  <1>7. ASSUME NEW r \in Request, write(r) PROVE IndInv'
    BY <1>7, WriteStep
  <1>8. CASE LoseRole \/ ArchiveWorkspace \/ UNCHANGED vars
    <2>1. UNCHANGED <<plan, page, job>> /\ mayWrite' \in BOOLEAN /\ workspaceOpen' \in BOOLEAN
      BY <1>8 DEF LoseRole, ArchiveWorkspace, vars, IndInv, TypeOK
    <2> QED BY <2>1 DEF IndInv, TypeOK, PublishedHasItsDate, PagesAreOlder,
                        ExpectsWhatWasSeen, ReadsAreOlder
  <1> QED BY <1>1, <1>2, <1>3, <1>5, <1>6, <1>7, <1>8 DEF Next

(* The shape of the row, the editors and the requests. *)
THEOREM TypeCorrect == Spec => []TypeOK
  <1>1. IndInv => TypeOK
    BY DEF IndInv
  <1> QED BY InitInv, Inductive, <1>1, PTL DEF Spec

(* A published record has a date, and a draft has none: the table's check on *)
(* the two never refuses a save.                                             *)
THEOREM DateOfPublication == Spec => []PublishedHasItsDate
  <1>1. IndInv => PublishedHasItsDate
    BY DEF IndInv
  <1> QED BY InitInv, Inductive, <1>1, PTL DEF Spec

(* No draft that another device still saves takes a published record back. *)
THEOREM StaysShared == Spec => PublishedStaysShared
  <1>1. ASSUME IndInv, [Next]_vars
        PROVE  [plan.content.state = "published" =>
                  plan'.content.state = "published" /\ plan'.publishedAt = plan.publishedAt]_plan
    <2>1. ASSUME NEW r \in Request, write(r)
          PROVE  plan.content.state = "published" =>
                    plan'.content.state = "published" /\ plan'.publishedAt = plan.publishedAt
      BY <1>1, <2>1, WrittenRow
    <2>2. ASSUME \A r \in Request : ~write(r) PROVE UNCHANGED plan
      BY <1>1, <2>2 DEF Next, vars, openEditor, save, archive, retry, Refuse, check, reportConflict,
                        Abort, LoseRole, ArchiveWorkspace
    <2> QED BY <2>1, <2>2
  <1> QED BY InitInv, Inductive, <1>1, PTL DEF Spec, PublishedStaysShared

-----------------------------------------------------------------------------
LEMMA PromiseInit == Init => Promise!Init
  <1> SUFFICES ASSUME Init PROVE Promise!Init
    OBVIOUS
  <1>1. TypeOK
    BY InitInv DEF IndInv
  <1>2. plan.content \in Content /\ plan.version \in Nat
    BY <1>1 DEF TypeOK, Plan
  <1>3. [d \in Device |-> page[d].version] = [d \in Device |-> 0]
    BY DEF Init, NoPage
  <1> QED BY <1>2, <1>3 DEF Promise!Init

LEMMA PromiseStep ==
    ASSUME IndInv, [Next]_vars
    PROVE  [Promise!Next]_<<plan.content, plan.version, [d \in Device |-> page[d].version]>>
  <1> DEFINE knows == [d \in Device |-> page[d].version]
  <1>1. ASSUME NEW d \in Device, openEditor(d) PROVE Promise!Look(d)
    <2>1. page' = [page EXCEPT ![d] = plan] /\ plan' = plan
      BY <1>1 DEF openEditor
    <2>2. knows' = [knows EXCEPT ![d] = plan.version]
      BY <2>1 DEF IndInv, TypeOK
    <2> QED BY <2>1, <2>2 DEF Promise!Look
  <1>2. ASSUME NEW r \in Request, write(r) PROVE \E d \in Device : Promise!Change(d)
    <2>1. job[r].by \in Device /\ page[job[r].by].version = plan.version
      BY <1>2, WriterHasTheRow DEF Checked
    <2>2. plan'.version = plan.version + 1 /\ <<plan.content, plan'.content>> \in Allowed
      BY <1>2, WrittenRow
    <2>3. page' = page
      BY <1>2 DEF write
    <2>4. Promise!Change(job[r].by)
      BY <2>1, <2>2, <2>3 DEF Promise!Change
    <2> QED BY <2>1, <2>4
  <1>3. ASSUME \A d \in Device : ~openEditor(d), \A r \in Request : ~write(r)
        PROVE  UNCHANGED <<plan, page>>
    BY <1>3 DEF Next, vars, save, archive, retry, Refuse, check, reportConflict, Abort,
                LoseRole, ArchiveWorkspace
  <1> QED BY <1>1, <1>2, <1>3 DEF Promise!Next

(* With reads, retries and lost requests aside, the record is changed at once *)
(* by an editor that shows it as it is.                                       *)
THEOREM Refinement == Spec => KeepsPromise
  <1>1. IndInv /\ [Next]_vars =>
          [Promise!Next]_<<plan.content, plan.version, [d \in Device |-> page[d].version]>>
    BY PromiseStep
  <1> QED BY PromiseInit, InitInv, Inductive, <1>1, PTL DEF Spec, KeepsPromise, Promise!Spec

(* State and date of publication agree.                                        *)
THEOREM Consistent == Spec => []PlansConsistent
  <1>1. TypeOK /\ PublishedHasItsDate => PlansConsistent
    BY DEF PlansConsistent
  <1> QED BY TypeCorrect, DateOfPublication, <1>1, PTL
=============================================================================
