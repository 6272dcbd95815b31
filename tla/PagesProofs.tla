----------------------------- MODULE PagesProofs -----------------------------
(*****************************************************************************)
(* Proofs about what the pages of the browsers show and send: version tags,  *)
(* the copy of the records, the event feed, the inbox, messages, sharing and *)
(* the composer, for every number of pages, requests, people and records.    *)
(*                                                                           *)
(* Tags: a time serves as a version, whatever the clocks of the processes    *)
(* show, since every change raises the tag: it takes a time after the tag it *)
(* expects and the guard makes that tag the row's.  So a page or a request   *)
(* that is behind the row has a smaller tag, and one that is not behind has  *)
(* the same: comparing tags is comparing numbers of changes.  The copy: the  *)
(* revision an access was resolved at is not told, but it lies between what  *)
(* the browser held when it asked and what the access is certified by; where *)
(* these are one revision, so are the pages read between them.  The feed: no *)
(* number is drawn twice, a batch that is not full has all that was seen, and *)
(* a full one all up to its highest.  The inbox: what is on its way to a page *)
(* is a state the record has had, none before what the page shows.  Messages: *)
(* what a request found under its lock is true until it commits.  Sharing: a *)
(* form has one key in every tab.  The composer: a text has one identifier  *)
(* and one room wherever it is.                                              *)
(*****************************************************************************)
EXTENDS VersionTags, Snapshot, Feed, Inbox, Messages, Sharing, Composer,
        FiniteSetTheorems, WellFoundedInduction, TLAPS

(* What a page shows is the row, or is older and has a smaller tag; it is not *)
(* archived.                                                                  *)
PagesAreOlder ==
    /\ row.change > 0
    /\ \A c \in Client :
          page[c] # NoPage =>
              /\ ~page[c].archived
              /\ \/ page[c] = row
                 \/ page[c].change < row.change /\ versionTag(page[c]) < versionTag(row)

(* A request expects the tag of a state of the row that its page has shown. *)
ExpectsWhatWasSeen ==
    \A r \in Request :
        job[r] # Unsent =>
            /\ job[r].seen <= page[job[r].by].change
            /\ \/ job[r].seen = row.change /\ job[r].expected = versionTag(row)
               \/ job[r].seen < row.change /\ job[r].expected < versionTag(row)

IndInv == TypeOK /\ PagesAreOlder /\ ExpectsWhatWasSeen /\ ConflictsAreReal

-----------------------------------------------------------------------------
LEMMA TagOfRow ==
    ASSUME NEW record \in Row
    PROVE  versionTag(record) \in Time
  <1>1. record.updatedAt \in 0..(2 * MaxTime + 1) /\ MaxTime \in Nat
    BY VersionTagsAssumption DEF Row
  <1> QED BY <1>1 DEF versionTag, Time

LEMMA TagOfTime ==
    ASSUME NEW time \in Time, NEW record, record.updatedAt = 2 * time
    PROVE  versionTag(record) = time
  <1>1. time \in Nat
    BY VersionTagsAssumption DEF Time
  <1>2. (2 * time) \div 2 = time
    BY <1>1
  <1> QED BY <1>2 DEF versionTag

LEMMA InitInv == Init => IndInv
  <1> SUFFICES ASSUME Init PROVE IndInv
    OBVIOUS
  <1>1. row \in Row /\ row.change = 1
    <2>1. PICK time \in 0..(2 * MaxTime + 1), value \in Value :
            row = [updatedAt |-> time, value |-> value, archived |-> FALSE, change |-> 1]
      BY DEF Init
    <2> QED BY <2>1 DEF Row
  <1>2. TypeOK
    BY <1>1 DEF Init, TypeOK
  <1>3. PagesAreOlder /\ ExpectsWhatWasSeen
    BY <1>1 DEF Init, PagesAreOlder, ExpectsWhatWasSeen
  <1>4. ConflictsAreReal
    BY DEF Init, ConflictsAreReal, Unsent
  <1> QED BY <1>2, <1>3, <1>4 DEF IndInv

(* A step that changes nothing but one request keeps the invariant, if the *)
(* request expects what its page has shown and is not refused for nothing. *)
LEMMA RequestStep ==
    ASSUME IndInv, NEW r \in Request, NEW request \in Sent,
           UNCHANGED <<row, page>>, job' = [job EXCEPT ![r] = request],
           request.seen <= page[request.by].change,
           \/ request.seen = row.change /\ request.expected = versionTag(row)
           \/ request.seen < row.change /\ request.expected < versionTag(row),
           request.step = "refused" => request.seen < row.change
    PROVE  IndInv'
  <1>1. job \in [Request -> {Unsent} \cup Sent]
    BY DEF IndInv, TypeOK
  <1>2. \A q \in Request : job'[q] = IF q = r THEN request ELSE job[q]
    BY <1>1
  <1>3. TypeOK'
    BY <1>1 DEF IndInv, TypeOK
  <1>4. PagesAreOlder'
    BY DEF IndInv, PagesAreOlder, versionTag
  <1>5. ExpectsWhatWasSeen'
    BY <1>2 DEF IndInv, ExpectsWhatWasSeen, versionTag
  <1>6. ConflictsAreReal'
    BY <1>2 DEF IndInv, ConflictsAreReal
  <1> QED BY <1>3, <1>4, <1>5, <1>6 DEF IndInv

LEMMA SentRequest ==
    ASSUME IndInv, NEW r \in Request, job[r].step # "unsent"
    PROVE  /\ job[r] \in Sent
           /\ job[r].seen <= page[job[r].by].change
           /\ \/ job[r].seen = row.change /\ job[r].expected = versionTag(row)
              \/ job[r].seen < row.change /\ job[r].expected < versionTag(row)
  <1>1. job[r] # Unsent
    BY DEF Unsent
  <1> QED BY <1>1 DEF IndInv, TypeOK, ExpectsWhatWasSeen

(* Who expects the tag of the row has a page that shows the row. *)
LEMMA SameTagSameRow ==
    ASSUME IndInv, NEW r \in Request, job[r].step # "unsent", matchesVersionTimestamp(r)
    PROVE  /\ job[r].by \in Client /\ job[r].seen = row.change
           /\ page[job[r].by] = row /\ ~row.archived
  <1>1. /\ job[r] \in Sent /\ job[r].seen <= page[job[r].by].change
        /\ \/ job[r].seen = row.change /\ job[r].expected = versionTag(row)
           \/ job[r].seen < row.change /\ job[r].expected < versionTag(row)
    BY SentRequest
  <1>2. row \in Row /\ job[r].by \in Client
        /\ page[job[r].by] \in Row \cup {NoPage} /\ row.change > 0
    BY <1>1 DEF IndInv, TypeOK, Sent, PagesAreOlder
  <1>3. job[r].expected = versionTag(row) /\ versionTag(row) \in Int
    BY <1>2, TagOfRow, VersionTagsAssumption DEF matchesVersionTimestamp, Time
  <1>4. job[r].seen = row.change
    BY <1>1, <1>3
  <1>5. row.change \in Nat /\ page[job[r].by].change \in Nat
    BY <1>2 DEF Row, NoPage
  <1>6. page[job[r].by].change >= row.change /\ page[job[r].by].change # 0
    BY <1>1, <1>2, <1>4, <1>5
  <1>7. page[job[r].by] # NoPage
    BY <1>6 DEF NoPage
  <1> QED BY <1>2, <1>4, <1>5, <1>6, <1>7 DEF IndInv, PagesAreOlder

LEMMA EndStep ==
    ASSUME IndInv, NEW r \in Request, NEW step \in {"checked", "refused", "aborted"},
           job[r].step # "unsent", end(r, step),
           step = "refused" => row.archived \/ ~matchesVersionTimestamp(r)
    PROVE  IndInv'
  <1> DEFINE request == [job[r] EXCEPT !.step = step]
  <1>1. /\ job[r] \in Sent /\ job[r].seen <= page[job[r].by].change
        /\ \/ job[r].seen = row.change /\ job[r].expected = versionTag(row)
           \/ job[r].seen < row.change /\ job[r].expected < versionTag(row)
    BY SentRequest
  <1>2. request \in Sent /\ request.step = step /\ request.by = job[r].by
        /\ request.seen = job[r].seen /\ request.expected = job[r].expected
    BY <1>1 DEF Sent
  <1>3. step = "refused" => job[r].seen < row.change
    BY <1>1, SameTagSameRow DEF matchesVersionTimestamp
  <1>4. job' = [job EXCEPT ![r] = request] /\ UNCHANGED <<row, page>>
    BY DEF end
  <1> HIDE DEF request
  <1> QED BY <1>1, <1>2, <1>3, <1>4, RequestStep

LEMMA ReadStep ==
    ASSUME IndInv, NEW c \in Client, read(c)
    PROVE  IndInv'
  <1>1. ~row.archived /\ page' = [page EXCEPT ![c] = row] /\ UNCHANGED <<row, job>>
    BY DEF read
  <1>2. row \in Row /\ page \in [Client -> Row \cup {NoPage}]
        /\ job \in [Request -> {Unsent} \cup Sent]
    BY DEF IndInv, TypeOK
  <1>3. \A d \in Client : page'[d] = IF d = c THEN row ELSE page[d]
    BY <1>1, <1>2
  <1>4. TypeOK'
    BY <1>1, <1>2 DEF IndInv, TypeOK
  <1>5. PagesAreOlder'
    BY <1>1, <1>3 DEF IndInv, PagesAreOlder, versionTag
  <1>6. ExpectsWhatWasSeen'
    <2> SUFFICES ASSUME NEW r \in Request, job[r] # Unsent
                 PROVE  job[r].seen <= page'[job[r].by].change
      BY <1>1 DEF IndInv, ExpectsWhatWasSeen, versionTag
    <2>1. job[r] \in Sent
      BY <1>2
    <2>2. job[r].by \in Client /\ job[r].seen \in Nat /\ row.change \in Nat
      BY <1>2, <2>1 DEF Sent, Row
    <2>3. job[r].seen <= page[job[r].by].change /\ job[r].seen <= row.change
      BY <2>2 DEF IndInv, ExpectsWhatWasSeen
    <2> QED BY <1>3, <2>2, <2>3
  <1>7. ConflictsAreReal'
    BY <1>1 DEF IndInv, ConflictsAreReal
  <1> QED BY <1>4, <1>5, <1>6, <1>7 DEF IndInv

LEMMA SendStep ==
    ASSUME IndInv, NEW c \in Client, NEW r \in Request, NEW value \in Value,
           NEW archives \in BOOLEAN, send(c, r, value, archives)
    PROVE  IndInv'
  <1>1. PICK now \in Time :
          job' = [job EXCEPT ![r] = [step |-> "sent", by |-> c, expected |-> versionTag(page[c]),
                                     now |-> now, value |-> value, archives |-> archives,
                                     seen |-> page[c].change]]
    BY DEF send
  <1> DEFINE request == [step |-> "sent", by |-> c, expected |-> versionTag(page[c]),
                         now |-> now, value |-> value, archives |-> archives,
                         seen |-> page[c].change]
  <1>2. page[c] # NoPage /\ page[c] \in Row /\ UNCHANGED <<row, page>>
    BY DEF send, IndInv, TypeOK
  <1>3. versionTag(page[c]) \in Time /\ page[c].change \in Nat
    BY <1>2, TagOfRow DEF Row
  <1>4. request \in Sent
    BY <1>3 DEF Sent
  <1>5. request.seen <= page[request.by].change /\ request.step # "refused"
    BY <1>3
  <1>6. \/ request.seen = row.change /\ request.expected = versionTag(row)
        \/ request.seen < row.change /\ request.expected < versionTag(row)
    BY <1>2 DEF IndInv, PagesAreOlder
  <1>7. job' = [job EXCEPT ![r] = request]
    BY <1>1
  <1> HIDE DEF request
  <1> QED BY <1>2, <1>4, <1>5, <1>6, <1>7, RequestStep

LEMMA RetryStep ==
    ASSUME IndInv, NEW r \in Request, retry(r)
    PROVE  IndInv'
  <1>1. PICK now \in Time : job' = [job EXCEPT ![r].step = "sent", ![r].now = now]
    BY DEF retry
  <1> DEFINE request == [job[r] EXCEPT !.step = "sent", !.now = now]
  <1>2. job[r].step # "unsent" /\ UNCHANGED <<row, page>>
    BY DEF retry
  <1>3. /\ job[r] \in Sent /\ job[r].seen <= page[job[r].by].change
        /\ \/ job[r].seen = row.change /\ job[r].expected = versionTag(row)
           \/ job[r].seen < row.change /\ job[r].expected < versionTag(row)
    BY <1>2, SentRequest
  <1>4. request \in Sent /\ request.step = "sent" /\ request.by = job[r].by
        /\ request.seen = job[r].seen /\ request.expected = job[r].expected
    BY <1>3 DEF Sent
  <1>5. job' = [job EXCEPT ![r] = request]
    BY <1>1 DEF IndInv, TypeOK
  <1> HIDE DEF request
  <1> QED BY <1>2, <1>3, <1>4, <1>5, RequestStep

(* What is written is a change of the row its writer shows, under a later tag. *)
LEMMA WrittenRow ==
    ASSUME IndInv, NEW r \in Request, write(r)
    PROVE  /\ job[r].by \in Client /\ page[job[r].by] = row /\ ~row.archived
           /\ row' \in Row /\ row'.change = row.change + 1
           /\ versionTag(row') > versionTag(row)
  <1>1. /\ job[r].step = "checked" /\ matchesVersionTimestamp(r)
        /\ monotonicTimestamp(r) \in Time
        /\ row' = [updatedAt |-> 2 * monotonicTimestamp(r),
                   value |-> IF job[r].archives THEN row.value ELSE job[r].value,
                   archived |-> job[r].archives, change |-> row.change + 1]
    BY DEF write
  <1>2. /\ job[r].by \in Client /\ page[job[r].by] = row /\ ~row.archived
    BY <1>1, SameTagSameRow
  <1>3. job[r] \in Sent /\ row \in Row
    BY <1>1, SentRequest DEF IndInv, TypeOK
  <1>4. job[r].now \in Nat /\ job[r].expected \in Nat /\ row.change \in Nat
        /\ row.value \in Value /\ job[r].value \in Value /\ job[r].archives \in BOOLEAN
    BY <1>3, VersionTagsAssumption DEF Sent, Row, Time
  <1> DEFINE time == monotonicTimestamp(r)
  <1>5. time > job[r].expected
    BY <1>4 DEF monotonicTimestamp
  <1> HIDE DEF time
  <1>6. time \in Time /\ row'.updatedAt = 2 * time /\ row'.change = row.change + 1
    BY <1>1 DEF time
  <1>7. time \in Nat /\ time <= MaxTime
    BY <1>6, VersionTagsAssumption DEF Time
  <1>8. 2 * time \in 0..(2 * MaxTime + 1)
    BY <1>7, VersionTagsAssumption
  <1>9. row' \in Row
    <2>1. row' = [updatedAt |-> 2 * time,
                  value |-> IF job[r].archives THEN row.value ELSE job[r].value,
                  archived |-> job[r].archives, change |-> row.change + 1]
      BY <1>1 DEF time
    <2> QED BY <1>4, <1>8, <2>1 DEF Row
  <1>10. versionTag(row') = time
    BY <1>6, TagOfTime
  <1>11. versionTag(row) = job[r].expected
    BY <1>1 DEF matchesVersionTimestamp
  <1> QED BY <1>2, <1>5, <1>6, <1>9, <1>10, <1>11

LEMMA WriteStep ==
    ASSUME IndInv, NEW r \in Request, write(r)
    PROVE  IndInv'
  <1>1. /\ row' \in Row /\ row'.change = row.change + 1 /\ versionTag(row') > versionTag(row)
    BY WrittenRow
  <1>2. UNCHANGED page /\ job[r].step = "checked" /\ job' = [job EXCEPT ![r].step = "written"]
    BY DEF write
  <1>3. job[r] \in Sent /\ row \in Row /\ job \in [Request -> {Unsent} \cup Sent]
    BY <1>2, SentRequest DEF IndInv, TypeOK
  <1> DEFINE request == [job[r] EXCEPT !.step = "written"]
  <1>4. request \in Sent /\ request.step = "written" /\ request.by = job[r].by
        /\ request.seen = job[r].seen /\ request.expected = job[r].expected
    BY <1>3 DEF Sent
  <1>5. \A q \in Request : job'[q] = IF q = r THEN request ELSE job[q]
    BY <1>2, <1>3
  <1> HIDE DEF request
  <1>6. TypeOK'
    <2>1. job' \in [Request -> {Unsent} \cup Sent]
      <3>1. job' = [job EXCEPT ![r] = request]
        BY <1>2 DEF request
      <3> QED BY <1>3, <1>4, <3>1
    <2> QED BY <1>1, <1>2, <2>1 DEF IndInv, TypeOK
  <1>7. row.change \in Nat /\ versionTag(row) \in Int /\ versionTag(row') \in Int
    BY <1>1, <1>3, TagOfRow, VersionTagsAssumption DEF Row, Time
  <1>8. PagesAreOlder'
    <2>1. ASSUME NEW c \in Client, page[c] # NoPage
          PROVE  /\ ~page[c].archived /\ page[c].change < row'.change
                 /\ versionTag(page[c]) < versionTag(row')
      <3>1. page[c] \in Row
        BY <2>1 DEF IndInv, TypeOK
      <3>2. page[c].change \in Nat /\ versionTag(page[c]) \in Int
        BY <3>1, TagOfRow, VersionTagsAssumption DEF Row, Time
      <3>3. /\ ~page[c].archived
            /\ \/ page[c] = row
               \/ page[c].change < row.change /\ versionTag(page[c]) < versionTag(row)
        BY <2>1 DEF IndInv, PagesAreOlder
      <3> QED BY <1>1, <1>7, <3>2, <3>3
    <2> QED BY <1>1, <1>2, <1>7, <2>1 DEF IndInv, PagesAreOlder, versionTag
  <1>9. ASSUME NEW q \in Request, job[q] # Unsent
        PROVE  /\ job[q].seen <= page[job[q].by].change
               /\ job[q].seen < row'.change /\ job[q].expected < versionTag(row')
    <2>1. job[q] \in Sent
      BY <1>3, <1>9
    <2>2. job[q].seen \in Nat /\ job[q].expected \in Int
      BY <2>1, VersionTagsAssumption DEF Sent, Time
    <2> QED BY <1>1, <1>7, <1>9, <2>2 DEF IndInv, ExpectsWhatWasSeen
  <1>10. job[r] # Unsent
    BY <1>2 DEF Unsent
  <1>11. ExpectsWhatWasSeen'
    <2> SUFFICES ASSUME NEW q \in Request, job'[q] # Unsent
                 PROVE  /\ job'[q].seen <= page[job'[q].by].change
                        /\ job'[q].seen < row'.change /\ job'[q].expected < versionTag(row')
      BY <1>2 DEF ExpectsWhatWasSeen, versionTag
    <2> QED BY <1>4, <1>5, <1>9, <1>10
  <1>12. ConflictsAreReal'
    <2> SUFFICES ASSUME NEW q \in Request, job'[q].step = "refused" PROVE job'[q].seen < row'.change
      BY DEF ConflictsAreReal
    <2>1. q # r /\ job'[q] = job[q]
      BY <1>4, <1>5
    <2>2. job[q] # Unsent
      BY <2>1 DEF Unsent
    <2> QED BY <1>9, <2>1, <2>2
  <1> QED BY <1>6, <1>8, <1>11, <1>12 DEF IndInv

-----------------------------------------------------------------------------
LEMMA Inductive == IndInv /\ [Next]_vars => IndInv'
  <1> SUFFICES ASSUME IndInv, [Next]_vars PROVE IndInv'
    OBVIOUS
  <1>1. ASSUME NEW c \in Client, read(c) PROVE IndInv'
    BY <1>1, ReadStep
  <1>2. ASSUME NEW c \in Client, NEW r \in Request, NEW value \in Value,
               NEW archives \in BOOLEAN, send(c, r, value, archives)
        PROVE  IndInv'
    BY <1>2, SendStep
  <1>3. ASSUME NEW r \in Request, retry(r) PROVE IndInv'
    BY <1>3, RetryStep
  <1>4. ASSUME NEW r \in Request, check(r) \/ Refuse(r) \/ Abort(r) PROVE IndInv'
    BY <1>4, EndStep DEF check, Refuse, Abort
  <1>5. ASSUME NEW r \in Request, write(r) PROVE IndInv'
    BY <1>5, WriteStep
  <1>6. CASE UNCHANGED vars
    BY <1>6 DEF vars, IndInv, TypeOK, PagesAreOlder, ExpectsWhatWasSeen, ConflictsAreReal,
                versionTag
  <1> QED BY <1>1, <1>2, <1>3, <1>4, <1>5, <1>6 DEF Next

(* The shape of the row, the pages and the requests. *)
THEOREM TypeCorrect == Spec => []TypeOK
  <1>1. IndInv => TypeOK
    BY DEF IndInv
  <1> QED BY InitInv, Inductive, <1>1, PTL DEF Spec

(* The truncation to milliseconds refuses nobody whose page is up to date. *)
THEOREM NoFalseConflict == Spec => []ConflictsAreReal
  <1>1. IndInv => ConflictsAreReal
    BY DEF IndInv
  <1> QED BY InitInv, Inductive, <1>1, PTL DEF Spec

(* Two contents of one row never have the same tag, however far apart the *)
(* clocks that gave them are.                                             *)
THEOREM TagsIdentify == Spec => []TagsNameContents
  <1>1. ASSUME IndInv PROVE TagsNameContents
    <2> SUFFICES ASSUME NEW c \in Client, page[c] # NoPage, versionTag(page[c]) = versionTag(row)
                 PROVE  page[c] = row
      BY DEF TagsNameContents
    <2>1. versionTag(row) \in Int
      BY <1>1, TagOfRow, VersionTagsAssumption DEF IndInv, TypeOK, Time
    <2> QED BY <1>1, <2>1 DEF IndInv, PagesAreOlder
  <1> QED BY InitInv, Inductive, <1>1, PTL DEF Spec

-----------------------------------------------------------------------------
LEMMA PromiseInit == Init => Promise!Init
  <1> SUFFICES ASSUME Init PROVE Promise!Init
    OBVIOUS
  <1>1. row \in Row
    BY InitInv DEF IndInv, TypeOK
  <1>2. [value |-> row.value, archived |-> row.archived] \in Content /\ row.change \in Nat
    BY <1>1 DEF Row, Content
  <1>3. [c \in Client |-> page[c].change] = [c \in Client |-> 0]
    BY DEF Init, NoPage
  <1> QED BY <1>2, <1>3 DEF Promise!Init

LEMMA PromiseStep ==
    ASSUME IndInv, [Next]_vars
    PROVE  [Promise!Next]_<<[value |-> row.value, archived |-> row.archived], row.change,
                            [c \in Client |-> page[c].change]>>
  <1> DEFINE knows == [c \in Client |-> page[c].change]
             content == [value |-> row.value, archived |-> row.archived]
  <1>1. ASSUME NEW c \in Client, read(c) PROVE Promise!Look(c)
    <2>1. page' = [page EXCEPT ![c] = row] /\ row' = row
      BY <1>1 DEF read
    <2>2. knows' = [knows EXCEPT ![c] = row.change]
      BY <2>1 DEF IndInv, TypeOK
    <2> QED BY <2>1, <2>2 DEF Promise!Look
  <1>2. ASSUME NEW r \in Request, write(r) PROVE \E c \in Client : Promise!Change(c)
    <2>1. /\ job[r].by \in Client /\ page[job[r].by] = row /\ ~row.archived
          /\ row' \in Row /\ row'.change = row.change + 1
      BY <1>2, WrittenRow
    <2>2. row \in Row /\ page' = page
      BY <1>2 DEF write, IndInv, TypeOK
    <2>3. content \in Content /\ content' \in Content /\ ~content.archived
      BY <2>1, <2>2 DEF Row, Content
    <2>4. <<content, content'>> \in Allowed
      BY <2>3 DEF Allowed
    <2>5. knows[job[r].by] = row.change /\ knows' = knows
      BY <2>1, <2>2
    <2>6. Promise!Change(job[r].by)
      BY <2>1, <2>4, <2>5 DEF Promise!Change
    <2> QED BY <2>1, <2>6
  <1>3. ASSUME \A c \in Client : ~read(c), \A r \in Request : ~write(r)
        PROVE  UNCHANGED <<row, page>>
    BY <1>3 DEF Next, vars, send, retry, check, Refuse, Abort, end
  <1>4. UNCHANGED <<row, page>> => UNCHANGED <<content, row.change, knows>>
    OBVIOUS
  <1> QED BY <1>1, <1>2, <1>3, <1>4 DEF Promise!Next

(* The times of skewed clocks implement a version: whoever changes the record *)
(* has it on the page as it is, and nothing is changed once it is archived.   *)
THEOREM Refinement == Spec => KeepsPromise
  <1>1. IndInv /\ [Next]_vars =>
          [Promise!Next]_<<[value |-> row.value, archived |-> row.archived], row.change,
                           [c \in Client |-> page[c].change]>>
    BY PromiseStep
  <1> QED BY PromiseInit, InitInv, Inductive, <1>1, PTL DEF Spec, KeepsPromise, Promise!Spec

(* Tags name contents and conflicts are real, however far clocks are apart.    *)
THEOREM Consistent == Spec => []TagsConsistent
  <1>1. TypeOK /\ ConflictsAreReal /\ TagsNameContents => TagsConsistent
    BY DEF TagsConsistent
  <1> QED BY TypeCorrect, NoFalseConflict, TagsIdentify, <1>1, PTL

-----------------------------------------------------------------------------
(* The copy of the records. The revisions of the data only grow, and so does  *)
(* what is read of them; which revision an access was resolved at is not told *)
(* to the browser, but it is none before the copy's.                          *)
LogGrows ==
    /\ \A r \in 1..Revision, i \in Item : log[r].version[i] <= r
    /\ \A r, s \in 1..Revision : r <= s =>
         \A i \in Item : log[r].version[i] <= log[s].version[i]

ConfirmedIsStored ==
    /\ \A a \in answers : a.version <= Now.version[a.item]
    /\ \A i \in Item : told[i] <= Now.version[i]

RevisionsExist ==
    shown.revision <= Revision /\ fetch.before.revision <= Revision

(* The scope of the access under way is that of a revision which is none      *)
(* before those the browser holds, and not after the one it is certified by.  *)
PollInv ==
    poll.at \in {"resolved", "counted", "answered"} =>
        \E r \in 1..Revision :
            /\ poll.answer.scope = log[r].scope
            /\ shown.revision <= r /\ fetch.before.revision <= r
            /\ poll.at # "resolved" /\ poll.answer.revision # None =>
                 r <= poll.answer.revision /\ poll.answer.revision <= Revision

AccessInv ==
    \E r \in 1..Revision : access.scope = log[r].scope /\ shown.revision <= r

(* A page has what was stored at a revision since the fetch began and since   *)
(* the last confirmation.                                                     *)
PageInv(i) ==
    fetch.got[i] # Unread =>
        \E r \in 1..Revision :
            /\ fetch.before.revision <= r
            /\ fetch.got[i] = restrict(log[r].version, log[r].scope)[i]
            /\ told[i] <= log[r].version[i]

FetchInv ==
    /\ \A i \in Item : PageInv(i)
    /\ fetch.at = "second" =>
         fetch.before.revision # None /\ \A i \in Item : fetch.got[i] # Unread

SnapshotInv ==
    /\ SnapshotConsistent
    /\ LogGrows /\ ConfirmedIsStored /\ RevisionsExist
    /\ PollInv /\ AccessInv /\ FetchInv

LEMMA SnapshotParameters ==
    /\ MaxRevision \in Nat /\ MaxRevision > 0 /\ MaxAttempts \in Nat /\ MaxAttempts > 0
    /\ MaxFailures \in Nat /\ \A i \in Item : home[i] \in Workspace
    /\ Unread < 0 /\ Unread # 0 /\ None = 0
    /\ 0..MaxRevision \subseteq Unread..MaxRevision /\ Unread \in Unread..MaxRevision
    /\ NoAccess \in Access /\ NoAccess.revision = None /\ NoAccess.scope = {}
  BY SnapshotAssumption DEF Unread, None, NoAccess, Access

LEMMA StoredData ==
  ASSUME SnapshotTypeOK
  PROVE  /\ Revision \in 1..MaxRevision /\ Revision \in Nat
         /\ \A r \in 1..Revision : log[r].version \in Versions /\ log[r].scope \subseteq Workspace
         /\ Now = log[Revision] /\ Now \in Data
         /\ Now.version \in Versions /\ Now.scope \subseteq Workspace
  <1>1. log \in Seq(Data) /\ Revision \in 1..MaxRevision /\ Revision = Len(log)
    BY DEF SnapshotTypeOK, Revision
  <1>2. \A r \in 1..Revision : log[r] \in Data
    BY <1>1
  <1> QED BY <1>1, <1>2, SnapshotParameters DEF Data, Now

LEMMA Restricted ==
  ASSUME NEW S, 0 \in S, NEW items \in [Item -> S], NEW scope
  PROVE  /\ restrict(items, scope) \in [Item -> S]
         /\ \A i \in Item : /\ home[i] \in scope => restrict(items, scope)[i] = items[i]
                            /\ home[i] \notin scope => restrict(items, scope)[i] = 0
  BY DEF restrict

(* Where a step leaves the log, what holds of it stays.                       *)
LEMMA SameLog ==
  ASSUME SnapshotInv, UNCHANGED log
  PROVE  /\ LogGrows' /\ Revision' = Revision /\ Now' = Now
         /\ UNCHANGED <<answers, told>> => ConfirmedIsStored'
  BY DEF SnapshotInv, LogGrows, ConfirmedIsStored, Revision, Now

LEMMA SameCopy ==
  ASSUME SnapshotInv, UNCHANGED <<log, shown>>
  PROVE  CurrentIsExact'
  BY DEF SnapshotInv, SnapshotConsistent, CurrentIsExact, Revision, Now

(* A poll may be joined, dropped or go on while what the browser holds does   *)
(* not become newer.                                                          *)
LEMMA PollKept ==
  ASSUME SnapshotInv, UNCHANGED log,
         poll' = poll \/ poll' = joinedPoll \/ poll' = IdlePoll,
         shown'.revision = shown.revision \/ shown'.revision = None,
         fetch'.before.revision = fetch.before.revision \/ fetch'.before.revision = None
  PROVE  PollInv' /\ RevisionsExist'
  <1>1. PollInv /\ RevisionsExist /\ Revision' = Revision /\ Revision \in 1..MaxRevision
    BY SameLog, StoredData DEF SnapshotInv, SnapshotConsistent
  <1>2. RevisionsExist'
    BY <1>1, SnapshotParameters DEF RevisionsExist
  <1>3. PollInv'
    <2>1. CASE poll'.at \notin {"resolved", "counted", "answered"}
      BY <2>1 DEF PollInv
    <2>2. CASE poll'.at \in {"resolved", "counted", "answered"}
      <3>1. poll' = poll
        BY <2>2 DEF joinedPoll, IdlePoll, AskedPoll
      <3>2. PICK r \in 1..Revision :
              /\ poll.answer.scope = log[r].scope
              /\ shown.revision <= r /\ fetch.before.revision <= r
              /\ poll.at # "resolved" /\ poll.answer.revision # None =>
                   r <= poll.answer.revision /\ poll.answer.revision <= Revision
        BY <1>1, <2>2, <3>1 DEF PollInv
      <3>3. shown'.revision <= r /\ fetch'.before.revision <= r
        BY <3>2, SnapshotParameters
      <3> QED BY <1>1, <3>1, <3>2, <3>3 DEF PollInv
    <2> QED BY <2>1, <2>2
  <1> QED BY <1>2, <1>3

LEMMA AccessKept ==
  ASSUME SnapshotInv, UNCHANGED <<log, access>>,
         shown'.revision = shown.revision \/ shown'.revision = None
  PROVE  AccessInv'
  <1>1. AccessInv /\ Revision' = Revision
    BY SameLog DEF SnapshotInv
  <1> QED BY <1>1, SnapshotParameters DEF AccessInv

LEMMA FetchRestarts ==
  ASSUME \A i \in Item : fetch'.got[i] = Unread, fetch'.at # "second"
  PROVE  FetchInv'
  BY DEF FetchInv, PageInv

LEMMA FetchKept ==
  ASSUME SnapshotInv, UNCHANGED <<log, told>>,
         fetch'.got = fetch.got, fetch'.before = fetch.before,
         fetch'.at = "second" =>
            fetch.before.revision # None /\ \A i \in Item : fetch.got[i] # Unread
  PROVE  FetchInv'
  <1>1. FetchInv /\ Revision' = Revision
    BY SameLog DEF SnapshotInv
  <1>2. \A i \in Item : PageInv(i)'
    BY <1>1 DEF FetchInv, PageInv
  <1> QED BY <1>2 DEF FetchInv

LEMMA Fetches ==
  /\ IdleFetch \in FetchState /\ FirstFetch \in FetchState
  /\ IdleFetch.at = "idle" /\ FirstFetch.at = "first"
  /\ IdleFetch.before.revision = None /\ FirstFetch.before.revision = None
  /\ \A i \in Item : IdleFetch.got[i] = Unread /\ FirstFetch.got[i] = Unread
  /\ \A a \in Access, n \in 0..MaxAttempts :
       /\ Reading(a, n) \in FetchState /\ Reading(a, n).at = "reading"
       /\ Reading(a, n).before = a /\ \A i \in Item : Reading(a, n).got[i] = Unread
  /\ IdlePoll \in PollState /\ IdlePoll.at = "idle"
  /\ AskedPoll \in PollState /\ AskedPoll.at = "asked"
  BY SnapshotParameters
  DEF IdleFetch, FirstFetch, Reading, FetchState, IdlePoll, AskedPoll, PollState

LEMMA SnapshotInitInd == SnapshotInit => SnapshotInv
  <1> SUFFICES ASSUME SnapshotInit PROVE SnapshotInv
    OBVIOUS
  <1> USE SnapshotParameters, Fetches
  <1>1. PICK v \in [Item -> {0, 1}] : log = <<[version |-> v, scope |-> Workspace]>>
    BY DEF SnapshotInit
  <1>2. v \in Versions /\ [version |-> v, scope |-> Workspace] \in Data
    BY DEF Versions, Data
  <1>3. log \in Seq(Data) /\ Revision = 1 /\ Now.version = v /\ Now.scope = Workspace
        /\ log[1].version = v /\ log[1].scope = Workspace
    BY <1>1, <1>2 DEF Revision, Now
  <1>4. SnapshotTypeOK
    <2>1. access \in Access
      BY DEF SnapshotInit, Access
    <2>2. shown \in Copy
      BY DEF SnapshotInit, Copy, Versions
    <2> QED BY <1>3, <2>1, <2>2 DEF SnapshotInit, SnapshotTypeOK, Versions
  <1>5. CurrentIsExact
    BY DEF SnapshotInit, CurrentIsExact
  <1>6. LogGrows /\ ConfirmedIsStored
    BY <1>3 DEF LogGrows, ConfirmedIsStored, SnapshotInit
  <1>7. RevisionsExist /\ PollInv
    BY <1>3 DEF RevisionsExist, PollInv, SnapshotInit
  <1>8. AccessInv
    BY <1>3 DEF AccessInv, SnapshotInit
  <1>9. FetchInv
    BY DEF FetchInv, PageInv, SnapshotInit
  <1> QED BY <1>4, <1>5, <1>6, <1>7, <1>8, <1>9 DEF SnapshotInv, SnapshotConsistent

(* The server stores one more revision.                                       *)
LEMMA CommitInd ==
  ASSUME SnapshotInv, NEW data \in [version : [Item -> Nat], scope : SUBSET Workspace],
         Commit(data),
         \A i \in Item : /\ Now.version[i] <= data.version[i]
                         /\ data.version[i] <= Now.version[i] + 1,
         UNCHANGED <<poll, access, seen, due, fetch, shown, told, failures>>,
         \A a \in answers' :
            \/ a \in answers
            \/ /\ a \in [item : Item, version : Nat] /\ a.version > 0
               /\ a.version <= data.version[a.item]
  PROVE  SnapshotInv'
  <1> USE SnapshotParameters
  <1>1. /\ log \in Seq(Data) /\ Revision \in 1..MaxRevision /\ Revision < MaxRevision
        /\ log' = Append(log, data) /\ Revision = Len(log)
        /\ \A r \in 1..Revision : log[r].version \in Versions /\ log[r].scope \subseteq Workspace
        /\ Now = log[Revision] /\ Now.version \in Versions
    BY StoredData DEF SnapshotInv, SnapshotConsistent, SnapshotTypeOK, Commit, Revision
  <1>2. \A i \in Item : /\ Now.version[i] \in Nat /\ Now.version[i] <= Revision
                        /\ data.version[i] \in Nat /\ data.version[i] <= Revision + 1
    BY <1>1 DEF SnapshotInv, LogGrows, Versions
  <1>3. data \in Data
    <2>1. data.version \in Versions
      BY <1>1, <1>2 DEF Versions
    <2> QED BY <2>1 DEF Data
  <1>4. /\ log' \in Seq(Data) /\ Revision' = Revision + 1
        /\ \A r \in 1..Revision : log'[r] = log[r]
        /\ log'[Revision + 1] = data /\ Now' = data
    BY <1>1, <1>3 DEF Revision, Now
  <1>5. SnapshotTypeOK'
    <2>1. \A a \in answers' : a \in [item : Item, version : 1..MaxRevision]
      BY <1>1, <1>2 DEF SnapshotInv, SnapshotConsistent, SnapshotTypeOK
    <2> QED BY <1>1, <1>4, <2>1 DEF SnapshotInv, SnapshotConsistent, SnapshotTypeOK
  <1>6. CurrentIsExact'
    BY <1>1, <1>4 DEF SnapshotInv, RevisionsExist, CurrentIsExact, SnapshotConsistent,
       SnapshotTypeOK, Copy
  <1>7. LogGrows'
    <2>1. \A r \in 1..Revision' : \A i \in Item : log'[r].version[i] <= r
      BY <1>1, <1>2, <1>4, SMTT(20) DEF SnapshotInv, LogGrows
    <2>2. ASSUME NEW r \in 1..Revision', NEW s \in 1..Revision', r <= s, NEW i \in Item
          PROVE  log'[r].version[i] <= log'[s].version[i]
      <3>1. CASE s <= Revision
        BY <1>1, <1>4, <2>2, <3>1 DEF SnapshotInv, LogGrows
      <3>2. CASE r = Revision + 1
        BY <1>1, <1>2, <1>4, <2>2, <3>2
      <3>3. CASE r <= Revision /\ s = Revision + 1
        <4>1. log[r].version[i] <= Now.version[i] /\ log[r].version[i] \in Nat
          BY <1>1, <2>2, <3>3 DEF SnapshotInv, LogGrows, Versions
        <4> QED BY <1>1, <1>2, <1>4, <3>3, <4>1
      <3> QED BY <1>1, <1>4, <3>1, <3>2, <3>3
    <2> QED BY <2>1, <2>2 DEF LogGrows
  <1>8. ConfirmedIsStored'
    <2>1. ASSUME NEW a \in answers'
          PROVE  a.version <= data.version[a.item]
      <3>1. CASE a \in answers
        <4>1. a.item \in Item /\ a.version \in Nat /\ a.version <= Now.version[a.item]
          BY <3>1 DEF SnapshotInv, SnapshotConsistent, SnapshotTypeOK, ConfirmedIsStored
        <4> QED BY <1>2, <4>1
      <3> QED BY <2>1, <3>1
    <2>2. ASSUME NEW i \in Item
          PROVE  told[i] <= data.version[i]
      <3>1. told[i] \in Nat /\ told[i] <= Now.version[i]
        BY DEF SnapshotInv, SnapshotConsistent, SnapshotTypeOK, ConfirmedIsStored, Versions
      <3> QED BY <1>2, <3>1
    <2> QED BY <1>4, <2>1, <2>2 DEF ConfirmedIsStored
  <1>9. RevisionsExist'
    <2>1. shown.revision \in Nat /\ fetch.before.revision \in Nat
      BY DEF SnapshotInv, SnapshotConsistent, SnapshotTypeOK, Copy, FetchState, Access
    <2> QED BY <1>1, <1>4, <2>1 DEF SnapshotInv, RevisionsExist
  <1>10. PollInv'
    <2>1. poll.answer.revision \in Nat
      BY DEF SnapshotInv, SnapshotConsistent, SnapshotTypeOK, PollState, Access
    <2> QED BY <1>1, <1>4, <2>1 DEF SnapshotInv, PollInv
  <1>11. AccessInv'
    BY <1>1, <1>4 DEF SnapshotInv, AccessInv
  <1>12. FetchInv'
    <2>1. ASSUME NEW i \in Item, fetch.got[i] # Unread
          PROVE  \E r \in 1..Revision' :
                   /\ fetch.before.revision <= r
                   /\ fetch.got[i] = restrict(log'[r].version, log'[r].scope)[i]
                   /\ told[i] <= log'[r].version[i]
      <3>1. PICK r \in 1..Revision :
              /\ fetch.before.revision <= r
              /\ fetch.got[i] = restrict(log[r].version, log[r].scope)[i]
              /\ told[i] <= log[r].version[i]
        BY <2>1 DEF SnapshotInv, FetchInv, PageInv
      <3>2. r \in 1..Revision' /\ log'[r] = log[r]
        BY <1>1, <1>4
      <3> QED BY <3>1, <3>2
    <2>2. \A i \in Item : PageInv(i)'
      BY <2>1 DEF PageInv
    <2> QED BY <2>2 DEF SnapshotInv, FetchInv
  <1> QED BY <1>5, <1>6, <1>7, <1>8, <1>9, <1>10, <1>11, <1>12 DEF SnapshotInv, SnapshotConsistent

LEMMA ServerInd ==
  ASSUME SnapshotInv,
         \/ \E i \in Item : Write(i) \/ WriteHere(i)
         \/ \E w \in Workspace : Grant(w) \/ Revoke(w)
  PROVE  SnapshotInv'
  <1>1. /\ Now.version \in Versions /\ Now.scope \subseteq Workspace
        /\ Now = [version |-> Now.version, scope |-> Now.scope]
        /\ \A i \in Item : Now.version[i] \in Nat
    BY StoredData DEF SnapshotInv, SnapshotConsistent, Data, Versions
  <1>2. ASSUME NEW i \in Item, Write(i) \/ WriteHere(i)
        PROVE  SnapshotInv'
    <2> DEFINE data == [Now EXCEPT !.version[i] = @ + 1]
    <2>1. /\ data \in [version : [Item -> Nat], scope : SUBSET Workspace]
          /\ \A j \in Item : /\ Now.version[j] <= data.version[j]
                             /\ data.version[j] <= Now.version[j] + 1
          /\ data.version[i] = Now.version[i] + 1
      BY <1>1 DEF Versions
    <2>2. /\ Commit(data)
          /\ UNCHANGED <<poll, access, seen, due, fetch, shown, told, failures>>
          /\ answers' = answers \/ answers' = answers \cup {[item |-> i, version |-> Now.version[i] + 1]}
      BY <1>2 DEF Write, WriteHere
    <2> HIDE DEF data
    <2>3. \A a \in answers' :
            \/ a \in answers
            \/ /\ a \in [item : Item, version : Nat] /\ a.version > 0
               /\ a.version <= data.version[a.item]
      BY <1>1, <2>1, <2>2
    <2> QED BY <2>1, <2>2, <2>3, CommitInd
  <1>3. ASSUME NEW w \in Workspace, Grant(w) \/ Revoke(w)
        PROVE  SnapshotInv'
    <2>1. PICK s \in SUBSET Workspace :
            /\ Commit([Now EXCEPT !.scope = s])
            /\ UNCHANGED <<poll, access, seen, due, fetch, shown, answers, told, failures>>
      <3>1. Now.scope \cup {w} \in SUBSET Workspace /\ Now.scope \ {w} \in SUBSET Workspace
        BY <1>1
      <3> QED BY <1>3, <3>1 DEF Grant, Revoke
    <2> DEFINE data == [Now EXCEPT !.scope = s]
    <2>2. /\ data \in [version : [Item -> Nat], scope : SUBSET Workspace]
          /\ \A j \in Item : /\ Now.version[j] <= data.version[j]
                             /\ data.version[j] <= Now.version[j] + 1
      BY <1>1 DEF Versions
    <2> HIDE DEF data
    <2> QED BY <2>1, <2>2, CommitInd DEF data
  <1> QED BY <1>2, <1>3

(* The server answers the poll: its scope first, then the revision, twice.    *)
LEMMA PollInd ==
  ASSUME SnapshotInv, Poll \/ resolve \/ readBefore \/ readAfter
  PROVE  SnapshotInv'
  <1> USE SnapshotParameters, Fetches
  <1>1. UNCHANGED <<log, access, seen, due, fetch, shown, answers, told, failures>>
    BY DEF Poll, resolve, readBefore, readAfter
  <1>2. /\ Revision \in 1..MaxRevision /\ Now.scope \subseteq Workspace /\ Now = log[Revision]
        /\ Revision' = Revision /\ shown.revision <= Revision
        /\ fetch.before.revision <= Revision
        /\ poll \in PollState /\ shown.revision \in Nat /\ fetch.before.revision \in Nat
    <2>1. /\ Revision \in 1..MaxRevision /\ Now.scope \subseteq Workspace
          /\ Now = log[Revision] /\ Revision' = Revision
      BY <1>1, SameLog, StoredData DEF SnapshotInv, SnapshotConsistent
    <2>2. shown.revision <= Revision /\ fetch.before.revision <= Revision
      BY DEF SnapshotInv, RevisionsExist
    <2>3. poll \in PollState /\ shown \in Copy /\ fetch \in FetchState
      BY DEF SnapshotInv, SnapshotConsistent, SnapshotTypeOK
    <2>4. shown.revision \in Nat
      BY <2>3 DEF Copy
    <2>5. fetch.before.revision \in Nat
      BY <2>3 DEF FetchState, Access
    <2> QED BY <2>1, <2>2, <2>3, <2>4, <2>5
  <1>3. poll' \in PollState /\ PollInv' /\ (poll.at # "idle" => poll'.at # "idle")
    <2>1. CASE Poll
      BY <2>1 DEF Poll, PollInv
    <2>2. CASE resolve
      <3>1. /\ poll' \in PollState /\ poll'.at = "resolved"
            /\ poll'.answer.scope = log[Revision].scope /\ poll'.answer.revision = None
        BY <1>2, <2>2 DEF resolve, PollState, NoAccess, Access
      <3>2. PollInv'
        BY <1>1, <1>2, <3>1 DEF PollInv
      <3> QED BY <3>1, <3>2
    <2>3. CASE readBefore \/ readAfter
      <3>1. /\ poll.at \in {"resolved", "counted"} /\ poll' \in PollState
            /\ poll'.at \in {"counted", "answered"}
            /\ poll'.answer.scope = poll.answer.scope
            /\ poll'.answer.revision = None \/ poll'.answer.revision = Revision
        <4>1. CASE readBefore
          <5>1. poll.answer \in Access /\ Revision \in 0..MaxRevision
            BY <1>2 DEF PollState
          <5>2. [poll.answer EXCEPT !.revision = Revision] \in Access
            BY <5>1 DEF Access
          <5>3. /\ poll' = [poll EXCEPT !.at = "counted",
                                        !.answer = [poll.answer EXCEPT !.revision = Revision]]
                /\ poll.at = "resolved"
            BY <1>2, <4>1 DEF readBefore, PollState
          <5>4. [poll.answer EXCEPT !.revision = Revision].scope = poll.answer.scope
                /\ [poll.answer EXCEPT !.revision = Revision].revision = Revision
            BY <5>1 DEF Access
          <5> QED BY <1>2, <5>2, <5>3, <5>4 DEF PollState
        <4>2. CASE readAfter
          BY <1>2, <2>3, <4>2 DEF readAfter, PollState, Access
        <4> QED BY <2>3, <4>1, <4>2
      <3>2. PICK r \in 1..Revision :
              /\ poll.answer.scope = log[r].scope
              /\ shown.revision <= r /\ fetch.before.revision <= r
        BY <3>1 DEF SnapshotInv, PollInv
      <3>3. r <= Revision
        BY <1>2
      <3>4. PollInv'
        BY <1>1, <1>2, <3>1, <3>2, <3>3 DEF PollInv
      <3> QED BY <3>1, <3>4
    <2> QED BY <2>1, <2>2, <2>3
  <1>4. SnapshotTypeOK'
    BY <1>1, <1>2, <1>3 DEF SnapshotInv, SnapshotConsistent, SnapshotTypeOK
  <1>5. CurrentIsExact' /\ LogGrows' /\ ConfirmedIsStored'
    BY <1>1, SameLog, SameCopy
  <1>6. RevisionsExist'
    BY <1>1, <1>2 DEF RevisionsExist
  <1>7. AccessInv' /\ FetchInv'
    <2>1. fetch'.at = "second" =>
            fetch.before.revision # None /\ \A i \in Item : fetch.got[i] # Unread
      BY <1>1 DEF SnapshotInv, FetchInv
    <2> QED BY <1>1, <2>1, AccessKept, FetchKept
  <1> QED BY <1>3, <1>4, <1>5, <1>6, <1>7 DEF SnapshotInv, SnapshotConsistent

(* What is shown of something complete, restricted to an access.              *)
LEMMA Published ==
  ASSUME NEW items \in Versions, NEW n \in 0..MaxRevision, NEW a \in Access,
         Publish(items, n, a)
  PROVE  /\ shown' \in Copy /\ shown'.at = "complete" /\ shown'.revision = n
         /\ shown'.scope = a.scope /\ shown'.items = restrict(items, a.scope)
  <1>1. restrict(items, a.scope) \in Versions /\ a.scope \subseteq Workspace
    BY Restricted, SnapshotParameters DEF Versions, Access
  <1> QED BY <1>1 DEF Publish, Copy

(* The pages that were read are what some revision showed.                    *)
LEMMA PagesAreVersions ==
  ASSUME SnapshotInv, \A i \in Item : fetch.got[i] # Unread
  PROVE  fetch.got \in Versions
  <1>1. fetch.got \in [Item -> Unread..MaxRevision]
    BY DEF SnapshotInv, SnapshotConsistent, SnapshotTypeOK, FetchState
  <1>2. ASSUME NEW i \in Item
        PROVE  fetch.got[i] \in 0..MaxRevision
    BY <1>1, SnapshotParameters DEF Unread
  <1> QED BY <1>1, <1>2 DEF Versions

(* An access that reads nothing again was resolved at the copy's revision.    *)
LEMMA ReuseInd ==
  ASSUME SnapshotInv, poll.at = "answered", Reuse(poll.answer), UNCHANGED log
  PROVE  /\ shown' \in Copy /\ CurrentIsExact' /\ fetch' = IdleFetch
         /\ shown'.revision = shown.revision
  <1> DEFINE a == poll.answer
  <1>1. a \in Access /\ shown \in Copy /\ shown.items \in Versions
        /\ shown.revision \in 0..MaxRevision
    BY DEF SnapshotInv, SnapshotConsistent, SnapshotTypeOK, PollState, Copy
  <1>2. /\ a.revision # None /\ shown.at = "complete" /\ shown.revision = a.revision
        /\ fetch' = IdleFetch
        /\ shown' \in Copy /\ shown'.revision = shown.revision
        /\ shown'.scope = a.scope /\ shown'.items = restrict(shown.items, a.scope)
    BY <1>1, Published DEF Reuse
  <1>3. PICK r \in 1..Revision : a.scope = log[r].scope /\ shown.revision <= r
                                 /\ r <= a.revision
    BY <1>2 DEF SnapshotInv, PollInv
  <1>4. r = shown.revision
    BY <1>1, <1>2, <1>3
  <1>5. ASSUME shown.revision = Revision
        PROVE  a.scope = Now.scope /\ restrict(shown.items, a.scope) = restrict(Now.version, Now.scope)
    <2>1. a.scope = Now.scope
      BY <1>3, <1>4, <1>5 DEF Now
    <2>2. shown.items = restrict(Now.version, Now.scope)
      BY <1>2, <1>5 DEF SnapshotInv, SnapshotConsistent, CurrentIsExact
    <2> QED BY <2>1, <2>2 DEF restrict
  <1>6. CurrentIsExact'
    BY <1>2, <1>5, SameLog DEF CurrentIsExact
  <1> QED BY <1>2, <1>6

(* Pages read between two readings of one revision were stored at it, if it   *)
(* is still the last.                                                         *)
LEMMA CertifyInd ==
  ASSUME SnapshotInv, poll.at = "answered", fetch.at = "second", Certify(poll.answer),
         UNCHANGED log
  PROVE  /\ shown' \in Copy /\ CurrentIsExact' /\ fetch' = IdleFetch
         /\ shown'.revision = poll.answer.revision
         /\ poll.answer.revision = fetch.before.revision
  <1> DEFINE a == poll.answer
  <1>1. a \in Access /\ a.revision \in 0..MaxRevision
    BY DEF SnapshotInv, SnapshotConsistent, SnapshotTypeOK, PollState, Access
  <1>2. fetch.got \in Versions /\ fetch.before.revision # None
    BY PagesAreVersions DEF SnapshotInv, FetchInv
  <1>3. /\ a.revision = fetch.before.revision /\ fetch' = IdleFetch
        /\ shown' \in Copy /\ shown'.revision = a.revision
        /\ shown'.scope = a.scope /\ shown'.items = restrict(fetch.got, a.scope)
    BY <1>1, <1>2, Published DEF Certify
  <1>4. PICK r \in 1..Revision : a.scope = log[r].scope /\ fetch.before.revision <= r
                                 /\ r <= a.revision
    BY <1>2, <1>3 DEF SnapshotInv, PollInv
  <1>5. ASSUME a.revision = Revision
        PROVE  a.scope = Now.scope /\ restrict(fetch.got, a.scope) = restrict(Now.version, Now.scope)
    <2>1. a.scope = Now.scope
      BY <1>1, <1>3, <1>4, <1>5 DEF Now
    <2>2. ASSUME NEW i \in Item
          PROVE  fetch.got[i] = restrict(Now.version, Now.scope)[i]
      <3>1. PICK s \in 1..Revision :
              /\ fetch.before.revision <= s
              /\ fetch.got[i] = restrict(log[s].version, log[s].scope)[i]
        BY <1>2, PagesAreVersions DEF SnapshotInv, FetchInv, PageInv
      <3>2. s = Revision
        BY <1>1, <1>3, <1>5, <3>1
      <3> QED BY <3>1, <3>2 DEF Now
    <2> QED BY <2>1, <2>2 DEF restrict
  <1>6. CurrentIsExact'
    BY <1>3, <1>5, SameLog DEF CurrentIsExact
  <1> QED BY <1>3, <1>6

LEMMA DeliverInd ==
  ASSUME SnapshotInv, deliver
  PROVE  SnapshotInv'
  <1> USE SnapshotParameters, Fetches
  <1> DEFINE a == poll.answer
  <1>1. /\ poll.at = "answered" /\ access' = a /\ due' = TRUE /\ poll' = IdlePoll
        /\ Continue(a) /\ UNCHANGED <<log, seen, answers, told, failures>>
    BY DEF deliver
  <1>2. /\ a \in Access /\ a.revision \in 0..MaxRevision /\ a.revision <= Revision
        /\ Revision \in 1..MaxRevision /\ Revision' = Revision
        /\ shown \in Copy /\ fetch \in FetchState /\ shown.revision <= Revision
        /\ fetch.attempt \in 0..MaxAttempts
    <2>1. /\ a \in Access /\ a.revision \in 0..MaxRevision /\ shown \in Copy
          /\ fetch \in FetchState /\ fetch.attempt \in 0..MaxAttempts
      BY DEF SnapshotInv, SnapshotConsistent, SnapshotTypeOK, PollState, Access, FetchState
    <2>2. Revision \in 1..MaxRevision /\ Revision' = Revision
      BY <1>1, SameLog, StoredData DEF SnapshotInv, SnapshotConsistent
    <2>3. a.revision <= Revision /\ shown.revision <= Revision
      BY <1>1, <2>1, <2>2 DEF SnapshotInv, PollInv, RevisionsExist
    <2> QED BY <2>1, <2>2, <2>3
  <1>3. PICK r \in 1..Revision : a.scope = log[r].scope /\ shown.revision <= r
                                 /\ fetch.before.revision <= r
    BY <1>1 DEF SnapshotInv, PollInv
  <1>4. /\ shown' \in Copy /\ CurrentIsExact' /\ fetch' \in FetchState
        /\ shown'.revision <= r /\ FetchInv' /\ fetch'.before.revision <= Revision
        /\ fetch'.at \notin {"first", "second"}
    <2>1. CASE fetch.at = "first" /\ Reuse(a)
      <3>1. shown' \in Copy /\ CurrentIsExact' /\ fetch' = IdleFetch /\ shown'.revision = shown.revision
        BY <1>1, <2>1, ReuseInd
      <3> QED BY <1>2, <1>3, <3>1, FetchRestarts
    <2>2. CASE fetch.at = "first" /\ Read(a)
      <3>1. fetch' = Reading(a, 1) /\ shown' = shown /\ 1 \in 0..MaxAttempts
        BY <2>2 DEF Read
      <3> QED BY <1>1, <1>2, <1>3, <3>1, FetchRestarts, SameCopy
    <2>3. CASE fetch.at = "second" /\ Certify(a)
      <3>1. /\ shown' \in Copy /\ CurrentIsExact' /\ fetch' = IdleFetch
            /\ shown'.revision = fetch.before.revision
        BY <1>1, <2>3, CertifyInd
      <3> QED BY <1>2, <1>3, <3>1, FetchRestarts
    <2>4. CASE fetch.at = "second" /\ ReadAgain(a)
      <3>1. shown' = shown
        BY <2>4 DEF ReadAgain
      <3>2. \/ /\ fetch' = Reading(a, fetch.attempt + 1)
               /\ fetch.attempt + 1 \in 0..MaxAttempts
            \/ fetch' = IdleFetch
        BY <1>2, <2>4 DEF ReadAgain
      <3> QED BY <1>1, <1>2, <1>3, <3>1, <3>2, FetchRestarts, SameCopy
    <2>5. CASE fetch.at \in {"idle", "reading"} /\ UNCHANGED <<fetch, shown>>
      <3>1. FetchInv'
        BY <1>1, <2>5, FetchKept
      <3>2. CurrentIsExact'
        BY <1>1, <2>5, SameCopy
      <3> QED BY <1>2, <1>3, <2>5, <3>1, <3>2 DEF SnapshotInv, RevisionsExist
    <2> QED BY <1>1, <2>1, <2>2, <2>3, <2>4, <2>5 DEF Continue
  <1>5. SnapshotTypeOK'
    BY <1>1, <1>2, <1>4 DEF SnapshotInv, SnapshotConsistent, SnapshotTypeOK, Revision
  <1>6. LogGrows' /\ ConfirmedIsStored'
    BY <1>1, SameLog
  <1>7. RevisionsExist' /\ PollInv'
    <2>1. shown'.revision <= Revision
      BY <1>2, <1>3, <1>4 DEF Copy
    <2> QED BY <1>1, <1>2, <1>4, <2>1 DEF RevisionsExist, PollInv
  <1>8. AccessInv'
    BY <1>1, <1>2, <1>3, <1>4 DEF AccessInv
  <1> QED BY <1>4, <1>5, <1>6, <1>7, <1>8 DEF SnapshotInv, SnapshotConsistent

(* The fetch stops, starts over or asks for the access again.                 *)
LEMMA FetchMovesInd ==
  ASSUME SnapshotInv, UNCHANGED <<log, access, answers, told>>,
         poll' = poll \/ poll' = joinedPoll \/ poll' = IdlePoll,
         shown' \in Copy, CurrentIsExact',
         shown'.revision = shown.revision \/ shown'.revision = None,
         fetch' \in FetchState, FetchInv',
         fetch'.before.revision = fetch.before.revision \/ fetch'.before.revision = None,
         fetch'.at \in {"first", "second"} => poll'.at # "idle",
         seen' \in SUBSET Workspace, due' \in BOOLEAN, failures' \in 0..MaxFailures
  PROVE  SnapshotInv'
  <1>1. poll' \in PollState
    BY Fetches DEF SnapshotInv, SnapshotConsistent, SnapshotTypeOK, joinedPoll
  <1>2. SnapshotTypeOK'
    BY <1>1 DEF SnapshotInv, SnapshotConsistent, SnapshotTypeOK, Revision
  <1>3. LogGrows' /\ ConfirmedIsStored'
    BY SameLog
  <1>4. PollInv' /\ RevisionsExist'
    BY PollKept
  <1>5. AccessInv'
    BY AccessKept
  <1> QED BY <1>2, <1>3, <1>4, <1>5 DEF SnapshotInv, SnapshotConsistent

LEMMA JoinedIsBusy ==
  ASSUME SnapshotInv
  PROVE  joinedPoll \in PollState /\ joinedPoll.at # "idle"
  BY Fetches DEF SnapshotInv, SnapshotConsistent, SnapshotTypeOK, joinedPoll

LEMMA Kept ==
  ASSUME SnapshotInv
  PROVE  /\ access \in Access /\ shown \in Copy /\ fetch \in FetchState
         /\ seen \in SUBSET Workspace /\ due \in BOOLEAN /\ failures \in 0..MaxFailures
         /\ fetch.at \in {"first", "second"} => poll.at # "idle"
         /\ fetch.attempt \in 0..MaxAttempts
         /\ shown.items \in Versions /\ fetch.got \in [Item -> Unread..MaxRevision]
         /\ access.scope \subseteq Workspace
         /\ fetch.before \in Access /\ fetch.before.scope \subseteq Workspace
  BY DEF SnapshotInv, SnapshotConsistent, SnapshotTypeOK, FetchState, Copy, Access

LEMMA FetchKeptAsIs ==
  ASSUME SnapshotInv, UNCHANGED <<log, told, fetch>>
  PROVE  FetchInv'
  BY FetchKept DEF SnapshotInv, FetchInv

LEMMA FailureInd ==
  ASSUME SnapshotInv, pollFails \/ readFails
  PROVE  SnapshotInv'
  <1> USE SnapshotParameters, Fetches
  <1>1. /\ UNCHANGED <<log, access, answers, told, seen, due, shown>>
        /\ fetch' = fetch \/ fetch' = IdleFetch
        /\ poll' = poll \/ poll' = IdlePoll
        /\ failures' \in 0..MaxFailures
        /\ fetch'.at \in {"first", "second"} => poll'.at # "idle"
    BY Kept DEF pollFails, readFails
  <1>2. CurrentIsExact'
    BY <1>1, SameCopy
  <1>3. FetchInv'
    <2>1. CASE fetch' = fetch
      BY <1>1, <2>1, FetchKeptAsIs
    <2>2. CASE fetch' = IdleFetch
      BY <2>2, FetchRestarts
    <2> QED BY <1>1, <2>1, <2>2
  <1>4. fetch' \in FetchState /\ shown' \in Copy
        /\ seen' \in SUBSET Workspace /\ due' \in BOOLEAN
    BY <1>1, Kept
  <1>5. fetch'.before.revision = fetch.before.revision \/ fetch'.before.revision = None
    BY <1>1
  <1> QED BY <1>1, <1>2, <1>3, <1>4, <1>5, FetchMovesInd

LEMMA RefreshInd ==
  ASSUME SnapshotInv, refresh
  PROVE  SnapshotInv'
  <1> USE SnapshotParameters, Fetches
  <1>1. /\ UNCHANGED <<log, access, answers, told, seen, due, failures>>
        /\ shown' = shown
        /\ \/ fetch' = FirstFetch /\ poll' = joinedPoll
           \/ fetch' = Reading(access, 1) /\ poll' = poll /\ access.revision = None
    <2>1. CASE getAccess(FirstFetch)
      BY <2>1 DEF refresh, getAccess
    <2>2. CASE getCachedAccess /\ Read(access)
      BY <2>2 DEF refresh, getCachedAccess, Read
    <2> QED BY <2>1, <2>2 DEF refresh
  <1>2. CurrentIsExact'
    BY <1>1, SameCopy
  <1>3. /\ fetch' \in FetchState /\ FetchInv' /\ fetch'.before.revision = None
        /\ fetch'.at \in {"first", "second"} => poll'.at # "idle"
    <2>1. CASE fetch' = FirstFetch /\ poll' = joinedPoll
      BY <2>1, FetchRestarts, JoinedIsBusy
    <2>2. CASE fetch' = Reading(access, 1) /\ access.revision = None
      <3>1. 1 \in 0..MaxAttempts
        OBVIOUS
      <3> QED BY <2>2, <3>1, FetchRestarts, Kept
    <2> QED BY <1>1, <2>1, <2>2
  <1>4. shown' \in Copy /\ seen' \in SUBSET Workspace /\ due' \in BOOLEAN
        /\ failures' \in 0..MaxFailures /\ shown'.revision = shown.revision
    BY <1>1, Kept
  <1> QED BY <1>1, <1>2, <1>3, <1>4, FetchMovesInd

LEMMA ReadPageInd ==
  ASSUME SnapshotInv, NEW i \in Item, readPage(i)
  PROVE  SnapshotInv'
  <1> USE SnapshotParameters
  <1> DEFINE v == restrict(Now.version, Now.scope)[i]
  <1>1. /\ UNCHANGED <<log, poll, access, seen, due, shown, answers, told, failures>>
        /\ fetch.at = "reading" /\ fetch' = [fetch EXCEPT !.got[i] = v]
    BY DEF readPage
  <1>2. /\ Revision \in 1..MaxRevision /\ Revision' = Revision
        /\ Now = log[Revision] /\ Now.version \in Versions
        /\ v \in Unread..MaxRevision
    <2>1. Revision \in 1..MaxRevision /\ Now = log[Revision] /\ Now.version \in Versions
      BY StoredData DEF SnapshotInv, SnapshotConsistent
    <2>2. restrict(Now.version, Now.scope) \in [Item -> 0..MaxRevision]
      <3>1. Now.version \in [Item -> 0..MaxRevision] /\ 0 \in 0..MaxRevision
        BY <2>1 DEF Versions
      <3> HIDE DEF Now
      <3> QED BY <3>1, Restricted
    <2> QED BY <1>1, <2>1, <2>2, SameLog
  <1> HIDE DEF v
  <1>3. /\ fetch' \in FetchState /\ fetch'.at = "reading" /\ fetch'.before = fetch.before
        /\ \A j \in Item : fetch'.got[j] = IF j = i THEN v ELSE fetch.got[j]
    BY <1>1, <1>2, Kept DEF FetchState
  <1>4. FetchInv'
    <2>1. ASSUME NEW j \in Item
          PROVE  PageInv(j)'
      <3>1. CASE j = i
        <4>1. fetch.before.revision <= Revision /\ told[i] <= Now.version[i]
          BY DEF SnapshotInv, RevisionsExist, ConfirmedIsStored
        <4>2. Revision \in 1..Revision
          BY <1>2
        <4> QED BY <1>1, <1>2, <1>3, <3>1, <4>1, <4>2 DEF PageInv, v
      <3>2. CASE j # i
        <4>1. PageInv(j)
          BY DEF SnapshotInv, FetchInv
        <4> QED BY <1>1, <1>2, <1>3, <3>2, <4>1 DEF PageInv
      <3> QED BY <3>1, <3>2
    <2> QED BY <1>3, <2>1 DEF FetchInv
  <1>5. CurrentIsExact'
    BY <1>1, SameCopy
  <1>6. /\ shown' \in Copy /\ shown'.revision = shown.revision
        /\ seen' \in SUBSET Workspace /\ due' \in BOOLEAN /\ failures' \in 0..MaxFailures
        /\ fetch'.at \in {"first", "second"} => poll'.at # "idle"
    BY <1>1, <1>3, Kept
  <1> QED BY <1>1, <1>3, <1>4, <1>5, <1>6, FetchMovesInd

LEMMA FinishUnverifiedInd ==
  ASSUME SnapshotInv, finishUnverified
  PROVE  SnapshotInv'
  <1> USE SnapshotParameters, Fetches
  <1>1. /\ UNCHANGED <<log, poll, access, seen, due, answers, told, failures>>
        /\ \A i \in Item : fetch.got[i] # Unread
        /\ Publish(restrict(fetch.got, fetch.before.scope), None, access)
        /\ fetch' = IdleFetch
    BY DEF finishUnverified, readAllPages
  <1>2. restrict(fetch.got, fetch.before.scope) \in Versions
    <2>1. fetch.got \in [Item -> 0..MaxRevision]
      BY <1>1, PagesAreVersions DEF Versions
    <2>2. 0 \in 0..MaxRevision
      OBVIOUS
    <2>3. restrict(fetch.got, fetch.before.scope) \in [Item -> 0..MaxRevision]
      BY <2>1, <2>2, Restricted
    <2> QED BY <2>3 DEF Versions
  <1>3. shown' \in Copy /\ shown'.revision = None
    BY <1>1, <1>2, Kept, Published
  <1>4. CurrentIsExact'
    <2>1. Revision' = Revision /\ Revision \in 1..MaxRevision
      BY <1>1, SameLog, StoredData DEF SnapshotInv, SnapshotConsistent
    <2> QED BY <1>3, <2>1 DEF CurrentIsExact
  <1>5. /\ fetch' \in FetchState /\ FetchInv' /\ fetch'.before.revision = None
        /\ ~(fetch'.at \in {"first", "second"})
    BY <1>1, FetchRestarts
  <1>6. seen' \in SUBSET Workspace /\ due' \in BOOLEAN /\ failures' \in 0..MaxFailures
    BY <1>1, Kept
  <1> QED BY <1>1, <1>3, <1>4, <1>5, <1>6, FetchMovesInd

LEMMA FinishVerifiedInd ==
  ASSUME SnapshotInv, finishVerified
  PROVE  SnapshotInv'
  <1> USE SnapshotParameters, Fetches
  <1>1. /\ UNCHANGED <<log, access, seen, due, answers, told, failures>>
        /\ \A i \in Item : fetch.got[i] # Unread
        /\ fetch.before.revision # None
        /\ shown' = shown
        /\ \/ fetch' = [fetch EXCEPT !.at = "second"] /\ poll' = joinedPoll
           \/ ReadAgain(access) /\ poll' = poll /\ access.revision = None
    <2>1. CASE getAccess([fetch EXCEPT !.at = "second"])
      BY <2>1 DEF finishVerified, readAllPages, getAccess
    <2>2. CASE getCachedAccess /\ ReadAgain(access)
      BY <2>2 DEF finishVerified, readAllPages, getCachedAccess, ReadAgain
    <2> QED BY <2>1, <2>2 DEF finishVerified
  <1>2. /\ fetch' \in FetchState /\ FetchInv'
        /\ fetch'.before.revision = fetch.before.revision \/ fetch'.before.revision = None
        /\ fetch'.at \in {"first", "second"} => poll'.at # "idle"
    <2>1. CASE fetch' = [fetch EXCEPT !.at = "second"] /\ poll' = joinedPoll
      <3>1. fetch' \in FetchState /\ fetch'.before = fetch.before /\ fetch'.got = fetch.got
        BY <2>1, Kept DEF FetchState
      <3> QED BY <1>1, <2>1, <3>1, FetchKept, JoinedIsBusy
    <2>2. CASE ReadAgain(access) /\ poll' = poll /\ access.revision = None
      <3>1. \/ /\ fetch' = Reading(access, fetch.attempt + 1)
               /\ fetch.attempt + 1 \in 0..MaxAttempts
            \/ fetch' = IdleFetch
        BY <2>2, Kept DEF ReadAgain
      <3> QED BY <2>2, <3>1, Kept, FetchRestarts
    <2> QED BY <1>1, <2>1, <2>2
  <1>3. CurrentIsExact'
    BY <1>1, SameCopy
  <1>4. /\ shown' \in Copy /\ shown'.revision = shown.revision
        /\ seen' \in SUBSET Workspace /\ due' \in BOOLEAN /\ failures' \in 0..MaxFailures
        /\ poll' = poll \/ poll' = joinedPoll
    BY <1>1, Kept
  <1> QED BY <1>1, <1>2, <1>3, <1>4, FetchMovesInd

LEMMA ProgressInd ==
  ASSUME SnapshotInv, onProgress
  PROVE  SnapshotInv'
  <1> USE SnapshotParameters
  <1> DEFINE got == [i \in Item |-> IF fetch.got[i] = Unread THEN 0 ELSE fetch.got[i]]
  <1>1. /\ UNCHANGED <<log, poll, access, seen, due, fetch, answers, told, failures>>
        /\ shown' = [at |-> "partial", revision |-> None, scope |-> access.scope,
                     items |-> restrict(got, access.scope)]
    BY DEF onProgress
  <1>2. shown' \in Copy /\ shown'.at = "partial" /\ shown'.revision = None
    <2>1. got \in [Item -> 0..MaxRevision]
      <3>1. ASSUME NEW i \in Item
            PROVE  got[i] \in 0..MaxRevision
        BY Kept DEF Unread
      <3> QED BY <3>1
    <2> HIDE DEF got
    <2>2. restrict(got, access.scope) \in Versions
      BY <2>1, Restricted DEF Versions
    <2> QED BY <1>1, <2>2, Kept DEF Copy
  <1>3. CurrentIsExact'
    BY <1>2 DEF CurrentIsExact
  <1>4. FetchInv' /\ fetch' \in FetchState
    BY <1>1, Kept, FetchKeptAsIs
  <1>5. seen' \in SUBSET Workspace /\ due' \in BOOLEAN /\ failures' \in 0..MaxFailures
        /\ fetch'.before.revision = fetch.before.revision
        /\ (fetch'.at \in {"first", "second"} => poll'.at # "idle")
    BY <1>1, Kept
  <1> QED BY <1>1, <1>2, <1>3, <1>4, <1>5, FetchMovesInd

(* The copy is cut to an access no older than it: it stays exact.             *)
LEMMA CutIsExact ==
  ASSUME SnapshotInv, UNCHANGED log,
         shown' = [shown EXCEPT !.scope = access.scope, !.items = restrict(@, access.scope)]
  PROVE  shown' \in Copy /\ shown'.revision = shown.revision /\ CurrentIsExact'
  <1> USE SnapshotParameters
  <1>1. /\ shown'.at = shown.at /\ shown'.revision = shown.revision
        /\ shown'.scope = access.scope /\ shown'.items = restrict(shown.items, access.scope)
        /\ shown' = [at |-> shown.at, revision |-> shown.revision, scope |-> shown'.scope,
                     items |-> shown'.items]
    BY Kept DEF Copy
  <1>2. restrict(shown.items, access.scope) \in Versions
    BY Kept, Restricted DEF Versions
  <1>3. shown' \in Copy
    BY <1>1, <1>2, Kept DEF Copy
  <1>4. Revision' = Revision /\ Now' = Now /\ Revision \in 1..MaxRevision
    BY SameLog, StoredData DEF SnapshotInv, SnapshotConsistent
  <1>5. ASSUME shown.at = "complete", shown.revision = Revision
        PROVE  /\ access.scope = Now.scope
               /\ restrict(shown.items, access.scope) = restrict(Now.version, Now.scope)
    <2>1. access.scope = Now.scope
      <3>1. PICK r \in 1..Revision : access.scope = log[r].scope /\ shown.revision <= r
        BY DEF SnapshotInv, AccessInv
      <3>2. r = Revision
        BY <1>4, <1>5, <3>1
      <3> QED BY <3>1, <3>2 DEF Now
    <2>2. shown.items = restrict(Now.version, Now.scope)
      BY <1>5 DEF SnapshotInv, SnapshotConsistent, CurrentIsExact
    <2> QED BY <2>1, <2>2 DEF restrict
  <1>6. CurrentIsExact'
    BY <1>1, <1>4, <1>5 DEF CurrentIsExact
  <1> QED BY <1>1, <1>3, <1>6

LEMMA ReactInd ==
  ASSUME SnapshotInv, react
  PROVE  SnapshotInv'
  <1> USE SnapshotParameters, Fetches
  <1>1. /\ UNCHANGED <<log, access, answers, told, failures>>
        /\ due' = FALSE /\ seen' = access.scope
        /\ \/ fetch' = FirstFetch /\ poll' = joinedPoll
           \/ UNCHANGED <<fetch, poll>>
        /\ \/ shown' = shown
           \/ shown' = [shown EXCEPT !.scope = access.scope, !.items = restrict(@, access.scope)]
    BY DEF react, reduce, expand, compare
  <1>2. shown' \in Copy /\ shown'.revision = shown.revision /\ CurrentIsExact'
    <2>1. CASE shown' = shown
      BY <1>1, <2>1, Kept, SameCopy
    <2>2. CASE shown' = [shown EXCEPT !.scope = access.scope, !.items = restrict(@, access.scope)]
      BY <1>1, <2>2, CutIsExact
    <2> QED BY <1>1, <2>1, <2>2
  <1>3. /\ fetch' \in FetchState /\ FetchInv'
        /\ fetch'.before.revision = fetch.before.revision \/ fetch'.before.revision = None
        /\ fetch'.at \in {"first", "second"} => poll'.at # "idle"
        /\ poll' = poll \/ poll' = joinedPoll
    <2>1. CASE fetch' = FirstFetch /\ poll' = joinedPoll
      BY <2>1, FetchRestarts, JoinedIsBusy
    <2>2. CASE UNCHANGED <<fetch, poll>>
      BY <1>1, <2>2, FetchKeptAsIs, Kept
    <2> QED BY <1>1, <2>1, <2>2
  <1>4. seen' \in SUBSET Workspace /\ due' \in BOOLEAN /\ failures' \in 0..MaxFailures
    BY <1>1, Kept
  <1> QED BY <1>1, <1>2, <1>3, <1>4, FetchMovesInd

(* What the browser is told is stored, so that an exact copy has it already.  *)
LEMMA ConfirmInd ==
  ASSUME SnapshotInv, NEW a \in answers, applyConfirmedWorkItem(a)
  PROVE  SnapshotInv'
  <1> USE SnapshotParameters, Fetches
  <1> DEFINE i == a.item
             n == IF shown.items[i] > a.version THEN shown.items[i] ELSE a.version
             m == IF told[i] > a.version THEN told[i] ELSE a.version
  <1>1. /\ UNCHANGED <<log, poll, access, seen, due, failures>>
        /\ answers' \subseteq answers /\ fetch' = IdleFetch
        /\ \/ /\ home[i] \in shown.scope
              /\ told' = [told EXCEPT ![i] = m]
              /\ shown' = [shown EXCEPT !.items[i] = n]
           \/ UNCHANGED <<told, shown>>
    BY DEF applyConfirmedWorkItem
  <1>2. /\ i \in Item /\ a.version \in 0..MaxRevision /\ a.version <= Now.version[i]
        /\ told \in Versions /\ told[i] \in 0..MaxRevision /\ told[i] <= Now.version[i]
        /\ shown \in Copy /\ shown.items \in Versions /\ shown.items[i] \in 0..MaxRevision
        /\ Revision' = Revision /\ Now' = Now /\ Now.version \in Versions
    <2>1. a \in [item : Item, version : 1..MaxRevision] /\ told \in Versions
      BY DEF SnapshotInv, SnapshotConsistent, SnapshotTypeOK
    <2>2. Revision' = Revision /\ Now' = Now /\ Now.version \in Versions
      BY <1>1, SameLog, StoredData DEF SnapshotInv, SnapshotConsistent
    <2>3. a.version <= Now.version[i] /\ told[i] <= Now.version[i]
      BY <2>1 DEF SnapshotInv, ConfirmedIsStored
    <2> QED BY <2>1, <2>2, <2>3, Kept DEF Versions
  <1>3. n \in 0..MaxRevision /\ m \in 0..MaxRevision /\ m <= Now.version[i]
    BY <1>2
  <1>4. /\ told' \in Versions /\ \A j \in Item : told'[j] <= Now.version[j]
    <2>1. \A j \in Item : told[j] <= Now.version[j]
      BY DEF SnapshotInv, ConfirmedIsStored
    <2> HIDE DEF m
    <2> QED BY <1>1, <1>2, <1>3, <2>1 DEF Versions
  <1>5. shown' \in Copy /\ shown'.revision = shown.revision
    <2> HIDE DEF n
    <2> QED BY <1>1, <1>2, <1>3 DEF Copy, Versions
  <1>6. CurrentIsExact'
    <2>1. CASE shown' = shown
      BY <1>1, <2>1, SameCopy
    <2>2. CASE home[i] \in shown.scope /\ shown' = [shown EXCEPT !.items[i] = n]
      <3>1. ASSUME shown.at = "complete", shown.revision = Revision
            PROVE  shown' = shown
        <4>1. shown.scope = Now.scope /\ shown.items = restrict(Now.version, Now.scope)
          BY <3>1 DEF SnapshotInv, SnapshotConsistent, CurrentIsExact
        <4>2. shown.items[i] = Now.version[i]
          BY <1>2, <2>2, <4>1 DEF restrict
        <4>3. n = shown.items[i]
          BY <1>2, <4>2
        <4> HIDE DEF n
        <4>4. [shown EXCEPT !.items[i] = shown.items[i]] = shown
          BY <1>2 DEF Copy, Versions
        <4> QED BY <2>2, <4>3, <4>4
      <3>2. shown'.at = shown.at /\ shown'.revision = shown.revision
        BY <1>2, <2>2 DEF Copy
      <3> QED BY <1>2, <3>1, <3>2 DEF SnapshotInv, SnapshotConsistent, CurrentIsExact
    <2> QED BY <1>1, <2>1, <2>2
  <1>7. SnapshotTypeOK'
    BY <1>1, <1>4, <1>5 DEF SnapshotInv, SnapshotConsistent, SnapshotTypeOK, Revision
  <1>8. LogGrows' /\ ConfirmedIsStored'
    <2>1. LogGrows'
      BY <1>1, SameLog
    <2> QED BY <1>1, <1>2, <1>4, <2>1 DEF SnapshotInv, ConfirmedIsStored
  <1>9. PollInv' /\ RevisionsExist'
    BY <1>1, <1>5, PollKept
  <1>10. AccessInv' /\ FetchInv'
    BY <1>1, <1>5, AccessKept, FetchRestarts
  <1> QED BY <1>6, <1>7, <1>8, <1>9, <1>10 DEF SnapshotInv, SnapshotConsistent

LEMMA SnapshotStepInd == SnapshotInv /\ [SnapshotNext]_snapshotVars => SnapshotInv'
  <1> SUFFICES ASSUME SnapshotInv, [SnapshotNext]_snapshotVars PROVE SnapshotInv'
    OBVIOUS
  <1>1. CASE \/ \E i \in Item : Write(i) \/ WriteHere(i)
             \/ \E w \in Workspace : Grant(w) \/ Revoke(w)
    BY <1>1, ServerInd
  <1>2. CASE Poll \/ resolve \/ readBefore \/ readAfter
    BY <1>2, PollInd
  <1>3. CASE deliver
    BY <1>3, DeliverInd
  <1>4. CASE pollFails \/ readFails
    BY <1>4, FailureInd
  <1>5. CASE refresh \/ \E i \in Item : readPage(i)
    BY <1>5, RefreshInd, ReadPageInd
  <1>6. CASE finishUnverified \/ finishVerified \/ onProgress
    BY <1>6, FinishUnverifiedInd, FinishVerifiedInd, ProgressInd
  <1>7. CASE react \/ \E a \in answers : applyConfirmedWorkItem(a)
    BY <1>7, ReactInd, ConfirmInd
  <1>8. CASE UNCHANGED snapshotVars
    <2>1. /\ UNCHANGED <<log, access, answers, told, poll, shown, fetch, seen, due, failures>>
          /\ shown' \in Copy /\ fetch' \in FetchState /\ seen' \in SUBSET Workspace
          /\ due' \in BOOLEAN /\ failures' \in 0..MaxFailures
          /\ (fetch'.at \in {"first", "second"} => poll'.at # "idle")
      BY <1>8, Kept DEF snapshotVars
    <2>2. CurrentIsExact' /\ FetchInv'
      BY <2>1, SameCopy, FetchKeptAsIs
    <2> QED BY <2>1, <2>2, FetchMovesInd
  <1> QED BY <1>1, <1>2, <1>3, <1>4, <1>5, <1>6, <1>7, <1>8 DEF SnapshotNext

(* The revisions of the data, the accesses and the pages stand in order in    *)
(* every state of the browser's copy (live-app-data.tsx, refresh).             *)
THEOREM SnapshotInductive == SnapshotSpec => []SnapshotInv
  <1> QED BY SnapshotInitInd, SnapshotStepInd, PTL DEF SnapshotSpec

(* A copy certified under the current revision is exact, however the poll,    *)
(* the fetch, grants, revocations and confirmations interleave.               *)
THEOREM CurrentCopyIsExact == SnapshotSpec => []SnapshotConsistent
  <1>1. SnapshotInv => SnapshotConsistent
    BY DEF SnapshotInv
  <1> QED BY SnapshotInductive, <1>1, PTL

(* Only a fetch, a cut or a page takes something back.                        *)
LEMMA PublishedIsNotOlder ==
  ASSUME SnapshotInv, NEW i \in Item, NEW scope, \A j \in Item : fetch.got[j] # Unread,
         restrict(fetch.got, scope)[i] < told[i]
  PROVE  /\ restrict(fetch.got, scope)[i] = 0
         /\ home[i] \in scope => WithheldSince(i)
  <1>1. fetch.got \in Versions /\ 0 \in 0..MaxRevision
    BY PagesAreVersions, SnapshotParameters
  <1>2. /\ home[i] \in scope => restrict(fetch.got, scope)[i] = fetch.got[i]
        /\ home[i] \notin scope => restrict(fetch.got, scope)[i] = 0
    BY <1>1, Restricted DEF Versions
  <1>3. ASSUME home[i] \in scope
        PROVE  fetch.got[i] = 0 /\ WithheldSince(i)
    <2>1. PICK r \in 1..Revision :
            /\ fetch.got[i] = restrict(log[r].version, log[r].scope)[i]
            /\ told[i] <= log[r].version[i]
      BY DEF SnapshotInv, FetchInv, PageInv
    <2>2. log[r].version \in Versions /\ told \in Versions
      BY StoredData DEF SnapshotInv, SnapshotConsistent, SnapshotTypeOK
    <2>3. /\ home[i] \in log[r].scope =>
               restrict(log[r].version, log[r].scope)[i] = log[r].version[i]
          /\ home[i] \notin log[r].scope => restrict(log[r].version, log[r].scope)[i] = 0
      BY <1>1, <2>2, Restricted DEF Versions
    <2>4. log[r].version[i] \in Nat /\ told[i] \in Nat
      BY <2>2, SnapshotParameters DEF Versions
    <2>5. home[i] \notin log[r].scope
      BY <1>2, <1>3, <2>1, <2>3, <2>4
    <2> QED BY <2>1, <2>3, <2>4, <2>5 DEF WithheldSince
  <1> QED BY <1>2, <1>3

(* A cut takes away what the scope that is shown does not have.               *)
LEMMA CutIsWithheld ==
  ASSUME SnapshotInv, NEW scope, NEW i \in Item,
         restrict(shown.items, scope)[i] < shown.items[i]
  PROVE  restrict(shown.items, scope)[i] = 0 /\ home[i] \notin scope
  <1>1. shown.items \in Versions /\ 0 \in 0..MaxRevision
    BY Kept, SnapshotParameters
  <1>2. /\ home[i] \in scope => restrict(shown.items, scope)[i] = shown.items[i]
        /\ home[i] \notin scope => restrict(shown.items, scope)[i] = 0
    BY <1>1, Restricted DEF Versions
  <1>3. shown.items[i] \in Nat
    BY <1>1, SnapshotParameters DEF Versions
  <1> QED BY <1>2, <1>3

TakenBack(i) == shown'.items[i] < shown.items[i] /\ shown'.items[i] < told[i]

Excused(i) ==
    /\ shown'.items[i] = 0
    /\ home[i] \in shown'.scope \cap fetch.before.scope => WithheldSince(i)

LEMMA ConfirmedStaysStep ==
  ASSUME SnapshotInv, SnapshotNext, shown'.at = "complete", NEW i \in Item, TakenBack(i)
  PROVE  Excused(i)
  <1> USE SnapshotParameters
  <1>1. shown' # shown
    <2>1. shown.items[i] \in Nat
      BY Kept DEF Versions
    <2> QED BY <2>1 DEF TakenBack
  <1>2. CASE deliver
    <2> DEFINE a == poll.answer
    <2>1. a \in Access /\ a.revision \in 0..MaxRevision
      BY DEF SnapshotInv, SnapshotConsistent, SnapshotTypeOK, PollState, Access
    <2>2. CASE Reuse(a)
      <3>1. shown'.scope = a.scope /\ shown'.items = restrict(shown.items, a.scope)
        BY <2>2, <2>1, Kept, Published DEF Reuse
      <3> QED BY <3>1, CutIsWithheld DEF TakenBack, Excused
    <2>3. CASE fetch.at = "second" /\ Certify(a)
      <3>1. \A j \in Item : fetch.got[j] # Unread
        BY <2>3 DEF SnapshotInv, FetchInv
      <3>2. shown'.scope = a.scope /\ shown'.items = restrict(fetch.got, a.scope)
        BY <2>1, <2>3, <3>1, PagesAreVersions, Published DEF Certify
      <3> QED BY <3>1, <3>2, PublishedIsNotOlder DEF TakenBack, Excused
    <2> QED BY <1>1, <1>2, <2>2, <2>3 DEF deliver, Continue, Read, ReadAgain
  <1>3. CASE finishUnverified
    <2> DEFINE pages == restrict(fetch.got, fetch.before.scope)
    <2>1. /\ \A j \in Item : fetch.got[j] # Unread
          /\ Publish(pages, None, access)
      BY <1>3 DEF finishUnverified, readAllPages
    <2>2. fetch.got \in Versions /\ 0 \in 0..MaxRevision
      BY <2>1, PagesAreVersions
    <2>3. pages \in Versions
      <3>1. fetch.got \in [Item -> 0..MaxRevision]
        BY <2>2 DEF Versions
      <3>2. pages \in [Item -> 0..MaxRevision]
        BY <2>2, <3>1, Restricted
      <3> QED BY <3>2 DEF Versions
    <2> HIDE DEF pages
    <2>4. shown'.scope = access.scope /\ shown'.items = restrict(pages, access.scope)
      BY <2>1, <2>3, Kept, Published
    <2>5. /\ home[i] \in access.scope => restrict(pages, access.scope)[i] = pages[i]
          /\ home[i] \notin access.scope => restrict(pages, access.scope)[i] = 0
      BY DEF restrict
    <2>6. home[i] \in access.scope =>
            pages[i] = 0 /\ (home[i] \in fetch.before.scope => WithheldSince(i))
      BY <2>1, <2>4, <2>5, PublishedIsNotOlder DEF TakenBack, pages
    <2> QED BY <2>4, <2>5, <2>6 DEF Excused
  <1>4. CASE onProgress
    BY <1>4 DEF onProgress
  <1>5. CASE react
    <2>1. shown' = [shown EXCEPT !.scope = access.scope, !.items = restrict(@, access.scope)]
      BY <1>1, <1>5 DEF react, reduce, expand, compare
    <2>2. shown'.scope = access.scope /\ shown'.items = restrict(shown.items, access.scope)
      BY <2>1, Kept DEF Copy
    <2> QED BY <2>2, CutIsWithheld DEF TakenBack, Excused
  <1>6. ASSUME NEW a \in answers, applyConfirmedWorkItem(a)
        PROVE  FALSE
    <2> DEFINE n == IF shown.items[a.item] > a.version THEN shown.items[a.item] ELSE a.version
    <2>1. shown' = [shown EXCEPT !.items[a.item] = n]
      BY <1>1, <1>6 DEF applyConfirmedWorkItem
    <2>2. /\ a.item \in Item /\ a.version \in Nat /\ shown \in Copy /\ shown.items \in Versions
          /\ shown.items[i] \in Nat /\ shown.items[a.item] \in Nat
      <3>1. a.item \in Item /\ a.version \in 1..MaxRevision
        BY DEF SnapshotInv, SnapshotConsistent, SnapshotTypeOK
      <3>2. shown \in Copy /\ shown.items \in Versions
        BY Kept
      <3> QED BY <3>1, <3>2 DEF Versions
    <2>3. n >= shown.items[a.item] /\ n \in Nat
      BY <2>2
    <2> HIDE DEF n
    <2>4. shown'.items[i] = IF i = a.item THEN n ELSE shown.items[i]
      BY <2>1, <2>2 DEF Copy, Versions
    <2> QED BY <2>2, <2>3, <2>4 DEF TakenBack
  <1>7. CASE \/ \E j \in Item : Write(j) \/ WriteHere(j) \/ readPage(j)
             \/ \E w \in Workspace : Grant(w) \/ Revoke(w)
             \/ Poll \/ resolve \/ readBefore \/ readAfter \/ pollFails
             \/ refresh \/ finishVerified \/ readFails
    BY <1>1, <1>7 DEF Write, WriteHere, readPage, Grant, Revoke, Poll, resolve, readBefore,
       readAfter, pollFails, refresh, getAccess, getCachedAccess, Read, finishVerified, ReadAgain,
       readFails
  <1> QED BY <1>2, <1>3, <1>4, <1>5, <1>6, <1>7 DEF SnapshotNext

(* No fetch, however late it ends, brings back an older version of what this  *)
(* browser was told of its own change; it may only withhold the item, when    *)
(* the access to it was gone (applyConfirmedWorkItem cancels the fetch).      *)
THEOREM ConfirmedChangesStay == SnapshotSpec => ConfirmedStays
  <1>1. SnapshotInv /\ [SnapshotNext]_snapshotVars =>
          [shown'.at = "complete" => \A i \in Item :
             shown'.items[i] < shown.items[i] /\ shown'.items[i] < told[i] =>
               /\ shown'.items[i] = 0
               /\ home[i] \in shown'.scope \cap fetch.before.scope => WithheldSince(i)]_snapshotVars
    BY ConfirmedStaysStep DEF TakenBack, Excused
  <1> QED BY SnapshotInductive, <1>1, PTL DEF SnapshotSpec, ConfirmedStays

-----------------------------------------------------------------------------
(* The event feed. A batch goes past no event that was committed when it was  *)
(* read, for every number of changes and every limit of a batch: cursors are   *)
(* numbered without a repetition, so that a batch that is not full has all of *)
(* them, and a full one all up to its highest.                                *)

Drawn == {c \in FeedChange : place[c] # 0}

(* No number is drawn twice, and the numbers drawn are as few as the changes. *)
PlacesAreDrawn ==
    /\ \A c \in FeedChange : place[c] <= Cardinality(Drawn)
    /\ \A c, d \in Drawn : place[c] = place[d] => c = d

(* What the request for a batch could see. *)
Ahead == {c \in stream.seen : place[c] > cursor}

(* The events read are a batch of what was committed then, and the cursor has *)
(* not moved since; a full batch goes on from its highest.                    *)
BatchIsRead ==
    /\ stream.seen \subseteq committed
    /\ stream.at \in {"off", "asked"} => stream.events = {}
    /\ stream.at \in {"events", "batch"} => stream.events = Batch(Ahead)
    /\ stream.at = "batch" =>
          /\ stream.next \in {0} \cup {place[c] : c \in committed}
          /\ Cardinality(stream.events) = Limit => stream.next = Highest(stream.events, 0)

FeedInv == FeedTypeOK /\ PlacesAreDrawn /\ BatchIsRead

LEMMA FeedParameters ==
    Limit \in Nat /\ Limit > 0 /\ IsFiniteSet(FeedChange) /\ Cardinality(FeedChange) \in Nat
  BY FeedAssumption, FS_CardinalityType

(* Among natural numbers there is a least one.                                *)
LEMMA LeastOf ==
  ASSUME NEW T \in SUBSET Nat, T # {}
  PROVE  \E u \in T : \A v \in T : u <= v
  <1> DEFINE R == OpToRel(<, Nat)
  <1>1. ASSUME NEW u \in Nat, NEW v \in Nat, v < u
        PROVE  <<v, u>> \in R
    <2>1. <<v, u>> \in Nat \X Nat /\ <<v, u>>[1] = v /\ <<v, u>>[2] = u
      OBVIOUS
    <2>2. R = {ss \in Nat \X Nat : ss[1] < ss[2]}
      BY DEF OpToRel
    <2> QED BY <1>1, <2>1, <2>2
  <1>2. IsWellFoundedOn(R, Nat)
    BY NatLessThanWellFounded
  <1> HIDE DEF R
  <1>3. PICK u \in T : \A v \in T : ~(<<v, u>> \in R)
    BY <1>2, WFMin
  <1>4. ASSUME NEW v \in T
        PROVE  u <= v
    <2>1. u \in Nat /\ v \in Nat /\ ~(v < u)
      BY <1>1, <1>3
    <2> QED BY <2>1
  <1> QED BY <1>4

(* Numbers that have a bound and are there have a largest one.                *)
LEMMA LargestOf ==
  ASSUME NEW b \in Nat, NEW S \in SUBSET (0..b), S # {}
  PROVE  Max(S) \in S /\ \A x \in S : x <= Max(S)
  <1> DEFINE T == {b - x : x \in S}
  <1>1. T \subseteq Nat /\ T # {}
    <2>1. \A x \in S : b - x \in Nat
      OBVIOUS
    <2>2. PICK x \in S : TRUE
      OBVIOUS
    <2>3. b - x \in T
      OBVIOUS
    <2> QED BY <2>1, <2>3
  <1>2. PICK u \in T : \A v \in T : u <= v
    <2> HIDE DEF T
    <2> QED BY <1>1, LeastOf
  <1>3. PICK m \in S : u = b - m
    BY <1>2
  <1>4. ASSUME NEW x \in S
        PROVE  m >= x
    <2>1. b - x \in T
      OBVIOUS
    <2> QED BY <1>2, <1>3, <2>1
  <1>5. Max(S) \in S /\ \A x \in S : Max(S) >= x
    BY <1>4 DEF Max
  <1> QED BY <1>5

(* The highest of some places, and of a number in their range.                *)
LEMMA HighestOf ==
  ASSUME FeedTypeOK, NEW S \in SUBSET FeedChange, NEW least \in 0..Cardinality(FeedChange)
  PROVE  /\ Highest(S, least) \in {place[c] : c \in S} \cup {least}
         /\ Highest(S, least) \in 0..Cardinality(FeedChange)
         /\ Highest(S, least) >= least
         /\ \A c \in S : place[c] <= Highest(S, least)
  <1> DEFINE T == {place[c] : c \in S} \cup {least}
  <1>1. T \subseteq 0..Cardinality(FeedChange) /\ T # {} /\ least \in T
    BY DEF FeedTypeOK
  <1>2. Max(T) \in T /\ \A x \in T : x <= Max(T)
    <2> HIDE DEF T
    <2> QED BY <1>1, FeedParameters, LargestOf
  <1>3. \A c \in S : place[c] \in T
    OBVIOUS
  <1>4. Highest(S, least) = Max(T)
    BY DEF Highest
  <1> HIDE DEF T
  <1>5. Max(T) \in 0..Cardinality(FeedChange) /\ Max(T) >= least /\ \A c \in S : place[c] <= Max(T)
    BY <1>1, <1>2, <1>3
  <1> QED BY <1>2, <1>4, <1>5 DEF T

(* A batch is some of what there is; one that is not full is all of it, and   *)
(* no event outside of it comes before one that is in it.                     *)
LEMMA BatchOf ==
  ASSUME FeedTypeOK, PlacesAreDrawn, NEW S \in SUBSET Drawn
  PROVE  /\ Batch(S) \subseteq S
         /\ Cardinality(Batch(S)) # Limit => Batch(S) = S
         /\ \A c \in S, m \in Batch(S) : place[c] <= place[m] => c \in Batch(S)
  <1> DEFINE upTo(c) == {d \in S : place[d] <= place[c]}
             B == Batch(S)
  <1>1. /\ S \subseteq FeedChange /\ IsFiniteSet(S)
        /\ \A c \in S : place[c] \in Nat
        /\ \A c, d \in S : place[c] = place[d] => c = d
    <2>1. S \subseteq FeedChange
      BY DEF Drawn
    <2>2. IsFiniteSet(S)
      BY <2>1, FeedParameters, FS_Subset
    <2> QED BY <2>1, <2>2 DEF FeedTypeOK, PlacesAreDrawn
  <1>2. \A c : c \in B <=> c \in S /\ Cardinality(upTo(c)) <= Limit
    BY DEF Batch
  <1>3. \A c \in S : upTo(c) \subseteq S /\ IsFiniteSet(upTo(c)) /\ Cardinality(upTo(c)) \in Nat
    <2> TAKE c \in S
    <2>1. upTo(c) \in SUBSET S
      OBVIOUS
    <2> HIDE DEF upTo
    <2>2. IsFiniteSet(upTo(c))
      BY <1>1, <2>1, FS_Subset
    <2> QED BY <2>1, <2>2, FS_CardinalityType
  <1> HIDE DEF B
  <1>4. ASSUME NEW c \in S, NEW m \in B, place[c] <= place[m]
        PROVE  c \in B
    <2>1. m \in S /\ Cardinality(upTo(m)) <= Limit
      BY <1>2
    <2>2. upTo(c) \in SUBSET upTo(m)
      <3>1. place[c] \in Nat /\ place[m] \in Nat /\ \A d \in S : place[d] \in Nat
        BY <1>1, <2>1
      <3> QED BY <1>4, <3>1
    <2> HIDE DEF upTo
    <2>3. Cardinality(upTo(c)) <= Cardinality(upTo(m))
      BY <1>3, <2>1, <2>2, FS_Subset
    <2>4. Cardinality(upTo(c)) <= Limit
      BY <1>3, <2>1, <2>3, FeedParameters
    <2> QED BY <1>2, <2>4
  <1>5. ASSUME NEW c \in S, c \notin B
        PROVE  Cardinality(B) = Limit
    <2> DEFINE T == {place[d] : d \in S \ B}
    <2>1. T \subseteq Nat /\ T # {}
      BY <1>1, <1>5
    <2>2. PICK u \in T : \A v \in T : u <= v
      <3> HIDE DEF T
      <3> QED BY <2>1, LeastOf
    <2>3. PICK least \in S \ B : u = place[least]
      OBVIOUS
    <2>4. \A d \in S \ B : place[least] <= place[d]
      BY <2>2, <2>3
    <2>5. B \in SUBSET S /\ IsFiniteSet(B) /\ Cardinality(B) \in Nat
      <3>1. B \in SUBSET S
        BY <1>2
      <3> QED BY <1>1, <3>1, FS_Subset, FS_CardinalityType
    <2>6. B \subseteq upTo(least)
      <3> SUFFICES ASSUME NEW d \in B
                   PROVE  place[d] <= place[least]
        BY <2>5
      <3>1. place[d] \in Nat /\ place[least] \in Nat
        BY <1>1, <2>5
      <3>2. ~(place[least] <= place[d])
        BY <1>4, <2>3
      <3> QED BY <3>1, <3>2
    <2>7. upTo(least) = B \cup {least}
      <3>1. ASSUME NEW d \in upTo(least), d \notin B
            PROVE  d = least
        <4>1. d \in S \ B /\ place[d] <= place[least] /\ place[least] <= place[d]
          BY <2>4, <3>1
        <4>2. place[d] = place[least]
          BY <1>1, <4>1
        <4> QED BY <1>1, <4>1, <4>2
      <3>2. least \in upTo(least)
        BY <1>1
      <3> HIDE DEF upTo
      <3> QED BY <2>6, <3>1, <3>2
    <2>8. Cardinality(upTo(least)) = Cardinality(B) + 1
      <3> HIDE DEF upTo
      <3> QED BY <2>5, <2>7, FS_AddElement
    <2>9. Cardinality(B) >= Limit
      <3>1. ~(Cardinality(upTo(least)) <= Limit)
        BY <1>2
      <3> HIDE DEF upTo
      <3> QED BY <2>5, <2>8, <3>1, FeedParameters
    <2>10. Cardinality(B) <= Limit
      <3>1. CASE B = {}
        BY <3>1, FS_EmptySet, FeedParameters
      <3>2. CASE B # {}
        <4>1. Highest(B, 0) \in {place[d] : d \in B} \cup {0} /\ \A d \in B : place[d] <= Highest(B, 0)
          <5>1. B \in SUBSET FeedChange /\ 0 \in 0..Cardinality(FeedChange)
            BY <1>1, <2>5, FeedParameters
          <5> QED BY <5>1, HighestOf
        <4>2. PICK m \in B : \A d \in B : place[d] <= place[m]
          <5>1. \A d \in B : place[d] \in Nat
            BY <1>1, <2>5
          <5>2. CASE Highest(B, 0) = 0
            <6>1. \A d, e \in B : place[d] <= place[e]
              BY <4>1, <5>1, <5>2
            <6> QED BY <3>2, <6>1
          <5>3. CASE Highest(B, 0) # 0
            BY <4>1, <5>3
          <5> QED BY <5>2, <5>3
        <4>3. B \in SUBSET upTo(m)
          BY <2>5, <4>2
        <4>4. m \in S /\ Cardinality(upTo(m)) <= Limit
          BY <1>2
        <4> HIDE DEF upTo
        <4>5. Cardinality(B) <= Cardinality(upTo(m))
          BY <1>3, <4>3, <4>4, FS_Subset
        <4> QED BY <1>3, <2>5, <4>4, <4>5, FeedParameters
      <3> QED BY <3>1, <3>2
    <2> QED BY <2>5, <2>9, <2>10, FeedParameters
  <1>6. B \subseteq S
    BY <1>2
  <1> HIDE DEF upTo
  <1> QED BY <1>4, <1>5, <1>6 DEF B

LEMMA FeedInitInv == FeedInit => FeedInv
  <1> SUFFICES ASSUME FeedInit
               PROVE  FeedInv
    OBVIOUS
  <1>1. Cardinality(Drawn) = 0
    <2>1. Drawn = {}
      BY DEF FeedInit, Drawn
    <2> QED BY <2>1, FS_EmptySet
  <1>2. FeedTypeOK
    <2>1. place \in [FeedChange -> 0..Cardinality(FeedChange)] /\ committed = {} /\ cursor = 0
      BY FeedParameters DEF FeedInit
    <2>2. stream \in Stream /\ stream.events = {}
      BY FeedParameters DEF FeedInit, Stream, Off
    <2>3. query \in Query /\ query.answer = {}
      BY DEF FeedInit, Query, IdleQuery
    <2> QED BY <2>1, <2>2, <2>3 DEF FeedInit, FeedTypeOK
  <1>3. PlacesAreDrawn
    BY <1>1 DEF FeedInit, PlacesAreDrawn, Drawn
  <1>4. BatchIsRead
    BY DEF FeedInit, BatchIsRead, Off
  <1> QED BY <1>2, <1>3, <1>4 DEF FeedInv

(* What is done to the query does not matter to the feed; and what is         *)
(* committed stays where it is.                                               *)
LEMMA DrawnKept ==
  ASSUME PlacesAreDrawn, UNCHANGED place
  PROVE  PlacesAreDrawn'
  <1>1. Drawn' = Drawn
    BY DEF Drawn
  <1> QED BY <1>1 DEF PlacesAreDrawn

LEMMA ReadKept ==
  ASSUME BatchIsRead, UNCHANGED <<stream, cursor>>, committed \subseteq committed',
         \A c \in committed : place'[c] = place[c]
  PROVE  BatchIsRead'
  <1>1. Ahead' = Ahead /\ Ahead \subseteq committed
    BY DEF Ahead, BatchIsRead
  <1>2. Batch(Ahead)' = Batch(Ahead)
    <2>1. ASSUME NEW c \in Ahead
          PROVE  {d \in Ahead : place'[d] <= place'[c]} = {d \in Ahead : place[d] <= place[c]}
      BY <1>1
    <2>2. {c \in Ahead : Cardinality({d \in Ahead : place'[d] <= place'[c]}) <= Limit} =
          {c \in Ahead : Cardinality({d \in Ahead : place[d] <= place[c]}) <= Limit}
      BY <2>1
    <2> QED BY <1>1, <2>2 DEF Batch
  <1>3. stream.at = "batch" => Highest(stream.events, 0)' = Highest(stream.events, 0)
    <2> SUFFICES ASSUME stream.at = "batch"
                 PROVE  Highest(stream.events, 0)' = Highest(stream.events, 0)
      OBVIOUS
    <2>1. stream.events \subseteq committed
      BY <1>1 DEF BatchIsRead, Batch
    <2>2. {place'[c] : c \in stream.events} = {place[c] : c \in stream.events}
      BY <2>1
    <2> QED BY <2>2 DEF Highest
  <1>4. {place[c] : c \in committed} \subseteq {place'[c] : c \in committed'}
    OBVIOUS
  <1> QED BY <1>1, <1>2, <1>3, <1>4 DEF BatchIsRead

LEMMA JournalInd ==
  ASSUME FeedInv, NEW c \in FeedChange, Journal(c)
  PROVE  FeedInv'
  <1>1. /\ FeedTypeOK /\ PlacesAreDrawn /\ BatchIsRead
        /\ place[c] = 0 /\ place' = [place EXCEPT ![c] = Highest(FeedChange, 0) + 1]
        /\ UNCHANGED <<committed, stream, cursor, feedPending, query, view, hidden>>
    BY DEF FeedInv, Journal
  <1> DEFINE h == Highest(FeedChange, 0)
  <1>2. h \in Nat /\ \A d \in FeedChange : place[d] <= h
    <2>1. FeedChange \in SUBSET FeedChange /\ 0 \in 0..Cardinality(FeedChange)
      BY FeedParameters
    <2> QED BY <1>1, <2>1, HighestOf
  <1>3. h <= Cardinality(Drawn) /\ Cardinality(Drawn) \in Nat /\ IsFiniteSet(Drawn)
    <2>1. Drawn \in SUBSET FeedChange
      BY DEF Drawn
    <2>2. IsFiniteSet(Drawn) /\ Cardinality(Drawn) \in Nat
      BY <2>1, FeedParameters, FS_Subset, FS_CardinalityType
    <2>3. h \in {place[d] : d \in FeedChange} \cup {0}
      <3>1. FeedChange \in SUBSET FeedChange /\ 0 \in 0..Cardinality(FeedChange)
        BY FeedParameters
      <3> QED BY <1>1, <3>1, HighestOf
    <2> HIDE DEF h
    <2> QED BY <1>1, <2>2, <2>3 DEF PlacesAreDrawn
  <1> HIDE DEF h
  <1>4. place' \in [FeedChange -> Nat] /\ place'[c] = h + 1 /\ \A d \in FeedChange \ {c} : place'[d] = place[d]
    BY <1>1, <1>2 DEF h, FeedTypeOK
  <1>5. Drawn' = Drawn \cup {c} /\ c \notin Drawn
    BY <1>1, <1>2, <1>4 DEF Drawn
  <1>6. Cardinality(Drawn') = Cardinality(Drawn) + 1 /\ Cardinality(Drawn') <= Cardinality(FeedChange)
    <2>1. Drawn' \in SUBSET FeedChange
      BY DEF Drawn
    <2> QED BY <1>3, <1>5, <2>1, FeedParameters, FS_AddElement, FS_Subset
  <1>7. PlacesAreDrawn'
    <2>1. \A d \in FeedChange : place'[d] <= Cardinality(Drawn')
      <3> TAKE d \in FeedChange
      <3>1. place[d] \in Nat /\ place[d] <= Cardinality(Drawn)
        BY <1>1 DEF FeedTypeOK, PlacesAreDrawn
      <3> QED BY <1>2, <1>3, <1>4, <1>6, <3>1
    <2>2. ASSUME NEW d \in Drawn', NEW e \in Drawn', place'[d] = place'[e]
          PROVE  d = e
      <3>1. \A x \in Drawn : x # c /\ x \in FeedChange /\ place'[x] = place[x] /\ place[x] \in Nat /\ place[x] <= h
        BY <1>1, <1>2, <1>4, <1>5 DEF Drawn, FeedTypeOK
      <3>2. \A x, y \in Drawn : place[x] = place[y] => x = y
        BY <1>1 DEF PlacesAreDrawn
      <3> QED BY <1>2, <1>4, <1>5, <2>2, <3>1, <3>2
    <2> QED BY <2>1, <2>2 DEF PlacesAreDrawn
  <1>8. committed \subseteq FeedChange \ {c} /\ \A d \in committed : place'[d] = place[d]
    BY <1>1, <1>4 DEF FeedTypeOK
  <1>9. BatchIsRead'
    BY <1>1, <1>8, ReadKept
  <1>10. FeedTypeOK'
    <2>1. place' \in [FeedChange -> 0..Cardinality(FeedChange)]
      <3>1. \A d \in FeedChange : place'[d] \in Nat /\ place'[d] <= Cardinality(FeedChange)
        <4> TAKE d \in FeedChange
        <4>1. place'[d] \in Nat /\ place[d] \in 0..Cardinality(FeedChange)
          BY <1>1, <1>4 DEF FeedTypeOK
        <4> QED BY <1>2, <1>3, <1>4, <1>6, <4>1, FeedParameters
      <3> QED BY <1>4, <3>1, FeedParameters
    <2>2. committed' \subseteq {d \in FeedChange : place'[d] # 0}
      BY <1>1, <1>8 DEF FeedTypeOK
    <2>3. cursor' \in {0} \cup {place'[d] : d \in committed'}
      <3>1. cursor = 0 \/ \E d \in committed : cursor = place[d]
        BY <1>1 DEF FeedTypeOK
      <3> QED BY <1>1, <1>8, <3>1
    <2> QED BY <1>1, <2>1, <2>2, <2>3 DEF FeedTypeOK
  <1> QED BY <1>7, <1>9, <1>10 DEF FeedInv

LEMMA CommitEventInd ==
  ASSUME FeedInv, NEW c \in FeedChange, CommitEvent(c)
  PROVE  FeedInv'
  <1>1. /\ FeedTypeOK /\ PlacesAreDrawn /\ BatchIsRead
        /\ place[c] # 0 /\ committed' = committed \cup {c}
        /\ UNCHANGED <<place, stream, cursor, feedPending, query, view, hidden>>
    BY DEF FeedInv, CommitEvent
  <1>2. PlacesAreDrawn' /\ BatchIsRead'
    BY <1>1, DrawnKept, ReadKept
  <1>3. FeedTypeOK'
    BY <1>1 DEF FeedTypeOK
  <1> QED BY <1>2, <1>3 DEF FeedInv

(* A request for a batch ends: the cursor goes on to a place that is committed. *)
LEMMA StreamEnds ==
  ASSUME FeedInv, UNCHANGED <<place, committed, view, hidden>>, stream' = Off,
         cursor' \in {0} \cup {place[c] : c \in committed},
         feedPending' \in BOOLEAN, query' \in {query, AskedQuery}
  PROVE  FeedInv'
  <1>1. FeedTypeOK /\ PlacesAreDrawn
    BY DEF FeedInv
  <1>2. PlacesAreDrawn'
    BY <1>1, DrawnKept
  <1>3. BatchIsRead'
    BY DEF BatchIsRead, Off
  <1>4. stream' \in Stream /\ stream'.events = {}
    BY FeedParameters DEF Stream, Off
  <1>5. query' \in Query /\ query'.answer \subseteq committed
    BY <1>1 DEF FeedTypeOK, AskedQuery, Query
  <1>6. FeedTypeOK'
    BY <1>1, <1>4, <1>5 DEF FeedTypeOK
  <1> QED BY <1>2, <1>3, <1>6 DEF FeedInv

(* What the query does leaves the feed alone. *)
LEMMA QueryMoves ==
  ASSUME FeedInv, UNCHANGED <<place, committed, stream, cursor>>,
         feedPending' \in BOOLEAN, hidden' \in BOOLEAN,
         query' \in Query, query'.answer \subseteq committed, view' \subseteq committed
  PROVE  FeedInv'
  <1>1. FeedTypeOK /\ PlacesAreDrawn /\ BatchIsRead
    BY DEF FeedInv
  <1>2. PlacesAreDrawn' /\ BatchIsRead'
    BY <1>1, DrawnKept, ReadKept
  <1>3. FeedTypeOK'
    BY <1>1 DEF FeedTypeOK
  <1> QED BY <1>2, <1>3 DEF FeedInv

LEMMA ConnectInd == FeedInv /\ Connect => FeedInv'
  <1> SUFFICES ASSUME FeedInv, Connect
               PROVE  FeedInv'
    OBVIOUS
  <1>1. /\ FeedTypeOK /\ PlacesAreDrawn
        /\ UNCHANGED <<place, committed, cursor, feedPending, query, view, hidden>>
        /\ stream' = [at |-> "asked", events |-> {}, seen |-> {}, next |-> 0]
    BY DEF FeedInv, Connect, Off
  <1>2. PlacesAreDrawn'
    BY <1>1, DrawnKept
  <1>3. BatchIsRead'
    BY <1>1 DEF BatchIsRead
  <1>4. stream' \in Stream
    BY <1>1, FeedParameters DEF Stream
  <1>5. FeedTypeOK'
    BY <1>1, <1>4 DEF FeedTypeOK
  <1> QED BY <1>2, <1>3, <1>5 DEF FeedInv

LEMMA ListEventsInd == FeedInv /\ ListEvents => FeedInv'
  <1> SUFFICES ASSUME FeedInv, ListEvents
               PROVE  FeedInv'
    OBVIOUS
  <1>1. /\ FeedTypeOK /\ PlacesAreDrawn /\ stream.at = "asked"
        /\ UNCHANGED <<place, committed, cursor, feedPending, query, view, hidden>>
        /\ stream' = [stream EXCEPT !.at = "events", !.events = Batch(After(cursor)),
                                    !.seen = committed]
    BY DEF FeedInv, ListEvents
  <1>2. /\ stream'.at = "events" /\ stream'.events = Batch(After(cursor))
        /\ stream'.seen = committed /\ stream'.next = stream.next
    BY <1>1 DEF FeedTypeOK, Stream
  <1>3. PlacesAreDrawn'
    BY <1>1, DrawnKept
  <1>4. Batch(After(cursor)) \subseteq committed /\ committed \subseteq FeedChange
    BY <1>1 DEF FeedTypeOK, Batch, After
  <1>5. Batch(Ahead)' = Batch(After(cursor))
    <2>1. Ahead' = After(cursor)
      BY <1>1, <1>2 DEF Ahead, After
    <2> QED BY <1>1, <2>1 DEF Batch
  <1>6. BatchIsRead'
    BY <1>1, <1>2, <1>5 DEF BatchIsRead
  <1>7. stream' \in Stream
    <2>1. committed \subseteq FeedChange
      BY <1>1 DEF FeedTypeOK
    <2> QED BY <1>1, <1>2, <1>4, <2>1 DEF FeedTypeOK, Stream
  <1>8. FeedTypeOK'
    BY <1>1, <1>2, <1>4, <1>7 DEF FeedTypeOK
  <1> QED BY <1>3, <1>6, <1>8 DEF FeedInv

LEMMA WatermarkInd == FeedInv /\ Watermark => FeedInv'
  <1> SUFFICES ASSUME FeedInv, Watermark
               PROVE  FeedInv'
    OBVIOUS
  <1> DEFINE n == IF Cardinality(stream.events) = Limit THEN Highest(stream.events, 0)
                  ELSE Highest(committed, cursor)
  <1>1. /\ FeedTypeOK /\ PlacesAreDrawn /\ BatchIsRead /\ stream.at = "events"
        /\ UNCHANGED <<place, committed, cursor, feedPending, query, view, hidden>>
        /\ stream' = [stream EXCEPT !.at = "batch", !.next = n]
    BY DEF FeedInv, Watermark
  <1>2. n \in {0} \cup {place[c] : c \in committed} /\ n \in 0..Cardinality(FeedChange)
    <2>1. stream.events \in SUBSET FeedChange /\ 0 \in 0..Cardinality(FeedChange)
          /\ committed \in SUBSET FeedChange /\ cursor \in 0..Cardinality(FeedChange)
      BY <1>1, FeedParameters DEF FeedTypeOK
    <2>2. /\ Highest(stream.events, 0) \in {place[c] : c \in stream.events} \cup {0}
          /\ Highest(stream.events, 0) \in 0..Cardinality(FeedChange)
      BY <1>1, <2>1, HighestOf
    <2>3. /\ Highest(committed, cursor) \in {place[c] : c \in committed} \cup {cursor}
          /\ Highest(committed, cursor) \in 0..Cardinality(FeedChange)
      BY <1>1, <2>1, HighestOf
    <2>4. stream.events \subseteq committed /\ cursor \in {0} \cup {place[c] : c \in committed}
      BY <1>1 DEF FeedTypeOK
    <2> QED BY <2>2, <2>3, <2>4
  <1>3. Cardinality(stream.events) = Limit => n = Highest(stream.events, 0)
    OBVIOUS
  <1> HIDE DEF n
  <1>4. /\ stream'.at = "batch" /\ stream'.next = n
        /\ stream'.events = stream.events /\ stream'.seen = stream.seen
    BY <1>1 DEF FeedTypeOK, Stream
  <1>5. PlacesAreDrawn'
    BY <1>1, DrawnKept
  <1>6. Batch(Ahead)' = Batch(Ahead)
    <2>1. Ahead' = Ahead
      BY <1>1, <1>4 DEF Ahead
    <2> QED BY <1>1, <2>1 DEF Batch
  <1>7. Highest(stream.events, 0)' = Highest(stream.events, 0)
    BY <1>1, <1>4 DEF Highest
  <1>8. BatchIsRead'
    BY <1>1, <1>2, <1>3, <1>4, <1>6, <1>7 DEF BatchIsRead
  <1>9. stream' \in Stream
    BY <1>1, <1>2, <1>4 DEF FeedTypeOK, Stream
  <1>10. FeedTypeOK'
    BY <1>1, <1>4, <1>9 DEF FeedTypeOK
  <1> QED BY <1>5, <1>8, <1>10 DEF FeedInv

LEMMA CheckpointInd == FeedInv /\ Checkpoint => FeedInv'
  <1> SUFFICES ASSUME FeedInv, Checkpoint
               PROVE  FeedInv'
    OBVIOUS
  <1>1. /\ FeedTypeOK /\ BatchIsRead /\ stream.at = "batch" /\ stream' = Off
        /\ cursor' = Max({cursor, stream.next, Highest(stream.events, 0)})
        /\ query' \in {query, AskedQuery} /\ feedPending' = FALSE
        /\ UNCHANGED <<place, committed, view, hidden>>
    BY DEF FeedInv, Checkpoint
  <1> DEFINE h == Highest(stream.events, 0)
             T == {cursor, stream.next, h}
  <1>2. h \in {0} \cup {place[c] : c \in committed}
    <2>1. stream.events \in SUBSET FeedChange /\ 0 \in 0..Cardinality(FeedChange) /\ stream.events \subseteq committed
      BY <1>1, FeedParameters DEF FeedTypeOK
    <2>2. h \in {place[c] : c \in stream.events} \cup {0}
      BY <1>1, <2>1, HighestOf
    <2> HIDE DEF h
    <2> QED BY <2>1, <2>2
  <1> HIDE DEF h
  <1>3. T \subseteq {0} \cup {place[c] : c \in committed}
    BY <1>1, <1>2 DEF FeedTypeOK, BatchIsRead
  <1>4. {0} \cup {place[c] : c \in committed} \subseteq 0..Cardinality(FeedChange)
    BY <1>1, FeedParameters DEF FeedTypeOK
  <1>5. T \in SUBSET (0..Cardinality(FeedChange)) /\ T # {}
    BY <1>3, <1>4
  <1>6. cursor' \in T
    <2>1. cursor' = Max(T)
      BY <1>1 DEF h
    <2> HIDE DEF T
    <2> QED BY <1>5, <2>1, FeedParameters, LargestOf
  <1>7. cursor' \in {0} \cup {place[c] : c \in committed}
    <2> HIDE DEF T
    <2> QED BY <1>3, <1>6
  <1> QED BY <1>1, <1>7, StreamEnds

LEMMA InterruptedInd == FeedInv /\ Interrupted => FeedInv'
  <1> SUFFICES ASSUME FeedInv, Interrupted
               PROVE  FeedInv'
    OBVIOUS
  <1>1. PICK S \in SUBSET stream.events :
           cursor' = Highest(S, cursor) /\ feedPending' = (feedPending \/ S # {})
    BY DEF Interrupted
  <1>2. FeedTypeOK /\ stream' = Off /\ UNCHANGED <<place, committed, query, view, hidden>>
    BY DEF FeedInv, Interrupted
  <1>3. S \in SUBSET FeedChange /\ S \subseteq committed /\ cursor \in 0..Cardinality(FeedChange)
    BY <1>2, FeedParameters DEF FeedTypeOK
  <1>4. cursor' \in {place[c] : c \in S} \cup {cursor}
    BY <1>1, <1>2, <1>3, HighestOf
  <1>5. cursor' \in {0} \cup {place[c] : c \in committed}
    BY <1>2, <1>3, <1>4 DEF FeedTypeOK
  <1>6. feedPending' \in BOOLEAN
    BY <1>1
  <1> QED BY <1>2, <1>5, <1>6, StreamEnds

LEMMA QueryInd ==
  ASSUME FeedInv, Flush \/ PollQuery \/ Answer \/ Show \/ QueryFails \/ Return
  PROVE  FeedInv'
  <1>1. FeedTypeOK
    BY DEF FeedInv
  <1>2. UNCHANGED <<place, committed, stream, cursor>>
    BY DEF Flush, PollQuery, Answer, Show, QueryFails, Return
  <1>3. feedPending' \in BOOLEAN /\ hidden' \in BOOLEAN
    BY <1>1 DEF FeedTypeOK, Flush, PollQuery, Answer, Show, QueryFails, Return
  <1>4. committed \subseteq FeedChange /\ query \in Query /\ query.answer \subseteq committed /\ view \subseteq committed
    BY <1>1 DEF FeedTypeOK
  <1>5. \/ query' = query \/ query' = AskedQuery \/ query' = IdleQuery
        \/ query' = [at |-> "answered", answer |-> committed]
    BY DEF Flush, PollQuery, Answer, Show, QueryFails, Return
  <1>6. query' \in Query /\ query'.answer \subseteq committed
    BY <1>4, <1>5 DEF Query, AskedQuery, IdleQuery
  <1>7. view' \subseteq committed
    BY <1>4 DEF Flush, PollQuery, Answer, Show, QueryFails, Return
  <1> QED BY <1>2, <1>3, <1>6, <1>7, QueryMoves

LEMMA HideInd == FeedInv /\ Hide => FeedInv'
  <1> SUFFICES ASSUME FeedInv, Hide
               PROVE  FeedInv'
    OBVIOUS
  <1>1. /\ FeedTypeOK /\ PlacesAreDrawn /\ stream' = Off /\ hidden' = TRUE /\ feedPending' = FALSE
        /\ UNCHANGED <<place, committed, cursor, query, view>>
    BY DEF FeedInv, Hide
  <1>2. PlacesAreDrawn'
    BY <1>1, DrawnKept
  <1>3. BatchIsRead'
    BY <1>1 DEF BatchIsRead, Off
  <1>4. stream' \in Stream /\ stream'.events = {}
    BY <1>1, FeedParameters DEF Stream, Off
  <1>5. FeedTypeOK'
    BY <1>1, <1>4 DEF FeedTypeOK
  <1> QED BY <1>2, <1>3, <1>5 DEF FeedInv

LEMMA FeedInductive == FeedInv /\ [FeedNext]_feedVars => FeedInv'
  <1> SUFFICES ASSUME FeedInv, [FeedNext]_feedVars
               PROVE  FeedInv'
    OBVIOUS
  <1>1. ASSUME NEW c \in FeedChange, Journal(c)
        PROVE  FeedInv'
    BY <1>1, JournalInd
  <1>2. ASSUME NEW c \in FeedChange, CommitEvent(c)
        PROVE  FeedInv'
    BY <1>2, CommitEventInd
  <1>3. CASE Flush \/ PollQuery \/ Answer \/ Show \/ QueryFails \/ Return
    BY <1>3, QueryInd
  <1>4. CASE UNCHANGED feedVars
    <2>1. FeedTypeOK
      BY DEF FeedInv
    <2> QED BY <1>4, <2>1, QueryMoves DEF feedVars, FeedTypeOK
  <1> QED BY <1>1, <1>2, <1>3, <1>4, ConnectInd, ListEventsInd, WatermarkInd, CheckpointInd,
             InterruptedInd, HideInd DEF FeedNext

LEMMA OnlyLateOfInv == FeedInv => OnlyLateEventsArePassedOver
  <1> SUFFICES ASSUME FeedInv, stream.at = "batch", NEW c \in stream.seen,
                      place[c] \in (cursor + 1)..stream.next
               PROVE  c \in stream.events
    BY DEF OnlyLateEventsArePassedOver, FeedInv
  <1>1. /\ FeedTypeOK /\ PlacesAreDrawn
        /\ stream.seen \subseteq committed /\ stream.events = Batch(Ahead)
        /\ Cardinality(stream.events) = Limit => stream.next = Highest(stream.events, 0)
    BY DEF FeedInv, BatchIsRead
  <1>2. /\ cursor \in Nat /\ place[c] \in Nat /\ stream.next \in Nat
        /\ c \in Ahead /\ place[c] > 0 /\ Ahead \in SUBSET Drawn
    <2>1. cursor \in Nat /\ stream.next \in Nat /\ \A d \in committed : place[d] \in Nat /\ d \in Drawn
      BY <1>1, FeedParameters DEF FeedTypeOK, Stream, Drawn
    <2> QED BY <1>1, <2>1 DEF Ahead
  <1>3. /\ Cardinality(Batch(Ahead)) # Limit => Batch(Ahead) = Ahead
        /\ \A d \in Ahead, m \in Batch(Ahead) : place[d] <= place[m] => d \in Batch(Ahead)
    BY <1>1, <1>2, BatchOf
  <1>4. CASE Cardinality(Batch(Ahead)) # Limit
    BY <1>1, <1>2, <1>3, <1>4
  <1>5. CASE Cardinality(Batch(Ahead)) = Limit
    <2>1. stream.next = Highest(stream.events, 0)
      BY <1>1, <1>5
    <2>2. stream.events \in SUBSET FeedChange /\ 0 \in 0..Cardinality(FeedChange)
      BY <1>1, FeedParameters DEF FeedTypeOK
    <2>3. stream.next \in {place[d] : d \in stream.events} \cup {0}
      BY <1>1, <2>1, <2>2, HighestOf
    <2>4. PICK m \in stream.events : stream.next = place[m]
      BY <1>2, <2>3
    <2> QED BY <1>1, <1>2, <1>3, <2>4
  <1> QED BY <1>4, <1>5

(* listEvents: no event that was committed when a batch was read is passed    *)
(* over by it, at the limit of a batch either.                                *)
THEOREM NoneIsPassedOver == FeedSpec => []OnlyLateEventsArePassedOver
  <1>1. FeedSpec => []FeedInv
    BY FeedInitInv, FeedInductive, PTL DEF FeedSpec
  <1> QED BY <1>1, OnlyLateOfInv, PTL

-----------------------------------------------------------------------------
(* The inbox, for every number of pages, actions and versions: what is shown   *)
(* or on its way to a page is a state the record has had, a poll on its way is *)
(* none before what the page shows, and the answer to an action is the one     *)
(* state of the record that this action has made.                              *)

(* No page, poll, load or answer is ahead of the record; and no poll on its    *)
(* way is behind its page.                                                     *)
NothingIsNewer ==
    /\ \A p \in Page :
          /\ inboxShown[p].version <= inboxRecord.version
          /\ inboxPoll[p] # Nothing =>
                /\ inboxShown[p].version <= inboxPoll[p].version
                /\ inboxPoll[p].version <= inboxRecord.version
          /\ reload[p] # Nothing => reload[p].row.version <= inboxRecord.version
    /\ \A r \in InboxRequest : receipt[r] # Nothing => receipt[r].version <= inboxRecord.version

(* An action that has an answer was sent; one that is answered has an answer.  *)
ActionsAreSent ==
    \A r \in InboxRequest :
        /\ inboxRequest[r] # Unused => inboxRequest[r].expected < MaxVersion
        /\ receipt[r] # Nothing => inboxRequest[r] # Unused
        /\ inboxRequest[r].step = "answered" => receipt[r] # Nothing

InboxInv == InboxTypeOK /\ OneWorkItem /\ AnswersAreOwn /\ NothingIsNewer /\ ActionsAreSent

LEMMA InboxInitInv == InboxInit => InboxInv
  <1> SUFFICES ASSUME InboxInit
               PROVE  InboxInv
    OBVIOUS
  <1>1. inboxRecord \in InboxRow
    BY InboxAssumption DEF InboxInit, InboxRow
  <1>2. InboxTypeOK
    <2>1. undo \in [Page -> -1..MaxVersion]
      BY InboxAssumption DEF InboxInit, Nothing
    <2> QED BY <1>1, <2>1 DEF InboxInit, InboxTypeOK
  <1>3. OneWorkItem /\ AnswersAreOwn
    BY DEF InboxInit, OneWorkItem, AnswersAreOwn
  <1>4. NothingIsNewer
    BY <1>1 DEF InboxInit, NothingIsNewer, InboxRow
  <1>5. ActionsAreSent
    BY DEF InboxInit, ActionsAreSent, Unused
  <1> QED BY <1>2, <1>3, <1>4, <1>5 DEF InboxInv

(* An action that was sent, and an answer that there is, are such.             *)
LEMMA SentAction ==
  ASSUME InboxTypeOK, NEW r \in InboxRequest
  PROVE  /\ inboxRequest[r] # Unused \/ inboxRequest[r].step # "unused" =>
              inboxRequest[r] \in Action /\ inboxRequest[r] # Unused
         /\ receipt[r] # Nothing => receipt[r] \in InboxRow
  <1>1. inboxRequest[r] \in Action \cup {Unused} /\ receipt[r] \in InboxRow \cup {Nothing}
    BY DEF InboxTypeOK
  <1>2. Unused.step = "unused"
    BY DEF Unused
  <1> QED BY <1>1, <1>2

(* An action keeps what it does and expects.                                   *)
LEMMA ActionKept ==
  ASSUME InboxInv, UNCHANGED server, NEW r \in InboxRequest, NEW u \in Action,
         inboxRequest' = [inboxRequest EXCEPT ![r] = u],
         u.expected < MaxVersion, u.step = "answered" => receipt[r] # Nothing,
         inboxRequest[r] # Unused =>
            u.operation = inboxRequest[r].operation /\ u.expected = inboxRequest[r].expected
  PROVE  /\ inboxRequest' \in [InboxRequest -> Action \cup {Unused}]
         /\ AnswersAreOwn' /\ ActionsAreSent'
  <1>1. InboxTypeOK /\ UNCHANGED receipt
    BY DEF InboxInv, server
  <1>2. inboxRequest'[r] = u /\ \A s \in InboxRequest \ {r} : inboxRequest'[s] = inboxRequest[s]
    BY <1>1 DEF InboxTypeOK
  <1>3. inboxRequest' \in [InboxRequest -> Action \cup {Unused}]
    BY <1>1 DEF InboxTypeOK
  <1>4. u # Unused
    BY DEF Action, Unused
  <1>5. AnswersAreOwn'
    <2> SUFFICES ASSUME NEW s \in InboxRequest, receipt[s] # Nothing
                 PROVE  /\ receipt[s].version = inboxRequest'[s].expected + 1
                        /\ receipt[s].done = (inboxRequest'[s].operation # "undo")
                        /\ \A q \in InboxRequest \ {s} : receipt[q] # receipt[s]
      BY <1>1 DEF AnswersAreOwn
    <2>1. /\ receipt[s].version = inboxRequest[s].expected + 1
          /\ receipt[s].done = (inboxRequest[s].operation # "undo")
          /\ \A q \in InboxRequest \ {s} : receipt[q] # receipt[s]
          /\ inboxRequest[s] # Unused
      BY DEF InboxInv, AnswersAreOwn, ActionsAreSent
    <2>2. /\ inboxRequest'[s].expected = inboxRequest[s].expected
          /\ inboxRequest'[s].operation = inboxRequest[s].operation
      BY <1>2, <2>1
    <2> QED BY <2>1, <2>2
  <1>6. ActionsAreSent'
    <2> SUFFICES ASSUME NEW s \in InboxRequest
                 PROVE  /\ inboxRequest'[s] # Unused => inboxRequest'[s].expected < MaxVersion
                        /\ receipt[s] # Nothing => inboxRequest'[s] # Unused
                        /\ inboxRequest'[s].step = "answered" => receipt[s] # Nothing
      BY <1>1 DEF ActionsAreSent
    <2>1. CASE s = r
      BY <1>2, <1>4, <2>1
    <2>2. CASE s # r
      BY <1>2, <2>2 DEF InboxInv, ActionsAreSent
    <2> QED BY <2>1, <2>2
  <1> QED BY <1>3, <1>5, <1>6

LEMMA ActInd ==
  ASSUME InboxInv, UNCHANGED server, NEW p \in Page, NEW r \in InboxRequest,
         NEW operation \in Operation, NEW v \in 0..MaxVersion, act(p, r, operation, v)
  PROVE  /\ inboxRequest' \in [InboxRequest -> Action \cup {Unused}]
         /\ inboxPending' \in [Page -> BOOLEAN] /\ AnswersAreOwn' /\ ActionsAreSent'
  <1> DEFINE u == [step |-> "sent", by |-> p, operation |-> operation, expected |-> v,
                   arrives |-> TRUE]
  <1>1. /\ v < MaxVersion /\ retainedKey(p, r, operation, v)
        /\ inboxRequest' = [inboxRequest EXCEPT ![r] = u]
        /\ inboxPending' = [inboxPending EXCEPT ![p] = TRUE]
    BY DEF act
  <1>2. inboxPending' \in [Page -> BOOLEAN]
    BY <1>1 DEF InboxInv, InboxTypeOK
  <1>3. u \in Action /\ u.expected < MaxVersion /\ u.step # "answered"
    BY <1>1 DEF Action
  <1>4. inboxRequest[r] # Unused =>
           u.operation = inboxRequest[r].operation /\ u.expected = inboxRequest[r].expected
    BY <1>1 DEF retainedKey, attempted
  <1> HIDE DEF u
  <1> QED BY <1>1, <1>2, <1>3, <1>4, ActionKept

(* What an action goes through: only its step changes, and whether it is still *)
(* on its way.                                                                 *)
LEMMA ActionGoesOn ==
  ASSUME InboxInv, UNCHANGED server, NEW r \in InboxRequest, inboxRequest[r] # Unused,
         NEW step \in {"sent", "failed", "refused", "answered", "over"}, NEW arrives \in BOOLEAN,
         inboxRequest' = [inboxRequest EXCEPT ![r] = [inboxRequest[r] EXCEPT !.step = step,
                                                                            !.arrives = arrives]],
         step = "answered" => receipt[r] # Nothing
  PROVE  /\ inboxRequest' \in [InboxRequest -> Action \cup {Unused}]
         /\ AnswersAreOwn' /\ ActionsAreSent'
  <1> DEFINE u == [inboxRequest[r] EXCEPT !.step = step, !.arrives = arrives]
  <1>1. inboxRequest[r] \in Action
    BY SentAction DEF InboxInv
  <1>2. /\ u \in Action /\ u.step = step
        /\ u.operation = inboxRequest[r].operation /\ u.expected = inboxRequest[r].expected
    BY <1>1 DEF Action
  <1>3. u.expected < MaxVersion
    BY <1>2 DEF InboxInv, ActionsAreSent
  <1>4. inboxRequest' = [inboxRequest EXCEPT ![r] = u]
    OBVIOUS
  <1> HIDE DEF u
  <1> QED BY <1>2, <1>3, <1>4, ActionKept

(* What the server does not take part in.                                      *)
LEMMA PagesInd ==
  ASSUME InboxInv, UNCHANGED server, NothingIsNewer',
         inboxShown' \in [Page -> InboxRow], inboxPoll' \in [Page -> InboxRow \cup {Nothing}],
         reload' \in [Page -> [row : InboxRow, operation : Operation] \cup {Nothing}],
         conflict' \in [Page -> Operation \cup {"none"}], undo' \in [Page -> -1..MaxVersion],
         inboxPending' \in [Page -> BOOLEAN],
         inboxRequest' \in [InboxRequest -> Action \cup {Unused}],
         AnswersAreOwn', ActionsAreSent'
  PROVE  InboxInv'
  BY DEF InboxInv, InboxTypeOK, OneWorkItem, server

LEMMA ShownKept ==
  ASSUME InboxInv, UNCHANGED <<server, inboxShown, inboxPoll, reload>>
  PROVE  /\ NothingIsNewer'
         /\ inboxShown' \in [Page -> InboxRow] /\ inboxPoll' \in [Page -> InboxRow \cup {Nothing}]
         /\ reload' \in [Page -> [row : InboxRow, operation : Operation] \cup {Nothing}]
  BY DEF InboxInv, InboxTypeOK, NothingIsNewer, server

LEMMA ActionsKept ==
  ASSUME InboxInv, UNCHANGED <<server, inboxRequest>>
  PROVE  /\ inboxRequest' \in [InboxRequest -> Action \cup {Unused}]
         /\ AnswersAreOwn' /\ ActionsAreSent'
  BY DEF InboxInv, InboxTypeOK, AnswersAreOwn, ActionsAreSent, server

LEMMA PressInd ==
  ASSUME InboxInv, NEW p \in Page, NEW r \in InboxRequest, press(p, r)
  PROVE  InboxInv'
  <1>1. InboxTypeOK /\ UNCHANGED <<server, inboxShown, inboxPoll, reload, undo>>
    BY DEF InboxInv, press
  <1>2. PICK operation \in Operation, v \in 0..MaxVersion : act(p, r, operation, v)
    <2>1. CASE \E operation \in {"done", "convert"} : act(p, r, operation, inboxShown[p].version)
      <3>1. inboxShown[p].version \in 0..MaxVersion
        BY <1>1 DEF InboxTypeOK, InboxRow
      <3> QED BY <2>1, <3>1 DEF Operation
    <2>2. CASE undo[p] # Nothing.version /\ act(p, r, "undo", undo[p])
      <3>1. undo[p] \in 0..MaxVersion
        BY <1>1, <2>2, InboxAssumption DEF InboxTypeOK, Nothing
      <3> QED BY <2>2, <3>1 DEF Operation
    <2> QED BY <2>1, <2>2 DEF press
  <1>3. /\ inboxRequest' \in [InboxRequest -> Action \cup {Unused}]
        /\ inboxPending' \in [Page -> BOOLEAN] /\ AnswersAreOwn' /\ ActionsAreSent'
    BY <1>1, <1>2, ActInd
  <1>4. conflict' \in [Page -> Operation \cup {"none"}] /\ undo' \in [Page -> -1..MaxVersion]
    BY <1>1 DEF press, InboxTypeOK
  <1> QED BY <1>1, <1>3, <1>4, ShownKept, PagesInd

LEMMA FailInd ==
  ASSUME InboxInv, NEW r \in InboxRequest, fail(r)
  PROVE  InboxInv'
  <1>1. /\ InboxTypeOK /\ UNCHANGED <<server, inboxShown, inboxPoll, reload, notices>>
        /\ inboxRequest[r].step \in {"sent", "answered", "refused"}
    BY DEF InboxInv, fail
  <1>2. inboxRequest[r] \in Action /\ inboxRequest[r] # Unused
    BY <1>1, SentAction
  <1>3. PICK arrives \in {FALSE, inboxRequest[r].arrives} :
           inboxRequest' = [inboxRequest EXCEPT ![r].step = "failed", ![r].arrives = arrives]
    BY DEF fail
  <1>4. arrives \in BOOLEAN
    BY <1>2 DEF Action
  <1>5. inboxRequest' = [inboxRequest EXCEPT ![r] = [inboxRequest[r] EXCEPT !.step = "failed",
                                                                            !.arrives = arrives]]
    BY <1>1, <1>3 DEF InboxTypeOK
  <1>6. /\ inboxRequest' \in [InboxRequest -> Action \cup {Unused}]
        /\ AnswersAreOwn' /\ ActionsAreSent'
    BY <1>1, <1>2, <1>4, <1>5, ActionGoesOn
  <1>7. /\ inboxPending' \in [Page -> BOOLEAN] /\ conflict' \in [Page -> Operation \cup {"none"}]
        /\ undo' \in [Page -> -1..MaxVersion]
    BY <1>1 DEF fail, InboxTypeOK, notices
  <1> QED BY <1>1, <1>6, <1>7, ShownKept, PagesInd

(* The answer to an action is told to the page that waits for it.              *)
LEMMA AnsweredAction ==
  ASSUME InboxTypeOK, NEW r \in InboxRequest, arrived(r), NEW step, answered(r, step)
  PROVE  /\ inboxRequest[r] \in Action /\ inboxRequest[r] # Unused
         /\ \E s \in {step, inboxRequest[r].step} :
               inboxRequest' = [inboxRequest EXCEPT ![r] =
                                   [inboxRequest[r] EXCEPT !.step = s, !.arrives = FALSE]]
  <1>1. inboxRequest[r] \in Action /\ inboxRequest[r] # Unused
    BY SentAction DEF arrived
  <1> DEFINE s == IF inboxRequest[r].step = "sent" THEN step ELSE inboxRequest[r].step
  <1>2. inboxRequest' = [inboxRequest EXCEPT ![r] =
                            [inboxRequest[r] EXCEPT !.step = s, !.arrives = FALSE]]
    BY <1>1 DEF answered, InboxTypeOK, Action
  <1>3. s \in {step, inboxRequest[r].step}
    OBVIOUS
  <1> HIDE DEF s
  <1> QED BY <1>1, <1>2, <1>3

(* The record changes: the answer is one version after what was expected, and  *)
(* no other answer is that new.                                                *)
LEMMA AcceptedInd ==
  ASSUME InboxInv, NEW r \in InboxRequest, execute(r), accepts(r)
  PROVE  InboxInv'
  <1> DEFINE operation == inboxRequest[r].operation
  <1>1. /\ InboxTypeOK /\ arrived(r) /\ receipt[r] = Nothing
        /\ inboxRecord' = update(operation)
        /\ workItems' = IF operation = "convert" THEN workItems + 1 ELSE workItems
        /\ receipt' = [receipt EXCEPT ![r] = inboxRecord']
        /\ answered(r, "answered")
        /\ UNCHANGED <<inboxShown, inboxPoll, reload, notices, inboxPending>>
    BY DEF InboxInv, execute
  <1>2. inboxRequest[r] \in Action /\ inboxRequest[r] # Unused /\ inboxRequest[r].expected < MaxVersion
    BY <1>1, SentAction DEF arrived, InboxInv, ActionsAreSent
  <1>3. PICK step \in {"answered", inboxRequest[r].step} :
           inboxRequest' = [inboxRequest EXCEPT ![r] =
                               [inboxRequest[r] EXCEPT !.step = step, !.arrives = FALSE]]
    BY <1>1, AnsweredAction
  <1>4. /\ inboxRequest'[r] \in Action /\ inboxRequest'[r] # Unused
        /\ inboxRequest'[r].operation = operation
        /\ inboxRequest'[r].expected = inboxRequest[r].expected
        /\ \A s \in InboxRequest \ {r} : inboxRequest'[s] = inboxRequest[s]
    BY <1>1, <1>2, <1>3 DEF InboxTypeOK, Action, Unused
  <1>5. inboxRequest' \in [InboxRequest -> Action \cup {Unused}]
    BY <1>1, <1>3, <1>4 DEF InboxTypeOK
  <1>6. /\ inboxRecord.version \in 0..MaxVersion /\ inboxRequest[r].expected = inboxRecord.version
        /\ operation = "convert" => ~inboxRecord.converted
        /\ inboxRecord.converted \in BOOLEAN
    BY <1>1 DEF InboxTypeOK, InboxRow, accepts
  <1>7. /\ inboxRecord' \in InboxRow /\ inboxRecord'.version = inboxRecord.version + 1
        /\ inboxRecord'.done = (operation # "undo")
        /\ inboxRecord'.converted = (inboxRecord.converted \/ operation = "convert")
        /\ inboxRecord' # Nothing
    <2>1. inboxRecord' = [version |-> inboxRecord.version + 1, done |-> operation # "undo",
                          converted |-> inboxRecord.converted \/ operation = "convert"]
      BY <1>1 DEF update
    <2>2. inboxRecord.version + 1 \in 0..MaxVersion /\ inboxRecord.version + 1 # -1
      BY <1>2, <1>6, InboxAssumption
    <2> QED BY <2>1, <2>2 DEF InboxRow, Nothing
  <1> HIDE DEF operation
  <1>8. /\ receipt'[r] = inboxRecord' /\ \A s \in InboxRequest \ {r} : receipt'[s] = receipt[s]
        /\ receipt' \in [InboxRequest -> InboxRow \cup {Nothing}]
    BY <1>1, <1>7 DEF InboxTypeOK
  <1>9. \A s \in InboxRequest \ {r} : receipt[s] # Nothing =>
           receipt[s] \in InboxRow /\ receipt[s].version <= inboxRecord.version
    BY <1>1, SentAction DEF InboxInv, NothingIsNewer
  <1>10. AnswersAreOwn'
    <2> SUFFICES ASSUME NEW s \in InboxRequest, receipt'[s] # Nothing
                 PROVE  /\ receipt'[s].version = inboxRequest'[s].expected + 1
                        /\ receipt'[s].done = (inboxRequest'[s].operation # "undo")
                        /\ \A q \in InboxRequest \ {s} : receipt'[q] # receipt'[s]
      BY DEF AnswersAreOwn
    <2>1. \A q \in InboxRequest \ {r} : receipt[q] # inboxRecord'
      <3> SUFFICES ASSUME NEW q \in InboxRequest \ {r}, receipt[q] = inboxRecord'
                   PROVE  FALSE
        OBVIOUS
      <3>1. receipt[q].version \in Nat /\ receipt[q].version <= inboxRecord.version
        BY <1>7, <1>9 DEF InboxRow
      <3> QED BY <1>6, <1>7, <3>1
    <2>2. CASE s = r
      <3>1. receipt'[s].version = inboxRequest'[s].expected + 1
        BY <1>4, <1>6, <1>7, <1>8, <2>2
      <3>2. receipt'[s].done = (inboxRequest'[s].operation # "undo")
        BY <1>4, <1>7, <1>8, <2>2
      <3>3. \A q \in InboxRequest \ {s} : receipt'[q] # receipt'[s]
        BY <1>8, <2>1, <2>2
      <3> QED BY <3>1, <3>2, <3>3
    <2>3. CASE s # r
      <3>1. /\ receipt[s].version = inboxRequest[s].expected + 1
            /\ receipt[s].done = (inboxRequest[s].operation # "undo")
            /\ \A q \in InboxRequest \ {s} : receipt[q] # receipt[s]
        BY <1>8, <2>3 DEF InboxInv, AnswersAreOwn
      <3>2. \A q \in InboxRequest \ {s} : receipt'[q] # receipt'[s]
        BY <1>8, <2>1, <2>3, <3>1
      <3> QED BY <1>4, <1>8, <2>3, <3>1, <3>2
    <2> QED BY <2>2, <2>3
  <1>11. ActionsAreSent'
    <2> SUFFICES ASSUME NEW s \in InboxRequest
                 PROVE  /\ inboxRequest'[s] # Unused => inboxRequest'[s].expected < MaxVersion
                        /\ receipt'[s] # Nothing => inboxRequest'[s] # Unused
                        /\ inboxRequest'[s].step = "answered" => receipt'[s] # Nothing
      BY DEF ActionsAreSent
    <2>1. CASE s = r
      BY <1>2, <1>4, <1>7, <1>8, <2>1
    <2>2. CASE s # r
      BY <1>4, <1>8, <2>2 DEF InboxInv, ActionsAreSent
    <2> QED BY <2>1, <2>2
  <1>12. OneWorkItem' /\ workItems' \in 0..1
    <2>1. workItems = IF inboxRecord.converted THEN 1 ELSE 0
      BY DEF InboxInv, OneWorkItem
    <2>2. CASE operation = "convert"
      <3>1. ~inboxRecord.converted
        BY <1>6, <2>2
      <3>2. inboxRecord'.converted
        BY <1>7, <2>2
      <3>3. workItems = 0
        BY <2>1, <3>1
      <3>4. workItems' = 1
        BY <1>1, <2>2, <3>3
      <3> QED BY <3>2, <3>4 DEF OneWorkItem
    <2>3. CASE operation # "convert"
      <3>1. inboxRecord'.converted = inboxRecord.converted
        BY <1>6, <1>7, <2>3
      <3>2. workItems' = workItems
        BY <1>1, <2>3
      <3> QED BY <2>1, <3>1, <3>2 DEF OneWorkItem
    <2> QED BY <2>2, <2>3
  <1>13. NothingIsNewer'
    <2>1. \A v \in Nat : v <= inboxRecord.version => v <= inboxRecord'.version
      BY <1>6, <1>7
    <2>2. \A p \in Page :
             /\ inboxShown[p].version \in Nat
             /\ inboxPoll[p] # Nothing => inboxPoll[p].version \in Nat
             /\ reload[p] # Nothing => reload[p].row.version \in Nat
      BY <1>1 DEF InboxTypeOK, InboxRow
    <2>3. \A p \in Page :
             /\ inboxShown[p].version <= inboxRecord'.version
             /\ inboxPoll[p] # Nothing =>
                   /\ inboxShown[p].version <= inboxPoll[p].version
                   /\ inboxPoll[p].version <= inboxRecord'.version
             /\ reload[p] # Nothing => reload[p].row.version <= inboxRecord'.version
      BY <2>1, <2>2 DEF InboxInv, NothingIsNewer
    <2>4. \A s \in InboxRequest : receipt'[s] # Nothing => receipt'[s].version <= inboxRecord'.version
      <3> TAKE s \in InboxRequest
      <3>1. CASE s = r
        BY <1>6, <1>7, <1>8, <3>1
      <3>2. CASE s # r
        <4>1. receipt[s] # Nothing => receipt[s].version \in Nat
          BY <1>9, <3>2 DEF InboxRow
        <4> QED BY <1>8, <1>9, <2>1, <3>2, <4>1
      <3> QED BY <3>1, <3>2
    <2> QED BY <1>1, <2>3, <2>4 DEF NothingIsNewer
  <1>14. InboxTypeOK'
    BY <1>1, <1>5, <1>7, <1>8, <1>12 DEF InboxTypeOK, notices
  <1> QED BY <1>10, <1>11, <1>12, <1>13, <1>14 DEF InboxInv

(* What the server refuses, or has answered before, changes nothing there.     *)
LEMMA RepliedInd ==
  ASSUME InboxInv, NEW r \in InboxRequest, replay(r) \/ (execute(r) /\ ~accepts(r))
  PROVE  InboxInv'
  <1>1. InboxTypeOK /\ UNCHANGED <<server, inboxShown, inboxPoll, reload, notices, inboxPending>>
        /\ arrived(r)
    BY DEF InboxInv, replay, execute
  <1>2. PICK step \in {"answered", "refused"} :
           answered(r, step) /\ (step = "answered" => receipt[r] # Nothing)
    BY DEF replay, execute
  <1>3. inboxRequest[r] \in Action /\ inboxRequest[r] # Unused
    BY <1>1, <1>2, AnsweredAction
  <1>4. PICK s \in {step, inboxRequest[r].step} :
           inboxRequest' = [inboxRequest EXCEPT ![r] =
                               [inboxRequest[r] EXCEPT !.step = s, !.arrives = FALSE]]
    BY <1>1, <1>2, AnsweredAction
  <1>5. s \in {"sent", "failed", "refused", "answered", "over"} /\ (s = "answered" => receipt[r] # Nothing)
    <2>1. inboxRequest[r].step \in {"sent", "failed", "refused", "answered", "over"}
      BY <1>3 DEF Action
    <2>2. inboxRequest[r].step = "answered" => receipt[r] # Nothing
      BY DEF InboxInv, ActionsAreSent
    <2> QED BY <1>2, <1>4, <2>1, <2>2
  <1>6. /\ inboxRequest' \in [InboxRequest -> Action \cup {Unused}]
        /\ AnswersAreOwn' /\ ActionsAreSent'
    BY <1>1, <1>3, <1>4, <1>5, ActionGoesOn
  <1>7. /\ inboxPending' \in [Page -> BOOLEAN] /\ conflict' \in [Page -> Operation \cup {"none"}]
        /\ undo' \in [Page -> -1..MaxVersion]
    BY <1>1 DEF InboxTypeOK, notices
  <1> QED BY <1>1, <1>6, <1>7, ShownKept, PagesInd

(* An action is over for its page.                                             *)
LEMMA OverInd ==
  ASSUME InboxInv, UNCHANGED server, NEW r \in InboxRequest,
         inboxRequest[r].step \in {"answered", "refused"}, over(r)
  PROVE  /\ inboxRequest[r] \in Action /\ inboxRequest[r] # Unused
         /\ inboxRequest' \in [InboxRequest -> Action \cup {Unused}]
         /\ inboxPending' \in [Page -> BOOLEAN]
         /\ AnswersAreOwn' /\ ActionsAreSent'
  <1>1. inboxRequest[r] \in Action /\ inboxRequest[r] # Unused /\ InboxTypeOK
    BY SentAction DEF InboxInv
  <1>2. inboxRequest' = [inboxRequest EXCEPT ![r] =
                            [inboxRequest[r] EXCEPT !.step = "over", !.arrives = inboxRequest[r].arrives]]
    BY <1>1 DEF over, InboxTypeOK, Action
  <1>3. inboxRequest[r].arrives \in BOOLEAN
    BY <1>1 DEF Action
  <1>4. inboxPending' \in [Page -> BOOLEAN]
    BY <1>1 DEF over, InboxTypeOK
  <1> QED BY <1>1, <1>2, <1>3, <1>4, ActionGoesOn

LEMMA ReportConflictInd ==
  ASSUME InboxInv, NEW r \in InboxRequest, reportConflict(r)
  PROVE  InboxInv'
  <1>1. /\ InboxTypeOK /\ UNCHANGED <<server, inboxShown, inboxPoll, reload, undo>>
        /\ inboxRequest[r].step \in {"answered", "refused"} /\ over(r)
        /\ conflict' = [conflict EXCEPT ![inboxRequest[r].by] = inboxRequest[r].operation]
    BY DEF InboxInv, reportConflict
  <1>2. /\ inboxRequest[r] \in Action /\ inboxPending' \in [Page -> BOOLEAN]
        /\ inboxRequest' \in [InboxRequest -> Action \cup {Unused}]
        /\ AnswersAreOwn' /\ ActionsAreSent'
    BY <1>1, OverInd
  <1>3. conflict' \in [Page -> Operation \cup {"none"}] /\ undo' \in [Page -> -1..MaxVersion]
    BY <1>1, <1>2 DEF InboxTypeOK, Action
  <1> QED BY <1>1, <1>2, <1>3, ShownKept, PagesInd

LEMMA ApplyInd ==
  ASSUME InboxInv, NEW r \in InboxRequest, applyConfirmedInboxItem(r)
  PROVE  InboxInv'
  <1> DEFINE p == inboxRequest[r].by
             newer == confirm(p, receipt[r])
  <1>1. /\ InboxTypeOK /\ inboxRequest[r].step = "answered"
        /\ inboxShown' = [inboxShown EXCEPT ![p] = newer]
        /\ inboxPoll' = [inboxPoll EXCEPT ![p] = Nothing]
        /\ undo' = [undo EXCEPT ![p] = IF inboxRequest[r].operation = "done"
                                       THEN receipt[r].version ELSE Nothing.version]
        /\ over(r) /\ UNCHANGED <<server, reload, conflict>>
    BY DEF InboxInv, applyConfirmedInboxItem
  <1>2. /\ inboxRequest[r] \in Action /\ inboxPending' \in [Page -> BOOLEAN]
        /\ inboxRequest' \in [InboxRequest -> Action \cup {Unused}]
        /\ AnswersAreOwn' /\ ActionsAreSent'
    BY <1>1, OverInd
  <1>3. receipt[r] # Nothing /\ receipt[r] \in InboxRow /\ receipt[r].version <= inboxRecord.version
    BY <1>1, SentAction DEF InboxInv, ActionsAreSent, NothingIsNewer
  <1>4. p \in Page /\ inboxShown[p] \in InboxRow /\ inboxShown[p].version <= inboxRecord.version
    BY <1>1, <1>2 DEF Action, InboxTypeOK, InboxInv, NothingIsNewer
  <1>5. newer \in InboxRow /\ newer.version <= inboxRecord.version
    BY <1>3, <1>4 DEF confirm
  <1> HIDE DEF p, newer
  <1>6. undo' \in [Page -> -1..MaxVersion]
    <2>1. receipt[r].version \in -1..MaxVersion /\ Nothing.version \in -1..MaxVersion
      BY <1>3, InboxAssumption DEF InboxRow, Nothing
    <2> QED BY <1>1, <2>1 DEF InboxTypeOK
  <1>7. /\ inboxShown' \in [Page -> InboxRow] /\ inboxPoll' \in [Page -> InboxRow \cup {Nothing}]
        /\ inboxShown'[p] = newer /\ inboxPoll'[p] = Nothing
        /\ \A q \in Page \ {p} : inboxShown'[q] = inboxShown[q] /\ inboxPoll'[q] = inboxPoll[q]
    BY <1>1, <1>4, <1>5 DEF InboxTypeOK
  <1>8. NothingIsNewer'
    <2>1. UNCHANGED <<inboxRecord, receipt, reload>>
      BY <1>1 DEF server
    <2>2. ASSUME NEW q \in Page
          PROVE  /\ inboxShown'[q].version <= inboxRecord.version
                 /\ inboxPoll'[q] # Nothing =>
                       /\ inboxShown'[q].version <= inboxPoll'[q].version
                       /\ inboxPoll'[q].version <= inboxRecord.version
      <3>1. CASE q = p
        BY <1>5, <1>7, <3>1
      <3>2. CASE q # p
        BY <1>7, <3>2 DEF InboxInv, NothingIsNewer
      <3> QED BY <3>1, <3>2
    <2> QED BY <2>1, <2>2 DEF InboxInv, NothingIsNewer
  <1>9. /\ reload' \in [Page -> [row : InboxRow, operation : Operation] \cup {Nothing}]
        /\ conflict' \in [Page -> Operation \cup {"none"}]
    BY <1>1 DEF InboxTypeOK
  <1> QED BY <1>1, <1>2, <1>6, <1>7, <1>8, <1>9, PagesInd

(* A reading that begins, ends or fails.                                       *)
LEMMA ReadingInd ==
  ASSUME InboxInv, NEW p \in Page,
         startPoll(p) \/ finishPoll(p) \/ startReload(p) \/ failReading(p)
  PROVE  InboxInv'
  <1>1. InboxTypeOK /\ UNCHANGED <<server, inboxPending, inboxRequest, notices>>
    BY DEF InboxInv, startPoll, finishPoll, startReload, failReading
  <1>2. /\ inboxRequest' \in [InboxRequest -> Action \cup {Unused}]
        /\ AnswersAreOwn' /\ ActionsAreSent'
    BY <1>1, ActionsKept
  <1>3. /\ inboxPending' \in [Page -> BOOLEAN] /\ conflict' \in [Page -> Operation \cup {"none"}]
        /\ undo' \in [Page -> -1..MaxVersion]
    BY <1>1 DEF InboxTypeOK, notices
  <1>4. UNCHANGED <<inboxRecord, receipt>> /\ inboxRecord \in InboxRow
    BY <1>1 DEF server, InboxTypeOK
  <1>5. inboxRecord.version \in Nat /\ \A q \in Page : inboxShown[q].version <= inboxRecord.version
    BY <1>4 DEF InboxRow, InboxInv, NothingIsNewer
  <1>6. CASE startPoll(p)
    <2>1. inboxPoll' = [inboxPoll EXCEPT ![p] = inboxRecord] /\ UNCHANGED <<inboxShown, reload>>
      BY <1>6 DEF startPoll
    <2>2. NothingIsNewer'
      BY <1>1, <1>4, <1>5, <2>1 DEF InboxInv, NothingIsNewer, InboxTypeOK
    <2>3. /\ inboxShown' \in [Page -> InboxRow] /\ inboxPoll' \in [Page -> InboxRow \cup {Nothing}]
          /\ reload' \in [Page -> [row : InboxRow, operation : Operation] \cup {Nothing}]
      BY <1>1, <1>4, <2>1 DEF InboxTypeOK
    <2> QED BY <1>1, <1>2, <1>3, <2>2, <2>3, PagesInd
  <1>7. CASE finishPoll(p)
    <2>1. /\ inboxShown' = [inboxShown EXCEPT ![p] = inboxPoll[p]] /\ inboxPoll[p] # Nothing
          /\ inboxPoll' = [inboxPoll EXCEPT ![p] = Nothing] /\ UNCHANGED reload
      BY <1>7 DEF finishPoll
    <2>2. NothingIsNewer'
      BY <1>1, <1>4, <1>5, <2>1 DEF InboxInv, NothingIsNewer, InboxTypeOK
    <2>3. /\ inboxShown' \in [Page -> InboxRow] /\ inboxPoll' \in [Page -> InboxRow \cup {Nothing}]
          /\ reload' \in [Page -> [row : InboxRow, operation : Operation] \cup {Nothing}]
      BY <1>1, <2>1 DEF InboxTypeOK
    <2> QED BY <1>1, <1>2, <1>3, <2>2, <2>3, PagesInd
  <1>8. CASE startReload(p)
    <2>1. /\ conflict[p] # "none" /\ UNCHANGED <<inboxShown, inboxPoll>>
          /\ reload' = [reload EXCEPT ![p] = [row |-> inboxRecord, operation |-> conflict[p]]]
      BY <1>8 DEF startReload
    <2>2. NothingIsNewer'
      BY <1>1, <1>4, <1>5, <2>1 DEF InboxInv, NothingIsNewer, InboxTypeOK
    <2>3. /\ inboxShown' \in [Page -> InboxRow] /\ inboxPoll' \in [Page -> InboxRow \cup {Nothing}]
          /\ reload' \in [Page -> [row : InboxRow, operation : Operation] \cup {Nothing}]
      BY <1>1, <1>4, <2>1 DEF InboxTypeOK
    <2> QED BY <1>1, <1>2, <1>3, <2>2, <2>3, PagesInd
  <1>9. CASE failReading(p)
    <2>1. /\ UNCHANGED inboxShown
          /\ inboxPoll' = [inboxPoll EXCEPT ![p] = Nothing] \/ inboxPoll' = inboxPoll
          /\ reload' = [reload EXCEPT ![p] = Nothing] \/ reload' = reload
      BY <1>9 DEF failReading
    <2>2. NothingIsNewer'
      BY <1>1, <1>4, <1>5, <2>1 DEF InboxInv, NothingIsNewer, InboxTypeOK
    <2>3. /\ inboxShown' \in [Page -> InboxRow] /\ inboxPoll' \in [Page -> InboxRow \cup {Nothing}]
          /\ reload' \in [Page -> [row : InboxRow, operation : Operation] \cup {Nothing}]
      BY <1>1, <2>1 DEF InboxTypeOK
    <2> QED BY <1>1, <1>2, <1>3, <2>2, <2>3, PagesInd
  <1> QED BY <1>6, <1>7, <1>8, <1>9

LEMMA ReconcileInd ==
  ASSUME InboxInv, NEW p \in Page, reconcileInboxConflict(p)
  PROVE  InboxInv'
  <1>1. /\ InboxTypeOK /\ UNCHANGED server /\ reload[p] # Nothing /\ reapply(p)
        /\ inboxShown' = [inboxShown EXCEPT ![p] = reload[p].row]
        /\ inboxPoll' = [inboxPoll EXCEPT ![p] = Nothing]
        /\ reload' = [reload EXCEPT ![p] = Nothing]
        /\ conflict' = [conflict EXCEPT ![p] = "none"]
    BY DEF InboxInv, reconcileInboxConflict
  <1>2. /\ reload[p].row \in InboxRow /\ reload[p].operation \in Operation
        /\ reload[p].row.version \in 0..MaxVersion /\ reload[p].row.version <= inboxRecord.version
    BY <1>1 DEF InboxInv, InboxTypeOK, InboxRow, NothingIsNewer
  <1>3. /\ inboxRequest' \in [InboxRequest -> Action \cup {Unused}]
        /\ inboxPending' \in [Page -> BOOLEAN] /\ undo' \in [Page -> -1..MaxVersion]
        /\ AnswersAreOwn' /\ ActionsAreSent'
    <2>1. CASE UNCHANGED <<inboxRequest, inboxPending>> /\ undo' = [undo EXCEPT ![p] = Nothing.version]
      <3>1. Nothing.version \in -1..MaxVersion
        BY InboxAssumption DEF Nothing
      <3>2. undo' \in [Page -> -1..MaxVersion] /\ inboxPending' \in [Page -> BOOLEAN]
        BY <1>1, <2>1, <3>1 DEF InboxTypeOK
      <3> QED BY <1>1, <2>1, <3>2, ActionsKept
    <2>2. CASE UNCHANGED undo /\ \E r \in InboxRequest : act(p, r, reload[p].operation, reload[p].row.version)
      <3>1. undo' \in [Page -> -1..MaxVersion]
        BY <1>1, <2>2 DEF InboxTypeOK
      <3> QED BY <1>1, <1>2, <2>2, <3>1, ActInd
    <2>3. CASE UNCHANGED <<undo, inboxRequest, inboxPending>>
      <3>1. undo' \in [Page -> -1..MaxVersion] /\ inboxPending' \in [Page -> BOOLEAN]
        BY <1>1, <2>3 DEF InboxTypeOK
      <3> QED BY <1>1, <2>3, <3>1, ActionsKept
    <2> QED BY <1>1, <2>1, <2>2, <2>3 DEF reapply
  <1>4. /\ inboxShown' \in [Page -> InboxRow] /\ inboxPoll' \in [Page -> InboxRow \cup {Nothing}]
        /\ reload' \in [Page -> [row : InboxRow, operation : Operation] \cup {Nothing}]
        /\ conflict' \in [Page -> Operation \cup {"none"}]
    BY <1>1, <1>2 DEF InboxTypeOK
  <1>5. NothingIsNewer'
    <2>1. UNCHANGED <<inboxRecord, receipt>>
      BY <1>1 DEF server
    <2> QED BY <1>1, <1>2, <2>1 DEF InboxInv, NothingIsNewer, InboxTypeOK
  <1> QED BY <1>1, <1>3, <1>4, <1>5, PagesInd

LEMMA InboxInductive == InboxInv /\ [InboxNext]_inboxVars => InboxInv'
  <1> SUFFICES ASSUME InboxInv, [InboxNext]_inboxVars
               PROVE  InboxInv'
    OBVIOUS
  <1>1. ASSUME NEW p \in Page, startPoll(p) \/ finishPoll(p) \/ startReload(p) \/ failReading(p)
        PROVE  InboxInv'
    BY <1>1, ReadingInd
  <1>2. ASSUME NEW p \in Page, reconcileInboxConflict(p)
        PROVE  InboxInv'
    BY <1>2, ReconcileInd
  <1>3. ASSUME NEW p \in Page, NEW r \in InboxRequest, press(p, r)
        PROVE  InboxInv'
    BY <1>3, PressInd
  <1>4. ASSUME NEW r \in InboxRequest, fail(r) \/ execute(r) \/ replay(r)
        PROVE  InboxInv'
    BY <1>4, FailInd, AcceptedInd, RepliedInd
  <1>5. ASSUME NEW r \in InboxRequest, applyConfirmedInboxItem(r) \/ reportConflict(r)
        PROVE  InboxInv'
    BY <1>5, ApplyInd, ReportConflictInd
  <1>6. CASE UNCHANGED inboxVars
    BY <1>6 DEF inboxVars, InboxInv, InboxTypeOK, OneWorkItem, AnswersAreOwn, NothingIsNewer,
                ActionsAreSent
  <1> QED BY <1>1, <1>2, <1>3, <1>4, <1>5, <1>6 DEF InboxNext

LEMMA NeverTakenBackByPolls ==
  ASSUME InboxInv, [InboxNext]_inboxVars, NEW q \in Page, reload'[q] = reload[q]
  PROVE  inboxShown[q].version <= inboxShown'[q].version
  <1>1. InboxTypeOK /\ inboxShown[q] \in InboxRow /\ inboxShown[q].version \in Nat
    BY DEF InboxInv, InboxTypeOK, InboxRow
  <1>2. ASSUME NEW p \in Page, finishPoll(p)
        PROVE  inboxShown[q].version <= inboxShown'[q].version
    <2>1. inboxShown' = [inboxShown EXCEPT ![p] = inboxPoll[p]] /\ inboxPoll[p] # Nothing
      BY <1>2 DEF finishPoll
    <2>2. inboxShown[p].version <= inboxPoll[p].version
      BY <2>1 DEF InboxInv, NothingIsNewer
    <2> QED BY <1>1, <2>1, <2>2 DEF InboxTypeOK
  <1>3. ASSUME NEW p \in Page, reconcileInboxConflict(p)
        PROVE  inboxShown[q].version <= inboxShown'[q].version
    <2>1. /\ reload[p] # Nothing /\ reload' = [reload EXCEPT ![p] = Nothing]
          /\ inboxShown' = [inboxShown EXCEPT ![p] = reload[p].row]
      BY <1>3 DEF reconcileInboxConflict
    <2>2. q # p
      BY <1>1, <2>1 DEF InboxTypeOK
    <2> QED BY <1>1, <2>1, <2>2 DEF InboxTypeOK
  <1>4. ASSUME NEW r \in InboxRequest, applyConfirmedInboxItem(r)
        PROVE  inboxShown[q].version <= inboxShown'[q].version
    <2> DEFINE p == inboxRequest[r].by
    <2>1. inboxRequest[r].step = "answered" /\ inboxShown' = [inboxShown EXCEPT ![p] = confirm(p, receipt[r])]
      BY <1>4 DEF applyConfirmedInboxItem
    <2>2. receipt[r] \in InboxRow
      BY <1>1, <2>1, SentAction DEF InboxInv, ActionsAreSent
    <2>3. inboxShown[p].version <= confirm(p, receipt[r]).version \/ p # q
      BY <1>1, <2>2 DEF confirm, InboxRow
    <2> QED BY <1>1, <2>1, <2>3 DEF InboxTypeOK
  <1>5. CASE UNCHANGED inboxShown
    BY <1>1, <1>5
  <1>6. \/ \E p \in Page : finishPoll(p) \/ reconcileInboxConflict(p)
        \/ \E r \in InboxRequest : applyConfirmedInboxItem(r)
        \/ UNCHANGED inboxShown
    BY DEF InboxNext, inboxVars, startPoll, startReload, failReading, press, fail, execute, replay,
           reportConflict
  <1> QED BY <1>2, <1>3, <1>4, <1>5, <1>6

(* A captured record becomes one work item; an answer tells what its action   *)
(* did; and no poll takes a page back.                                        *)
THEOREM InboxIsKept == InboxSpec => InboxKept
  <1>1. InboxSpec => []InboxInv
    BY InboxInitInv, InboxInductive, PTL DEF InboxSpec
  <1>2. InboxInv => InboxTypeOK /\ OneWorkItem /\ AnswersAreOwn
    BY DEF InboxInv
  <1>3. InboxInv /\ [InboxNext]_inboxVars =>
          [\A p \in Page : reload'[p] = reload[p] =>
              inboxShown[p].version <= inboxShown'[p].version]_inboxVars
    BY NeverTakenBackByPolls
  <1> QED BY <1>1, <1>2, <1>3, PTL DEF InboxSpec, InboxKept, PollsNeverTakeBack

-----------------------------------------------------------------------------
(* Messages, for every number of people, messages, processes and numbers drawn: *)
(* the conversation's lock and the message's lock keep what a request has read *)
(* true until it commits.                                                     *)

(* A message has a text from its commit on, and its event until it is redacted. *)
TextsAreSent ==
    \A m \in Message :
        /\ text[m] # "none" => IsSent(m)
        /\ m \in messageDue <=> text[m] = "text"

(* One request of the API at a time is about the conversation, and one that    *)
(* changes a message, or redacts it, is about that message.                    *)
OneAtATime ==
    /\ \A p, q \in Process :
          /\ messageRequest[p].op \notin {"none", "retain"}
          /\ messageRequest[q].op \notin {"none", "retain"}
          => p = q
    /\ \A p, q \in Process :
          /\ messageRequest[p].op \in {"respond", "react", "unreact", "retain"}
          /\ messageRequest[q].op \in {"respond", "react", "unreact", "retain"}
          /\ messageRequest[p].message = messageRequest[q].message
          => p = q

(* What a call has found: the number of a message to send is after every other, *)
(* a message to change or to redact has its text, and one to be read up to is    *)
(* further on than the checkpoint.                                             *)
StillTrue(call) ==
    /\ call.op # "none" => call.message \in Message
    /\ call.op = "send" =>
          /\ ~IsSent(call.message) /\ call.number # 0
          /\ \A n \in Message : position[n] < call.number
    /\ call.op \in {"respond", "react", "unreact", "retain"} => text[call.message] = "text"
    /\ call.op \in {"react", "unreact"} => call.user \in User /\ call.emoji \in Emoji
    /\ call.op = "read" =>
          /\ call.user \in User /\ IsSent(call.message)
          /\ Place(checkpoint[call.user]) < position[call.message]

(* A number that was drawn is not after the last one drawn. *)
FoundIsTrue ==
    \A p \in Process :
        StillTrue(messageRequest[p]) /\ messageRequest[p].number <= sequence

MessagesInv ==
    MessagesTypeOK /\ EveryTextWillExpire /\ TextsAreSent /\ OneAtATime /\ FoundIsTrue

LEMMA NoCallIsCall ==
  /\ NoCall \in Call /\ StillTrue(NoCall)
  /\ NoCall.op = "none" /\ NoCall.number = 0
  <1>1. NoCall.version \in 0..MaxMessageVersion /\ NoCall.number \in 0..MaxSequence
    BY MessagesAssumption DEF NoCall
  <1>2. NoCall \in Call
    BY <1>1 DEF NoCall, Call, Op, TextState
  <1> QED BY <1>2 DEF NoCall, StillTrue

LEMMA MessagesInitInv == MessagesInit => MessagesInv
  <1> SUFFICES ASSUME MessagesInit
               PROVE  MessagesInv
    OBVIOUS
  <1>1. MessagesTypeOK
    BY MessagesAssumption, NoCallIsCall DEF MessagesInit, MessagesTypeOK, IsSent, TextState
  <1>2. EveryTextWillExpire /\ TextsAreSent
    BY DEF MessagesInit, EveryTextWillExpire, TextsAreSent
  <1>3. OneAtATime
    BY NoCallIsCall DEF MessagesInit, OneAtATime
  <1>4. FoundIsTrue
    BY NoCallIsCall DEF MessagesInit, FoundIsTrue
  <1> QED BY <1>1, <1>2, <1>3, <1>4 DEF MessagesInv

(* What requests have read stays true while nothing of it changes.             *)
LEMMA FoundKept ==
  ASSUME MessagesInv, NEW q \in Process, messageRequest'[q] = messageRequest[q],
         UNCHANGED <<position, text, checkpoint>>, sequence' \in Nat, sequence <= sequence'
  PROVE  StillTrue(messageRequest[q])' /\ messageRequest'[q].number <= sequence'
  <1> DEFINE call == messageRequest[q]
  <1>1. StillTrue(call) /\ call.number <= sequence /\ call.number \in Nat /\ sequence \in Nat
    BY DEF MessagesInv, FoundIsTrue, MessagesTypeOK, Call
  <1>2. StillTrue(call)'
    BY <1>1 DEF StillTrue, IsSent, Place
  <1> QED BY <1>1, <1>2

(* A request begins: it reads what is true under its locks.                    *)
LEMMA BeginInd ==
  ASSUME MessagesInv, NEW p \in Process, NEW call \in Call, Begin(p, call),
         UNCHANGED <<body, expired, seated, checkpoint, copies, messageDue>>,
         sequence' \in 0..MaxSequence, sequence <= sequence',
         StillTrue(call), call.number <= sequence',
         call.op \notin {"none", "retain"} => ~ConversationLocked,
         call.op \in {"respond", "react", "unreact", "retain"} => ~MessageLocked(call.message)
  PROVE  MessagesInv'
  <1>1. /\ MessagesTypeOK /\ UNCHANGED <<position, text, answer, version, reactions>>
        /\ messageRequest' \in [Process -> Call] /\ messageRequest'[p] = call
        /\ \A q \in Process \ {p} : messageRequest'[q] = messageRequest[q]
    BY DEF MessagesInv, MessagesTypeOK, Begin, body
  <1>2. MessagesTypeOK'
    <2>1. position' \in [Message -> 0..sequence']
      <3>1. \A i \in 0..sequence : i \in 0..sequence'
        BY <1>1 DEF MessagesTypeOK
      <3> QED BY <1>1, <3>1 DEF MessagesTypeOK
    <2> QED BY <1>1, <2>1 DEF MessagesTypeOK, IsSent
  <1>3. EveryTextWillExpire' /\ TextsAreSent'
    BY <1>1 DEF MessagesInv, EveryTextWillExpire, TextsAreSent, IsSent
  <1>4. OneAtATime'
    BY <1>1 DEF MessagesInv, OneAtATime, ConversationLocked, MessageLocked
  <1>5. FoundIsTrue'
    <2> SUFFICES ASSUME NEW q \in Process
                 PROVE  StillTrue(messageRequest[q])' /\ messageRequest'[q].number <= sequence'
      BY DEF FoundIsTrue
    <2>1. CASE q = p
      <3>1. messageRequest'[q] = call
        BY <1>1, <2>1
      <3>2. StillTrue(messageRequest[q])'
        BY <1>1, <3>1 DEF StillTrue, IsSent, Place
      <3> QED BY <3>1, <3>2
    <2>2. CASE q # p
      BY <1>1, <2>2, FoundKept
    <2> QED BY <2>1, <2>2
  <1> QED BY <1>2, <1>3, <1>4, <1>5 DEF MessagesInv

LEMMA SendMessageInd ==
  ASSUME MessagesInv, NEW p \in Process, NEW m \in Message, SendMessage(p, m)
  PROVE  MessagesInv'
  <1> DEFINE call == [NoCall EXCEPT !.op = "send", !.user = Sender[m], !.message = m,
                                    !.number = sequence + 1, !.copy = "text"]
  <1>1. /\ MessagesTypeOK /\ MayAccess(p, Sender[m]) /\ ~IsSent(m) /\ sequence < MaxSequence
        /\ sequence' = sequence + 1 /\ Begin(p, call)
        /\ UNCHANGED <<body, expired, seated, checkpoint, copies, messageDue>>
    BY DEF MessagesInv, SendMessage
  <1>2. sequence \in Nat /\ sequence + 1 \in 0..MaxSequence /\ Sender[m] \in User
    BY <1>1, MessagesAssumption DEF MessagesTypeOK
  <1>3. /\ call \in Call /\ call.op = "send" /\ call.message = m
        /\ call.number = sequence + 1
    BY <1>2, NoCallIsCall DEF Call, Op, TextState
  <1> HIDE DEF call
  <1>4. \A n \in Message : position[n] < sequence + 1
    BY <1>1, <1>2 DEF MessagesTypeOK
  <1>5. StillTrue(call)
    BY <1>1, <1>2, <1>3, <1>4 DEF StillTrue
  <1>6. ~ConversationLocked /\ call.op \notin {"respond", "react", "unreact", "retain"}
    BY <1>1, <1>3 DEF MayAccess
  <1>7. call.number <= sequence' /\ sequence <= sequence' /\ sequence' \in 0..MaxSequence
    BY <1>1, <1>2, <1>3
  <1> QED BY <1>1, <1>3, <1>5, <1>6, <1>7, BeginInd

(* A request of another kind draws no number.                                  *)
LEMMA BeginOtherInd ==
  ASSUME MessagesInv, NEW p \in Process, NEW call \in Call, Begin(p, call), call.number = 0,
         UNCHANGED <<sequence, body, expired, seated, checkpoint, copies, messageDue>>,
         StillTrue(call), call.op # "retain" => ~ConversationLocked,
         call.op \in {"respond", "react", "unreact", "retain"} => ~MessageLocked(call.message)
  PROVE  MessagesInv'
  <1>1. sequence \in 0..MaxSequence /\ sequence' = sequence
    BY MessagesAssumption DEF MessagesInv, MessagesTypeOK
  <1>2. call.number <= sequence' /\ sequence <= sequence' /\ sequence' \in 0..MaxSequence
    BY <1>1
  <1> QED BY <1>2, BeginInd

LEMMA ReplayMessageInd ==
  ASSUME MessagesInv, NEW p \in Process, NEW m \in Message,
         ReplayMessage(p, m)
  PROVE  MessagesInv'
  <1> DEFINE call == [NoCall EXCEPT !.op = "replay", !.user = Sender[m], !.message = m, !.copy = Shown(m)]
  <1>1. Shown(m) \in TextState /\ Sender[m] \in User
    BY MessagesAssumption DEF MessagesInv, MessagesTypeOK, Shown, TextState
  <1>2. call \in Call /\ call.number = 0 /\ call.message = m /\ call.op = "replay"
    BY <1>1, NoCallIsCall DEF Call, Op, TextState
  <1>3. Begin(p, call) /\ UNCHANGED <<sequence, body, expired, seated, checkpoint, copies, messageDue>>
    BY DEF ReplayMessage
  <1> HIDE DEF call
  <1>4. ~ConversationLocked
    BY DEF ReplayMessage, MayAccess
  <1>5. StillTrue(call)
    BY <1>2, <1>4 DEF StillTrue
  <1> QED BY <1>2, <1>3, <1>4, <1>5, BeginOtherInd

LEMMA SetMessageResponseInd ==
  ASSUME MessagesInv, NEW p \in Process, NEW u \in User, NEW m \in Message,
         SetMessageResponse(p, u, m)
  PROVE  MessagesInv'
  <1> DEFINE call == [NoCall EXCEPT !.op = "respond", !.user = u, !.message = m,
                                    !.version = version[m], !.copy = Shown(m)]
  <1>1. Shown(m) \in TextState /\ version[m] \in 0..MaxMessageVersion
    BY DEF MessagesInv, MessagesTypeOK, Shown, TextState
  <1>2. call \in Call /\ call.number = 0 /\ call.message = m /\ call.op = "respond"
    BY <1>1, NoCallIsCall DEF Call, Op, TextState
  <1>3. Begin(p, call) /\ UNCHANGED <<sequence, body, expired, seated, checkpoint, copies, messageDue>>
    BY DEF SetMessageResponse
  <1> HIDE DEF call
  <1>4. ~ConversationLocked /\ ~MessageLocked(m) /\ text[m] = "text"
    BY DEF SetMessageResponse, MayAccess, Mutable
  <1>5. StillTrue(call)
    BY <1>2, <1>4 DEF StillTrue
  <1> QED BY <1>2, <1>3, <1>4, <1>5, BeginOtherInd

LEMMA ChangeReactionInd ==
  ASSUME MessagesInv, NEW p \in Process, NEW u \in User, NEW m \in Message, NEW e \in Emoji,
         NEW op \in {"react", "unreact"},
         ChangeReaction(p, u, m, e, op)
  PROVE  MessagesInv'
  <1> DEFINE call == [NoCall EXCEPT !.op = op, !.user = u, !.message = m, !.emoji = e,
                                    !.version = version[m], !.copy = Shown(m)]
  <1>1. Shown(m) \in TextState /\ version[m] \in 0..MaxMessageVersion
    BY DEF MessagesInv, MessagesTypeOK, Shown, TextState
  <1>2. call \in Call /\ call.number = 0 /\ call.message = m
        /\ call.op = op /\ call.user = u /\ call.emoji = e
    BY <1>1, NoCallIsCall DEF Call, Op, TextState
  <1>3. Begin(p, call) /\ UNCHANGED <<sequence, body, expired, seated, checkpoint, copies, messageDue>>
    BY DEF ChangeReaction
  <1> HIDE DEF call
  <1>4. ~ConversationLocked /\ ~MessageLocked(m) /\ text[m] = "text"
    BY DEF ChangeReaction, MayAccess, Mutable
  <1>5. StillTrue(call)
    BY <1>2, <1>4 DEF StillTrue
  <1> QED BY <1>2, <1>3, <1>4, <1>5, BeginOtherInd

LEMMA MarkReadInd ==
  ASSUME MessagesInv, NEW p \in Process, NEW u \in User, NEW m \in Message,
         MarkRead(p, u, m)
  PROVE  MessagesInv'
  <1> DEFINE call == [NoCall EXCEPT !.op = "read", !.user = u, !.message = m]
  <1>1. IsSent(m) /\ Place(checkpoint[u]) < position[m]
    BY DEF MarkRead
  <1>2. call \in Call /\ call.number = 0 /\ call.message = m /\ call.op = "read" /\ call.user = u
    BY <1>1, NoCallIsCall DEF Call, Op, TextState
  <1>3. Begin(p, call) /\ UNCHANGED <<sequence, body, expired, seated, checkpoint, copies, messageDue>>
    BY DEF MarkRead
  <1> HIDE DEF call
  <1>4. ~ConversationLocked
    BY DEF MarkRead, MayAccess
  <1>5. StillTrue(call)
    BY <1>1, <1>2, <1>4 DEF StillTrue
  <1> QED BY <1>2, <1>3, <1>4, <1>5, BeginOtherInd

LEMMA BeginRetentionInd ==
  ASSUME MessagesInv, NEW p \in Process, NEW m \in Message,
         BeginRetention(p, m)
  PROVE  MessagesInv'
  <1> DEFINE call == [NoCall EXCEPT !.op = "retain", !.message = m]
  <1>1. m \in messageDue
    BY DEF BeginRetention
  <1>2. call \in Call /\ call.number = 0 /\ call.message = m /\ call.op = "retain"
    BY <1>1, NoCallIsCall DEF Call, Op, TextState
  <1>3. Begin(p, call) /\ UNCHANGED <<sequence, body, expired, seated, checkpoint, copies, messageDue>>
    BY DEF BeginRetention
  <1> HIDE DEF call
  <1>4. ~MessageLocked(m) /\ text[m] = "text"
    BY DEF BeginRetention, MessagesInv, TextsAreSent
  <1>5. StillTrue(call)
    BY <1>2, <1>4 DEF StillTrue
  <1> QED BY <1>2, <1>3, <1>4, <1>5, BeginOtherInd

-----------------------------------------------------------------------------
(* A request that commits or fails gives its locks back.                       *)
LEMMA DoneFacts ==
  ASSUME MessagesInv, NEW p \in Process, Done(p)
  PROVE  /\ messageRequest' \in [Process -> Call] /\ messageRequest'[p] = NoCall
         /\ \A q \in Process \ {p} : messageRequest'[q] = messageRequest[q]
         /\ OneAtATime'
  <1>1. /\ messageRequest' \in [Process -> Call] /\ messageRequest'[p] = NoCall
        /\ \A q \in Process \ {p} : messageRequest'[q] = messageRequest[q]
    BY NoCallIsCall DEF MessagesInv, MessagesTypeOK, Done
  <1>2. OneAtATime'
    BY <1>1, NoCallIsCall DEF MessagesInv, OneAtATime
  <1> QED BY <1>1, <1>2

(* Nothing that a request has read changes by a failure, a replay, an answer or *)
(* a reaction.                                                                 *)
LEMMA DoneKeepsFound ==
  ASSUME MessagesInv, NEW p \in Process, Done(p), UNCHANGED <<sequence, position, text, checkpoint>>
  PROVE  FoundIsTrue'
  <1> SUFFICES ASSUME NEW q \in Process
               PROVE  StillTrue(messageRequest[q])' /\ messageRequest'[q].number <= sequence'
    BY DEF FoundIsTrue
  <1>1. sequence \in Nat /\ sequence' = sequence
    BY DEF MessagesInv, MessagesTypeOK
  <1>2. CASE q = p
    <2>1. messageRequest'[q] = NoCall
      BY <1>2, DoneFacts
    <2>2. StillTrue(messageRequest[q])'
      BY <2>1, NoCallIsCall DEF StillTrue
    <2> QED BY <1>1, <2>1, <2>2, NoCallIsCall
  <1>3. CASE q # p
    <2>1. messageRequest'[q] = messageRequest[q]
      BY <1>3, DoneFacts
    <2> QED BY <1>1, <2>1, FoundKept
  <1> QED BY <1>2, <1>3

(* Beside a request of the API there are only retentions.                      *)
LEMMA OthersRetain ==
  ASSUME MessagesInv, NEW p \in Process, NEW q \in Process \ {p},
         messageRequest[p].op \notin {"none", "retain"}
  PROVE  messageRequest[q].op \in {"none", "retain"}
  BY DEF MessagesInv, OneAtATime

LEMMA CommitMessageInd ==
  ASSUME MessagesInv, NEW p \in Process, CommitMessage(p)
  PROVE  MessagesInv'
  <1> DEFINE m == messageRequest[p].message
             k == messageRequest[p].number
  <1>1. /\ MessagesTypeOK /\ messageRequest[p].op = "send"
        /\ position' = [position EXCEPT ![m] = k]
        /\ text' = [text EXCEPT ![m] = "text"]
        /\ version' = [version EXCEPT ![m] = 1]
        /\ answer' \in {answer, [answer EXCEPT ![m] = "open"]}
        /\ copies' = [copies EXCEPT ![m] = copies[m] \cup {messageRequest[p].copy}]
        /\ messageDue' = messageDue \cup {m}
        /\ Done(p)
        /\ UNCHANGED <<sequence, expired, reactions, seated, checkpoint>>
    BY DEF MessagesInv, CommitMessage
  <1>2. /\ m \in Message /\ k \in 0..sequence /\ k # 0 /\ ~IsSent(m)
        /\ messageRequest[p].copy \in TextState
    <2>1. messageRequest[p] \in Call /\ StillTrue(messageRequest[p]) /\ k <= sequence /\ sequence \in Nat
      BY <1>1 DEF MessagesTypeOK, MessagesInv, FoundIsTrue
    <2> QED BY <1>1, <2>1 DEF Call, StillTrue
  <1>3. \A n \in Message : position[n] < k /\ position[n] \in Nat
    BY <1>1 DEF MessagesTypeOK, MessagesInv, FoundIsTrue, StillTrue
  <1> HIDE DEF m, k
  <1>4. /\ position' \in [Message -> 0..sequence'] /\ position'[m] = k
        /\ \A n \in Message \ {m} : position'[n] = position[n]
        /\ \A n \in Message : IsSent(n) => IsSent(n)'
    BY <1>1, <1>2 DEF MessagesTypeOK, IsSent
  <1>5. \A n, o \in Message : IsSent(n)' /\ position'[n] = position'[o] => n = o
    <2> SUFFICES ASSUME NEW n \in Message, NEW o \in Message, IsSent(n)',
                        position'[n] = position'[o], n # o
                 PROVE  FALSE
      OBVIOUS
    <2>1. k \in Nat /\ position[n] < k /\ position[o] < k /\ position[n] \in Nat /\ position[o] \in Nat
      BY <1>1, <1>2, <1>3 DEF MessagesTypeOK
    <2>2. CASE n = m
      <3>1. position'[n] = k /\ position'[o] = position[o]
        BY <1>4, <2>2
      <3>2. position[o] = k
        BY <3>1
      <3> QED BY <2>1, <3>2
    <2>3. CASE o = m
      <3>1. position'[o] = k /\ position'[n] = position[n]
        BY <1>4, <2>3
      <3>2. position[n] = k
        BY <3>1
      <3> QED BY <2>1, <3>2
    <2>4. CASE n # m /\ o # m
      BY <1>1, <1>4, <2>4 DEF MessagesTypeOK, IsSent
    <2> QED BY <2>2, <2>3, <2>4
  <1>6. MessagesTypeOK'
    <2>1. version' \in [Message -> 0..MaxMessageVersion]
      <3>1. 1 \in 0..MaxMessageVersion
        BY MessagesAssumption
      <3> QED BY <1>1, <3>1 DEF MessagesTypeOK
    <2>2. answer' \in [Message -> {"none", "open", "resolved"}]
      BY <1>1 DEF MessagesTypeOK
    <2>3. /\ text' \in [Message -> TextState] /\ copies' \in [Message -> SUBSET TextState]
          /\ messageDue' \subseteq Message /\ expired' \subseteq {n \in Message : IsSent(n)'}
      BY <1>1, <1>2, <1>4 DEF MessagesTypeOK, TextState
    <2>4. \A u \in User : checkpoint'[u] # NoValue => IsSent(checkpoint[u])'
      BY <1>1, <1>4 DEF MessagesTypeOK
    <2> QED BY <1>1, <1>4, <1>5, <2>1, <2>2, <2>3, <2>4, DoneFacts DEF MessagesTypeOK
  <1>7. /\ text'[m] = "text" /\ m \in messageDue' /\ position'[m] # 0
        /\ \A n \in Message \ {m} :
              text'[n] = text[n] /\ (n \in messageDue' <=> n \in messageDue)
    BY <1>1, <1>2, <1>4 DEF MessagesTypeOK, IsSent
  <1>8. EveryTextWillExpire' /\ TextsAreSent'
    BY <1>4, <1>7 DEF MessagesInv, EveryTextWillExpire, TextsAreSent, IsSent
  <1>9. FoundIsTrue'
    <2> SUFFICES ASSUME NEW q \in Process
                 PROVE  StillTrue(messageRequest[q])' /\ messageRequest'[q].number <= sequence'
      BY DEF FoundIsTrue
    <2>1. CASE q = p
      <3>1. messageRequest'[q] = NoCall
        BY <1>1, <2>1, DoneFacts
      <3>2. StillTrue(messageRequest[q])'
        BY <3>1, NoCallIsCall DEF StillTrue
      <3>3. sequence' \in Nat
        BY <1>1 DEF MessagesTypeOK
      <3> QED BY <3>1, <3>2, <3>3, NoCallIsCall
    <2>2. CASE q # p
      <3>1. messageRequest'[q] = messageRequest[q] /\ messageRequest[q].op \in {"none", "retain"}
        BY <1>1, <2>2, DoneFacts, OthersRetain
      <3>2. StillTrue(messageRequest[q]) /\ messageRequest[q].number <= sequence
        BY DEF MessagesInv, FoundIsTrue
      <3>3. StillTrue(messageRequest[q])'
        BY <1>7, <3>1, <3>2 DEF StillTrue
      <3> QED BY <1>1, <3>1, <3>2, <3>3
    <2> QED BY <2>1, <2>2
  <1> QED BY <1>1, <1>6, <1>8, <1>9, DoneFacts DEF MessagesInv

LEMMA CommitReplayInd ==
  ASSUME MessagesInv, NEW p \in Process, CommitReplay(p)
  PROVE  MessagesInv'
  <1> DEFINE m == messageRequest[p].message
  <1>1. /\ MessagesTypeOK /\ messageRequest[p].op = "replay" /\ Done(p)
        /\ copies' = [copies EXCEPT ![m] = copies[m] \cup {messageRequest[p].copy}]
        /\ UNCHANGED <<sequence, body, expired, seated, checkpoint, messageDue>>
    BY DEF MessagesInv, CommitReplay
  <1>2. messageRequest[p] \in Call /\ StillTrue(messageRequest[p])
    BY <1>1 DEF MessagesTypeOK, MessagesInv, FoundIsTrue
  <1>3. copies' \in [Message -> SUBSET TextState]
    BY <1>1, <1>2 DEF MessagesTypeOK, Call, StillTrue
  <1>4. UNCHANGED <<position, text, answer, version, reactions>>
    BY <1>1 DEF body
  <1>5. MessagesTypeOK'
    BY <1>1, <1>3, <1>4, DoneFacts DEF MessagesTypeOK, IsSent
  <1>6. EveryTextWillExpire' /\ TextsAreSent'
    BY <1>1, <1>4 DEF MessagesInv, EveryTextWillExpire, TextsAreSent, IsSent
  <1> QED BY <1>1, <1>4, <1>5, <1>6, DoneFacts, DoneKeepsFound DEF MessagesInv

LEMMA CommitChangeInd ==
  ASSUME MessagesInv, NEW p \in Process, CommitChange(p)
  PROVE  MessagesInv'
  <1> DEFINE m == messageRequest[p].message
             mine == <<messageRequest[p].user, messageRequest[p].emoji>>
  <1>1. /\ MessagesTypeOK /\ messageRequest[p].op \in {"respond", "react", "unreact"} /\ Done(p)
        /\ version[m] < MaxMessageVersion
        /\ version' = [version EXCEPT ![m] = version[m] + 1]
        /\ copies' = [copies EXCEPT ![m] = copies[m] \cup {messageRequest[p].copy}]
        /\ UNCHANGED <<sequence, position, text, expired, seated, checkpoint, messageDue>>
    BY DEF MessagesInv, CommitChange
  <1>2. messageRequest[p] \in Call /\ StillTrue(messageRequest[p]) /\ m \in Message
    BY <1>1 DEF MessagesTypeOK, MessagesInv, FoundIsTrue, StillTrue
  <1>3. answer' \in [Message -> {"none", "open", "resolved"}]
    <2>1. \/ \E state \in {"open", "resolved"} : answer' = [answer EXCEPT ![m] = state]
          \/ UNCHANGED answer
      BY DEF CommitChange
    <2> QED BY <1>1, <2>1 DEF MessagesTypeOK
  <1>4. reactions' \in [Message -> SUBSET (User \X Emoji)]
    <2>1. CASE messageRequest[p].op = "react"
      <3>1. mine \in User \X Emoji
        BY <1>2, <2>1 DEF StillTrue
      <3>2. reactions' = [reactions EXCEPT ![m] = reactions[m] \cup {mine}]
        BY <2>1 DEF CommitChange
      <3> HIDE DEF mine
      <3> QED BY <1>1, <1>2, <3>1, <3>2 DEF MessagesTypeOK
    <2>2. CASE messageRequest[p].op # "react"
      <3>1. reactions' = [reactions EXCEPT ![m] = reactions[m] \ {mine}] \/ reactions' = reactions
        BY <2>2 DEF CommitChange
      <3> HIDE DEF mine
      <3> QED BY <1>1, <1>2, <3>1 DEF MessagesTypeOK
    <2> QED BY <2>1, <2>2
  <1>5. version' \in [Message -> 0..MaxMessageVersion]
    <2>1. version[m] + 1 \in 0..MaxMessageVersion
      BY <1>1, <1>2, MessagesAssumption DEF MessagesTypeOK
    <2> QED BY <1>1, <2>1 DEF MessagesTypeOK
  <1>6. copies' \in [Message -> SUBSET TextState]
    BY <1>1, <1>2 DEF MessagesTypeOK, Call
  <1>7. MessagesTypeOK'
    BY <1>1, <1>3, <1>4, <1>5, <1>6, DoneFacts DEF MessagesTypeOK, IsSent
  <1>8. EveryTextWillExpire' /\ TextsAreSent'
    BY <1>1 DEF MessagesInv, EveryTextWillExpire, TextsAreSent, IsSent
  <1> QED BY <1>1, <1>7, <1>8, DoneFacts, DoneKeepsFound DEF MessagesInv

LEMMA CommitReadInd ==
  ASSUME MessagesInv, NEW p \in Process, CommitRead(p)
  PROVE  MessagesInv'
  <1> DEFINE m == messageRequest[p].message
             u == messageRequest[p].user
  <1>1. /\ MessagesTypeOK /\ messageRequest[p].op = "read" /\ Done(p)
        /\ checkpoint' = [checkpoint EXCEPT ![u] = m]
        /\ UNCHANGED <<sequence, position, text, answer, version, reactions, expired, seated,
                       copies, messageDue>>
    BY DEF MessagesInv, CommitRead, body
  <1>2. m \in Message /\ u \in User /\ IsSent(m)
    BY <1>1 DEF MessagesInv, FoundIsTrue, StillTrue
  <1> HIDE DEF m, u
  <1>3. /\ checkpoint' \in [User -> Message \cup {NoValue}]
        /\ \A v \in User : checkpoint'[v] # NoValue => IsSent(checkpoint'[v])
    BY <1>1, <1>2 DEF MessagesTypeOK
  <1>4. MessagesTypeOK'
    BY <1>1, <1>3, DoneFacts DEF MessagesTypeOK, IsSent
  <1>5. EveryTextWillExpire' /\ TextsAreSent'
    BY <1>1 DEF MessagesInv, EveryTextWillExpire, TextsAreSent, IsSent
  <1>6. FoundIsTrue'
    <2> SUFFICES ASSUME NEW q \in Process
                 PROVE  StillTrue(messageRequest[q])' /\ messageRequest'[q].number <= sequence'
      BY DEF FoundIsTrue
    <2>0. sequence' = sequence /\ sequence \in Nat
      BY <1>1 DEF MessagesTypeOK
    <2>1. CASE q = p
      <3>1. messageRequest'[q] = NoCall
        BY <1>1, <2>1, DoneFacts
      <3>2. StillTrue(messageRequest[q])'
        BY <3>1, NoCallIsCall DEF StillTrue
      <3> QED BY <2>0, <3>1, <3>2, NoCallIsCall
    <2>2. CASE q # p
      <3>1. messageRequest'[q] = messageRequest[q] /\ messageRequest[q].op \in {"none", "retain"}
        BY <1>1, <2>2, DoneFacts, OthersRetain
      <3>2. StillTrue(messageRequest[q]) /\ messageRequest[q].number <= sequence
        BY DEF MessagesInv, FoundIsTrue
      <3>3. StillTrue(messageRequest[q])'
        BY <1>1, <3>1, <3>2 DEF StillTrue
      <3> QED BY <2>0, <3>1, <3>2, <3>3
    <2> QED BY <2>1, <2>2
  <1> QED BY <1>1, <1>4, <1>5, <1>6, DoneFacts DEF MessagesInv

LEMMA CommitRetentionInd ==
  ASSUME MessagesInv, NEW p \in Process, CommitRetention(p)
  PROVE  MessagesInv'
  <1> DEFINE m == messageRequest[p].message
  <1>1. /\ MessagesTypeOK /\ messageRequest[p].op = "retain" /\ Done(p)
        /\ text' = [text EXCEPT ![m] = "expired"]
        /\ version' = [version EXCEPT ![m] = IF version[m] < MaxMessageVersion
                                             THEN version[m] + 1 ELSE version[m]]
        /\ copies' = [copies EXCEPT ![m] = {}]
        /\ messageDue' = messageDue \ {m}
        /\ UNCHANGED <<sequence, position, expired, answer, reactions, seated, checkpoint>>
    BY DEF MessagesInv, CommitRetention
  <1>2. m \in Message /\ text[m] = "text"
    BY <1>1 DEF MessagesInv, FoundIsTrue, StillTrue
  <1>3. version' \in [Message -> 0..MaxMessageVersion]
    <2>1. version[m] < MaxMessageVersion => version[m] + 1 \in 0..MaxMessageVersion
      BY <1>1, <1>2, MessagesAssumption DEF MessagesTypeOK
    <2>2. version[m] \in 0..MaxMessageVersion
      BY <1>1, <1>2 DEF MessagesTypeOK
    <2> HIDE DEF m
    <2>3. (IF version[m] < MaxMessageVersion THEN version[m] + 1 ELSE version[m])
             \in 0..MaxMessageVersion
      BY <2>1, <2>2
    <2> QED BY <1>1, <2>3 DEF MessagesTypeOK
  <1>4. /\ text' \in [Message -> TextState] /\ text'[m] = "expired"
        /\ \A n \in Message \ {m} :
              text'[n] = text[n] /\ (n \in messageDue' <=> n \in messageDue)
        /\ m \notin messageDue'
    BY <1>1, <1>2 DEF MessagesTypeOK, TextState
  <1>5. MessagesTypeOK'
    BY <1>1, <1>3, <1>4, DoneFacts DEF MessagesTypeOK, IsSent
  <1>6. EveryTextWillExpire' /\ TextsAreSent'
    BY <1>1, <1>2, <1>4 DEF MessagesInv, EveryTextWillExpire, TextsAreSent, IsSent
  <1>7. FoundIsTrue'
    <2> SUFFICES ASSUME NEW q \in Process
                 PROVE  StillTrue(messageRequest[q])' /\ messageRequest'[q].number <= sequence'
      BY DEF FoundIsTrue
    <2>0. sequence' = sequence /\ sequence \in Nat
      BY <1>1 DEF MessagesTypeOK
    <2>1. CASE q = p
      <3>1. messageRequest'[q] = NoCall
        BY <1>1, <2>1, DoneFacts
      <3>2. StillTrue(messageRequest[q])'
        BY <3>1, NoCallIsCall DEF StillTrue
      <3> QED BY <2>0, <3>1, <3>2, NoCallIsCall
    <2>2. CASE q # p
      <3>1. messageRequest'[q] = messageRequest[q]
        BY <1>1, <2>2, DoneFacts
      <3>2. StillTrue(messageRequest[q]) /\ messageRequest[q].number <= sequence
        BY DEF MessagesInv, FoundIsTrue
      <3>3. messageRequest[q].op \in {"respond", "react", "unreact", "retain"} =>
               messageRequest[q].message # m
        BY <1>1, <2>2 DEF MessagesInv, OneAtATime
      <3>4. StillTrue(messageRequest[q])'
        BY <1>1, <1>4, <3>1, <3>2, <3>3 DEF StillTrue, IsSent, Place
      <3> QED BY <2>0, <3>1, <3>2, <3>4
    <2> QED BY <2>1, <2>2
  <1> QED BY <1>1, <1>5, <1>6, <1>7, DoneFacts DEF MessagesInv

LEMMA RollbackInd ==
  ASSUME MessagesInv, NEW p \in Process, Rollback(p)
  PROVE  MessagesInv'
  <1>1. /\ Done(p) /\ UNCHANGED <<sequence, position, text, answer, version, reactions, expired,
                                  seated, checkpoint, copies, messageDue>>
    BY DEF Rollback, body
  <1>2. MessagesTypeOK'
    BY <1>1, DoneFacts DEF MessagesInv, MessagesTypeOK, IsSent
  <1>3. EveryTextWillExpire' /\ TextsAreSent'
    BY <1>1 DEF MessagesInv, EveryTextWillExpire, TextsAreSent, IsSent
  <1> QED BY <1>1, <1>2, <1>3, DoneFacts, DoneKeepsFound DEF MessagesInv

(* Time passes, people leave and return.                                       *)
LEMMA SurroundingsInd ==
  ASSUME MessagesInv, (\E m \in Message : Expire(m)) \/ (\E u \in User : SetConversationParticipant(u))
  PROVE  MessagesInv'
  <1>1. /\ MessagesTypeOK
        /\ UNCHANGED <<sequence, position, text, answer, version, reactions, checkpoint, copies,
                       messageDue, messageRequest>>
    BY DEF MessagesInv, Expire, SetConversationParticipant, body
  <1>2. expired' \subseteq {m \in Message : IsSent(m)} /\ seated' \subseteq User
    BY <1>1 DEF Expire, SetConversationParticipant, MessagesTypeOK
  <1>3. MessagesTypeOK'
    BY <1>1, <1>2 DEF MessagesTypeOK, IsSent
  <1>4. EveryTextWillExpire' /\ TextsAreSent' /\ OneAtATime'
    BY <1>1 DEF MessagesInv, EveryTextWillExpire, TextsAreSent, OneAtATime, IsSent
  <1>5. FoundIsTrue'
    <2>1. sequence' \in Nat /\ sequence <= sequence'
      BY <1>1 DEF MessagesTypeOK
    <2> QED BY <1>1, <2>1, FoundKept DEF FoundIsTrue
  <1> QED BY <1>3, <1>4, <1>5 DEF MessagesInv

LEMMA MessagesInd == MessagesInv /\ [MessagesNext]_messagesVars => MessagesInv'
  <1> SUFFICES ASSUME MessagesInv, [MessagesNext]_messagesVars
               PROVE  MessagesInv'
    OBVIOUS
  <1>1. ASSUME NEW p \in Process, NEW m \in Message,
               SendMessage(p, m) \/ ReplayMessage(p, m) \/ BeginRetention(p, m)
        PROVE  MessagesInv'
    BY <1>1, SendMessageInd, ReplayMessageInd, BeginRetentionInd
  <1>2. ASSUME NEW p \in Process, NEW m \in Message, NEW u \in User,
               MarkRead(p, u, m) \/ SetMessageResponse(p, u, m)
        PROVE  MessagesInv'
    BY <1>2, MarkReadInd, SetMessageResponseInd
  <1>3. ASSUME NEW p \in Process, NEW m \in Message, NEW u \in User, NEW e \in Emoji,
               NEW op \in {"react", "unreact"}, ChangeReaction(p, u, m, e, op)
        PROVE  MessagesInv'
    BY <1>3, ChangeReactionInd
  <1>4. ASSUME NEW p \in Process, CommitRequest(p) \/ Rollback(p)
        PROVE  MessagesInv'
    BY <1>4, CommitMessageInd, CommitReplayInd, CommitChangeInd, CommitReadInd,
       CommitRetentionInd, RollbackInd DEF CommitRequest
  <1>5. ASSUME (\E m \in Message : Expire(m)) \/ (\E u \in User : SetConversationParticipant(u))
        PROVE  MessagesInv'
    BY <1>5, SurroundingsInd
  <1>6. CASE UNCHANGED messagesVars
    <2>1. UNCHANGED <<sequence, position, text, expired, answer, version, reactions, seated,
                      checkpoint, copies, messageDue, messageRequest>>
      BY <1>6 DEF messagesVars
    <2>2. MessagesTypeOK' /\ EveryTextWillExpire' /\ TextsAreSent' /\ OneAtATime'
      BY <2>1 DEF MessagesInv, MessagesTypeOK, EveryTextWillExpire, TextsAreSent, OneAtATime, IsSent
    <2>3. sequence' \in Nat /\ sequence <= sequence'
      BY <2>1 DEF MessagesInv, MessagesTypeOK
    <2>4. FoundIsTrue'
      BY <2>1, <2>3, FoundKept DEF FoundIsTrue
    <2> QED BY <2>2, <2>4 DEF MessagesInv
  <1> QED BY <1>1, <1>2, <1>3, <1>4, <1>5, <1>6 DEF MessagesNext

-----------------------------------------------------------------------------
(* What changes a message, or how far somebody has read.                       *)
LEMMA WhoChanges ==
  ASSUME [MessagesNext]_messagesVars
  PROVE  /\ \/ UNCHANGED body
            \/ \E p \in Process : CommitMessage(p) \/ CommitChange(p) \/ CommitRetention(p)
         /\ UNCHANGED checkpoint \/ \E p \in Process : CommitRead(p)
  <1>1. CASE UNCHANGED messagesVars
    BY <1>1 DEF messagesVars, body
  <1>2. ASSUME NEW p \in Process, NEW m \in Message,
               \/ SendMessage(p, m) \/ ReplayMessage(p, m) \/ BeginRetention(p, m)
               \/ \E u \in User : MarkRead(p, u, m) \/ SetMessageResponse(p, u, m)
               \/ \E u \in User, e \in Emoji, op \in {"react", "unreact"} :
                     ChangeReaction(p, u, m, e, op)
        PROVE  UNCHANGED body /\ UNCHANGED checkpoint
    BY <1>2 DEF SendMessage, ReplayMessage, BeginRetention, MarkRead, SetMessageResponse,
                ChangeReaction
  <1>3. ASSUME NEW p \in Process, CommitRequest(p) \/ Rollback(p)
        PROVE  /\ \/ UNCHANGED body
                  \/ CommitMessage(p) \/ CommitChange(p) \/ CommitRetention(p)
               /\ UNCHANGED checkpoint \/ CommitRead(p)
    BY <1>3 DEF CommitRequest, CommitMessage, CommitReplay, CommitChange, CommitRead,
                CommitRetention, Rollback
  <1>4. CASE (\E m \in Message : Expire(m)) \/ (\E u \in User : SetConversationParticipant(u))
    BY <1>4 DEF Expire, SetConversationParticipant
  <1> QED BY <1>1, <1>2, <1>3, <1>4 DEF MessagesNext

LEMMA RedactedStays ==
  ASSUME MessagesInv, [MessagesNext]_messagesVars, NEW m \in Message, text[m] = "expired"
  PROVE  UNCHANGED <<text[m], answer[m], version[m], reactions[m]>>
  <1>1. CASE UNCHANGED body
    BY <1>1 DEF body
  <1>2. ASSUME NEW p \in Process, CommitMessage(p)
        PROVE  UNCHANGED <<text[m], answer[m], version[m], reactions[m]>>
    <2>1. messageRequest[p].message # m
      <3>1. ~IsSent(messageRequest[p].message)
        BY <1>2 DEF CommitMessage, MessagesInv, FoundIsTrue, StillTrue
      <3>2. IsSent(m)
        BY DEF MessagesInv, TextsAreSent
      <3> QED BY <3>1, <3>2
    <2>2. answer'[m] = answer[m]
      <3>1. \/ answer' = answer
            \/ answer' = [answer EXCEPT ![messageRequest[p].message] = "open"]
        BY <1>2 DEF CommitMessage
      <3> QED BY <2>1, <3>1 DEF MessagesInv, MessagesTypeOK
    <2> QED BY <1>2, <2>1, <2>2 DEF CommitMessage, MessagesInv, MessagesTypeOK
  <1>3. ASSUME NEW p \in Process, CommitChange(p)
        PROVE  UNCHANGED <<text[m], answer[m], version[m], reactions[m]>>
    <2> DEFINE n == messageRequest[p].message
               mine == <<messageRequest[p].user, messageRequest[p].emoji>>
    <2>1. n # m
      <3>1. text[n] = "text"
        BY <1>3 DEF CommitChange, MessagesInv, FoundIsTrue, StillTrue
      <3> QED BY <3>1
    <2>2. /\ UNCHANGED text /\ version' = [version EXCEPT ![n] = version[n] + 1]
          /\ \/ answer' = answer
             \/ \E state \in {"open", "resolved"} : answer' = [answer EXCEPT ![n] = state]
          /\ \/ reactions' = reactions
             \/ reactions' = [reactions EXCEPT ![n] = reactions[n] \cup {mine}]
             \/ reactions' = [reactions EXCEPT ![n] = reactions[n] \ {mine}]
      BY <1>3 DEF CommitChange
    <2> HIDE DEF n, mine
    <2> QED BY <2>1, <2>2 DEF MessagesInv, MessagesTypeOK
  <1>4. ASSUME NEW p \in Process, CommitRetention(p)
        PROVE  UNCHANGED <<text[m], answer[m], version[m], reactions[m]>>
    <2>1. messageRequest[p].message # m
      <3>1. text[messageRequest[p].message] = "text"
        BY <1>4 DEF CommitRetention, MessagesInv, FoundIsTrue, StillTrue
      <3> QED BY <3>1
    <2> QED BY <1>4, <2>1 DEF CommitRetention, MessagesInv, MessagesTypeOK
  <1> QED BY <1>1, <1>2, <1>3, <1>4, WhoChanges

LEMMA NewIsUnread ==
  ASSUME MessagesInv, [MessagesNext]_messagesVars, NEW m \in Message, ~IsSent(m), IsSent(m)',
         NEW u \in User \ {Sender[m]}
  PROVE  (m \in UnreadFor(u))'
  <1>1. MessagesTypeOK
    BY DEF MessagesInv
  <1>2. PICK p \in Process : CommitMessage(p)
    BY WhoChanges DEF IsSent, body, CommitChange, CommitRetention
  <1> DEFINE k == messageRequest[p].number
  <1>3. /\ position' = [position EXCEPT ![messageRequest[p].message] = k]
        /\ UNCHANGED checkpoint
    BY <1>2 DEF CommitMessage
  <1>4. messageRequest[p].message = m
    BY <1>1, <1>3 DEF IsSent, MessagesTypeOK
  <1>5. /\ k \in Nat /\ k # 0 /\ position'[m] = k
        /\ \A n \in Message : position[n] < k
        /\ \A n \in Message \ {m} : position'[n] = position[n]
    BY <1>1, <1>2, <1>3, <1>4
       DEF CommitMessage, MessagesInv, FoundIsTrue, StillTrue, MessagesTypeOK, Call
  <1> HIDE DEF k
  <1>6. checkpoint'[u] = checkpoint[u] /\ checkpoint[u] # m
    BY <1>1, <1>3, MessagesAssumption DEF MessagesTypeOK, IsSent
  <1>7. CASE checkpoint[u] = NoValue
    BY <1>5, <1>6, <1>7 DEF UnreadFor, Place
  <1>8. CASE checkpoint[u] # NoValue
    <2>1. checkpoint[u] \in Message \ {m}
      BY <1>1, <1>6, <1>8 DEF MessagesTypeOK
    <2>2. position'[checkpoint[u]] < k
      BY <1>5, <2>1
    <2> QED BY <1>5, <1>6, <1>8, <2>2 DEF UnreadFor, Place
  <1> QED BY <1>7, <1>8

LEMMA NotTakenBack ==
  ASSUME MessagesInv, [MessagesNext]_messagesVars, NEW u \in User
  PROVE  Place(checkpoint[u])' >= Place(checkpoint[u])
  <1>1. /\ MessagesTypeOK /\ sequence \in Nat /\ checkpoint[u] \in Message \cup {NoValue}
        /\ \A n \in Message : position[n] \in Nat
    BY DEF MessagesInv, MessagesTypeOK
  <1>2. Place(checkpoint[u]) \in Nat
    BY <1>1 DEF Place
  <1>3. \A n \in Message : IsSent(n) => position'[n] = position[n]
    <2> SUFFICES ASSUME NEW n \in Message, IsSent(n)
                 PROVE  position'[n] = position[n]
      OBVIOUS
    <2>1. ASSUME NEW p \in Process, CommitMessage(p)
          PROVE  position'[n] = position[n]
      <3>1. messageRequest[p].message # n
        BY <2>1 DEF CommitMessage, MessagesInv, FoundIsTrue, StillTrue
      <3> QED BY <1>1, <2>1, <3>1 DEF CommitMessage, MessagesTypeOK
    <2>2. ASSUME NEW p \in Process, CommitChange(p) \/ CommitRetention(p)
          PROVE  position'[n] = position[n]
      BY <2>2 DEF CommitChange, CommitRetention
    <2> QED BY <2>1, <2>2, WhoChanges DEF body
  <1>4. CASE UNCHANGED checkpoint
    <2>1. Place(checkpoint[u])' = Place(checkpoint[u])
      BY <1>1, <1>3, <1>4 DEF Place, MessagesTypeOK
    <2> QED BY <1>2, <2>1
  <1>5. ASSUME NEW p \in Process, CommitRead(p)
        PROVE  Place(checkpoint[u])' >= Place(checkpoint[u])
    <2> DEFINE m == messageRequest[p].message
               v == messageRequest[p].user
    <2>1. /\ checkpoint' = [checkpoint EXCEPT ![v] = m] /\ position' = position
      BY <1>5 DEF CommitRead, body
    <2>2. m \in Message /\ v \in User /\ Place(checkpoint[v]) < position[m]
      BY <1>5 DEF CommitRead, MessagesInv, FoundIsTrue, StillTrue
    <2> HIDE DEF m, v
    <2>3. CASE u = v
      <3>1. checkpoint'[u] = m /\ m # NoValue
        BY <1>1, <2>1, <2>2, <2>3, MessagesAssumption DEF MessagesTypeOK
      <3>2. Place(checkpoint[u])' = position[m]
        BY <2>1, <3>1 DEF Place
      <3> QED BY <1>1, <1>2, <2>2, <2>3, <3>2
    <2>4. CASE u # v
      <3>1. checkpoint'[u] = checkpoint[u]
        BY <1>1, <2>1, <2>4 DEF MessagesTypeOK
      <3>2. Place(checkpoint[u])' = Place(checkpoint[u])
        BY <2>1, <3>1 DEF Place
      <3> QED BY <1>2, <3>2
    <2> QED BY <2>3, <2>4
  <1> QED BY <1>4, <1>5, WhoChanges

(* sendMessage, markRead, processCollaborationEvent: a text that can be read    *)
(* has the event that will redact it, a redacted message never changes again, a *)
(* new message is unread for whom it is for, and no checkpoint is taken back.   *)
THEOREM MessagesAreKept == MessagesSpec => MessagesKept
  <1>1. MessagesSpec => []MessagesInv
    BY MessagesInitInv, MessagesInd, PTL DEF MessagesSpec
  <1>2. MessagesInv => MessagesTypeOK /\ EveryTextWillExpire
    BY DEF MessagesInv
  <1>3. MessagesInv /\ [MessagesNext]_messagesVars =>
           [\A m \in Message : text[m] = "expired" =>
              UNCHANGED <<text[m], answer[m], version[m], reactions[m]>>]_messagesVars
    BY RedactedStays
  <1>4. MessagesInv /\ [MessagesNext]_messagesVars =>
           [\A m \in Message : ~IsSent(m) /\ IsSent(m)' =>
              \A u \in User \ {Sender[m]} : m \in UnreadFor(u)']_messagesVars
    BY NewIsUnread
  <1>5. MessagesInv /\ [MessagesNext]_messagesVars =>
           [\A u \in User : Place(checkpoint[u])' >= Place(checkpoint[u])]_messagesVars
    BY NotTakenBack
  <1> QED BY <1>1, <1>2, <1>3, <1>4, <1>5, PTL
          DEF MessagesSpec, MessagesKept, RedactedIsFinal, NewMessagesAreUnread,
              CheckpointsMoveForward

-----------------------------------------------------------------------------
(* Sharing, for every number of tabs, forms, people and loads.  A form has one *)
(* key in every tab.                                                           *)
KeyOfForm(entries) == \A entry \in entries : entry.key = shareKey(entry.form)

KeysOfForms ==
    /\ \A t \in Tab : KeyOfForm(journal[t]) /\ KeyOfForm(recovering[t])
    /\ KeyOfForm(stored) /\ KeyOfForm(rooms) /\ KeyOfForm(submitted)
    /\ \A call \in calls : KeyOfForm({call.job})

(* What is stored, and read from there, comes from one journal. *)
StoredOncePerKey == OnePerKey(stored) /\ \A t \in Tab : OnePerKey(recovering[t])

Current(call) == call.load = loads[call.tab]

(* A request whose answer its tab still takes is of a job in the journal.  *)
CallsAreOfJobs ==
    /\ \A call \in calls : call.load <= loads[call.tab]
    /\ \A call \in calls : Current(call) => call.job \in unconfirmed(journal[call.tab])
    /\ \A call, other \in calls :
          Current(call) /\ Current(other) /\ call.tab = other.tab /\ call.job.key = other.job.key
              => call = other

HasRoom(entry) == \E room \in rooms : room.form = entry.form /\ room.people = entry.people

AnswersAreTrue == \A call \in calls : call.answer = "ok" => HasRoom(call.job)

(* While one form is shared, no other takes its place in the storage. *)
OneFormIsStored ==
    OneFormIsShared => \A entry \in submitted :
        \/ \E room \in rooms : room.form = entry.form
        \/ entry.key \in keys(stored)

WereSubmitted(entries) ==
    \A entry \in entries : \E request \in submitted : request.form = entry.form

JobsWereSubmitted ==
    WereSubmitted(stored) /\ \A t \in Tab : WereSubmitted(journal[t] \cup recovering[t])

TypeOfForms == drawn \subseteq Uuid /\ forms \in [Tab -> SUBSET Form]

SharingInv ==
    /\ SharingTypeOK /\ IsFiniteSet(rooms) /\ KeysOfForms /\ StoredOncePerKey
    /\ CallsAreOfJobs /\ AnswersAreTrue /\ ConfirmedAsChosen /\ JobsWereSubmitted /\ OneFormIsStored

LEMMA SharingInitInd == SharingInit => SharingInv
  <1> SUFFICES ASSUME SharingInit PROVE SharingInv
    OBVIOUS
  <1> USE DEF SharingInit
  <1>1. SharingTypeOK
    BY SharingAssumption DEF SharingTypeOK, OnePerKey
  <1>2. IsFiniteSet(rooms)
    BY FS_EmptySet
  <1>3. KeysOfForms
    BY DEF KeysOfForms, KeyOfForm
  <1>4. StoredOncePerKey /\ CallsAreOfJobs /\ AnswersAreTrue /\ ConfirmedAsChosen
    BY DEF StoredOncePerKey, OnePerKey, CallsAreOfJobs, AnswersAreTrue, ConfirmedAsChosen
  <1>5. JobsWereSubmitted /\ OneFormIsStored
    BY DEF JobsWereSubmitted, WereSubmitted, OneFormIsStored
  <1> QED BY <1>1, <1>2, <1>3, <1>4, <1>5 DEF SharingInv

(* A request is sent once at a time for a job of the journal.                *)
LEMMA SendShareInd ==
  ASSUME SharingInv, NEW t \in Tab, NEW entry \in ShareJob, sendShare(t, entry),
         entry.key = shareKey(entry.form), entry \in journal'[t], UNCHANGED <<loads, rooms>>,
         \A tab \in Tab : journal[tab] \subseteq journal'[tab]
  PROVE  /\ calls' \subseteq ShareCall /\ CallsAreOfJobs' /\ AnswersAreTrue'
         /\ \A call \in calls' : KeyOfForm({call.job})
  <1> DEFINE sent == [tab |-> t, load |-> loads[t], job |-> entry, answer |-> "none"]
  <1>1. \A call \in calls : call \in ShareCall /\ call.tab \in Tab /\ KeyOfForm({call.job})
    BY DEF SharingInv, SharingTypeOK, ShareCall, KeysOfForms
  <1>2. loads[t] \in 1..MaxLoads /\ sent \in ShareCall /\ KeyOfForm({entry})
    BY DEF SharingInv, SharingTypeOK, ShareCall, KeyOfForm
  <1>3. CASE calls' = calls
    <2>1. CallsAreOfJobs'
      BY <1>1, <1>3 DEF SharingInv, CallsAreOfJobs, Current, unconfirmed
    <2>2. AnswersAreTrue'
      BY <1>3 DEF SharingInv, AnswersAreTrue, HasRoom
    <2> QED BY <1>1, <1>3, <2>1, <2>2
  <1>4. CASE calls' = calls \cup {sent} /\ ~entry.room /\ entry.key \notin running(t)
    <2>1. \A call \in calls : Current(call) /\ call.tab = t => call.job.key # entry.key
      BY <1>4 DEF running, Current
    <2>2. sent.tab = t /\ sent.load = loads[t] /\ sent.job = entry /\ sent.answer = "none"
      OBVIOUS
    <2> HIDE DEF sent
    <2>3. loads[t] <= loads[t]
      BY <1>2
    <2>4. \A call \in calls' : call.load <= loads'[call.tab]
      BY <1>4, <2>2, <2>3 DEF SharingInv, CallsAreOfJobs
    <2>5. \A call \in calls' : Current(call)' => call.job \in unconfirmed(journal[call.tab])'
      BY <1>1, <1>4, <2>2 DEF SharingInv, CallsAreOfJobs, Current, unconfirmed
    <2>6. ASSUME NEW call \in calls', NEW other \in calls',
                 Current(call)', Current(other)', call.tab = other.tab, call.job.key = other.job.key
          PROVE  call = other
      <3>1. call = sent \/ (call \in calls /\ Current(call))
        BY <1>4, <2>6 DEF Current
      <3>2. other = sent \/ (other \in calls /\ Current(other))
        BY <1>4, <2>6 DEF Current
      <3> QED BY <2>1, <2>2, <2>6, <3>1, <3>2 DEF SharingInv, CallsAreOfJobs
    <2>7. CallsAreOfJobs'
      BY <2>4, <2>5, <2>6 DEF CallsAreOfJobs
    <2>8. AnswersAreTrue'
      BY <1>4, <2>2 DEF SharingInv, AnswersAreTrue, HasRoom
    <2> QED BY <1>1, <1>2, <1>4, <2>2, <2>7, <2>8
  <1> QED BY <1>3, <1>4 DEF sendShare

(* A step that takes no request from its journal, and none to its answer.   *)
LEMMA FewerCallsInd ==
  ASSUME SharingInv, calls' \subseteq calls, rooms \subseteq rooms', UNCHANGED loads,
         \A call \in calls' : Current(call) => call.job \in unconfirmed(journal'[call.tab])
  PROVE  /\ calls' \subseteq ShareCall /\ CallsAreOfJobs' /\ AnswersAreTrue'
         /\ \A call \in calls' : KeyOfForm({call.job})
  <1>1. calls' \subseteq ShareCall /\ \A call \in calls' : KeyOfForm({call.job})
    BY DEF SharingInv, SharingTypeOK, KeysOfForms
  <1>2. CallsAreOfJobs'
    BY DEF SharingInv, CallsAreOfJobs, Current, unconfirmed
  <1>3. AnswersAreTrue'
    BY DEF SharingInv, AnswersAreTrue, HasRoom
  <1> QED BY <1>1, <1>2, <1>3

LEMMA RecoverInd ==
  ASSUME SharingInv, NEW t \in Tab, recover(t)
  PROVE  SharingInv'
  <1>1. /\ recovering' = [recovering EXCEPT ![t] = {}]
        /\ journal' = [journal EXCEPT ![t] = merged(t)]
        /\ UNCHANGED <<drawn, forms, stored, loads, calls, rooms, records, submitted>>
    BY DEF recover
  <1>2. journal \in [Tab -> SUBSET ShareJob] /\ recovering \in [Tab -> SUBSET unconfirmed(ShareJob)]
    BY DEF SharingInv, SharingTypeOK
  <1>3. /\ journal'[t] = merged(t) /\ recovering'[t] = {}
        /\ \A tab \in Tab \ {t} : journal'[tab] = journal[tab] /\ recovering'[tab] = recovering[tab]
    BY <1>1, <1>2
  <1>4. /\ journal[t] \subseteq merged(t) /\ merged(t) \subseteq journal[t] \cup recovering[t]
        /\ \A entry \in merged(t) : entry.room => entry \in journal[t]
    BY <1>2 DEF merged, unconfirmed
  <1>5. OnePerKey(merged(t))
    <2>1. OnePerKey(journal[t]) /\ OnePerKey(recovering[t])
      BY DEF SharingInv, SharingTypeOK, StoredOncePerKey
    <2> QED BY <2>1 DEF OnePerKey, merged, keys
  <1>6. recovering' \in [Tab -> SUBSET unconfirmed(ShareJob)] /\ journal' \in [Tab -> SUBSET ShareJob]
    BY <1>1, <1>2, <1>4 DEF unconfirmed
  <1>7. SharingTypeOK'
    BY <1>1, <1>3, <1>5, <1>6 DEF SharingInv, SharingTypeOK, OnePerKey
  <1>8. IsFiniteSet(rooms)'
    BY <1>1 DEF SharingInv
  <1>9. KeysOfForms'
    BY <1>1, <1>3, <1>4 DEF SharingInv, KeysOfForms, KeyOfForm
  <1>10. StoredOncePerKey'
    BY <1>1, <1>3 DEF SharingInv, StoredOncePerKey, OnePerKey
  <1>11. \A call \in calls : Current(call) => call.job \in unconfirmed(journal'[call.tab])
    <2>1. \A call \in calls : call.tab \in Tab
      BY DEF SharingInv, SharingTypeOK, ShareCall
    <2> QED BY <1>3, <1>4, <2>1 DEF SharingInv, CallsAreOfJobs, unconfirmed
  <1>12. CallsAreOfJobs' /\ AnswersAreTrue'
    BY <1>1, <1>11, FewerCallsInd
  <1>13. ConfirmedAsChosen'
    BY <1>1, <1>3, <1>4 DEF SharingInv, ConfirmedAsChosen
  <1>14. JobsWereSubmitted'
    BY <1>1, <1>3, <1>4 DEF SharingInv, JobsWereSubmitted, WereSubmitted
  <1>15. OneFormIsStored'
    BY <1>1 DEF SharingInv, OneFormIsStored, OneFormIsShared, keys
  <1> QED BY <1>7, <1>8, <1>9, <1>10, <1>12, <1>13, <1>14, <1>15 DEF SharingInv

LEMMA LoadInd ==
  ASSUME SharingInv, NEW t \in Tab, load(t)
  PROVE  SharingInv'
  <1>1. /\ loads[t] < MaxLoads /\ loads' = [loads EXCEPT ![t] = loads[t] + 1]
        /\ journal' = [journal EXCEPT ![t] = {}]
        /\ recovering' = [recovering EXCEPT ![t] = stored]
        /\ UNCHANGED <<drawn, forms, stored, calls, rooms, records, submitted>>
    BY DEF load
  <1>2. /\ journal \in [Tab -> SUBSET ShareJob] /\ recovering \in [Tab -> SUBSET unconfirmed(ShareJob)]
        /\ loads \in [Tab -> 1..MaxLoads] /\ stored \in SUBSET unconfirmed(ShareJob)
    BY DEF SharingInv, SharingTypeOK
  <1>3. /\ journal'[t] = {} /\ recovering'[t] = stored /\ loads'[t] = loads[t] + 1
        /\ \A tab \in Tab \ {t} : /\ journal'[tab] = journal[tab] /\ recovering'[tab] = recovering[tab]
                                   /\ loads'[tab] = loads[tab]
    BY <1>1, <1>2
  <1>4. loads[t] + 1 \in 1..MaxLoads
    BY <1>1, <1>2, SharingAssumption
  <1>5. /\ journal' \in [Tab -> SUBSET ShareJob] /\ recovering' \in [Tab -> SUBSET unconfirmed(ShareJob)]
        /\ loads' \in [Tab -> 1..MaxLoads]
    BY <1>1, <1>2, <1>4
  <1>6. SharingTypeOK'
    BY <1>1, <1>3, <1>5 DEF SharingInv, SharingTypeOK, OnePerKey
  <1>7. IsFiniteSet(rooms)' /\ KeysOfForms'
    BY <1>1, <1>3 DEF SharingInv, KeysOfForms, KeyOfForm
  <1>8. StoredOncePerKey'
    BY <1>1, <1>3 DEF SharingInv, StoredOncePerKey, OnePerKey
  <1>9. \A call \in calls : /\ call.tab \in Tab /\ call.load <= loads[call.tab] /\ call.load \in Nat
                            /\ loads[call.tab] \in Nat
    BY <1>2, SharingAssumption DEF SharingInv, SharingTypeOK, ShareCall, CallsAreOfJobs
  <1>10. \A call \in calls : /\ call.load <= loads'[call.tab]
                             /\ Current(call)' => Current(call) /\ call.tab # t
    BY <1>1, <1>3, <1>9 DEF Current
  <1>11. CallsAreOfJobs'
    BY <1>1, <1>3, <1>9, <1>10 DEF SharingInv, CallsAreOfJobs, unconfirmed
  <1>12. AnswersAreTrue' /\ ConfirmedAsChosen'
    BY <1>1, <1>3 DEF SharingInv, AnswersAreTrue, HasRoom, ConfirmedAsChosen
  <1>13. JobsWereSubmitted'
    BY <1>1, <1>3 DEF SharingInv, JobsWereSubmitted, WereSubmitted
  <1>14. OneFormIsStored'
    BY <1>1 DEF SharingInv, OneFormIsStored, OneFormIsShared, keys
  <1> QED BY <1>6, <1>7, <1>8, <1>11, <1>12, <1>13, <1>14 DEF SharingInv

(* A step that leaves journals and storage alone.                           *)
LEMMA QuietInd ==
  ASSUME SharingInv, UNCHANGED <<journal, stored, recovering, loads, rooms, records, submitted>>,
         TypeOfForms', calls' \subseteq ShareCall,
         CallsAreOfJobs', AnswersAreTrue', \A call \in calls' : KeyOfForm({call.job})
  PROVE  SharingInv'
  <1>1. SharingTypeOK'
    BY DEF SharingInv, SharingTypeOK, TypeOfForms, OnePerKey
  <1>2. KeysOfForms' /\ IsFiniteSet(rooms)' /\ StoredOncePerKey'
    BY DEF SharingInv, KeysOfForms, KeyOfForm, StoredOncePerKey, OnePerKey
  <1>3. ConfirmedAsChosen' /\ JobsWereSubmitted'
    BY DEF SharingInv, ConfirmedAsChosen, JobsWereSubmitted, WereSubmitted
  <1>4. OneFormIsStored'
    BY DEF SharingInv, OneFormIsStored, OneFormIsShared, keys
  <1> QED BY <1>1, <1>2, <1>3, <1>4 DEF SharingInv

(* A new journal of one tab takes the place of all that was stored.         *)
LEMMA PersistInd ==
  ASSUME SharingInv, NEW t \in Tab, NEW jobs \in SUBSET ShareJob, persist(t, jobs),
         OnePerKey(jobs), KeyOfForm(jobs), TypeOfForms',
         \A entry \in jobs : entry.room => HasRoom(entry),
         \A entry \in jobs : \E request \in submitted' : request.form = entry.form,
         submitted \subseteq submitted', submitted' \subseteq ShareJob, KeyOfForm(submitted'),
         UNCHANGED <<recovering, loads, rooms, records>>,
         calls' \subseteq ShareCall, CallsAreOfJobs', AnswersAreTrue',
         \A call \in calls' : KeyOfForm({call.job}),
         OneFormIsStored'
  PROVE  SharingInv'
  <1>1. journal' = [journal EXCEPT ![t] = jobs] /\ stored' = unconfirmed(jobs)
    BY DEF persist
  <1>2. journal \in [Tab -> SUBSET ShareJob]
    BY DEF SharingInv, SharingTypeOK
  <1>3. journal'[t] = jobs /\ \A tab \in Tab \ {t} : journal'[tab] = journal[tab]
    BY <1>1, <1>2
  <1>4. journal' \in [Tab -> SUBSET ShareJob] /\ stored' \subseteq jobs
        /\ stored' \subseteq unconfirmed(ShareJob)
    BY <1>1, <1>2 DEF unconfirmed
  <1>5. SharingTypeOK'
    BY <1>3, <1>4 DEF SharingInv, SharingTypeOK, TypeOfForms, OnePerKey
  <1>6. IsFiniteSet(rooms)' /\ KeysOfForms'
    BY <1>3, <1>4 DEF SharingInv, KeysOfForms, KeyOfForm
  <1>7. StoredOncePerKey'
    BY <1>4 DEF SharingInv, StoredOncePerKey, OnePerKey
  <1>8. ConfirmedAsChosen'
    BY <1>3 DEF SharingInv, ConfirmedAsChosen, HasRoom
  <1>9. JobsWereSubmitted'
    BY <1>3, <1>4 DEF SharingInv, JobsWereSubmitted, WereSubmitted
  <1> QED BY <1>5, <1>6, <1>7, <1>8, <1>9 DEF SharingInv

(* What a form or a dialog shares comes into the journal under its own key. *)
LEMMA ShareUnderInd ==
  ASSUME SharingInv, NEW t \in Tab, NEW form \in Form, NEW people \in People,
         shareUnder(t, shareKey(form), form, people), TypeOfForms'
  PROVE  SharingInv'
  <1> DEFINE entry == [key |-> shareKey(form), form |-> form, people |-> people, room |-> FALSE]
  <1>1. /\ \/ /\ \E existing \in journal[t] : existing.key = entry.key /\ sendShare(t, existing)
              /\ UNCHANGED <<journal, stored, submitted>>
           \/ /\ entry.key \notin keys(journal[t])
              /\ persist(t, journal[t] \cup {entry})
              /\ sendShare(t, entry)
              /\ submitted' = submitted \cup {entry}
        /\ UNCHANGED <<recovering, loads, rooms, records>>
    BY DEF shareUnder
  <1>2. /\ entry.key = shareKey(entry.form) /\ entry.form = form /\ ~entry.room
        /\ entry \in ShareJob
    BY DEF shareKey, ShareJob, Key, Form
  <1> HIDE DEF entry
  <1>3. journal \in [Tab -> SUBSET ShareJob] /\ journal[t] \subseteq ShareJob
    BY DEF SharingInv, SharingTypeOK
  <1>5. CASE UNCHANGED <<journal, stored, submitted>>
             /\ \E existing \in journal[t] : existing.key = entry.key /\ sendShare(t, existing)
    <2>1. PICK existing \in journal[t] : sendShare(t, existing)
      BY <1>5
    <2>2. existing \in ShareJob /\ existing.key = shareKey(existing.form) /\ existing \in journal'[t]
      BY <1>3, <1>5 DEF SharingInv, KeysOfForms, KeyOfForm
    <2>3. /\ calls' \subseteq ShareCall /\ CallsAreOfJobs' /\ AnswersAreTrue'
          /\ \A call \in calls' : KeyOfForm({call.job})
      BY <1>1, <1>5, <2>1, <2>2, SendShareInd
    <2> QED BY <1>1, <1>5, <2>3, QuietInd
  <1>6. CASE /\ entry.key \notin keys(journal[t])
             /\ persist(t, journal[t] \cup {entry})
             /\ sendShare(t, entry)
             /\ submitted' = submitted \cup {entry}
    <2> DEFINE jobs == journal[t] \cup {entry}
    <2>1. jobs \in SUBSET ShareJob /\ entry \in jobs /\ persist(t, jobs)
      BY <1>2, <1>3, <1>6
    <2>2. OnePerKey(jobs)
      BY <1>6 DEF SharingInv, SharingTypeOK, OnePerKey, keys
    <2>3. KeyOfForm(jobs)
      BY <1>2 DEF SharingInv, KeysOfForms, KeyOfForm
    <2>4. \A kept \in jobs : kept.room => HasRoom(kept)
      BY <1>2 DEF SharingInv, ConfirmedAsChosen, HasRoom
    <2>5. \A kept \in jobs : \E request \in submitted' : request.form = kept.form
      BY <1>6 DEF SharingInv, JobsWereSubmitted, WereSubmitted
    <2>6. /\ submitted \subseteq submitted' /\ submitted' \subseteq ShareJob
          /\ KeyOfForm(submitted')
      BY <1>2, <1>6 DEF SharingInv, SharingTypeOK, KeysOfForms, KeyOfForm
    <2>7. journal[t] \subseteq jobs
      OBVIOUS
    <2>8. stored' = unconfirmed(jobs) /\ journal' = [journal EXCEPT ![t] = jobs]
      BY <1>6 DEF persist
    <2>9. entry \in stored' /\ entry \in journal'[t]
      BY <1>2, <1>3, <2>1, <2>8 DEF unconfirmed
    <2>10. \A tab \in Tab : journal[tab] \subseteq journal'[tab]
      BY <1>3, <2>7, <2>8
    <2> HIDE DEF jobs
    <2>11. /\ calls' \subseteq ShareCall /\ CallsAreOfJobs' /\ AnswersAreTrue'
           /\ \A call \in calls' : KeyOfForm({call.job})
      BY <1>1, <1>2, <1>6, <2>9, <2>10, SendShareInd
    <2>12. OneFormIsStored'
      <3>1. SUFFICES ASSUME OneFormIsShared', NEW request \in submitted'
                     PROVE  request.key \in keys(stored')
        BY DEF OneFormIsStored
      <3>2. request.form = entry.form
        BY <1>6, <3>1 DEF OneFormIsShared
      <3>3. request.key = entry.key
        BY <1>2, <2>6, <3>2 DEF KeyOfForm
      <3> QED BY <2>9, <3>3 DEF keys
    <2> QED BY <1>1, <2>1, <2>2, <2>3, <2>4, <2>5, <2>6, <2>11, <2>12, PersistInd
  <1> QED BY <1>1, <1>5, <1>6

LEMMA ShareInd ==
  ASSUME SharingInv, NEW t \in Tab, NEW form \in Form, NEW people \in People,
         share(t, form, people) \/ shareExisting(t, form, people)
  PROVE  SharingInv'
  <1>1. shareUnder(t, shareKey(form), form, people)
    BY DEF share, shareExisting
  <1>2. drawn' = drawn \/ drawn' = drawn \cup {form.id}
    BY DEF share, shareExisting, draw
  <1>3. TypeOfForms'
    BY <1>1, <1>2 DEF SharingInv, SharingTypeOK, TypeOfForms, Form, shareUnder
  <1> QED BY <1>1, <1>3, ShareUnderInd

(* Forms are opened and closed beside the journals.                         *)
LEMMA FormsInd ==
  ASSUME SharingInv, NEW t \in Tab, NEW form \in Form, openForm(t, form) \/ closeForm(t, form)
  PROVE  SharingInv'
  <1>1. /\ drawn' = drawn \/ drawn' = drawn \cup {form.id}
        /\ \/ forms' = [forms EXCEPT ![t] = forms[t] \cup {form}]
           \/ forms' = [forms EXCEPT ![t] = forms[t] \ {form}]
        /\ UNCHANGED <<journal, stored, recovering, loads, calls, rooms, records, submitted>>
    BY DEF openForm, closeForm, draw
  <1>2. TypeOfForms'
    BY <1>1 DEF SharingInv, SharingTypeOK, TypeOfForms, Form
  <1>3. \A call \in calls' : Current(call) => call.job \in unconfirmed(journal'[call.tab])
    BY <1>1 DEF SharingInv, CallsAreOfJobs
  <1>4. /\ calls' \subseteq ShareCall /\ CallsAreOfJobs' /\ AnswersAreTrue'
        /\ \A call \in calls' : KeyOfForm({call.job})
    BY <1>1, <1>3, FewerCallsInd
  <1> QED BY <1>1, <1>2, <1>4, QuietInd

LEMMA RetryShareInd ==
  ASSUME SharingInv, NEW t \in Tab, NEW entry \in journal[t], retryShare(t, entry)
  PROVE  SharingInv'
  <1>1. /\ sendShare(t, entry)
        /\ UNCHANGED <<drawn, forms, journal, stored, recovering, loads, rooms, records, submitted>>
    BY DEF retryShare
  <1>2. entry \in ShareJob /\ entry.key = shareKey(entry.form) /\ entry \in journal'[t]
    BY <1>1 DEF SharingInv, SharingTypeOK, KeysOfForms, KeyOfForm
  <1>3. /\ calls' \subseteq ShareCall /\ CallsAreOfJobs' /\ AnswersAreTrue'
        /\ \A call \in calls' : KeyOfForm({call.job})
    BY <1>1, <1>2, SendShareInd
  <1>4. TypeOfForms'
    BY <1>1 DEF SharingInv, SharingTypeOK, TypeOfForms
  <1> QED BY <1>1, <1>3, <1>4, QuietInd

LEMMA DismissInd ==
  ASSUME SharingInv, NEW t \in Tab, NEW entry \in journal[t], dismiss(t, entry)
  PROVE  SharingInv'
  <1> DEFINE jobs == journal[t] \ {entry}
  <1>1. /\ entry.room /\ persist(t, jobs) /\ journal' = [journal EXCEPT ![t] = jobs]
        /\ UNCHANGED <<drawn, forms, recovering, loads, calls, rooms, records, submitted>>
    BY DEF dismiss, persist
  <1>2. journal \in [Tab -> SUBSET ShareJob] /\ jobs \in SUBSET ShareJob
    BY DEF SharingInv, SharingTypeOK
  <1>3. OnePerKey(jobs) /\ KeyOfForm(jobs) /\ TypeOfForms'
    BY <1>1 DEF SharingInv, SharingTypeOK, TypeOfForms, OnePerKey, KeysOfForms, KeyOfForm
  <1>4. \A kept \in jobs : kept.room => HasRoom(kept)
    BY DEF SharingInv, ConfirmedAsChosen, HasRoom
  <1>5. \A kept \in jobs : \E request \in submitted' : request.form = kept.form
    BY <1>1 DEF SharingInv, JobsWereSubmitted, WereSubmitted
  <1>6. /\ submitted \subseteq submitted' /\ submitted' \subseteq ShareJob
        /\ KeyOfForm(submitted')
    BY <1>1 DEF SharingInv, SharingTypeOK, KeysOfForms
  <1>7. \A call \in calls' : Current(call) => call.job \in unconfirmed(journal'[call.tab])
    <2>1. \A call \in calls : call.tab \in Tab
      BY DEF SharingInv, SharingTypeOK, ShareCall
    <2> QED BY <1>1, <1>2, <2>1 DEF SharingInv, CallsAreOfJobs, unconfirmed
  <1>8. /\ calls' \subseteq ShareCall /\ CallsAreOfJobs' /\ AnswersAreTrue'
        /\ \A call \in calls' : KeyOfForm({call.job})
    BY <1>1, <1>7, FewerCallsInd
  <1>9. OneFormIsStored'
    <2>1. SUFFICES ASSUME OneFormIsShared, NEW request \in submitted
                   PROVE  \E room \in rooms : room.form = request.form
      BY <1>1 DEF OneFormIsStored, OneFormIsShared
    <2>2. HasRoom(entry) /\ \E other \in submitted : other.form = entry.form
      BY <1>1 DEF SharingInv, ConfirmedAsChosen, HasRoom, JobsWereSubmitted, WereSubmitted
    <2> QED BY <2>1, <2>2 DEF OneFormIsShared, HasRoom
  <1> HIDE DEF jobs
  <1> QED BY <1>1, <1>2, <1>3, <1>4, <1>5, <1>6, <1>8, <1>9, PersistInd

(* The request that a tab still waits for was sent for one job of its journal,  *)
(* with the people of that job: its room is theirs.                             *)
LEMMA ConfirmShareInd ==
  ASSUME SharingInv, NEW call \in calls, confirmShare(call)
  PROVE  SharingInv'
  <1> DEFINE t == call.tab
             done(entry) == IF entry.key = call.job.key THEN [entry EXCEPT !.room = TRUE] ELSE entry
             jobs == {done(entry) : entry \in journal[t]}
  <1>1. /\ call.answer = "ok" /\ Current(call) /\ persist(t, jobs)
        /\ journal' = [journal EXCEPT ![t] = jobs]
        /\ calls' = calls \ {call}
        /\ UNCHANGED <<drawn, forms, recovering, loads, rooms, records, submitted>>
    BY DEF confirmShare, persist, Current
  <1>2. journal \in [Tab -> SUBSET ShareJob] /\ \A other \in calls : other.tab \in Tab
    BY DEF SharingInv, SharingTypeOK, ShareCall
  <1>3. /\ call.job \in unconfirmed(journal[t]) /\ HasRoom(call.job)
        /\ \A entry \in journal[t] : entry.key = call.job.key => entry = call.job
    BY <1>1, <1>2 DEF SharingInv, CallsAreOfJobs, AnswersAreTrue, SharingTypeOK, OnePerKey, unconfirmed
  <1>4. \A entry \in journal[t] :
          /\ done(entry) \in ShareJob /\ done(entry).key = entry.key
          /\ done(entry).form = entry.form /\ done(entry).people = entry.people
          /\ done(entry).room = (entry.room \/ entry.key = call.job.key)
          /\ entry.key # call.job.key => done(entry) = entry
    <2> SUFFICES ASSUME NEW entry \in journal[t]
                 PROVE  /\ done(entry) \in ShareJob /\ done(entry).key = entry.key
                        /\ done(entry).form = entry.form /\ done(entry).people = entry.people
                        /\ done(entry).room = (entry.room \/ entry.key = call.job.key)
                        /\ entry.key # call.job.key => done(entry) = entry
      OBVIOUS
    <2>1. entry \in ShareJob
      BY <1>2
    <2>2. CASE entry.key = call.job.key
      <3>1. done(entry) = [entry EXCEPT !.room = TRUE]
        BY <2>2
      <3> HIDE DEF done
      <3> QED BY <2>1, <2>2, <3>1 DEF ShareJob
    <2>3. CASE entry.key # call.job.key
      <3>1. done(entry) = entry
        BY <2>3
      <3> HIDE DEF done
      <3>2. entry.room \in BOOLEAN
        BY <2>1 DEF ShareJob
      <3> QED BY <2>1, <2>3, <3>1, <3>2
    <2> QED BY <2>2, <2>3
  <1>5. \A kept \in jobs : \E entry \in journal[t] : kept = done(entry)
    OBVIOUS
  <1>6. \A entry \in journal[t] : done(entry) \in jobs
    OBVIOUS
  <1> HIDE DEF done, jobs
  <1>7. jobs \in SUBSET ShareJob
    BY <1>4, <1>5
  <1>8. OnePerKey(jobs)
    BY <1>2, <1>4, <1>5 DEF SharingInv, SharingTypeOK, OnePerKey
  <1>9. KeyOfForm(jobs) /\ TypeOfForms'
    BY <1>1, <1>2, <1>4, <1>5 DEF SharingInv, SharingTypeOK, TypeOfForms, KeysOfForms, KeyOfForm
  <1>10. \A kept \in jobs : kept.room => HasRoom(kept)
    <2>1. SUFFICES ASSUME NEW entry \in journal[t], done(entry).room
                   PROVE  HasRoom(done(entry))
      BY <1>5
    <2>2. entry.room \/ entry = call.job
      BY <1>3, <1>4, <2>1
    <2>3. HasRoom(entry)
      BY <1>2, <1>3, <2>2 DEF SharingInv, ConfirmedAsChosen, HasRoom
    <2> QED BY <1>4, <2>3 DEF HasRoom
  <1>11. \A kept \in jobs : \E request \in submitted' : request.form = kept.form
    BY <1>1, <1>2, <1>4, <1>5 DEF SharingInv, JobsWereSubmitted, WereSubmitted
  <1>12. /\ submitted \subseteq submitted' /\ submitted' \subseteq ShareJob
         /\ KeyOfForm(submitted')
    BY <1>1 DEF SharingInv, SharingTypeOK, KeysOfForms
  <1>13. \A other \in calls' : Current(other) => other.job \in unconfirmed(journal'[other.tab])
    <2>1. SUFFICES ASSUME NEW other \in calls', Current(other)
                   PROVE  other.job \in unconfirmed(journal'[other.tab])
      OBVIOUS
    <2>2. other \in calls /\ other # call /\ other.job \in unconfirmed(journal[other.tab])
      BY <1>1, <2>1 DEF SharingInv, CallsAreOfJobs
    <2>3. CASE other.tab # t
      BY <1>1, <1>2, <2>2, <2>3
    <2>4. CASE other.tab = t
      <3>1. other.job.key # call.job.key
        BY <1>1, <2>1, <2>2, <2>4 DEF SharingInv, CallsAreOfJobs
      <3>2. other.job \in journal[t] /\ ~other.job.room
        BY <2>2, <2>4 DEF unconfirmed
      <3>3. other.job \in jobs
        BY <1>4, <1>6, <3>1, <3>2
      <3> QED BY <1>1, <1>2, <2>4, <3>2, <3>3 DEF unconfirmed
    <2> QED BY <2>3, <2>4
  <1>14. /\ calls' \subseteq ShareCall /\ CallsAreOfJobs' /\ AnswersAreTrue'
         /\ \A other \in calls' : KeyOfForm({other.job})
    BY <1>1, <1>13, FewerCallsInd
  <1>15. OneFormIsStored'
    <2>1. SUFFICES ASSUME OneFormIsShared, NEW request \in submitted
                   PROVE  \E room \in rooms : room.form = request.form
      BY <1>1 DEF OneFormIsStored, OneFormIsShared
    <2>2. \E other \in submitted : other.form = call.job.form
      BY <1>2, <1>3 DEF SharingInv, JobsWereSubmitted, WereSubmitted, unconfirmed
    <2> QED BY <1>3, <2>1, <2>2 DEF OneFormIsShared, HasRoom
  <1>16. t \in Tab /\ UNCHANGED <<recovering, loads, rooms, records>> /\ persist(t, jobs)
    BY <1>1, <1>2
  <1> HIDE DEF t
  <1> QED BY <1>7, <1>8, <1>9, <1>10, <1>11, <1>12, <1>14, <1>15, <1>16, PersistInd

LEMMA FailShareInd ==
  ASSUME SharingInv, NEW call \in calls, failShare(call)
  PROVE  SharingInv'
  <1>1. /\ calls' \subseteq calls
        /\ UNCHANGED <<drawn, forms, journal, stored, recovering, loads, rooms, records, submitted>>
    BY DEF failShare
  <1>2. \A other \in calls' : Current(other) => other.job \in unconfirmed(journal'[other.tab])
    BY <1>1 DEF SharingInv, CallsAreOfJobs
  <1>3. /\ calls' \subseteq ShareCall /\ CallsAreOfJobs' /\ AnswersAreTrue'
        /\ \A other \in calls' : KeyOfForm({other.job})
    BY <1>1, <1>2, FewerCallsInd
  <1>4. TypeOfForms'
    BY <1>1 DEF SharingInv, SharingTypeOK, TypeOfForms
  <1> QED BY <1>1, <1>3, <1>4, QuietInd

(* A room is made only under a key that no request is remembered for.       *)
LEMMA CreateConversationInd ==
  ASSUME SharingInv, NEW call \in calls, createConversation(call)
  PROVE  SharingInv'
  <1> DEFINE entry == call.job
             room == [key |-> entry.key, form |-> entry.form, people |-> entry.people,
                      number |-> Cardinality(rooms)]
             settled(result) == [call EXCEPT !.answer = result]
  <1>1. \E result \in {"ok", "refused"} :
          /\ calls' = (calls \ {call}) \cup {settled(result)}
          /\ \/ /\ result = "ok" /\ entry.key \notin keys(records)
                /\ rooms' = rooms \cup {room} /\ records' = records \cup {room}
             \/ /\ UNCHANGED <<rooms, records>>
                /\ result = "ok" => \E record \in records : sameRequest(record, entry)
    BY DEF createConversation
  <1>2. UNCHANGED <<drawn, forms, journal, stored, recovering, loads, submitted>>
    BY DEF createConversation
  <1>3. call \in ShareCall /\ entry \in ShareJob /\ entry.key = shareKey(entry.form)
    BY DEF SharingInv, SharingTypeOK, ShareCall, KeysOfForms, KeyOfForm
  <1>4. Cardinality(rooms) \in Nat
    BY FS_CardinalityType DEF SharingInv
  <1>5. /\ room \in [key : Key, form : Form, people : People, number : Nat]
        /\ room.key = shareKey(room.form)
        /\ room.form = entry.form /\ room.people = entry.people
    BY <1>3, <1>4 DEF ShareJob
  <1>6. room.key = entry.key
    OBVIOUS
  <1>7. PICK result \in {"ok", "refused"} :
          /\ calls' = (calls \ {call}) \cup {settled(result)}
          /\ \/ /\ result = "ok" /\ entry.key \notin keys(records)
                /\ rooms' = rooms \cup {room} /\ records' = records \cup {room}
             \/ /\ UNCHANGED <<rooms, records>>
                /\ result = "ok" => \E record \in records : sameRequest(record, entry)
    BY <1>1
  <1>8. /\ settled(result) \in ShareCall /\ settled(result).job = call.job
        /\ settled(result).tab = call.tab /\ settled(result).load = call.load
        /\ settled(result).answer = result
    BY <1>3 DEF ShareCall
  <1> HIDE DEF room, settled
  <1>9. IsFiniteSet(rooms)'
    BY <1>7, FS_AddElement DEF SharingInv
  <1>10. /\ rooms \subseteq rooms' /\ KeyOfForm(rooms') /\ records' \subseteq rooms'
         /\ rooms' \subseteq [key : Key, form : Form, people : People, number : Nat]
    BY <1>5, <1>7 DEF SharingInv, SharingTypeOK, KeysOfForms, KeyOfForm
  <1>11. OnePerKey(records')
    BY <1>6, <1>7 DEF SharingInv, SharingTypeOK, OnePerKey, keys
  <1>12. calls' \subseteq ShareCall /\ \A other \in calls' : KeyOfForm({other.job})
    BY <1>7, <1>8 DEF SharingInv, SharingTypeOK, KeysOfForms
  <1>13. SharingTypeOK'
    BY <1>2, <1>10, <1>11, <1>12 DEF SharingInv, SharingTypeOK, OnePerKey
  <1>14. KeysOfForms'
    BY <1>2, <1>10, <1>12 DEF SharingInv, KeysOfForms, KeyOfForm
  <1>15. HasRoom(entry)' \/ result = "refused"
    <2>1. CASE rooms' = rooms \cup {room}
      BY <1>5, <2>1 DEF HasRoom
    <2>2. CASE UNCHANGED rooms /\ \E record \in records : sameRequest(record, entry)
      <3>1. PICK record \in records : sameRequest(record, entry)
        BY <2>2
      <3> QED BY <2>2, <3>1 DEF SharingInv, SharingTypeOK, HasRoom, sameRequest
    <2> QED BY <1>7, <2>1, <2>2
  <1>16. AnswersAreTrue'
    BY <1>7, <1>8, <1>10, <1>15 DEF SharingInv, AnswersAreTrue, HasRoom
  <1>17. CallsAreOfJobs'
    <2>1. \A other \in calls' : \E before \in calls :
            /\ before.tab = other.tab /\ before.load = other.load /\ before.job = other.job
            /\ before = call <=> other = settled(result)
            /\ before # call => before = other
      BY <1>7, <1>8, SMTT(20)
    <2>2. \A other \in calls' : other.load <= loads'[other.tab]
      BY <1>2, <2>1 DEF SharingInv, CallsAreOfJobs
    <2>3. \A other \in calls' : Current(other)' => other.job \in unconfirmed(journal[other.tab])'
      BY <1>2, <2>1 DEF SharingInv, CallsAreOfJobs, Current
    <2>4. ASSUME NEW one \in calls', NEW other \in calls', Current(one)', Current(other)',
                 one.tab = other.tab, one.job.key = other.job.key
          PROVE  one = other
      <3>1. PICK before \in calls :
              /\ before.tab = one.tab /\ before.load = one.load /\ before.job = one.job
              /\ before = call <=> one = settled(result)
              /\ before # call => before = one
        BY <2>1
      <3>2. PICK earlier \in calls :
              /\ earlier.tab = other.tab /\ earlier.load = other.load /\ earlier.job = other.job
              /\ earlier = call <=> other = settled(result)
              /\ earlier # call => earlier = other
        BY <2>1
      <3>3. before = earlier
        BY <1>2, <2>4, <3>1, <3>2 DEF SharingInv, CallsAreOfJobs, Current
      <3> QED BY <3>1, <3>2, <3>3
    <2> QED BY <2>2, <2>3, <2>4 DEF CallsAreOfJobs
  <1>18. ConfirmedAsChosen' /\ OneFormIsStored'
    BY <1>2, <1>10 DEF SharingInv, ConfirmedAsChosen, OneFormIsStored, OneFormIsShared, keys
  <1>19. StoredOncePerKey' /\ JobsWereSubmitted'
    BY <1>2 DEF SharingInv, StoredOncePerKey, OnePerKey, JobsWereSubmitted, WereSubmitted
  <1> QED BY <1>9, <1>13, <1>14, <1>16, <1>17, <1>18, <1>19 DEF SharingInv

LEMMA ExpireInd ==
  ASSUME SharingInv, NEW record \in records, expire(record)
  PROVE  SharingInv'
  <1>1. /\ records' = records \ {record}
        /\ UNCHANGED <<drawn, forms, journal, stored, recovering, loads, calls, rooms, submitted>>
    BY DEF expire
  <1>2. SharingTypeOK'
    BY <1>1 DEF SharingInv, SharingTypeOK, OnePerKey
  <1>3. IsFiniteSet(rooms)' /\ KeysOfForms' /\ StoredOncePerKey'
    BY <1>1 DEF SharingInv, KeysOfForms, KeyOfForm, StoredOncePerKey, OnePerKey
  <1>4. CallsAreOfJobs' /\ AnswersAreTrue' /\ ConfirmedAsChosen'
    BY <1>1 DEF SharingInv, CallsAreOfJobs, Current, AnswersAreTrue, HasRoom, ConfirmedAsChosen
  <1>5. JobsWereSubmitted' /\ OneFormIsStored'
    BY <1>1 DEF SharingInv, JobsWereSubmitted, WereSubmitted, OneFormIsStored, OneFormIsShared, keys
  <1> QED BY <1>2, <1>3, <1>4, <1>5 DEF SharingInv

LEMMA SharingStep == SharingInv /\ [SharingNext]_sharingVars => SharingInv'
  <1> SUFFICES ASSUME SharingInv, [SharingNext]_sharingVars PROVE SharingInv'
    OBVIOUS
  <1>1. CASE \E t \in Tab : recover(t) \/ load(t)
    BY <1>1, RecoverInd, LoadInd
  <1>2. CASE \E t \in Tab, form \in Form, people \in People :
               share(t, form, people) \/ shareExisting(t, form, people)
    BY <1>2, ShareInd
  <1>3. CASE \E t \in Tab : \E entry \in journal[t] : retryShare(t, entry) \/ dismiss(t, entry)
    BY <1>3, RetryShareInd, DismissInd
  <1>4. CASE \E call \in calls : createConversation(call) \/ confirmShare(call) \/ failShare(call)
    BY <1>4, CreateConversationInd, ConfirmShareInd, FailShareInd
  <1>5. CASE \E record \in records : expire(record)
    BY <1>5, ExpireInd
  <1>6. CASE \E t \in Tab, form \in Form : openForm(t, form) \/ closeForm(t, form)
    BY <1>6, FormsInd
  <1>7. CASE UNCHANGED sharingVars
    <2>1. /\ calls' \subseteq calls
          /\ UNCHANGED <<drawn, forms, journal, stored, recovering, loads, calls, rooms, records, submitted>>
      BY <1>7 DEF sharingVars
    <2>2. \A call \in calls' : Current(call) => call.job \in unconfirmed(journal'[call.tab])
      BY <2>1 DEF SharingInv, CallsAreOfJobs
    <2>3. /\ calls' \subseteq ShareCall /\ CallsAreOfJobs' /\ AnswersAreTrue'
          /\ \A call \in calls' : KeyOfForm({call.job})
      BY <2>1, <2>2, FewerCallsInd
    <2>4. TypeOfForms'
      BY <2>1 DEF SharingInv, SharingTypeOK, TypeOfForms
    <2> QED BY <2>1, <2>3, <2>4, QuietInd
  <1> QED BY <1>1, <1>2, <1>3, <1>4, <1>5, <1>6, <1>7 DEF SharingNext

(* What the invariant says of the rooms and of what can be tried again.     *)
LEMMA SharingInvImplies ==
  ASSUME SharingInv
  PROVE  /\ SharingTypeOK /\ ConfirmedAsChosen
         /\ records = rooms => OneRoomPerForm
         /\ OneFormIsShared => CanBeRetried
  <1>1. records = rooms => OneRoomPerForm
    BY DEF SharingInv, SharingTypeOK, KeysOfForms, KeyOfForm, OnePerKey, OneRoomPerForm
  <1>2. OneFormIsShared => CanBeRetried
    BY DEF SharingInv, OneFormIsStored, CanBeRetried
  <1> QED BY <1>1, <1>2 DEF SharingInv

(* A journal loses a job that  is not confirmed only when its page is loaded. *)
NoticesStayStep ==
    \A t \in Tab : \A entry \in unconfirmed(journal[t]) :
          \/ {entry, [entry EXCEPT !.room = TRUE]} \cap journal'[t] # {}
          \/ loads'[t] # loads[t]

LEMMA NoticesStayInd ==
  ASSUME SharingInv, SharingNext
  PROVE  NoticesStayStep
  <1> SUFFICES ASSUME NEW t \in Tab, NEW entry \in unconfirmed(journal[t])
               PROVE  \/ {entry, [entry EXCEPT !.room = TRUE]} \cap journal'[t] # {}
                      \/ loads'[t] # loads[t]
    BY DEF NoticesStayStep
  <1>1. /\ journal \in [Tab -> SUBSET ShareJob] /\ loads \in [Tab -> 1..MaxLoads]
        /\ entry \in journal[t] /\ ~entry.room
    BY DEF SharingInv, SharingTypeOK, unconfirmed
  <1>2. CASE journal' = journal
    BY <1>1, <1>2
  <1>3. ASSUME NEW u \in Tab, recover(u)
        PROVE  entry \in journal'[t]
    BY <1>1, <1>3 DEF recover, merged
  <1>4. ASSUME NEW u \in Tab, load(u)
        PROVE  entry \in journal'[t] \/ loads'[t] # loads[t]
    BY <1>1, <1>4, SharingAssumption DEF load
  <1>5. ASSUME NEW u \in Tab, NEW form \in Form, NEW people \in People,
               share(u, form, people) \/ shareExisting(u, form, people)
        PROVE  entry \in journal'[t]
    BY <1>1, <1>5 DEF share, shareExisting, shareUnder, persist
  <1>6. ASSUME NEW u \in Tab, NEW other \in journal[u], dismiss(u, other)
        PROVE  entry \in journal'[t]
    BY <1>1, <1>6 DEF dismiss, persist
  <1>7. ASSUME NEW call \in calls, confirmShare(call)
        PROVE  entry \in journal'[t] \/ [entry EXCEPT !.room = TRUE] \in journal'[t]
    <2>1. call.tab \in Tab
      BY DEF SharingInv, SharingTypeOK, ShareCall
    <2> DEFINE done(kept) == IF kept.key = call.job.key THEN [kept EXCEPT !.room = TRUE] ELSE kept
    <2>2. journal' = [journal EXCEPT ![call.tab] = {done(kept) : kept \in journal[call.tab]}]
      BY <1>7 DEF confirmShare, persist
    <2>3. CASE call.tab # t
      BY <1>1, <2>1, <2>2, <2>3
    <2>4. CASE call.tab = t
      <3>1. done(entry) \in journal'[t]
        BY <1>1, <2>1, <2>2, <2>4
      <3> QED BY <3>1
    <2> QED BY <2>3, <2>4
  <1>8. CASE \E call \in calls : createConversation(call) \/ failShare(call)
    BY <1>2, <1>8 DEF createConversation, failShare
  <1>9. CASE \E record \in records : expire(record)
    BY <1>2, <1>9 DEF expire
  <1>10. CASE \E u \in Tab : \E other \in journal[u] : retryShare(u, other)
    BY <1>2, <1>10 DEF retryShare
  <1>11. CASE \E u \in Tab, form \in Form : openForm(u, form) \/ closeForm(u, form)
    BY <1>2, <1>11 DEF openForm, closeForm
  <1> QED BY <1>3, <1>4, <1>5, <1>6, <1>7, <1>8, <1>9, <1>10, <1>11 DEF SharingNext

(* Each form announces its record once, however often and from wherever it is  *)
(* sent again, and so does each dialog, while their keys are remembered; the   *)
(* notice of a shared record is true of the people it names and stays until    *)
(* then, and what one form submitted can be tried again: for any number of     *)
(* tabs, forms, loads and people.                                              *)
THEOREM SharingIsKept == SharingSpec => SharingKept
  <1>1. SharingInit => SharingInv
    BY SharingInitInd
  <1>2. SharingInv /\ [SharingNext]_sharingVars => SharingInv'
    BY SharingStep
  <1>3. SharingInv => /\ SharingTypeOK /\ ConfirmedAsChosen
                      /\ records = rooms => OneRoomPerForm
                      /\ OneFormIsShared => CanBeRetried
    BY SharingInvImplies
  <1>4. SharingInv /\ [SharingNext]_sharingVars => [NoticesStayStep]_sharingVars
    BY NoticesStayInd
  <1>5. NoticesStay <=> [][NoticesStayStep]_sharingVars
    BY PTL DEF NoticesStay, NoticesStayStep
  <1> QED BY <1>1, <1>2, <1>3, <1>4, <1>5, PTL DEF SharingSpec, SharingKept

-----------------------------------------------------------------------------
(* The composer, for every number of tabs, rooms, texts and identifiers.      *)
(* Wherever a text is, on a screen or stored, on its way or posted, it goes by *)
(* one identifier and belongs to the room it was typed in.                     *)
DraftUse(t) == [room |-> shownRoom[t], id |-> draft[t].id, text |-> draft[t].text]

StoredUse(r) == [room |-> r, id |-> storage[r].id, text |-> storage[r].text]

Uses == {DraftUse(t) : t \in {u \in ComposerTab : draft[u].text # NoText}}
        \cup {StoredUse(r) : r \in {q \in Room : storage[q] # NoText /\ storage[q].text # NoText}}
        \cup {sentCall[t] : t \in {u \in ComposerTab : Pending(u)}} \cup network \cup posted

WhereWritten == \A use \in Uses : use.room = Written[use.text] /\ use.text \in typed

OneIdPerText == \A use, other \in Uses : use.text = other.text => use.id = other.id

ComposerInv == ComposerTypeOK /\ WhereWritten /\ OneIdPerText

LEMMA UsesAreSendings == ComposerTypeOK => Uses \subseteq Sending
  <1> SUFFICES ASSUME ComposerTypeOK PROVE Uses \subseteq Sending
    OBVIOUS
  <1>1. \A t \in ComposerTab : draft[t].text # NoText => DraftUse(t) \in Sending
    BY DEF ComposerTypeOK, DraftUse, Draft, Sending
  <1>2. \A r \in Room : storage[r] # NoText /\ storage[r].text # NoText => StoredUse(r) \in Sending
    BY DEF ComposerTypeOK, StoredUse, Draft, Sending
  <1>3. \A t \in ComposerTab : Pending(t) => sentCall[t] \in Sending
    BY DEF ComposerTypeOK, Pending
  <1>4. network \subseteq Sending /\ posted \subseteq Sending
    BY DEF ComposerTypeOK
  <1> QED BY <1>1, <1>2, <1>3, <1>4 DEF Uses

(* A step that puts no text to a new use.                                    *)
LEMMA NoNewUseInd ==
  ASSUME ComposerInv, ComposerTypeOK', Uses' \subseteq Uses, typed \subseteq typed'
  PROVE  ComposerInv'
  BY DEF ComposerInv, WhereWritten, OneIdPerText

LEMMA ComposerInitInd == ComposerInit => ComposerInv
  <1> SUFFICES ASSUME ComposerInit PROVE ComposerInv
    OBVIOUS
  <1>1. PICK f \in [ComposerTab -> Id] :
          draft = [t \in ComposerTab |-> [text |-> NoText, id |-> f[t], attempted |-> NoText]]
    BY DEF ComposerInit
  <1>2. ComposerTypeOK
    BY <1>1 DEF ComposerInit, ComposerTypeOK, Draft
  <1>3. Uses = {}
    BY <1>1 DEF ComposerInit, Uses, Pending
  <1> QED BY <1>2, <1>3 DEF ComposerInv, WhereWritten, OneIdPerText

(* What stays as it is stays in use.                                         *)
LEMMA UsesFrom ==
  ASSUME \A t \in ComposerTab : draft'[t].text # NoText => DraftUse(t)' \in Uses,
         \A r \in Room : storage'[r] # NoText /\ storage'[r].text # NoText => StoredUse(r)' \in Uses,
         \A t \in ComposerTab : sentCall'[t] # NoText => sentCall'[t] \in Uses,
         network' \subseteq Uses, posted' \subseteq Uses
  PROVE  Uses' \subseteq Uses
  BY DEF Uses, Pending

LEMMA UsesKept ==
  /\ \A t \in ComposerTab : draft[t].text # NoText => DraftUse(t) \in Uses
  /\ \A r \in Room : storage[r] # NoText /\ storage[r].text # NoText => StoredUse(r) \in Uses
  /\ \A t \in ComposerTab : sentCall[t] # NoText => sentCall[t] \in Uses
  /\ network \subseteq Uses /\ posted \subseteq Uses
  BY DEF Uses, Pending

LEMMA NewIdIsId == CanRandom => NewId \in Id /\ EmptyDraft \in Draft /\ EmptyDraft.text = NoText
  <1> SUFFICES ASSUME CanRandom PROVE NewId \in Id /\ EmptyDraft \in Draft /\ EmptyDraft.text = NoText
    OBVIOUS
  <1>1. \E i \in Id : i \notin Used
    BY DEF CanRandom
  <1>2. NewId \in Id
    BY <1>1 DEF NewId
  <1> QED BY <1>2 DEF EmptyDraft, Draft

(* A text is typed once: no other use of it can have another identifier.     *)
LEMMA NewUseInd ==
  ASSUME ComposerInv, ComposerTypeOK', typed \subseteq typed',
         NEW use, Uses' \subseteq Uses \cup {use},
         use.text \notin typed, use.text \in typed', use.room = Written[use.text]
  PROVE  ComposerInv'
  <1>1. \A other \in Uses : other.text # use.text
    BY DEF ComposerInv, WhereWritten
  <1>2. WhereWritten'
    BY DEF ComposerInv, WhereWritten
  <1>3. OneIdPerText'
    BY <1>1 DEF ComposerInv, OneIdPerText
  <1> QED BY <1>2, <1>3 DEF ComposerInv

LEMMA UpdateDraftInd ==
  ASSUME ComposerInv, NEW t \in ComposerTab, NEW x \in Text \cup {NoText}, UpdateDraft(t, x)
  PROVE  ComposerInv'
  <1> DEFINE old == draft[t]
             changed == old.attempted # NoText /\ x # old.attempted
             new == IF changed THEN [text |-> x, id |-> NewId, attempted |-> NoText]
                               ELSE [old EXCEPT !.text = x]
  <1>1. /\ x \notin typed /\ (x # NoText => Written[x] = shownRoom[t])
        /\ draft' = [draft EXCEPT ![t] = new]
        /\ delivery' = [delivery EXCEPT ![t] = IF changed THEN NoText ELSE delivery[t]]
        /\ buffered' = buffered \cup {t}
        /\ typed' = typed \cup ({x} \ {NoText})
        /\ replaced' = replaced \cup ({old.text} \ {NoText})
        /\ UNCHANGED <<shownRoom, storage, sentCall, reply, cache, network, posted>>
    BY DEF UpdateDraft
  <1>2. changed => CanRandom
    BY DEF UpdateDraft
  <1>3. /\ draft \in [ComposerTab -> Draft] /\ old \in Draft
        /\ delivery \in [ComposerTab -> Id \cup {NoText}]
    BY DEF ComposerInv, ComposerTypeOK
  <1>4. new \in Draft /\ new.text = x
    <2>1. CASE changed
      <3>1. NewId \in Id
        BY <1>2, <2>1, NewIdIsId
      <3> QED BY <2>1, <3>1 DEF Draft
    <2>2. CASE ~changed
      <3>1. new = [old EXCEPT !.text = x]
        BY <2>2
      <3> HIDE DEF new, old
      <3> QED BY <1>3, <3>1 DEF Draft
    <2> QED BY <2>1, <2>2
  <1> HIDE DEF new, changed
  <1>5. draft'[t] = new /\ \A u \in ComposerTab \ {t} : draft'[u] = draft[u]
    BY <1>1, <1>3
  <1>6. old.text # NoText => old.text \in typed
    BY UsesKept DEF ComposerInv, WhereWritten, DraftUse
  <1>7. ComposerTypeOK'
    <2>1. draft' \in [ComposerTab -> Draft] /\ delivery' \in [ComposerTab -> Id \cup {NoText}]
      BY <1>1, <1>3, <1>4
    <2>2. typed' \subseteq Text /\ replaced' \subseteq typed' /\ buffered' \subseteq ComposerTab
      BY <1>1, <1>6 DEF ComposerInv, ComposerTypeOK
    <2> QED BY <1>1, <2>1, <2>2 DEF ComposerInv, ComposerTypeOK
  <1>8. \A u \in ComposerTab \ {t} : draft'[u].text # NoText => DraftUse(u)' \in Uses
    BY <1>1, <1>5, UsesKept DEF DraftUse
  <1>9. \A r \in Room : storage'[r] # NoText /\ storage'[r].text # NoText => StoredUse(r)' \in Uses
    BY <1>1, UsesKept DEF StoredUse
  <1>10. /\ \A u \in ComposerTab : sentCall'[u] # NoText => sentCall'[u] \in Uses
         /\ network' \subseteq Uses /\ posted' \subseteq Uses
    BY <1>1, UsesKept
  <1>11. CASE x = NoText
    <2>1. \A u \in ComposerTab : draft'[u].text # NoText => DraftUse(u)' \in Uses
      BY <1>4, <1>5, <1>8, <1>11
    <2>2. Uses' \subseteq Uses
      BY <1>9, <1>10, <2>1, UsesFrom
    <2> QED BY <1>1, <1>7, <2>2, NoNewUseInd
  <1>12. CASE x # NoText
    <2> DEFINE use == DraftUse(t)'
    <2>1. use.text = x /\ use.room = Written[x]
      BY <1>1, <1>4, <1>5, <1>12 DEF DraftUse
    <2>2. Uses' \subseteq Uses \cup {use}
      BY <1>8, <1>9, <1>10 DEF Uses, Pending
    <2> HIDE DEF use
    <2> QED BY <1>1, <1>7, <1>12, <2>1, <2>2, NewUseInd
  <1> QED BY <1>11, <1>12

(* What a tab writes to the storage of its room is its draft.               *)
LEMMA FlushedUses ==
  ASSUME ComposerTypeOK, NEW t \in ComposerTab
  PROVE  /\ Flushed(t) \in [Room -> Draft \cup {NoText}]
         /\ \A r \in Room : Flushed(t)[r] # NoText /\ Flushed(t)[r].text # NoText =>
               [room |-> r, id |-> Flushed(t)[r].id, text |-> Flushed(t)[r].text] \in Uses
  <1>1. /\ shownRoom[t] \in Room /\ storage \in [Room -> Draft \cup {NoText}]
        /\ draft[t] \in Draft /\ Stored(draft[t]) \in Draft \cup {NoText}
        /\ Stored(draft[t]) = draft[t] \/ Stored(draft[t]) = NoText
    BY DEF ComposerTypeOK, Stored
  <1>2. CASE t \in buffered
    <2>1. Flushed(t) = [storage EXCEPT ![shownRoom[t]] = Stored(draft[t])]
      BY <1>2 DEF Flushed
    <2>2. Flushed(t) \in [Room -> Draft \cup {NoText}]
      BY <1>1, <2>1
    <2>3. \A r \in Room : Flushed(t)[r] = IF r = shownRoom[t] THEN Stored(draft[t]) ELSE storage[r]
      BY <1>1, <2>1
    <2> HIDE DEF Flushed
    <2>4. SUFFICES ASSUME NEW r \in Room, Flushed(t)[r] # NoText, Flushed(t)[r].text # NoText
                   PROVE  [room |-> r, id |-> Flushed(t)[r].id, text |-> Flushed(t)[r].text] \in Uses
      BY <2>2
    <2>5. CASE r = shownRoom[t]
      <3>1. Flushed(t)[r] = draft[t]
        BY <1>1, <2>3, <2>4, <2>5
      <3> QED BY <2>4, <2>5, <3>1, UsesKept DEF DraftUse
    <2>6. CASE r # shownRoom[t]
      <3>1. Flushed(t)[r] = storage[r]
        BY <2>3, <2>6
      <3> QED BY <2>4, <3>1, UsesKept DEF StoredUse
    <2> QED BY <2>5, <2>6
  <1>3. CASE t \notin buffered
    <2>1. Flushed(t) = storage
      BY <1>3 DEF Flushed
    <2> QED BY <1>1, <2>1, UsesKept DEF StoredUse
  <1> QED BY <1>2, <1>3

LEMMA FlushDraftInd ==
  ASSUME ComposerInv, NEW t \in ComposerTab, FlushDraft(t)
  PROVE  ComposerInv'
  <1>1. /\ storage' = Flushed(t) /\ buffered' = buffered \ {t}
        /\ UNCHANGED <<shownRoom, draft, delivery, sentCall, reply, cache, network, posted, typed, replaced>>
    BY DEF FlushDraft
  <1>2. /\ storage' \in [Room -> Draft \cup {NoText}]
        /\ \A r \in Room : storage'[r] # NoText /\ storage'[r].text # NoText => StoredUse(r)' \in Uses
    BY <1>1, FlushedUses DEF ComposerInv, StoredUse
  <1>3. ComposerTypeOK'
    BY <1>1, <1>2 DEF ComposerInv, ComposerTypeOK
  <1>4. \A u \in ComposerTab : draft'[u].text # NoText => DraftUse(u)' \in Uses
    BY <1>1, UsesKept DEF DraftUse
  <1>5. /\ \A u \in ComposerTab : sentCall'[u] # NoText => sentCall'[u] \in Uses
        /\ network' \subseteq Uses /\ posted' \subseteq Uses
    BY <1>1, UsesKept
  <1> QED BY <1>1, <1>2, <1>3, <1>4, <1>5, UsesFrom, NoNewUseInd

(* A draft is sent, and stored, under the identifier it has on the screen.  *)
LEMMA SendDraftInd ==
  ASSUME ComposerInv, NEW t \in ComposerTab, SendDraft(t)
  PROVE  ComposerInv'
  <1> DEFINE attempt == [draft[t] EXCEPT !.attempted = draft[t].text]
  <1>1. /\ draft[t].text # NoText
        /\ draft' = [draft EXCEPT ![t] = attempt]
        /\ storage' = [storage EXCEPT ![shownRoom[t]] = draft'[t]]
        /\ delivery' = [delivery EXCEPT ![t] = draft[t].id]
        /\ sentCall' = [sentCall EXCEPT ![t] = DraftUse(t)]
        /\ reply' = [reply EXCEPT ![t] = "none"]
        /\ network' = network \cup {DraftUse(t)}
        /\ buffered' = buffered \ {t}
        /\ UNCHANGED <<shownRoom, cache, posted, typed, replaced>>
    BY DEF SendDraft, DraftUse
  <1>2. /\ draft \in [ComposerTab -> Draft] /\ draft[t] \in Draft /\ shownRoom[t] \in Room
        /\ storage \in [Room -> Draft \cup {NoText}]
        /\ delivery \in [ComposerTab -> Id \cup {NoText}]
        /\ sentCall \in [ComposerTab -> Sending \cup {NoText}]
        /\ reply \in [ComposerTab -> {"none", "saved", "failed"}]
    BY DEF ComposerInv, ComposerTypeOK
  <1>3. /\ attempt \in Draft /\ attempt.id = draft[t].id /\ attempt.text = draft[t].text
    BY <1>2 DEF Draft
  <1> HIDE DEF attempt
  <1>4. /\ draft'[t] = attempt /\ storage' = [storage EXCEPT ![shownRoom[t]] = attempt]
        /\ \A u \in ComposerTab \ {t} : draft'[u] = draft[u]
        /\ \A r \in Room : storage'[r] = IF r = shownRoom[t] THEN attempt ELSE storage[r]
        /\ \A u \in ComposerTab : sentCall'[u] = IF u = t THEN DraftUse(t) ELSE sentCall[u]
    BY <1>1, <1>2
  <1>5. DraftUse(t) \in Uses /\ DraftUse(t) \in Sending
    BY <1>1, UsesKept, UsesAreSendings DEF ComposerInv
  <1>6. ComposerTypeOK'
    <2>1. /\ draft' \in [ComposerTab -> Draft] /\ storage' \in [Room -> Draft \cup {NoText}]
          /\ sentCall' \in [ComposerTab -> Sending \cup {NoText}]
      BY <1>1, <1>2, <1>3, <1>4, <1>5
    <2>2. /\ delivery' \in [ComposerTab -> Id \cup {NoText}]
          /\ reply' \in [ComposerTab -> {"none", "saved", "failed"}]
      BY <1>1, <1>2 DEF Draft
    <2> QED BY <1>1, <1>5, <2>1, <2>2 DEF ComposerInv, ComposerTypeOK
  <1>7. \A u \in ComposerTab : draft'[u].text # NoText => DraftUse(u)' \in Uses
    BY <1>1, <1>3, <1>4, UsesKept DEF DraftUse
  <1>8. ASSUME NEW r \in Room, storage'[r] # NoText /\ storage'[r].text # NoText
        PROVE  StoredUse(r)' \in Uses
    <2>1. CASE r = shownRoom[t]
      <3>1. StoredUse(r)' = DraftUse(t)
        BY <1>3, <1>4, <2>1 DEF StoredUse, DraftUse
      <3> QED BY <1>5, <3>1
    <2>2. CASE r # shownRoom[t]
      BY <1>4, <1>8, <2>2, UsesKept DEF StoredUse
    <2> QED BY <2>1, <2>2
  <1>9. /\ \A u \in ComposerTab : sentCall'[u] # NoText => sentCall'[u] \in Uses
        /\ network' \subseteq Uses /\ posted' \subseteq Uses
    BY <1>1, <1>4, <1>5, UsesKept
  <1>10. Uses' \subseteq Uses
    BY <1>7, <1>8, <1>9, UsesFrom
  <1> QED BY <1>1, <1>6, <1>10, NoNewUseInd

(* Steps that leave screens, storage and calls alone.                       *)
LEMMA OnTheWayInd ==
  ASSUME ComposerInv, network' \subseteq Uses, posted' \subseteq Uses,
         reply' \in [ComposerTab -> {"none", "saved", "failed"}],
         cache' \in [ComposerTab -> SUBSET Id],
         \A m, n \in posted' : m.id = n.id /\ m.room = n.room => m = n,
         UNCHANGED <<shownRoom, draft, buffered, storage, delivery, sentCall, typed, replaced>>
  PROVE  ComposerInv'
  <1>1. network' \subseteq Sending /\ posted' \subseteq Sending
    BY UsesAreSendings DEF ComposerInv
  <1>2. ComposerTypeOK'
    BY <1>1 DEF ComposerInv, ComposerTypeOK
  <1>3. \A u \in ComposerTab : draft'[u].text # NoText => DraftUse(u)' \in Uses
    BY UsesKept DEF DraftUse
  <1>4. \A r \in Room : storage'[r] # NoText /\ storage'[r].text # NoText => StoredUse(r)' \in Uses
    BY UsesKept DEF StoredUse
  <1>5. \A u \in ComposerTab : sentCall'[u] # NoText => sentCall'[u] \in Uses
    BY UsesKept
  <1>6. Uses' \subseteq Uses
    BY <1>3, <1>4, <1>5, UsesFrom
  <1> QED BY <1>2, <1>6, NoNewUseInd

LEMMA ServeInd ==
  ASSUME ComposerInv, NEW c \in network, Serve(c)
  PROVE  ComposerInv'
  <1> DEFINE same == {m \in posted : m.room = c.room /\ m.id = c.id}
  <1>1. /\ network' = network \ {c}
        /\ posted' = IF same = {} THEN posted \cup {c} ELSE posted
        /\ reply' = [t \in ComposerTab |->
              IF sentCall[t] = c /\ reply[t] = "none"
              THEN IF c \in posted' THEN "saved" ELSE "failed"
              ELSE reply[t]]
        /\ UNCHANGED <<shownRoom, draft, buffered, storage, delivery, sentCall, cache, typed, replaced>>
    BY DEF Serve
  <1>2. reply \in [ComposerTab -> {"none", "saved", "failed"}]
    BY DEF ComposerInv, ComposerTypeOK
  <1>3. reply' \in [ComposerTab -> {"none", "saved", "failed"}]
    BY <1>1, <1>2
  <1>4. network' \subseteq Uses /\ posted' \subseteq Uses
    BY <1>1, UsesKept
  <1>5. \A m, n \in posted' : m.id = n.id /\ m.room = n.room => m = n
    BY <1>1 DEF ComposerInv, ComposerTypeOK
  <1>6. cache' \in [ComposerTab -> SUBSET Id]
    BY <1>1 DEF ComposerInv, ComposerTypeOK
  <1> QED BY <1>1, <1>3, <1>4, <1>5, <1>6, OnTheWayInd

LEMMA LoseInd ==
  ASSUME ComposerInv,
         (\E c \in network : LoseRequest(c)) \/ (\E t \in ComposerTab : LoseReply(t) \/ PollMessages(t))
  PROVE  ComposerInv'
  <1>1. /\ reply \in [ComposerTab -> {"none", "saved", "failed"}]
        /\ cache \in [ComposerTab -> SUBSET Id] /\ posted \subseteq Sending
        /\ \A m, n \in posted : m.id = n.id /\ m.room = n.room => m = n
    BY DEF ComposerInv, ComposerTypeOK
  <1>2. /\ network' \subseteq network /\ UNCHANGED posted
        /\ UNCHANGED <<shownRoom, draft, buffered, storage, delivery, sentCall, typed, replaced>>
    BY DEF LoseRequest, LoseReply, PollMessages
  <1>3. reply' \in [ComposerTab -> {"none", "saved", "failed"}]
    BY <1>1 DEF LoseRequest, LoseReply, PollMessages
  <1>4. cache' \in [ComposerTab -> SUBSET Id]
    <2>1. CASE UNCHANGED cache
      BY <1>1, <2>1
    <2>2. ASSUME NEW t \in ComposerTab, PollMessages(t)
          PROVE  cache' \in [ComposerTab -> SUBSET Id]
      <3> DEFINE polled == {m.id : m \in {n \in posted : n.room = shownRoom[t]}}
      <3>1. polled \subseteq Id
        BY <1>1 DEF Sending
      <3>2. cache' = [cache EXCEPT ![t] = cache[t] \cup polled]
        BY <2>2 DEF PollMessages
      <3> HIDE DEF polled
      <3> QED BY <1>1, <3>1, <3>2
    <2> QED BY <2>1, <2>2 DEF LoseRequest, LoseReply
  <1>5. network' \subseteq Uses /\ posted' \subseteq Uses
    BY <1>2, UsesKept
  <1> QED BY <1>1, <1>2, <1>3, <1>4, <1>5, OnTheWayInd

(* A screen that is cleared or recovered, and a storage that is cleared,     *)
(* hold nothing that was not in use before.                                  *)
LEMMA ScreenInd ==
  ASSUME ComposerInv, NEW t \in ComposerTab, NEW screen \in Draft, NEW next \in Room,
         draft' = [draft EXCEPT ![t] = screen],
         shownRoom' = [shownRoom EXCEPT ![t] = next],
         screen.text # NoText => [room |-> next, id |-> screen.id, text |-> screen.text] \in Uses,
         storage' \in [Room -> Draft \cup {NoText}],
         \A r \in Room : storage'[r] # NoText /\ storage'[r].text # NoText => StoredUse(r)' \in Uses,
         sentCall' \in {sentCall, [sentCall EXCEPT ![t] = NoText]},
         reply' \in {reply, [reply EXCEPT ![t] = "none"]},
         cache' \in {cache, [cache EXCEPT ![t] = {}]},
         delivery' \in {delivery, [delivery EXCEPT ![t] = NoText]},
         buffered' \subseteq buffered \cup {t},
         UNCHANGED <<network, posted, typed, replaced>>
  PROVE  ComposerInv'
  <1>1. /\ draft \in [ComposerTab -> Draft] /\ shownRoom \in [ComposerTab -> Room]
        /\ sentCall \in [ComposerTab -> Sending \cup {NoText}]
        /\ reply \in [ComposerTab -> {"none", "saved", "failed"}]
        /\ cache \in [ComposerTab -> SUBSET Id]
        /\ delivery \in [ComposerTab -> Id \cup {NoText}]
        /\ buffered \subseteq ComposerTab
    BY DEF ComposerInv, ComposerTypeOK
  <1>2. /\ draft' \in [ComposerTab -> Draft] /\ shownRoom' \in [ComposerTab -> Room]
        /\ buffered' \subseteq ComposerTab
    BY <1>1
  <1>3. sentCall' \in [ComposerTab -> Sending \cup {NoText}]
    BY <1>1
  <1>4. reply' \in [ComposerTab -> {"none", "saved", "failed"}]
    BY <1>1
  <1>5. cache' \in [ComposerTab -> SUBSET Id] /\ delivery' \in [ComposerTab -> Id \cup {NoText}]
    BY <1>1
  <1>6. ComposerTypeOK'
    BY <1>2, <1>3, <1>4, <1>5 DEF ComposerInv, ComposerTypeOK
  <1>7. ASSUME NEW u \in ComposerTab, draft'[u].text # NoText
        PROVE  DraftUse(u)' \in Uses
    <2>1. CASE u = t
      BY <1>1, <1>7, <2>1 DEF DraftUse
    <2>2. CASE u # t
      BY <1>1, <1>7, <2>2, UsesKept DEF DraftUse
    <2> QED BY <2>1, <2>2
  <1>8. \A u \in ComposerTab : sentCall'[u] # NoText => sentCall'[u] \in Uses
    BY <1>1, UsesKept
  <1>9. network' \subseteq Uses /\ posted' \subseteq Uses
    BY UsesKept
  <1>10. Uses' \subseteq Uses
    BY <1>7, <1>8, <1>9, UsesFrom
  <1> QED BY <1>6, <1>10, NoNewUseInd

LEMMA ClearDraftInd ==
  ASSUME ComposerInv, NEW t \in ComposerTab, NEW r \in Room, ClearDraft(t, r),
         sentCall' \in {sentCall, [sentCall EXCEPT ![t] = NoText]},
         reply' \in {reply, [reply EXCEPT ![t] = "none"]},
         UNCHANGED <<shownRoom, cache, network, posted, typed, replaced>>
  PROVE  ComposerInv'
  <1>1. /\ CanRandom /\ storage' = [storage EXCEPT ![r] = NoText]
        /\ draft' = [draft EXCEPT ![t] = EmptyDraft]
        /\ delivery' = [delivery EXCEPT ![t] = NoText]
        /\ buffered' = buffered \cup {t}
    BY DEF ClearDraft
  <1>2. EmptyDraft \in Draft /\ EmptyDraft.text = NoText
    BY <1>1, NewIdIsId
  <1>3. storage \in [Room -> Draft \cup {NoText}] /\ shownRoom \in [ComposerTab -> Room]
    BY DEF ComposerInv, ComposerTypeOK
  <1>4. storage' \in [Room -> Draft \cup {NoText}] /\ shownRoom' = [shownRoom EXCEPT ![t] = shownRoom[t]]
    BY <1>1, <1>3
  <1>5. \A q \in Room : storage'[q] # NoText /\ storage'[q].text # NoText => StoredUse(q)' \in Uses
    BY <1>1, <1>3, UsesKept DEF StoredUse
  <1>6. shownRoom[t] \in Room /\ buffered' \subseteq buffered \cup {t}
        /\ cache' \in {cache, [cache EXCEPT ![t] = {}]}
        /\ delivery' \in {delivery, [delivery EXCEPT ![t] = NoText]}
    BY <1>1, <1>3
  <1> QED BY <1>1, <1>2, <1>4, <1>5, <1>6, ScreenInd

LEMMA ReceiveInd ==
  ASSUME ComposerInv, NEW t \in ComposerTab, Receive(t) \/ RecoverSent(t)
  PROVE  ComposerInv'
  <1>1. /\ draft \in [ComposerTab -> Draft] /\ shownRoom \in [ComposerTab -> Room]
        /\ storage \in [Room -> Draft \cup {NoText}]
        /\ sentCall[t] \in Sending \cup {NoText}
    BY DEF ComposerInv, ComposerTypeOK
  <1>2. CASE RecoverSent(t)
    <2>1. ClearDraft(t, shownRoom[t]) /\ shownRoom[t] \in Room
          /\ UNCHANGED <<shownRoom, sentCall, reply, cache, network, posted, typed, replaced>>
      BY <1>1, <1>2 DEF RecoverSent
    <2> QED BY <2>1, ClearDraftInd
  <1>3. CASE Receive(t)
    <2>1. /\ Pending(t)
          /\ \/ ClearDraft(t, sentCall[t].room)
             \/ UNCHANGED <<draft, buffered, storage, delivery>>
          /\ sentCall' = [sentCall EXCEPT ![t] = NoText]
          /\ reply' = [reply EXCEPT ![t] = "none"]
          /\ UNCHANGED <<shownRoom, cache, network, posted, typed, replaced>>
      BY <1>3 DEF Receive
    <2>2. sentCall[t].room \in Room
      BY <1>1, <2>1 DEF Pending, Sending
    <2>3. CASE ClearDraft(t, sentCall[t].room)
      BY <2>1, <2>2, <2>3, ClearDraftInd
    <2>4. CASE UNCHANGED <<draft, buffered, storage, delivery>>
      <3>1. /\ draft' = [draft EXCEPT ![t] = draft[t]] /\ draft[t] \in Draft
            /\ shownRoom' = [shownRoom EXCEPT ![t] = shownRoom[t]] /\ shownRoom[t] \in Room
            /\ storage' \in [Room -> Draft \cup {NoText}]
        BY <1>1, <2>1, <2>4
      <3>2. draft[t].text # NoText =>
               [room |-> shownRoom[t], id |-> draft[t].id, text |-> draft[t].text] \in Uses
        BY UsesKept DEF DraftUse
      <3>3. \A q \in Room : storage'[q] # NoText /\ storage'[q].text # NoText => StoredUse(q)' \in Uses
        BY <2>4, UsesKept DEF StoredUse
      <3>4. buffered' \subseteq buffered \cup {t}
            /\ cache' \in {cache, [cache EXCEPT ![t] = {}]}
            /\ delivery' \in {delivery, [delivery EXCEPT ![t] = NoText]}
        BY <2>1, <2>4
      <3> QED BY <2>1, <3>1, <3>2, <3>3, <3>4, ScreenInd
    <2> QED BY <2>1, <2>3, <2>4
  <1> QED BY <1>2, <1>3

(* What is recovered for a room was stored for it.                          *)
LEMMA RecoveredUses ==
  ASSUME CanRandom, NEW s \in [Room -> Draft \cup {NoText}], NEW r \in Room,
         s[r] # NoText /\ s[r].text # NoText => [room |-> r, id |-> s[r].id, text |-> s[r].text] \in Uses
  PROVE  /\ Recovered(s, r) \in Draft
         /\ Recovered(s, r).text # NoText =>
              [room |-> r, id |-> Recovered(s, r).id, text |-> Recovered(s, r).text] \in Uses
  <1>1. EmptyDraft \in Draft /\ EmptyDraft.text = NoText
    BY NewIdIsId
  <1>2. CASE s[r] # NoText
    BY <1>2 DEF Recovered
  <1>3. CASE s[r] = NoText
    BY <1>1, <1>3 DEF Recovered
  <1> QED BY <1>2, <1>3

LEMMA SelectConversationInd ==
  ASSUME ComposerInv, NEW t \in ComposerTab, NEW r \in Room, SelectConversation(t, r)
  PROVE  ComposerInv'
  <1>1. /\ CanRandom /\ storage' = Flushed(t)
        /\ shownRoom' = [shownRoom EXCEPT ![t] = r]
        /\ draft' = [draft EXCEPT ![t] = Recovered(storage', r)]
        /\ buffered' = buffered \ {t}
        /\ delivery' = [delivery EXCEPT ![t] = NoText]
        /\ UNCHANGED <<sentCall, reply, cache, network, posted, typed, replaced>>
    BY DEF SelectConversation
  <1>2. /\ storage' \in [Room -> Draft \cup {NoText}]
        /\ \A q \in Room : storage'[q] # NoText /\ storage'[q].text # NoText => StoredUse(q)' \in Uses
    BY <1>1, FlushedUses DEF ComposerInv, StoredUse
  <1>3. storage'[r] # NoText /\ storage'[r].text # NoText =>
           [room |-> r, id |-> storage'[r].id, text |-> storage'[r].text] \in Uses
    BY <1>2 DEF StoredUse
  <1> DEFINE screen == Recovered(storage', r)
  <1>4. /\ screen \in Draft
        /\ screen.text # NoText => [room |-> r, id |-> screen.id, text |-> screen.text] \in Uses
    BY <1>1, <1>2, <1>3, RecoveredUses
  <1>5. draft' = [draft EXCEPT ![t] = screen]
    BY <1>1
  <1>6. /\ buffered' \subseteq buffered \cup {t}
        /\ sentCall' \in {sentCall, [sentCall EXCEPT ![t] = NoText]}
        /\ reply' \in {reply, [reply EXCEPT ![t] = "none"]}
        /\ cache' \in {cache, [cache EXCEPT ![t] = {}]}
        /\ delivery' \in {delivery, [delivery EXCEPT ![t] = NoText]}
    BY <1>1
  <1> HIDE DEF screen
  <1> QED BY <1>1, <1>2, <1>4, <1>5, <1>6, ScreenInd

LEMMA ReloadInd ==
  ASSUME ComposerInv, NEW t \in ComposerTab, Reload(t)
  PROVE  ComposerInv'
  <1> DEFINE r == shownRoom[t]
             screen == Recovered(storage, r)
  <1>1. /\ CanRandom /\ draft' = [draft EXCEPT ![t] = screen]
        /\ buffered' = buffered \ {t}
        /\ delivery' = [delivery EXCEPT ![t] = NoText]
        /\ sentCall' = [sentCall EXCEPT ![t] = NoText]
        /\ reply' = [reply EXCEPT ![t] = "none"]
        /\ cache' = [cache EXCEPT ![t] = {}]
        /\ UNCHANGED <<shownRoom, storage, network, posted, typed, replaced>>
    BY DEF Reload
  <1>2. /\ storage \in [Room -> Draft \cup {NoText}] /\ shownRoom \in [ComposerTab -> Room] /\ r \in Room
    BY DEF ComposerInv, ComposerTypeOK
  <1>3. storage[r] # NoText /\ storage[r].text # NoText =>
           [room |-> r, id |-> storage[r].id, text |-> storage[r].text] \in Uses
    BY <1>2, UsesKept DEF StoredUse
  <1>4. /\ screen \in Draft
        /\ screen.text # NoText => [room |-> r, id |-> screen.id, text |-> screen.text] \in Uses
    BY <1>1, <1>2, <1>3, RecoveredUses
  <1>5. \A q \in Room : storage'[q] # NoText /\ storage'[q].text # NoText => StoredUse(q)' \in Uses
    BY <1>1, UsesKept DEF StoredUse
  <1>6. shownRoom' = [shownRoom EXCEPT ![t] = r] /\ storage' \in [Room -> Draft \cup {NoText}]
    BY <1>1, <1>2
  <1>7. /\ buffered' \subseteq buffered \cup {t}
        /\ sentCall' \in {sentCall, [sentCall EXCEPT ![t] = NoText]}
        /\ reply' \in {reply, [reply EXCEPT ![t] = "none"]}
        /\ cache' \in {cache, [cache EXCEPT ![t] = {}]}
        /\ delivery' \in {delivery, [delivery EXCEPT ![t] = NoText]}
    BY <1>1
  <1> HIDE DEF screen, r
  <1> QED BY <1>1, <1>2, <1>4, <1>5, <1>6, <1>7, ScreenInd

LEMMA ComposerStep == ComposerInv /\ [ComposerNext]_composerVars => ComposerInv'
  <1> SUFFICES ASSUME ComposerInv, [ComposerNext]_composerVars PROVE ComposerInv'
    OBVIOUS
  <1>1. ASSUME NEW t \in ComposerTab, \E x \in Text \cup {NoText} : UpdateDraft(t, x)
        PROVE  ComposerInv'
    BY <1>1, UpdateDraftInd
  <1>2. ASSUME NEW t \in ComposerTab, FlushDraft(t) \/ SendDraft(t)
        PROVE  ComposerInv'
    BY <1>2, FlushDraftInd, SendDraftInd
  <1>3. ASSUME NEW t \in ComposerTab, LoseReply(t) \/ PollMessages(t)
        PROVE  ComposerInv'
    BY <1>3, LoseInd
  <1>4. ASSUME NEW t \in ComposerTab, Receive(t) \/ RecoverSent(t)
        PROVE  ComposerInv'
    BY <1>4, ReceiveInd
  <1>5. ASSUME NEW t \in ComposerTab, Reload(t) \/ \E r \in Room : SelectConversation(t, r)
        PROVE  ComposerInv'
    BY <1>5, ReloadInd, SelectConversationInd
  <1>6. ASSUME NEW c \in network, Serve(c) \/ LoseRequest(c)
        PROVE  ComposerInv'
    BY <1>6, ServeInd, LoseInd
  <1>7. CASE UNCHANGED composerVars
    <2>1. /\ network' \subseteq Uses /\ posted' \subseteq Uses
          /\ UNCHANGED <<shownRoom, draft, buffered, storage, delivery, sentCall, typed, replaced,
                         reply, cache, posted>>
      BY <1>7, UsesKept DEF composerVars
    <2>2. /\ reply' \in [ComposerTab -> {"none", "saved", "failed"}]
          /\ cache' \in [ComposerTab -> SUBSET Id]
          /\ \A m, n \in posted' : m.id = n.id /\ m.room = n.room => m = n
      BY <2>1 DEF ComposerInv, ComposerTypeOK
    <2> QED BY <2>1, <2>2, OnTheWayInd
  <1> QED BY <1>1, <1>2, <1>3, <1>4, <1>5, <1>6, <1>7 DEF ComposerNext

(* What was typed is posted once, and in the room it was typed in, whatever  *)
(* is lost, sent again, reloaded or typed in other tabs: for any number of   *)
(* tabs, rooms and texts.                                                    *)
THEOREM ComposerPostsOnce ==
    ComposerSpec => [](ComposerTypeOK /\ PostedOnce /\ PostedWhereWritten)
  <1>1. ComposerInv => ComposerTypeOK /\ PostedOnce /\ PostedWhereWritten
    <2> SUFFICES ASSUME ComposerInv PROVE ComposerTypeOK /\ PostedOnce /\ PostedWhereWritten
      OBVIOUS
    <2>1. PostedWhereWritten
      BY UsesKept DEF ComposerInv, WhereWritten, PostedWhereWritten
    <2>2. \A m, n \in posted : m.text = n.text => m.id = n.id /\ m.room = n.room
      BY <2>1, UsesKept DEF ComposerInv, OneIdPerText, PostedWhereWritten
    <2>3. PostedOnce
      BY <2>2 DEF ComposerInv, ComposerTypeOK, PostedOnce
    <2> QED BY <2>1, <2>3 DEF ComposerInv
  <1> QED BY <1>1, ComposerInitInd, ComposerStep, PTL DEF ComposerSpec

=============================================================================
