------------------------------- MODULE Sharing -------------------------------
(***************************************************************************)
(* A plan or an idea is shared from a form: a room for the people that were  *)
(* chosen.  A form that saves the record shares it under a key derived from  *)
(* the key of the save, as often as the save is sent again; the dialog that  *)
(* includes people in a record that is there shares under a key of its own.  *)
(* A record may be shared from many forms, and has a room for each.  Each    *)
(* tab keeps a journal of what it shares; all of them write the part that is *)
(* not confirmed to one place of the browser's storage.                      *)
(***************************************************************************)
EXTENDS Integers, FiniteSets

CONSTANTS
    Tab,
    Uuid,           \* as many random identifiers are drawn
    People,         \* choices of people
    MaxLoads,       \* a tab is loaded this often
    MaxExpired      \* this many keys grow a day old and are forgotten

ASSUME SharingAssumption ==
    /\ MaxLoads \in Nat \ {0}
    /\ MaxExpired \in Nat

VARIABLES
    drawn,      \* the identifiers that were drawn
    forms,      \* the open forms of each tab, with the keys of their saves
    journal,    \* the jobs of each tab
    stored,     \* the jobs in the browser's storage
    recovering, \* what a tab has read from it and not merged yet
    loads,      \* how often each tab was loaded
    calls,      \* requests under way
    rooms,      \* of the server, with the request that made each
    records,    \* the requests whose key the server remembers
    submitted   \* the jobs that were ever put into a journal

sharingVars == <<drawn, forms, journal, stored, recovering, loads, calls, rooms, records, submitted>>

(* The digits of an identifier and its version: 4 of one that was drawn, 8 of *)
(* one that was derived from it.                                              *)
Key == Uuid \X {4, 8}
Form == [id : Uuid, saves : BOOLEAN]
ShareJob == [key : Key, form : Form, people : People, room : BOOLEAN]
ShareCall == [tab : Tab, load : 1..MaxLoads, job : ShareJob, answer : {"none", "ok", "refused"}]

SharingInit ==
    /\ drawn = {}
    /\ forms = [t \in Tab |-> {}]
    /\ journal = [t \in Tab |-> {}]
    /\ stored = {}
    /\ recovering = [t \in Tab |-> {}]
    /\ loads = [t \in Tab |-> 1]
    /\ calls = {} /\ rooms = {} /\ records = {} /\ submitted = {}

-----------------------------------------------------------------------------
unconfirmed(jobs) == {entry \in jobs : ~entry.room}
keys(jobs) == {entry.key : entry \in jobs}
running(t) == {call.job.key : call \in {c \in calls : c.tab = t /\ c.load = loads[t]}}

(* A wrong journal: it is stored when the page is left. *)
persistLater(t, jobs) == journal' = [journal EXCEPT ![t] = jobs] /\ UNCHANGED stored

(* The journal of this tab takes the place of what any tab had stored. *)
persist(t, jobs) ==
    /\ journal' = [journal EXCEPT ![t] = jobs]
    /\ stored' = unconfirmed(jobs)

(* A job that was submitted meanwhile wins over its older version. *)
merged(t) == {entry \in recovering[t] : entry.key \notin keys(journal[t])} \cup journal[t]

recover(t) ==
    /\ recovering[t] # {}
    /\ journal' = [journal EXCEPT ![t] = merged(t)]
    /\ recovering' = [recovering EXCEPT ![t] = {}]
    /\ UNCHANGED <<drawn, forms, stored, loads, calls, rooms, records, submitted>>

(* A tab that is loaded again forgets all but the storage and its forms. *)
load(t) ==
    /\ loads[t] < MaxLoads
    /\ loads' = [loads EXCEPT ![t] = @ + 1]
    /\ journal' = [journal EXCEPT ![t] = {}]
    /\ recovering' = [recovering EXCEPT ![t] = stored]
    /\ UNCHANGED <<drawn, forms, stored, calls, rooms, records, submitted>>

sendShare(t, entry) ==
    calls' = IF entry.room \/ entry.key \in running(t) THEN calls
             ELSE calls \cup {[tab |-> t, load |-> loads[t], job |-> entry, answer |-> "none"]}

draw(id) == id \notin drawn /\ drawn' = drawn \cup {id}

(* A form is opened, for a record that is new or is changed, under a new key, *)
(* or from the draft of one that is open, in this tab or another, under its.  *)
openForm(t, form) ==
    /\ form.saves /\ form \notin forms[t]
    /\ draw(form.id) \/ (UNCHANGED drawn /\ \E u \in Tab : form \in forms[u])
    /\ forms' = [forms EXCEPT ![t] = @ \cup {form}]
    /\ UNCHANGED <<journal, stored, recovering, loads, calls, rooms, records, submitted>>

closeForm(t, form) ==
    /\ form \in forms[t]
    /\ forms' = [forms EXCEPT ![t] = @ \ {form}]
    /\ UNCHANGED <<drawn, journal, stored, recovering, loads, calls, rooms, records, submitted>>

shareKey(form) == <<form.id, IF form.saves THEN 8 ELSE 4>>

shareUnder(t, key, form, people) ==
    LET entry == [key |-> key, form |-> form, people |-> people, room |-> FALSE] IN
    /\ \/ /\ \E existing \in journal[t] : existing.key = key /\ sendShare(t, existing)
          /\ UNCHANGED <<journal, stored, submitted>>
       \/ /\ key \notin keys(journal[t])
          /\ persist(t, journal[t] \cup {entry})
          /\ sendShare(t, entry)
          /\ submitted' = submitted \cup {entry}
    /\ UNCHANGED <<forms, recovering, loads, rooms, records>>

(* A wrong form: it does not say under which key it saved. *)
shareAnew(t, form, people) ==
    /\ form \in forms[t]
    /\ UNCHANGED drawn
    /\ \E id \in Uuid : shareUnder(t, <<id, 4>>, form, people)

(* The record of a form was saved, perhaps a second time under its key: the   *)
(* form stays open while what follows the save fails, or the page is left.    *)
share(t, form, people) ==
    /\ form \in forms[t]
    /\ UNCHANGED drawn
    /\ shareUnder(t, shareKey(form), form, people)

(* Include people in a record that is there, which may have a room already.   *)
shareExisting(t, form, people) ==
    /\ ~form.saves /\ draw(form.id)
    /\ shareUnder(t, shareKey(form), form, people)

retryShare(t, entry) ==
    /\ entry \in journal[t] /\ ~entry.room /\ entry.key \notin running(t)
    /\ sendShare(t, entry)
    /\ UNCHANGED <<drawn, forms, journal, stored, recovering, loads, rooms, records, submitted>>

dismiss(t, entry) ==
    /\ entry \in journal[t] /\ entry.room
    /\ persist(t, journal[t] \ {entry})
    /\ UNCHANGED <<drawn, forms, recovering, loads, calls, rooms, records, submitted>>

-----------------------------------------------------------------------------
sameKey(record, entry) == record.key = entry.key

sameRequest(record, entry) ==
    /\ record.key = entry.key
    /\ record.form = entry.form /\ record.people = entry.people

(* Under one key one request is executed; the same request is answered again, *)
(* and a different one is refused.                                            *)
createConversation(call) ==
    LET entry == call.job
        room == [key |-> entry.key, form |-> entry.form, people |-> entry.people,
                 number |-> Cardinality(rooms)]
        settle(result) == calls' = (calls \ {call}) \cup {[call EXCEPT !.answer = result]} IN
    /\ call.answer = "none"
    /\ \/ /\ entry.key \notin keys(records)
          /\ rooms' = rooms \cup {room}
          /\ records' = records \cup {room}
          /\ settle("ok")
       \/ /\ \E record \in records : sameRequest(record, entry)
          /\ settle("ok")
          /\ UNCHANGED <<rooms, records>>
       \/ /\ \E record \in records : record.key = entry.key /\ ~sameRequest(record, entry)
          /\ settle("refused")
          /\ UNCHANGED <<rooms, records>>
    /\ UNCHANGED <<drawn, forms, journal, stored, recovering, loads, submitted>>

expire(record) ==
    /\ Cardinality(rooms) - Cardinality(records) < MaxExpired
    /\ records' = records \ {record}
    /\ UNCHANGED <<drawn, forms, journal, stored, recovering, loads, calls, rooms, submitted>>

(* The answer comes to the tab that sent the request, if it was not loaded since. *)
confirmShare(call) ==
    LET t == call.tab IN
    /\ call.answer = "ok" /\ call.load = loads[t]
    /\ persist(t, {IF entry.key = call.job.key THEN [entry EXCEPT !.room = TRUE] ELSE entry :
                       entry \in journal[t]})
    /\ calls' = calls \ {call}
    /\ UNCHANGED <<drawn, forms, recovering, loads, rooms, records, submitted>>

(* It was refused, or did not arrive, or its answer did not: an error is shown. *)
failShare(call) ==
    /\ calls' = calls \ {call}
    /\ UNCHANGED <<drawn, forms, journal, stored, recovering, loads, rooms, records, submitted>>

SharingNext ==
    \/ \E t \in Tab : recover(t) \/ load(t)
    \/ \E t \in Tab, form \in Form : openForm(t, form) \/ closeForm(t, form)
    \/ \E t \in Tab, form \in Form, people \in People :
          share(t, form, people) \/ shareExisting(t, form, people)
    \/ \E t \in Tab : \E entry \in journal[t] : retryShare(t, entry) \/ dismiss(t, entry)
    \/ \E call \in calls : createConversation(call) \/ confirmShare(call) \/ failShare(call)
    \/ \E record \in records : expire(record)

SharingSpec == SharingInit /\ [][SharingNext]_sharingVars

-----------------------------------------------------------------------------
OnePerKey(entries) == \A entry, other \in entries : entry.key = other.key => entry = other

SharingTypeOK ==
    /\ drawn \subseteq Uuid
    /\ forms \in [Tab -> SUBSET Form]
    /\ journal \in [Tab -> SUBSET ShareJob]
    /\ \A t \in Tab : OnePerKey(journal[t])
    /\ stored \subseteq unconfirmed(ShareJob)
    /\ recovering \in [Tab -> SUBSET unconfirmed(ShareJob)]
    /\ loads \in [Tab -> 1..MaxLoads]
    /\ calls \subseteq ShareCall
    /\ rooms \subseteq [key : Key, form : Form, people : People, number : Nat]
    /\ records \subseteq rooms /\ OnePerKey(records)
    /\ submitted \subseteq ShareJob

(* What a form saved and shared is announced once, whatever is sent again by  *)
(* which tab, and so is what one dialog shared.                               *)
OneRoomPerForm ==
    \A room, other \in rooms : room.form = other.form => room = other

(* The notice "Shared with your selected people" is true of the people that *)
(* the notice is about.                                                     *)
ConfirmedAsChosen ==
    \A t \in Tab : \A entry \in journal[t] : entry.room =>
        \E room \in rooms : room.form = entry.form /\ room.people = entry.people

(* A job stays in its page, with the people that were chosen there, until it *)
(* is confirmed: what is recovered late never takes its place.               *)
NoticesStay ==
    [][\A t \in Tab : \A entry \in unconfirmed(journal[t]) :
          \/ {entry, [entry EXCEPT !.room = TRUE]} \cap journal'[t] # {}
          \/ loads'[t] # loads[t]]_sharingVars

(* What a form submitted is announced, or can be tried again from a page that is *)
(* open or from one that is loaded again.                                     *)
CanBeRetried ==
    \A entry \in submitted :
        \/ \E room \in rooms : room.form = entry.form
        \/ entry.key \in keys(stored)
        \/ \E t \in Tab : entry.key \in keys(journal[t]) \cup keys(recovering[t])

(* The part of the journal of one tab takes the place of what another one, or *)
(* the same one before it recovered, had stored of another form.              *)
OneFormIsShared == \A entry, other \in submitted : entry.form = other.form

(* Each form, and each dialog, announces its record once as long as the       *)
(* server remembers the keys; a notice is true of the people it is about, and *)
(* stays until it is confirmed; and what was submitted can be tried again if  *)
(* it is all that was.                                                        *)
SharingKept ==
    /\ [](/\ SharingTypeOK /\ ConfirmedAsChosen
          /\ records = rooms => OneRoomPerForm
          /\ OneFormIsShared => CanBeRetried)
    /\ NoticesStay
=============================================================================
