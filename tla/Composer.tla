------------------------------ MODULE Composer ------------------------------
(***************************************************************************)
(* The message composer of the web application: a draft on screen, its copy  *)
(* in the browser's storage, the send that is under way, and the server that *)
(* keeps one message for each client identifier (see Messages).              *)
(*                                                                          *)
(* A draft's client message identifier and idempotency key are always made   *)
(* and replaced together and are one identifier here.  Each text is typed    *)
(* once, so that two messages with one text are a duplicate; a text stands   *)
(* for the fingerprint of body and reply target.  Requests and answers may   *)
(* be lost, a request may arrive after its sender gave up on it, and a tab   *)
(* may be reloaded at any time.                                              *)
(***************************************************************************)

CONSTANTS
    ComposerTab,    \* tabs of one user in one browser
    Room,
    Text,
    Written,        \* the room where each text is typed
    Id,
    NoText

ASSUME ComposerAssumption == Written \in [Text -> Room] /\ NoText \notin Text \cup Id \cup Room

Draft == [text : Text \cup {NoText}, id : Id, attempted : Text \cup {NoText}]

Sending == [room : Room, id : Id, text : Text]

VARIABLES
    shownRoom,      \* the conversation each tab shows
    draft,
    buffered,       \* the tabs with a draft not yet written to storage
    storage,        \* the stored draft of each room
    delivery,       \* the identifier each tab shows as being delivered
    sentCall,       \* what the send that a tab waits for has sent
    reply,          \* "none", "saved" or "failed"
    cache,          \* the identifiers each tab has seen in its message list
    network,        \* requests on their way
    posted,         \* the messages on the server
    typed,          \* texts somebody has typed
    replaced        \* and typed over

composerVars == <<shownRoom, draft, buffered, storage, delivery, sentCall, reply, cache, network,
          posted, typed, replaced>>

-----------------------------------------------------------------------------
Pending(t) == sentCall[t] # NoText

Used == {draft[t].id : t \in ComposerTab} \cup {c.id : c \in network \cup posted}
        \cup {storage[r].id : r \in {q \in Room : storage[q] # NoText}}
        \cup {sentCall[t].id : t \in {u \in ComposerTab : Pending(u)}}

(* crypto.randomUUID *)
NewId == CHOOSE i \in Id : i \notin Used

CanRandom == Id \ Used # {}

EmptyDraft == [text |-> NoText, id |-> NewId, attempted |-> NoText]

(* An empty draft removes what is stored. *)
Stored(d) == IF d.text = NoText /\ d.attempted = NoText THEN NoText ELSE d

(* Flush: what is buffered reaches the storage before anything else. *)
Flushed(t) == IF t \in buffered THEN [storage EXCEPT ![shownRoom[t]] = Stored(draft[t])] ELSE storage

Recovered(s, r) == IF s[r] # NoText THEN s[r] ELSE EmptyDraft

SeenInCache(t, i) == i \in cache[t]

ComposerInit ==
    /\ shownRoom \in [ComposerTab -> Room]
    /\ \E f \in [ComposerTab -> Id] :
        /\ \A t, u \in ComposerTab : f[t] = f[u] => t = u
        /\ draft = [t \in ComposerTab |-> [text |-> NoText, id |-> f[t], attempted |-> NoText]]
    /\ buffered = {}
    /\ storage = [r \in Room |-> NoText]
    /\ delivery = [t \in ComposerTab |-> NoText]
    /\ sentCall = [t \in ComposerTab |-> NoText]
    /\ reply = [t \in ComposerTab |-> "none"]
    /\ cache = [t \in ComposerTab |-> {}]
    /\ network = {}
    /\ posted = {}
    /\ typed = {}
    /\ replaced = {}

-----------------------------------------------------------------------------
(* Typing is off while a send is pending.  A draft that differs from what    *)
(* was attempted is another message and gets another identifier.             *)
UpdateDraft(t, x) ==
    LET old == draft[t]
        changed == old.attempted # NoText /\ x # old.attempted
    IN  /\ ~Pending(t)
        /\ x \notin typed /\ x # old.text
        /\ x # NoText => Written[x] = shownRoom[t]
        /\ changed => CanRandom
        /\ draft' = [draft EXCEPT ![t] =
                IF changed THEN [text |-> x, id |-> NewId, attempted |-> NoText]
                           ELSE [old EXCEPT !.text = x]]
        /\ delivery' = [delivery EXCEPT ![t] = IF changed THEN NoText ELSE @]
        /\ buffered' = buffered \cup {t}
        /\ typed' = typed \cup ({x} \ {NoText})
        /\ replaced' = replaced \cup ({old.text} \ {NoText})
        /\ UNCHANGED <<shownRoom, storage, sentCall, reply, cache, network, posted>>

(* The timer, the loss of focus, a page that is hidden. *)
FlushDraft(t) ==
    /\ t \in buffered
    /\ storage' = Flushed(t)
    /\ buffered' = buffered \ {t}
    /\ UNCHANGED <<shownRoom, draft, delivery, sentCall, reply, cache, network, posted, typed, replaced>>

(* A wrong send: the attempt gets an identifier of its own. *)
SendWithNewId(t) ==
    LET request == [room |-> shownRoom[t], id |-> NewId, text |-> draft[t].text] IN
    /\ ~Pending(t)
    /\ draft[t].text # NoText
    /\ CanRandom
    /\ draft' = [draft EXCEPT ![t] = [@ EXCEPT !.attempted = draft[t].text, !.id = NewId]]
    /\ storage' = [storage EXCEPT ![shownRoom[t]] = draft'[t]]
    /\ delivery' = [delivery EXCEPT ![t] = NewId]
    /\ sentCall' = [sentCall EXCEPT ![t] = request]
    /\ reply' = [reply EXCEPT ![t] = "none"]
    /\ network' = network \cup {request}
    /\ buffered' = buffered \ {t}
    /\ UNCHANGED <<shownRoom, cache, posted, typed, replaced>>

(* The attempt is stored before the request leaves. *)
SendDraft(t) ==
    LET request == [room |-> shownRoom[t], id |-> draft[t].id, text |-> draft[t].text] IN
    /\ ~Pending(t)
    /\ draft[t].text # NoText
    /\ draft' = [draft EXCEPT ![t].attempted = draft[t].text]
    /\ storage' = [storage EXCEPT ![shownRoom[t]] = draft'[t]]
    /\ delivery' = [delivery EXCEPT ![t] = draft[t].id]
    /\ sentCall' = [sentCall EXCEPT ![t] = request]
    /\ reply' = [reply EXCEPT ![t] = "none"]
    /\ network' = network \cup {request}
    /\ buffered' = buffered \ {t}
    /\ UNCHANGED <<shownRoom, cache, posted, typed, replaced>>

(* The server keeps the first message of an identifier, answers the same     *)
(* message with it, and refuses another text.                                *)
Serve(c) ==
    LET same == {m \in posted : m.room = c.room /\ m.id = c.id} IN
    /\ c \in network
    /\ network' = network \ {c}
    /\ posted' = IF same = {} THEN posted \cup {c} ELSE posted
    /\ reply' = [t \in ComposerTab |->
            IF sentCall[t] = c /\ reply[t] = "none"
            THEN IF c \in posted' THEN "saved" ELSE "failed"
            ELSE reply[t]]
    /\ UNCHANGED <<shownRoom, draft, buffered, storage, delivery, sentCall, cache, typed, replaced>>

LoseRequest(c) ==
    /\ c \in network
    /\ network' = network \ {c}
    /\ UNCHANGED <<shownRoom, draft, buffered, storage, delivery, sentCall, reply, cache, posted, typed, replaced>>

(* The connection fails: the tab learns nothing of what becomes of it. *)
LoseReply(t) ==
    /\ Pending(t) /\ reply[t] # "failed"
    /\ reply' = [reply EXCEPT ![t] = "failed"]
    /\ UNCHANGED <<shownRoom, draft, buffered, storage, delivery, sentCall, cache, network, posted, typed, replaced>>

-----------------------------------------------------------------------------
(* A message known to be on the server: the stored draft of its room goes,   *)
(* and the composer starts afresh, whatever room it shows by now.            *)
ClearDraft(t, r) ==
    /\ CanRandom
    /\ storage' = [storage EXCEPT ![r] = NoText]
    /\ draft' = [draft EXCEPT ![t] = EmptyDraft]
    /\ delivery' = [delivery EXCEPT ![t] = NoText]
    /\ buffered' = buffered \cup {t}

(* A send that failed may have succeeded, if its message is in the list. *)
Receive(t) ==
    /\ Pending(t)
    /\ reply[t] # "none"
    /\ IF reply[t] = "saved" \/ SeenInCache(t, sentCall[t].id)
       THEN ClearDraft(t, sentCall[t].room)
       ELSE UNCHANGED <<draft, buffered, storage, delivery>>
    /\ sentCall' = [sentCall EXCEPT ![t] = NoText]
    /\ reply' = [reply EXCEPT ![t] = "none"]
    /\ UNCHANGED <<shownRoom, cache, network, posted, typed, replaced>>

(* The list is polled. *)
PollMessages(t) ==
    /\ cache' = [cache EXCEPT ![t] = @ \cup {m.id : m \in {n \in posted : n.room = shownRoom[t]}}]
    /\ UNCHANGED <<shownRoom, draft, buffered, storage, delivery, sentCall, reply, network, posted, typed, replaced>>

(* The message being delivered turns up in the list. *)
RecoverSent(t) ==
    /\ delivery[t] # NoText
    /\ SeenInCache(t, delivery[t])
    /\ ClearDraft(t, shownRoom[t])
    /\ UNCHANGED <<shownRoom, sentCall, reply, cache, network, posted, typed, replaced>>

-----------------------------------------------------------------------------

(* Another conversation: its button is off while a send is pending, the      *)
(* address of the page is not.                                               *)
SelectConversation(t, r) ==
    /\ r # shownRoom[t]
    /\ CanRandom
    /\ storage' = Flushed(t)
    /\ shownRoom' = [shownRoom EXCEPT ![t] = r]
    /\ draft' = [draft EXCEPT ![t] = Recovered(storage', r)]
    /\ buffered' = buffered \ {t}
    /\ delivery' = [delivery EXCEPT ![t] = NoText]
    /\ UNCHANGED <<sentCall, reply, cache, network, posted, typed, replaced>>

(* The page is loaded again: the storage is all that is left of the tab. *)
Reload(t) ==
    /\ CanRandom
    /\ draft' = [draft EXCEPT ![t] = Recovered(storage, shownRoom[t])]
    /\ buffered' = buffered \ {t}
    /\ delivery' = [delivery EXCEPT ![t] = NoText]
    /\ sentCall' = [sentCall EXCEPT ![t] = NoText]
    /\ reply' = [reply EXCEPT ![t] = "none"]
    /\ cache' = [cache EXCEPT ![t] = {}]
    /\ UNCHANGED <<shownRoom, storage, network, posted, typed, replaced>>

-----------------------------------------------------------------------------
ComposerNext ==
    \/ \E t \in ComposerTab :
        \/ \E x \in Text \cup {NoText} : UpdateDraft(t, x)
        \/ FlushDraft(t) \/ SendDraft(t) \/ LoseReply(t) \/ Receive(t)
        \/ PollMessages(t) \/ RecoverSent(t) \/ Reload(t)
        \/ \E r \in Room : SelectConversation(t, r)
    \/ \E c \in network : Serve(c) \/ LoseRequest(c)

ComposerSpec == ComposerInit /\ [][ComposerNext]_composerVars

-----------------------------------------------------------------------------
(* An identifier names one message of a room, what is on its way or stored   *)
(* included.                                                                 *)
ComposerTypeOK ==
    /\ shownRoom \in [ComposerTab -> Room]
    /\ draft \in [ComposerTab -> Draft]
    /\ buffered \subseteq ComposerTab
    /\ storage \in [Room -> Draft \cup {NoText}]
    /\ delivery \in [ComposerTab -> Id \cup {NoText}]
    /\ sentCall \in [ComposerTab -> Sending \cup {NoText}]
    /\ reply \in [ComposerTab -> {"none", "saved", "failed"}]
    /\ cache \in [ComposerTab -> SUBSET Id]
    /\ network \subseteq Sending
    /\ posted \subseteq Sending
    /\ typed \subseteq Text /\ replaced \subseteq typed
    /\ \A m, n \in posted : m.id = n.id /\ m.room = n.room => m = n

(* sendMessage with findMessageInCache: a text is posted once, over lost     *)
(* answers, retries, reloads and two tabs that share a draft.                *)
PostedOnce == \A m, n \in posted : m.text = n.text => m = n

OnScreen(x) == \E t \in ComposerTab : draft[t].text = x

InStorage(x) == \E r \in Room : storage[r] # NoText /\ storage[r].text = x

IsPosted(x) == \E m \in posted : m.text = x

(* docs/phase-4-collaboration-runtime.md:70, the draft recovered for a room: *)
(* what has reached the storage leaves screen and storage only for the      *)
(* server or for another text typed over it.                                *)
keepsDrafts ==
    \A x \in Text : InStorage(x) /\ ~IsPosted(x)' /\ x \notin replaced' => OnScreen(x)' \/ InStorage(x)'

DraftsAreKept == [][keepsDrafts]_composerVars

(* sendMessage, SelectConversation: a message is posted in the room where it *)
(* was written, whatever room is shown when it leaves or is answered.        *)
PostedWhereWritten == \A m \in posted : m.room = Written[m.text]
=============================================================================
