------------------------------- MODULE MCPages ------------------------------
(* What the pages of one or several browsers show, and change, of what the *)
(* server has: version tags beside the copy of the application data, the   *)
(* inbox, sharing, the composer, messages and the event feed. They share   *)
(* no state, so each behaviour moves one of them, which focus names, and   *)
(* the others stay as they began. Some move under several foci: sharing    *)
(* from one form in two tabs, from two forms in two tabs, or in one tab    *)
(* with keys that are forgotten; the composer with two tabs and one text,  *)
(* or with one tab and two texts in one room or in two; messages in their  *)
(* order, or one message from its sending to its redaction.                *)
EXTENDS VersionTags, Snapshot, Feed, Inbox, Messages, Sharing, Composer, TLC

CONSTANTS a, b, few, all, v1, v2, r1, r2, i1, i2, w1, w2, t1, t2, q1, q2, y1, y2, y3, n1, n2, n3, n4, u1, u2, m1, m2, e1, k1, k2, k3, x1, x2, none

VARIABLE
    focus           \* the component that moves in this behaviour

(* Two items, each in a workspace of its own. *)
TwoHomes == i1 :> w1 @@ i2 :> w2

(* Two texts are written in one room and one in the other. *)
TwoRooms == y1 :> q1 @@ y2 :> q1 @@ y3 :> q2

(* Two messages of two people to each other. *)
TwoSenders == m1 :> u1 @@ m2 :> u2

(* Identifiers are drawn in their order. *)
inOrder == x2 \in drawn' => x1 \in drawn'
oneChoice == \A entry \in submitted' : entry.people = few
oneForm == Cardinality(drawn') <= 1 /\ \A t \in {a, b} : loads'[t] <= 2
twoForms == oneChoice /\ \A t \in {a, b} : loads'[t] = 1 /\ Cardinality(forms'[t]) <= 1

(* One tab shares, or writes, and the other is open beside it.  When two    *)
(* forms are shared, with the same people, it is loaded twice, and no key   *)
(* is forgotten.                                                            *)
oneTab ==
    /\ \E t \in {a, b} : \A u \in {a, b} \ {t} :
          loads'[u] = 1 /\ journal'[u] = {} /\ recovering'[u] = {} /\ forms'[u] = {}
    /\ \/ Cardinality(drawn') <= 1
       \/ oneChoice /\ records' = rooms' /\ \A t \in {a, b} : loads'[t] <= 2
draftsOfOneTab == draft'[t2] = draft[t2] /\ cache'[t2] = cache[t2] /\ shownRoom'[t2] = shownRoom[t2]

(* This browser changes one item, and loses the access to its workspace. *)
ofOneItem == (\A x \in answers' : x.item = i1) /\ w2 \in log'[Len(log')].scope

-----------------------------------------------------------------------------
PagesInit ==
    /\ focus \in {"tags", "snapshot", "inbox", "sharing", "twoForms", "oneTab",
                  "twoTabs", "oneRoom", "twoRooms", "order", "retention", "feed"}
    /\ Init
    /\ focus = "tags" \/ row = [updatedAt |-> 0, value |-> v1, archived |-> FALSE, change |-> 1]
    /\ SnapshotInit
    /\ log[1].version = i1 :> 1 @@ i2 :> 0
    /\ InboxInit
    /\ SharingInit
    /\ ComposerInit
    /\ (focus = "twoRooms" \/ shownRoom = [t \in {t1, t2} |-> q1]) /\ draft[t1].id = n1 /\ draft[t2].id = n2
    /\ MessagesInit
    /\ FeedInit

PagesNext ==
    \/ /\ focus = "tags" /\ Next
       /\ UNCHANGED <<focus, snapshotVars, inboxVars, sharingVars,
                   composerVars, messagesVars, feedVars>>
    \/ /\ focus = "snapshot" /\ SnapshotNext /\ ofOneItem
       /\ UNCHANGED <<focus, vars, inboxVars, sharingVars, composerVars,
                   messagesVars, feedVars>>
    \/ /\ focus = "inbox" /\ InboxNext
       /\ UNCHANGED <<focus, vars, snapshotVars, sharingVars, composerVars,
                   messagesVars, feedVars>>
    \/ /\ focus = "sharing" /\ SharingNext /\ records \subseteq records' /\ oneForm /\ inOrder
       /\ UNCHANGED <<focus, vars, snapshotVars, inboxVars, composerVars,
                   messagesVars, feedVars>>
    \/ /\ focus = "twoForms" /\ SharingNext /\ records \subseteq records' /\ twoForms /\ inOrder
       /\ UNCHANGED <<focus, vars, snapshotVars, inboxVars, composerVars,
                   messagesVars, feedVars>>
    \/ /\ focus = "oneTab" /\ SharingNext /\ oneTab /\ inOrder
       /\ UNCHANGED <<focus, vars, snapshotVars, inboxVars, composerVars,
                   messagesVars, feedVars>>
    \/ /\ focus = "twoTabs" /\ ComposerNext /\ typed' \subseteq {y1} /\ shownRoom' = shownRoom
       /\ UNCHANGED <<focus, vars, snapshotVars, inboxVars, sharingVars,
                   messagesVars, feedVars>>
    \/ /\ focus = "oneRoom" /\ ComposerNext /\ draftsOfOneTab /\ shownRoom' = shownRoom
       /\ UNCHANGED <<focus, vars, snapshotVars, inboxVars, sharingVars,
                   messagesVars, feedVars>>
    \/ /\ focus = "twoRooms" /\ ComposerNext /\ draftsOfOneTab /\ typed' \subseteq {y1, y3}
       /\ UNCHANGED <<focus, vars, snapshotVars, inboxVars, sharingVars,
                   messagesVars, feedVars>>
    \/ /\ focus = "order" /\ MessagesNext /\ UNCHANGED reactions /\ \A m \in {m1, m2} : version'[m] <= 1
       /\ UNCHANGED <<focus, vars, snapshotVars, inboxVars, sharingVars,
                   composerVars, feedVars>>
    \/ /\ focus = "retention" /\ MessagesNext /\ \A r \in {r1, r2} : messageRequest'[r].message # m2
       /\ UNCHANGED <<focus, vars, snapshotVars, inboxVars, sharingVars,
                   composerVars, feedVars>>
    \/ /\ focus = "feed" /\ FeedNext
       /\ UNCHANGED <<focus, vars, snapshotVars, inboxVars, sharingVars,
                   composerVars, messagesVars>>

PagesSpec == PagesInit /\ [][PagesNext]_<<focus, vars, snapshotVars, inboxVars, sharingVars,
              composerVars, messagesVars, feedVars>>

-----------------------------------------------------------------------------
(* sendMessage, SelectConversation, findMessageInCache: a text is posted   *)
(* once, over lost answers, retries, reloads and two tabs that share a     *)
(* draft, and in the room where it was written, whatever room is shown;    *)
(* docs/phase-4-collaboration-runtime.md:70: a draft that has reached the  *)
(* storage leaves screen and storage only for the server or for another    *)
(* text typed over it.                                                     *)
ComposerKept ==
    /\ [](ComposerTypeOK /\ PostedOnce /\ PostedWhereWritten)
    /\ [][focus = "oneRoom" => keepsDrafts]_composerVars

(* Values that are alike in every component. *)
Alike == Permutations({a, b}) \cup Permutations({r1, r2})
=============================================================================
