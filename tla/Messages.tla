------------------------------ MODULE Messages ------------------------------
(***************************************************************************)
(* One conversation: its messages in order, how far each participant has     *)
(* read, reactions and answers, and the worker that expires what is too old. *)
(*                                                                          *)
(* A request is a READ COMMITTED transaction in two steps, what it reads     *)
(* under its locks and its commit.  Requests of the API lock the             *)
(* conversation's row; one that changes a message locks its row too, and the *)
(* worker locks the message's row only.  A message is named by the client's  *)
(* identifier for it, which is unique for a sender and a conversation.       *)
(*                                                                          *)
(* An idempotency record keeps a copy of the answer it was given; `copies'   *)
(* holds what those records show of each message's text.  Who may be seated  *)
(* and who owes an answer are in Rooms.                                      *)
(***************************************************************************)
EXTENDS Integers, FiniteSets

CONSTANTS
    User,
    Message,
    Sender,
    Emoji,
    Process,
    MaxKinds,       \* MAX_REACTION_KINDS_PER_MESSAGE
    MaxMessageVersion, \* the check's bound on the changes of a message
    MaxSequence,    \* the check's bound on the numbers drawn
    NoValue

ASSUME MessagesAssumption ==
    /\ Sender \in [Message -> User]
    /\ MaxKinds \in Nat /\ MaxMessageVersion \in Nat \ {0} /\ MaxSequence \in Nat
    /\ NoValue \notin Message \cup User \cup Emoji

TextState == {"none", "text", "expired"}

Op == {"none", "send", "replay", "respond", "react", "unreact", "read", "retain"}

Call == [op : Op, user : User \cup {NoValue}, message : Message \cup {NoValue},
         emoji : Emoji \cup {NoValue}, version : 0..MaxMessageVersion,
         number : 0..MaxSequence, copy : TextState]

NoCall == [op |-> "none", user |-> NoValue, message |-> NoValue, emoji |-> NoValue,
           version |-> 0, number |-> 0, copy |-> "none"]

VARIABLES
    sequence,       \* the last number drawn from the serial column
    position,       \* the number of each committed message, 0 when there is none
    text,           \* its body
    expired,        \* the messages whose expires_at has passed
    answer,         \* response_state of a message that asks for one
    version,
    reactions,      \* <<user, emoji>> of each message
    seated,         \* the participants not removed
    checkpoint,     \* the message each participant has read up to
    copies,         \* the texts shown by idempotency records of each message
    messageDue,     \* the messages with a retention event still to process
    messageRequest

messagesVars == <<sequence, position, text, expired, answer, version, reactions, seated,
                  checkpoint, copies, messageDue, messageRequest>>
body == <<position, text, answer, version, reactions>>

-----------------------------------------------------------------------------
IsSent(m) == position[m] # 0

Place(m) == IF m = NoValue THEN 0 ELSE position[m]

Kinds(given, others) == {e \in Emoji : \E u \in others : <<u, e>> \in given}

Idle(p) == messageRequest[p].op = "none"

(* A wrong lock: a message is sent without it. *)
LockedUnlessSending == \E p \in Process : messageRequest[p].op \notin {"none", "retain", "send"}

(* FOR UPDATE on the conversation, which every request of the API takes. *)
ConversationLocked == \E p \in Process : messageRequest[p].op \notin {"none", "retain"}

(* FOR UPDATE on the message. *)
MessageLocked(m) == \E p \in Process :
    messageRequest[p].message = m /\ messageRequest[p].op \in {"respond", "react", "unreact", "retain"}

Mutable(m) == IsSent(m) /\ text[m] = "text" /\ m \notin expired

(* What a reader is shown, which hides a text that has expired by now. *)
Shown(m) == IF m \in expired THEN "expired" ELSE text[m]

Begin(p, call) == messageRequest' = [messageRequest EXCEPT ![p] = call]

Done(p) == messageRequest' = [messageRequest EXCEPT ![p] = NoCall]

MayAccess(p, u) == Idle(p) /\ ~ConversationLocked /\ u \in seated

MessagesInit ==
    /\ sequence = 0
    /\ position = [m \in Message |-> 0]
    /\ text = [m \in Message |-> "none"]
    /\ expired = {}
    /\ answer = [m \in Message |-> "none"]
    /\ version = [m \in Message |-> 0]
    /\ reactions = [m \in Message |-> {}]
    /\ seated = User
    /\ checkpoint = [u \in User |-> NoValue]
    /\ copies = [m \in Message |-> {}]
    /\ messageDue = {}
    /\ messageRequest = [p \in Process |-> NoCall]

-----------------------------------------------------------------------------
(* The insert draws the next number at once, whether or not it commits. *)
SendMessage(p, m) ==
    /\ MayAccess(p, Sender[m])
    /\ ~IsSent(m)
    /\ sequence < MaxSequence
    /\ sequence' = sequence + 1
    /\ Begin(p, [NoCall EXCEPT !.op = "send", !.user = Sender[m], !.message = m,
                               !.number = sequence + 1, !.copy = "text"])
    /\ UNCHANGED <<body, expired, seated, checkpoint, copies, messageDue>>

(* With its event for the retention worker and the record of its answer. *)
CommitMessage(p) ==
    LET m == messageRequest[p].message IN
    /\ messageRequest[p].op = "send"
    /\ position' = [position EXCEPT ![m] = messageRequest[p].number]
    /\ text' = [text EXCEPT ![m] = "text"]
    /\ version' = [version EXCEPT ![m] = 1]
    /\ answer' \in {answer, [answer EXCEPT ![m] = "open"]}
    /\ copies' = [copies EXCEPT ![m] = @ \cup {messageRequest[p].copy}]
    /\ messageDue' = messageDue \cup {m}
    /\ Done(p)
    /\ UNCHANGED <<sequence, expired, reactions, seated, checkpoint>>

(* The same message again under another idempotency key: the row is read     *)
(* without a lock.  A text already redacted no longer matches, and fails.    *)
ReplayMessage(p, m) ==
    /\ MayAccess(p, Sender[m])
    /\ IsSent(m) /\ text[m] = "text"
    /\ Begin(p, [NoCall EXCEPT !.op = "replay", !.user = Sender[m], !.message = m, !.copy = Shown(m)])
    /\ UNCHANGED <<sequence, body, expired, seated, checkpoint, copies, messageDue>>

CommitReplay(p) ==
    /\ messageRequest[p].op = "replay"
    /\ copies' = [copies EXCEPT ![messageRequest[p].message] = @ \cup {messageRequest[p].copy}]
    /\ Done(p)
    /\ UNCHANGED <<sequence, body, expired, seated, checkpoint, messageDue>>

-----------------------------------------------------------------------------
(* Answers and reactions change the version that the client read.            *)
SetMessageResponse(p, u, m) ==
    /\ MayAccess(p, u)
    /\ ~MessageLocked(m)
    /\ Mutable(m)
    /\ answer[m] # "none"
    /\ Begin(p, [NoCall EXCEPT !.op = "respond", !.user = u, !.message = m,
                               !.version = version[m], !.copy = Shown(m)])
    /\ UNCHANGED <<sequence, body, expired, seated, checkpoint, copies, messageDue>>

(* Only the kinds that somebody still seated has used are counted. *)
ChangeReaction(p, u, m, e, op) ==
    /\ MayAccess(p, u)
    /\ ~MessageLocked(m)
    /\ Mutable(m)
    /\ op = "unreact" \/ e \in Kinds(reactions[m], seated) \/ Cardinality(Kinds(reactions[m], seated)) < MaxKinds
    /\ Begin(p, [NoCall EXCEPT !.op = op, !.user = u, !.message = m, !.emoji = e,
                               !.version = version[m], !.copy = Shown(m)])
    /\ UNCHANGED <<sequence, body, expired, seated, checkpoint, copies, messageDue>>

(* The message is shown again before the commit, which fails when too many   *)
(* kinds of reaction are on it.                                              *)
CommitChange(p) ==
    LET m == messageRequest[p].message
        mine == <<messageRequest[p].user, messageRequest[p].emoji>>
    IN  /\ messageRequest[p].op \in {"respond", "react", "unreact"}
        /\ version[m] = messageRequest[p].version
        /\ version[m] < MaxMessageVersion
        /\ version' = [version EXCEPT ![m] = @ + 1]
        /\ \/ /\ messageRequest[p].op = "respond"
              /\ \E state \in {"open", "resolved"} : answer' = [answer EXCEPT ![m] = state]
              /\ UNCHANGED reactions
           \/ /\ messageRequest[p].op = "react"
              /\ reactions' = [reactions EXCEPT ![m] = @ \cup {mine}]
              /\ UNCHANGED answer
           \/ /\ messageRequest[p].op = "unreact"
              /\ reactions' = [reactions EXCEPT ![m] = @ \ {mine}]
              /\ UNCHANGED answer
        /\ Cardinality(Kinds(reactions'[m], seated)) <= MaxKinds
        /\ copies' = [copies EXCEPT ![m] = @ \cup {messageRequest[p].copy}]
        /\ Done(p)
        /\ UNCHANGED <<sequence, position, text, expired, seated, checkpoint, messageDue>>

-----------------------------------------------------------------------------

(* A checkpoint at the message or beyond it is answered as it is. *)
MarkRead(p, u, m) ==
    /\ MayAccess(p, u)
    /\ IsSent(m)
    /\ Place(checkpoint[u]) < position[m]
    /\ Begin(p, [NoCall EXCEPT !.op = "read", !.user = u, !.message = m])
    /\ UNCHANGED <<sequence, body, expired, seated, checkpoint, copies, messageDue>>

CommitRead(p) ==
    /\ messageRequest[p].op = "read"
    /\ checkpoint' = [checkpoint EXCEPT ![messageRequest[p].user] = messageRequest[p].message]
    /\ Done(p)
    /\ UNCHANGED <<sequence, body, expired, seated, copies, messageDue>>

UnreadFor(u) == {m \in Message : Sender[m] # u /\ position[m] > Place(checkpoint[u])}

(* A participant leaves or returns. *)
SetConversationParticipant(u) ==
    /\ ~ConversationLocked
    /\ seated' \in {seated \cup {u}, seated \ {u}}
    /\ UNCHANGED <<sequence, body, expired, checkpoint, copies, messageDue, messageRequest>>

-----------------------------------------------------------------------------
Expire(m) ==
    /\ IsSent(m) /\ m \notin expired
    /\ expired' = expired \cup {m}
    /\ UNCHANGED <<sequence, body, seated, checkpoint, copies, messageDue, messageRequest>>

(* The worker: an event that is not due yet fails and is tried again. *)
BeginRetention(p, m) ==
    /\ Idle(p)
    /\ m \in messageDue
    /\ ~MessageLocked(m)
    /\ m \in expired
    /\ Begin(p, [NoCall EXCEPT !.op = "retain", !.message = m])
    /\ UNCHANGED <<sequence, body, expired, seated, checkpoint, copies, messageDue>>

(* The records of other requests are deleted once committed, not before. *)
CommitRetention(p) ==
    LET m == messageRequest[p].message IN
    /\ messageRequest[p].op = "retain"
    /\ text' = [text EXCEPT ![m] = "expired"]
    /\ version' = [version EXCEPT ![m] = IF @ < MaxMessageVersion THEN @ + 1 ELSE @]
    /\ copies' = [copies EXCEPT ![m] = {}]
    /\ messageDue' = messageDue \ {m}
    /\ Done(p)
    /\ UNCHANGED <<sequence, position, expired, answer, reactions, seated, checkpoint>>

(* A request or the worker fails before its commit. *)
Rollback(p) ==
    /\ ~Idle(p)
    /\ Done(p)
    /\ UNCHANGED <<sequence, body, expired, seated, checkpoint, copies, messageDue>>

-----------------------------------------------------------------------------
CommitRequest(p) ==
    \/ CommitMessage(p)
    \/ CommitReplay(p)
    \/ CommitChange(p)
    \/ CommitRead(p)
    \/ CommitRetention(p)

MessagesNext ==
    \/ \E p \in Process, m \in Message :
        \/ SendMessage(p, m)
        \/ ReplayMessage(p, m)
        \/ BeginRetention(p, m)
        \/ \E u \in User : MarkRead(p, u, m) \/ SetMessageResponse(p, u, m)
        \/ \E u \in User, e \in Emoji, op \in {"react", "unreact"} : ChangeReaction(p, u, m, e, op)
    \/ \E p \in Process : CommitRequest(p) \/ Rollback(p)
    \/ \E m \in Message : Expire(m)
    \/ \E u \in User : SetConversationParticipant(u)

MessagesSpec == MessagesInit /\ [][MessagesNext]_messagesVars

(* A transaction ends, and the worker, which takes its events again after    *)
(* every failure, gets through in the end.                                   *)
MessagesFairness ==
    /\ \A p \in Process : WF_messagesVars(CommitRequest(p) \/ Rollback(p))
    /\ \A m \in Message : SF_messagesVars(\E p \in Process : BeginRetention(p, m))
    /\ \A m \in Message : SF_messagesVars(\E p \in Process : messageRequest[p].message = m /\ CommitRetention(p))

FairMessagesSpec == MessagesSpec /\ MessagesFairness

-----------------------------------------------------------------------------
(* Every message has its own number, and a checkpoint is at a message that   *)
(* was sent.                                                                 *)
MessagesTypeOK ==
    /\ sequence \in 0..MaxSequence
    /\ position \in [Message -> 0..sequence]
    /\ \A m, n \in Message : IsSent(m) /\ position[m] = position[n] => m = n
    /\ text \in [Message -> TextState]
    /\ expired \subseteq {m \in Message : IsSent(m)}
    /\ answer \in [Message -> {"none", "open", "resolved"}]
    /\ version \in [Message -> 0..MaxMessageVersion]
    /\ reactions \in [Message -> SUBSET (User \X Emoji)]
    /\ seated \subseteq User
    /\ checkpoint \in [User -> Message \cup {NoValue}]
    /\ \A u \in User : checkpoint[u] # NoValue => IsSent(checkpoint[u])
    /\ copies \in [Message -> SUBSET TextState]
    /\ messageDue \subseteq Message
    /\ messageRequest \in [Process -> Call]

(* sendMessage, markRead: a new message is unread for everybody it is for,   *)
(* however far they have read.  A number drawn before another and committed  *)
(* after it would be passed over by a checkpoint in between.                 *)
NewMessagesAreUnread ==
    [][\A m \in Message : ~IsSent(m) /\ IsSent(m)' => \A u \in User \ {Sender[m]} : m \in UnreadFor(u)']_messagesVars

(* markRead: two devices, in any order, never take a checkpoint back, so     *)
(* that what is read does not become unread.                                 *)
CheckpointsMoveForward ==
    [][\A u \in User : Place(checkpoint[u])' >= Place(checkpoint[u])]_messagesVars

(* processCollaborationEvent, assertMessageMutable: a redacted message is    *)
(* never changed again, by a request that read it before either.             *)
RedactedIsFinal ==
    [][\A m \in Message : text[m] = "expired" =>
        UNCHANGED <<text[m], answer[m], version[m], reactions[m]>>]_messagesVars

(* scheduleMessageRetention: a message that can be read has an event that    *)
(* will redact it, whatever failed.                                          *)
EveryTextWillExpire == \A m \in Message : text[m] = "text" => m \in messageDue

(* A message that can be read has an event that will redact it, and a        *)
(* redacted one is never changed again, by a request that read it before     *)
(* either; a new message is unread for everybody it is for, however far      *)
(* they have read; and no device takes a checkpoint back.                    *)
MessagesKept ==
    /\ [](MessagesTypeOK /\ EveryTextWillExpire)
    /\ RedactedIsFinal
    /\ NewMessagesAreUnread
    /\ CheckpointsMoveForward

(* A message past its time is redacted in the end. *)
ExpiredIsRedacted == \A m \in Message : m \in expired ~> text[m] = "expired"

(* docs/phase-4-collaboration-runtime.md:90: retention deletes the copies of *)
(* the text in idempotency records.                                          *)
NoCopyOutlivesItsText == \A m \in Message : text[m] = "expired" => "text" \notin copies[m]

(* hydrateMessages refuses to show a message, and the page it is on, with    *)
(* more kinds of reaction than changeReaction allows.                        *)
ReactionsStayReadable == \A m \in Message : Cardinality(Kinds(reactions[m], seated)) <= MaxKinds
=============================================================================
