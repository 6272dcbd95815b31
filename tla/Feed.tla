-------------------------------- MODULE Feed --------------------------------
(***************************************************************************)
(* How another browser learns of a change to conversations: the feed of      *)
(* collaboration events, read in finite batches from a cursor, and the       *)
(* queries it asks the browser to run again, which are polled anyway.        *)
(*                                                                          *)
(* An event's cursor is drawn from a serial column before its transaction    *)
(* commits, and a batch is read with two statements, the events and then the *)
(* highest cursor there is.  The feed may therefore pass over an event for   *)
(* good.  One query stands for all of them; it shows the changes committed   *)
(* when it was answered, and a query asked again is no longer answered the   *)
(* first time.                                                               *)
(***************************************************************************)
EXTENDS Integers, FiniteSets, FiniteSetsExt

CONSTANTS
    FeedChange,     \* each in a transaction with its one event
    Limit           \* events in a batch

ASSUME FeedAssumption == Limit \in Nat \ {0} /\ IsFiniteSet(FeedChange)

VARIABLES
    place,          \* the event cursor drawn for each change, 0 for none
    committed,
    stream,         \* the request for a batch, what it has read, and what it could see
    cursor,         \* where the browser reads on
    feedPending,    \* whether events wait to invalidate the query
    query,          \* the query's request and its answer
    view,           \* the changes on screen
    hidden          \* whether the page is in the background

feedVars == <<place, committed, stream, cursor, feedPending, query, view, hidden>>

Stream == [at : {"off", "asked", "events", "batch"}, events : SUBSET FeedChange,
           seen : SUBSET FeedChange, next : 0..Cardinality(FeedChange)]

Query == [at : {"idle", "asked", "answered"}, answer : SUBSET FeedChange]

Off == [at |-> "off", events |-> {}, seen |-> {}, next |-> 0]
IdleQuery == [at |-> "idle", answer |-> {}]
AskedQuery == [at |-> "asked", answer |-> {}]

-----------------------------------------------------------------------------
Highest(S, least) == Max({place[c] : c \in S} \cup {least})

After(least) == {c \in committed : place[c] > least}

(* In the order of their cursors, up to the limit. *)
Batch(S) == {c \in S : Cardinality({d \in S : place[d] <= place[c]}) <= Limit}

FeedInit ==
    /\ place = [c \in FeedChange |-> 0]
    /\ committed = {}
    /\ stream = Off
    /\ cursor = 0
    /\ feedPending = FALSE
    /\ query = IdleQuery
    /\ view = {}
    /\ hidden = FALSE

-----------------------------------------------------------------------------
Journal(c) ==
    /\ place[c] = 0
    /\ place' = [place EXCEPT ![c] = Highest(FeedChange, 0) + 1]
    /\ UNCHANGED <<committed, stream, cursor, feedPending, query, view, hidden>>

CommitEvent(c) ==
    /\ place[c] # 0 /\ c \notin committed
    /\ committed' = committed \cup {c}
    /\ UNCHANGED <<place, stream, cursor, feedPending, query, view, hidden>>

(* The feed is asked for what comes after the cursor. *)
Connect ==
    /\ ~hidden /\ stream.at = "off"
    /\ stream' = [Off EXCEPT !.at = "asked"]
    /\ UNCHANGED <<place, committed, cursor, feedPending, query, view, hidden>>

ListEvents ==
    /\ stream.at = "asked"
    /\ stream' = [stream EXCEPT !.at = "events", !.events = Batch(After(cursor)),
                                  !.seen = committed]
    /\ UNCHANGED <<place, committed, cursor, feedPending, query, view, hidden>>

(* A wrong watermark: the highest cursor after a full batch too. *)
WatermarkOfAll ==
    /\ stream.at = "events"
    /\ stream' = [stream EXCEPT !.at = "batch", !.next = Highest(committed, cursor)]
    /\ UNCHANGED <<place, committed, cursor, feedPending, query, view, hidden>>

(* A full batch goes on from its last event, another from the highest cursor *)
(* that is committed by now.                                                 *)
Watermark ==
    /\ stream.at = "events"
    /\ stream' = [stream EXCEPT !.at = "batch", !.next =
            IF Cardinality(stream.events) = Limit THEN Highest(stream.events, 0)
            ELSE Highest(committed, cursor)]
    /\ UNCHANGED <<place, committed, cursor, feedPending, query, view, hidden>>

(* The events, and the checkpoint that ends a batch and runs what waits. *)
Checkpoint ==
    /\ stream.at = "batch"
    /\ cursor' = Max({cursor, stream.next, Highest(stream.events, 0)})
    /\ query' = IF feedPending \/ stream.events # {} THEN AskedQuery ELSE query
    /\ feedPending' = FALSE
    /\ stream' = Off
    /\ UNCHANGED <<place, committed, view, hidden>>

(* The connection is lost after some of the events. *)
Interrupted ==
    /\ stream.at # "off"
    /\ \E S \in SUBSET stream.events :
        /\ \A c \in S, d \in stream.events \ S : place[c] < place[d]
        /\ cursor' = Highest(S, cursor)
        /\ feedPending' = (feedPending \/ S # {})
    /\ stream' = Off
    /\ UNCHANGED <<place, committed, query, view, hidden>>

(* Invalidating a query asks it again, and drops the request under way. *)
Flush ==
    /\ feedPending
    /\ feedPending' = FALSE
    /\ query' = AskedQuery
    /\ UNCHANGED <<place, committed, stream, cursor, view, hidden>>

-----------------------------------------------------------------------------

PollQuery ==
    /\ ~hidden /\ query.at = "idle"
    /\ query' = AskedQuery
    /\ UNCHANGED <<place, committed, stream, cursor, feedPending, view, hidden>>

Answer ==
    /\ query.at = "asked"
    /\ query' = [at |-> "answered", answer |-> committed]
    /\ UNCHANGED <<place, committed, stream, cursor, feedPending, view, hidden>>

Show ==
    /\ query.at = "answered"
    /\ view' = query.answer
    /\ query' = IdleQuery
    /\ UNCHANGED <<place, committed, stream, cursor, feedPending, hidden>>

QueryFails ==
    /\ query.at # "idle"
    /\ query' = IdleQuery
    /\ UNCHANGED <<place, committed, stream, cursor, feedPending, view, hidden>>

(* In the background the stream and what it told are dropped; everything is  *)
(* asked again on return.                                                    *)
Hide ==
    /\ ~hidden
    /\ hidden' = TRUE
    /\ stream' = Off
    /\ feedPending' = FALSE
    /\ UNCHANGED <<place, committed, cursor, query, view>>

Return ==
    /\ hidden
    /\ hidden' = FALSE
    /\ query' = AskedQuery
    /\ UNCHANGED <<place, committed, stream, cursor, feedPending, view>>

-----------------------------------------------------------------------------
FeedNext ==
    \/ \E c \in FeedChange : Journal(c) \/ CommitEvent(c)
    \/ Connect \/ ListEvents \/ Watermark \/ Checkpoint \/ Interrupted \/ Flush
    \/ PollQuery \/ Answer \/ Show \/ QueryFails \/ Hide \/ Return

FeedSpec == FeedInit /\ [][FeedNext]_feedVars

(* A page in front polls; a request that is repeated is answered in the end. *)
FeedFairness ==
    /\ SF_feedVars(PollQuery)
    /\ SF_feedVars(Answer)
    /\ SF_feedVars(Show)

FairFeedSpec == FeedSpec /\ FeedFairness

-----------------------------------------------------------------------------
FeedTypeOK ==
    /\ place \in [FeedChange -> 0..Cardinality(FeedChange)]
    /\ committed \subseteq {c \in FeedChange : place[c] # 0}
    /\ stream \in Stream
    /\ stream.events \subseteq committed
    /\ cursor \in {0} \cup {place[c] : c \in committed}
    /\ feedPending \in BOOLEAN
    /\ query \in Query /\ query.answer \subseteq committed
    /\ view \subseteq committed
    /\ hidden \in BOOLEAN

(* listEvents: a batch goes past no event that was committed when it was     *)
(* read, at the limit of a batch either.                                     *)
OnlyLateEventsArePassedOver ==
    /\ FeedTypeOK
    /\ stream.at = "batch" =>
        \A c \in stream.seen : place[c] \in (cursor + 1)..stream.next => c \in stream.events

(* docs/phase-4-collaboration-runtime.md:76, live-collaboration.tsx:342: a    *)
(* committed change comes on screen, whatever the feed has passed over, on a *)
(* page that keeps coming back to the front.                                 *)
ChangesAreSeen ==
    []<>~hidden => \A c \in FeedChange : c \in committed ~> c \in view
=============================================================================
