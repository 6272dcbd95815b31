-------------------------------- MODULE Rooms --------------------------------
(***************************************************************************)
(* Who belongs where: the members of one organization, its teams with their  *)
(* rooms, the private rooms people open themselves, and the answers people   *)
(* owe in them.  A team and its room are created together and archived       *)
(* together, so a team is named by its room.                                 *)
(*                                                                          *)
(* A request is a READ COMMITTED transaction: it reads under its row locks,  *)
(* then writes and commits.  The row locks are those of the team and of the  *)
(* conversation.  There is one lock nobody wrote down: a mutation inserts    *)
(* its idempotency record first, whose foreign key takes a shared lock on    *)
(* the organization, and updateMembership locks that row FOR UPDATE.  It     *)
(* therefore runs when no other mutation does.                               *)
(*                                                                          *)
(* Users are numbered in the order of their identifiers.  Every member is    *)
(* taken to have access to the workspace: adding a member to a team or room  *)
(* writes the workspace grant, and revoking a membership takes grant and     *)
(* rooms together.  Rooms visible to the whole organization are left out.    *)
(***************************************************************************)
EXTENDS Integers, FiniteSets

CONSTANTS
    User,
    Request,
    Room,
    Kind,           \* "team", "workspace" or "external"
    None

ASSUME RoomsAssumption ==
    /\ User \subseteq Nat
    /\ Kind \in [Room -> {"team", "workspace", "external"}]
    /\ None \notin User

TeamRoom == {r \in Room : Kind[r] = "team"}
OwnRoom == Room \ TeamRoom

Role == {"owner", "member", "viewer", "guest"}
TeamRole == {"none", "lead", "member"}
Seat == {"none", "owner", "member", "guest"}
ResponseState == {"none", "open", "resolved", "cancelled"}

Op == {"none", "createTeam", "createConversation", "setTeamMember", "removeTeamMember",
       "addParticipant", "removeParticipant", "sendMessage", "updateMembership"}

Call == [op : Op, room : Room \cup {None}, user : User \cup {None},
         as : Role \cup {"lead", "none"}, with : SUBSET User]

NoCall == [op |-> "none", room |-> None, user |-> None, as |-> "none", with |-> {}]

VARIABLES
    role,           \* memberships
    active,         \* the members whose membership is not archived
    team,           \* team_members
    seat,           \* participant_role, which a removed participant's row keeps
    seated,         \* the participants not removed
    open,           \* "absent", "open" or "archived"
    ask,            \* one message of each room that calls for an answer
    request         \* what each transaction is about to write

roomsVars == <<role, active, team, seat, seated, open, ask, request>>
members == <<role, active>>
rooms == <<team, seat, seated, open>>

-----------------------------------------------------------------------------
Eligible(u) == u \in active /\ role[u] \notin {"guest", "viewer"}

ActiveGuest(u) == u \in active /\ role[u] = "guest"

Least(S) == CHOOSE u \in S : \A v \in S : u <= v

Replaced(f, S, old, new) == [u \in User |-> IF u \in S /\ f[u] = old THEN new ELSE f[u]]

OwesAnswer(u, r) == ask[r].state = "open" /\ ask[r].owner = u

Free(p) == request[p].op = "none"

(* The shared lock of a mutation on its organization. *)
MayBegin(p) == Free(p) /\ \A q \in Request : request[q].op # "updateMembership"

(* A wrong lock: none. *)
AlwaysUnlocked(r) == FALSE

(* FOR UPDATE on the row of the team. *)
TeamLocked(r) == \E p \in Request :
    request[p].op \in {"setTeamMember", "removeTeamMember"} /\ request[p].room = r

(* FOR UPDATE on the row of the conversation. *)
ConversationLocked(r) == \E p \in Request :
    request[p].op \in {"addParticipant", "removeParticipant", "sendMessage"} /\ request[p].room = r

Begin(p, op, r, u, as, with) ==
    /\ MayBegin(p)
    /\ request' = [request EXCEPT ![p] =
            [op |-> op, room |-> r, user |-> u, as |-> as, with |-> with]]
    /\ UNCHANGED <<members, rooms, ask>>

Done(p) == request' = [request EXCEPT ![p] = NoCall]

RoomsInit ==
    /\ role \in {f \in [User -> Role] : \E u \in User : f[u] = "owner"}
    /\ active = User
    /\ team = [r \in TeamRoom |-> [u \in User |-> "none"]]
    /\ seat = [r \in Room |-> [u \in User |-> "none"]]
    /\ seated = [r \in Room |-> {}]
    /\ open = [r \in Room |-> "absent"]
    /\ ask = [r \in Room |-> [state |-> "none", owner |-> None]]
    /\ request = [p \in Request |-> NoCall]

-----------------------------------------------------------------------------
(* Creating a team or a room.  The names and identifiers are new, so there   *)
(* is nothing to lock.                                                       *)
CreateTeam(p, r, lead, with) ==
    /\ open[r] = "absent"
    /\ \A q \in Request : request[q].room # r
    /\ with \cup {lead} \subseteq active
    /\ \A u \in with \cup {lead} : role[u] # "guest"
    /\ role[lead] # "viewer"
    /\ Begin(p, "createTeam", r, lead, "lead", with)

CommitTeam(p) ==
    LET c == request[p] IN
    /\ c.op = "createTeam"
    /\ team' = [team EXCEPT ![c.room] = [u \in User |->
            IF u = c.user THEN "lead" ELSE IF u \in c.with THEN "member" ELSE "none"]]
    /\ seat' = [seat EXCEPT ![c.room] = [u \in User |->
            IF u = c.user THEN "owner" ELSE IF u \in c.with THEN "member" ELSE "none"]]
    /\ seated' = [seated EXCEPT ![c.room] = c.with \cup {c.user}]
    /\ open' = [open EXCEPT ![c.room] = "open"]
    /\ Done(p)
    /\ UNCHANGED <<members, ask>>

CreateConversation(p, r, actor, with) ==
    /\ open[r] = "absent"
    /\ \A q \in Request : request[q].room # r
    /\ Eligible(actor)
    /\ with \subseteq active
    /\ Kind[r] = "external" => \E u \in with : role[u] = "guest"
    /\ Begin(p, "createConversation", r, actor, "owner", with)

CommitConversation(p) ==
    LET c == request[p] IN
    /\ c.op = "createConversation"
    /\ seat' = [seat EXCEPT ![c.room] = [u \in User |->
            IF u = c.user THEN "owner"
            ELSE IF u \notin c.with THEN "none"
            ELSE IF role[u] = "guest" THEN "guest" ELSE "member"]]
    /\ seated' = [seated EXCEPT ![c.room] = c.with \cup {c.user}]
    /\ open' = [open EXCEPT ![c.room] = "open"]
    /\ Done(p)
    /\ UNCHANGED <<members, team, ask>>

-----------------------------------------------------------------------------
(* Team members.  The team's row is locked first, its conversation's row     *)
(* only when the request writes it at the end.                               *)
SetTeamMember(p, r, u, as) ==
    /\ open[r] = "open"
    /\ ~TeamLocked(r)
    /\ u \in active
    /\ role[u] # "guest"
    /\ as = "lead" => role[u] # "viewer"
    /\ as = "member" => team[r][u] # "lead"
    /\ Begin(p, "setTeamMember", r, u, as, {})

(* The room's participants once u has the team role. *)
TeamSeats(r, u, as) ==
    LET others == IF as = "lead" THEN Replaced(seat[r], seated[r], "owner", "member") ELSE seat[r]
    IN [others EXCEPT ![u] = IF as = "lead" THEN "owner" ELSE "member"]

CommitTeamMember(p) ==
    LET c == request[p]
        r == c.room
        others == IF c.as = "lead" THEN Replaced(team[r], User, "lead", "member") ELSE team[r]
    IN
    /\ c.op = "setTeamMember"
    /\ ~ConversationLocked(r)
    /\ team' = [team EXCEPT ![r] = [others EXCEPT ![c.user] = c.as]]
    /\ seat' = [seat EXCEPT ![r] = TeamSeats(r, c.user, c.as)]
    /\ seated' = [seated EXCEPT ![r] = @ \cup {c.user}]
    /\ Done(p)
    /\ UNCHANGED <<members, open, ask>>

RemoveTeamMember(p, r, u) ==
    /\ open[r] = "open"
    /\ ~TeamLocked(r)
    /\ team[r][u] = "member"
    /\ ~OwesAnswer(u, r)
    /\ Begin(p, "removeTeamMember", r, u, "none", {})

CommitTeamRemoval(p) ==
    LET c == request[p] IN
    /\ c.op = "removeTeamMember"
    /\ ~ConversationLocked(c.room)
    /\ team' = [team EXCEPT ![c.room][c.user] = "none"]
    /\ seated' = [seated EXCEPT ![c.room] = @ \ {c.user}]
    /\ Done(p)
    /\ UNCHANGED <<members, seat, open, ask>>

(* An invitation to a team: somebody who is not an active member becomes one *)
(* and joins.  It locks the team and writes the conversation.                *)
AcceptInvitation(p, r, u, as) ==
    /\ MayBegin(p)
    /\ u \notin active
    /\ as \notin {"owner", "guest"}
    /\ open[r] = "open"
    /\ ~TeamLocked(r)
    /\ ~ConversationLocked(r)
    /\ role' = [role EXCEPT ![u] = as]
    /\ active' = active \cup {u}
    /\ team' = [team EXCEPT ![r][u] = "member"]
    /\ seat' = [seat EXCEPT ![r][u] = "member"]
    /\ seated' = [seated EXCEPT ![r] = @ \cup {u}]
    /\ UNCHANGED <<open, ask, request>>

-----------------------------------------------------------------------------
(* Participants of a room people opened themselves.  The conversation's row  *)
(* is locked before anything else is read.                                   *)
HasOtherOwner(r, u) == \E v \in seated[r] \ {u} : seat[r][v] = "owner"

HasOtherGuest(r, u) == \E v \in seated[r] \ {u} : ActiveGuest(v)

AddParticipant(p, r, u, as) ==
    /\ open[r] = "open"
    /\ ~ConversationLocked(r)
    /\ u \in active
    /\ role[u] = "guest" => Kind[r] = "external"
    /\ as = "owner" => role[u] \notin {"guest", "viewer"}
    /\ Begin(p, "addParticipant", r, u, IF role[u] = "guest" THEN "guest" ELSE as, {})

(* The upsert keeps a role of owner that the row has, removed or not. *)
ParticipantSeats(r, u, as) ==
    LET others == IF as = "owner"
                  THEN Replaced(seat[r], seated[r] \ {u}, "owner", "member") ELSE seat[r]
    IN [others EXCEPT ![u] = IF @ = "owner" THEN "owner" ELSE as]

CommitParticipant(p) ==
    LET c == request[p] IN
    /\ c.op = "addParticipant"
    /\ seat' = [seat EXCEPT ![c.room] = ParticipantSeats(c.room, c.user, c.as)]
    /\ seated' = [seated EXCEPT ![c.room] = @ \cup {c.user}]
    /\ Done(p)
    /\ UNCHANGED <<members, team, open, ask>>

RemoveParticipant(p, r, u) ==
    /\ open[r] = "open"
    /\ ~ConversationLocked(r)
    /\ u \in seated[r] \cap active
    /\ seat[r][u] = "owner" => HasOtherOwner(r, u)
    /\ ~OwesAnswer(u, r)
    /\ Kind[r] = "external" => HasOtherGuest(r, u)
    /\ Begin(p, "removeParticipant", r, u, "none", {})

CommitRemoval(p) ==
    LET c == request[p] IN
    /\ c.op = "removeParticipant"
    /\ seated' = [seated EXCEPT ![c.room] = @ \ {c.user}]
    /\ Done(p)
    /\ UNCHANGED <<members, team, seat, open, ask>>

-----------------------------------------------------------------------------
(* Messages that call for an answer.                                         *)
CanWrite(r, u) ==
    /\ u \in seated[r] \cap active
    /\ role[u] # "viewer"
    /\ role[u] = "guest" => Kind[r] = "external"
    /\ r \in TeamRoom => team[r][u] # "none"

(* sendMessage with a response owner. *)
SendMessage(p, r, u) ==
    /\ open[r] = "open"
    /\ ~ConversationLocked(r)
    /\ \E sender \in User : CanWrite(r, sender)
    /\ ask[r].state = "none"
    /\ u \in seated[r] \cap active
    /\ role[u] # "viewer"
    /\ Begin(p, "sendMessage", r, u, "none", {})

CommitMessage(p) ==
    LET c == request[p] IN
    /\ c.op = "sendMessage"
    /\ ask' = [ask EXCEPT ![c.room] = [state |-> "open", owner |-> c.user]]
    /\ Done(p)
    /\ UNCHANGED <<members, rooms>>

(* setMessageResponse, by somebody who may settle the message (its sender,   *)
(* who also may, is not recorded).                                           *)
SetMessageResponse(p, r, state) ==
    /\ MayBegin(p)
    /\ open[r] = "open"
    /\ ~ConversationLocked(r)
    /\ ask[r].owner # None
    /\ \E actor \in User :
        /\ CanWrite(r, actor)
        /\ \/ actor = ask[r].owner
           \/ seat[r][actor] = "owner"
           \/ role[actor] = "owner"
    /\ ask' = [ask EXCEPT ![r].state = state]
    /\ UNCHANGED <<members, rooms, request>>

-----------------------------------------------------------------------------
(* updateMembership: a new role, and whether the member is active after it.  *)
Revokes(c) == c.user \notin c.with
RoleChanges(c) == ~Revokes(c) /\ c.as # role[c.user]
ToGuest(c) == RoleChanges(c) /\ c.as = "guest"
FromGuest(c) == RoleChanges(c) /\ role[c.user] = "guest"
ToViewer(c) == RoleChanges(c) /\ c.as = "viewer"

(* assertGuestPromotionPreservesExternalRooms *)
PromotionKeepsGuests(u) ==
    \A r \in Room :
        Kind[r] = "external" /\ open[r] = "open" /\ u \in seated[r] => HasOtherGuest(r, u)

UpdateMembership(p, u, as, stays) ==
    /\ \A q \in Request : Free(q)
    /\ role[u] = "owner" /\ u \in active /\ (as # "owner" \/ ~stays) =>
            \E v \in active \ {u} : role[v] = "owner"
    /\ role[u] = "guest" /\ as # "guest" => PromotionKeepsGuests(u)
    /\ request' = [request EXCEPT ![p] =
            [op |-> "updateMembership", room |-> None, user |-> u, as |-> as,
             with |-> IF stays THEN {u} ELSE {}]]
    /\ UNCHANGED <<members, rooms, ask>>

(* invalidateCollaborationGrants: the rooms the user loses.  A guest keeps   *)
(* the external ones.                                                        *)
LostRooms(c) ==
    {r \in Room : c.user \in seated[r] /\ (Revokes(c) \/ (ToGuest(c) /\ Kind[r] # "external"))}

SeatedAfter(c) ==
    [r \in Room |-> IF r \in LostRooms(c) THEN seated[r] \ {c.user} ELSE seated[r]]

(* repairViewerCollaborationOwnership: what a viewer led or owned.  By then  *)
(* refreshExternalParticipantRoles has made members' seats of a former       *)
(* guest's in external rooms, and nothing looks at those rooms again.        *)
GivenUp(c) ==
    {r \in Room :
        /\ ToViewer(c)
        /\ \/ r \in TeamRoom /\ team[r][c.user] = "lead"
           \/ /\ r \in OwnRoom /\ open[r] = "open"
              /\ c.user \in seated[r] /\ seat[r][c.user] = "owner"
              /\ ~(FromGuest(c) /\ Kind[r] = "external")}

(* The user's own seat: a guest's or a former guest's in an external room,   *)
(* a viewer's where the viewer owned.                                        *)
OwnSeat(c, r) ==
    IF c.user \in seated[r] /\ Kind[r] = "external" /\ ToGuest(c) THEN "guest"
    ELSE IF c.user \in seated[r] /\ Kind[r] = "external" /\ FromGuest(c) THEN "member"
    ELSE IF r \in GivenUp(c) /\ seat[r][c.user] = "owner" THEN "member"
    ELSE seat[r][c.user]

(* repairTeamLifecyclesAfterGrantRemoval *)
TeamHeirs(c, r) == {u \in User \ {c.user} : team[r][u] # "none" /\ Eligible(u)}

LeadLost(c, r) ==
    /\ r \in TeamRoom
    /\ team[r][c.user] = "lead"
    /\ Revokes(c) \/ ToGuest(c) \/ ToViewer(c)

TeamAfter(c, r) ==
    LET mine == IF Revokes(c) \/ ToGuest(c) THEN "none"
                ELSE IF LeadLost(c, r) THEN "member" ELSE team[r][c.user]
        without == [team[r] EXCEPT ![c.user] = mine]
    IN IF LeadLost(c, r) /\ TeamHeirs(c, r) # {}
       THEN [without EXCEPT ![Least(TeamHeirs(c, r))] = "lead"] ELSE without

(* repairConversationLifecyclesAfterGrantRemoval, for the rooms touched: a   *)
(* room with no guest left or nobody to own it is archived.                  *)
Touched(c) ==
    {r \in OwnRoom : open[r] = "open" /\ c.user \in seated[r]
        /\ (Revokes(c) \/ ToGuest(c) \/ r \in GivenUp(c))}

GuestRemains(c, r) ==
    (ToGuest(c) /\ c.user \in SeatedAfter(c)[r]) \/ HasOtherGuest(r, c.user)

OwnerRemains(c, r) ==
    \E u \in SeatedAfter(c)[r] \ {c.user} : seat[r][u] = "owner" /\ Eligible(u)

RoomHeirs(c, r) == {u \in SeatedAfter(c)[r] \ {c.user} : Eligible(u)}

Orphaned(c, r) ==
    \/ LeadLost(c, r) /\ TeamHeirs(c, r) = {}
    \/ r \in Touched(c) /\ Kind[r] = "external" /\ ~GuestRemains(c, r)
    \/ r \in Touched(c) /\ ~OwnerRemains(c, r) /\ RoomHeirs(c, r) = {}

SeatsAfter(c, r) ==
    LET mine == [seat[r] EXCEPT ![c.user] = OwnSeat(c, r)] IN
    IF Orphaned(c, r) THEN mine
    ELSE IF LeadLost(c, r)
    THEN [Replaced(mine, SeatedAfter(c)[r], "owner", "member")
            EXCEPT ![Least(TeamHeirs(c, r))] = "owner"]
    ELSE IF r \in Touched(c) /\ ~OwnerRemains(c, r)
    THEN [mine EXCEPT ![Least(RoomHeirs(c, r))] = "owner"]
    ELSE mine

OpenAfter(c, r) == IF Orphaned(c, r) /\ open[r] = "open" THEN "archived" ELSE open[r]

(* handoffOpenResponseObligations: the owner of the room first, then the     *)
(* other participants in order.                                              *)
Answerers(c, r) ==
    {u \in SeatedAfter(c)[r] \ {c.user} :
        /\ u \in active /\ role[u] # "viewer"
        /\ role[u] = "guest" => Kind[r] = "external"
        /\ r \in TeamRoom => TeamAfter(c, r)[u] # "none"}

(* A wrong handoff: to the next participant, whoever that is. *)
AskHandedToAnyone(c, r) ==
    LET others == SeatedAfter(c)[r] \ {c.user} IN
    IF ~OwesAnswer(c.user, r) \/ ~(ToViewer(c) \/ r \in LostRooms(c)) THEN ask[r]
    ELSE IF OpenAfter(c, r) # "open" \/ others = {}
    THEN [state |-> "cancelled", owner |-> None]
    ELSE [state |-> "open", owner |-> Least(others)]

AskAfter(c, r) ==
    LET owners == {u \in Answerers(c, r) : SeatsAfter(c, r)[u] = "owner"} IN
    IF ~OwesAnswer(c.user, r) \/ ~(ToViewer(c) \/ r \in LostRooms(c)) THEN ask[r]
    ELSE IF OpenAfter(c, r) # "open" \/ Answerers(c, r) = {}
    THEN [state |-> "cancelled", owner |-> None]
    ELSE [state |-> "open",
          owner |-> Least(IF owners # {} THEN owners ELSE Answerers(c, r))]

CommitMembership(p) ==
    LET c == request[p] IN
    /\ c.op = "updateMembership"
    /\ role' = [role EXCEPT ![c.user] = c.as]
    /\ active' = IF Revokes(c) THEN active \ {c.user} ELSE active \cup {c.user}
    /\ team' = [r \in TeamRoom |-> TeamAfter(c, r)]
    /\ seat' = [r \in Room |-> SeatsAfter(c, r)]
    /\ seated' = SeatedAfter(c)
    /\ open' = [r \in Room |-> OpenAfter(c, r)]
    /\ ask' = [r \in Room |-> AskAfter(c, r)]
    /\ Done(p)

(* A crash, a lost connection or a version conflict rolls a request back. *)
RollBackRoom(p) ==
    /\ ~Free(p)
    /\ Done(p)
    /\ UNCHANGED <<members, rooms, ask>>

-----------------------------------------------------------------------------
Creation(p) ==
    \/ \E r \in TeamRoom, u \in User :
            \E with \in SUBSET (User \ {u}) : CreateTeam(p, r, u, with)
    \/ \E r \in OwnRoom, u \in User :
            \E with \in SUBSET (User \ {u}) : CreateConversation(p, r, u, with)
    \/ CommitTeam(p)
    \/ CommitConversation(p)

TeamChange(p) ==
    \/ \E r \in TeamRoom, u \in User, as \in {"lead", "member"} : SetTeamMember(p, r, u, as)
    \/ \E r \in TeamRoom, u \in User : RemoveTeamMember(p, r, u)
    \/ \E r \in TeamRoom, u \in User, as \in Role : AcceptInvitation(p, r, u, as)
    \/ CommitTeamMember(p)
    \/ CommitTeamRemoval(p)

ParticipantChange(p) ==
    \/ \E r \in OwnRoom, u \in User, as \in {"owner", "member"} : AddParticipant(p, r, u, as)
    \/ \E r \in OwnRoom, u \in User : RemoveParticipant(p, r, u)
    \/ CommitParticipant(p)
    \/ CommitRemoval(p)

MessageChange(p) ==
    \/ \E r \in Room, u \in User : SendMessage(p, r, u)
    \/ \E r \in Room, state \in {"open", "resolved"} : SetMessageResponse(p, r, state)
    \/ CommitMessage(p)

MembershipChange(p) ==
    \/ \E u \in User, as \in Role, stays \in BOOLEAN : UpdateMembership(p, u, as, stays)
    \/ CommitMembership(p)

RoomsNext ==
    \E p \in Request :
        \/ Creation(p) \/ TeamChange(p) \/ ParticipantChange(p)
        \/ MessageChange(p) \/ MembershipChange(p) \/ RollBackRoom(p)

RoomsSpec == RoomsInit /\ [][RoomsNext]_roomsVars

-----------------------------------------------------------------------------
RoomsTypeOK ==
    /\ role \in [User -> Role]
    /\ active \subseteq User
    /\ team \in [TeamRoom -> [User -> TeamRole]]
    /\ seat \in [Room -> [User -> Seat]]
    /\ seated \in [Room -> SUBSET User]
    /\ open \in [Room -> {"absent", "open", "archived"}]
    /\ ask \in [Room -> [state : ResponseState, owner : User \cup {None}]]
    /\ request \in [Request -> Call]

(* The organization keeps an active owner, whatever two administrators do to *)
(* each other at once (updateMembership counts the owners it can see).       *)
OwnerRetained == \E u \in active : role[u] = "owner"

(* An active team has one lead, who may lead, owns the room and is the only  *)
(* owner of it: across handovers, demotions to viewer or guest, revocations  *)
(* and requests that read the lead's role before it changed.                 *)
OneEligibleLead ==
    \A r \in TeamRoom : open[r] = "open" =>
        \E u \in User :
            /\ Eligible(u)
            /\ {v \in User : team[r][v] = "lead"} = {u}
            /\ {v \in seated[r] : seat[r][v] = "owner"} = {u}

(* Team and room have the same people in them, all of them active members:   *)
(* the participant rows are a copy of the team's that every path keeps.      *)
RoomMirrorsTeam ==
    \A r \in TeamRoom :
        /\ seated[r] = {u \in User : team[r][u] # "none"}
        /\ seated[r] \subseteq active

(* A revoked member sits in no room, even when a request that found the      *)
(* member active was under way.                                              *)
NobodyStaysBehind == \A r \in Room : seated[r] \subseteq active

(* An open external room has an active guest: removing one guest and         *)
(* promoting or revoking the other cannot both go through.                   *)
ExternalRoomsHaveGuests ==
    \A r \in Room : Kind[r] = "external" /\ open[r] = "open" =>
        \E u \in seated[r] : ActiveGuest(u)

(* An open room owned by members who may own it stays owned, whoever leaves, *)
(* hands over, is revoked or loses the right to own it.                      *)
OwnershipIsKept ==
    [][\A r \in OwnRoom :
        LET owners == {u \in seated[r] : seat[r][u] = "owner"} IN
        open[r] = "open" /\ open'[r] = "open" /\ owners # {}
            /\ (\A u \in owners : Eligible(u))
        => \E u \in seated'[r] : seat'[r][u] = "owner"
      ]_roomsVars

(* A membership change hands on every open question of the rooms its member  *)
(* leaves, and all of a new viewer's, to somebody who may answer it.         *)
HandoffIsComplete ==
    [][\A u \in User, r \in Room :
        LET leaves == u \in active /\ u \notin active' /\ u \in seated[r]
            views == u \in active /\ role[u] # "viewer" /\ role'[u] = "viewer"
            next == ask'[r].owner
        IN OwesAnswer(u, r) /\ (leaves \/ (views /\ u \in active')) =>
            /\ next # u
            /\ ask'[r].state = "open" =>
                /\ next \in seated'[r] \cap active'
                /\ role'[next] # "viewer"
                /\ open'[r] = "open"
      ]_roomsVars

(* What collaboration-repositories.ts:1779 says: "Guests and viewers cannot  *)
(* own a conversation."                                                      *)
OwnersAreEligible ==
    \A r \in OwnRoom, u \in User :
        open[r] = "open" /\ u \in seated[r] /\ seat[r][u] = "owner" => Eligible(u)

(* What collaboration-repositories.ts:2034 says: "A read-only viewer cannot  *)
(* own a response obligation."                                               *)
ViewersOweNothing ==
    \A r \in Room, u \in User :
        open[r] = "open" /\ u \in active /\ role[u] = "viewer" => ~OwesAnswer(u, r)

(* What collaboration-repositories.ts:3792 says: "Resolve this participant's *)
(* open requests and decisions before removing them."                        *)
LeaversOweNothing ==
    \A r \in Room, u \in User :
        open[r] = "open" /\ u \notin seated[r] => ~OwesAnswer(u, r)

(* What collaboration-repositories.ts:1777 says: "Guest participants require *)
(* an external guest-scoped room."                                           *)
GuestsInExternalRooms ==
    \A r \in Room, u \in User :
        open[r] = "open" /\ u \in seated[r] /\ role[u] = "guest" => Kind[r] = "external"

(* Organization, team and room agree whatever two requests do at once: an     *)
(* owner, a lead entitled to be one, a room with the team's people, nobody    *)
(* seated who was revoked, and a guest where the room is for guests.          *)
RoomsConsistent ==
    /\ RoomsTypeOK
    /\ OwnerRetained
    /\ OneEligibleLead
    /\ RoomMirrorsTeam
    /\ NobodyStaysBehind
    /\ ExternalRoomsHaveGuests

(* Whoever leaves or loses the right to act leaves neither a room without its *)
(* owner nor a question without somebody to answer it.                        *)
NothingIsOrphaned == OwnershipIsKept /\ HandoffIsComplete
=============================================================================
