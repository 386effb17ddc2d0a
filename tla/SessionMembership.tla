-------------------------- MODULE SessionMembership --------------------------
(***************************************************************************)
(* Who takes part in a session, and as what: the user_x_sessions rows, the *)
(* participant link that the API server keeps per websocket connection, and *)
(* the RPCs and requests that change them (internal/websocket/handler.go,   *)
(* internal/handler/sessions_create.go, sessions_members.go,                *)
(* sessions_end.go).  Every handler checks first and writes in a later      *)
(* statement; a call in flight holds what it read.  Purposes are fixed.     *)
(***************************************************************************)
CONSTANTS
  Sessions,   \* sessions that may be created
  Users,
  Clients,    \* websocket connections; one RPC at a time each
  Posts,      \* HTTP requests that can be in flight together
  UserOf,     \* the user of a connection
  Invitable,  \* the sessions whose purpose allows invitations
  None

Callers == Clients \cup Posts
Roles   == {"owner", "editor", "viewer"}

\* None is no session, user or role.
ASSUME MembershipAssumption ==
  /\ UserOf \in [Clients -> Users]
  /\ Invitable \subseteq Sessions
  /\ Clients \cap Posts = {}
  /\ None \notin Sessions \cup Users \cup Roles

VARIABLES
  status,  \* sessions.status; "over" is every status after recording
  member,  \* user_x_sessions: the role of a user in a session, or None
  link,    \* ParticipantLink of a connection: its session and role, or NoLink
  call     \* the handler in flight of a connection or HTTP slot

vars == <<status, member, link, call>>

Active == {"new", "recording"}

NoLink   == [ses |-> None, role |-> None]
IdleCall == [at |-> "idle", ses |-> None, user |-> None, role |-> None]

\* user: whose row the next statement is about; role: the role it writes, or
\* the role that was read.
CreateCalls == [at : {"create", "start_create"}, ses : {None}, user : Users,
                role : {None}]
RowCalls    == [at : {"add", "code_add", "join_status", "join_link"}, ses : Sessions,
                user : Users, role : Roles]
PlainCalls  == [at : {"start_record", "begin_write", "remove", "join_read",
                      "code_read", "end_write"},
                ses : Sessions, user : Users, role : {None}]

TypeOK ==
  /\ status \in [Sessions -> Active \cup {"absent", "over"}]
  /\ member \in [Sessions -> [Users -> Roles \cup {None}]]
  /\ link \in [Clients -> {NoLink} \cup [ses : Sessions, role : Roles]]
  /\ call \in [Callers -> {IdleCall} \cup CreateCalls \cup RowCalls \cup PlainCalls]

Init ==
  /\ status = [s \in Sessions |-> "absent"]
  /\ member = [s \in Sessions |-> [u \in Users |-> None]]
  /\ link = [c \in Clients |-> NoLink]
  /\ call = [c \in Callers |-> IdleCall]

-----------------------------------------------------------------------------
(* The rows of user_x_sessions, keyed by user and session.                 *)

HasUserAccess(u, s) == member[s][u] # None

\* Mutation of AddUserToSession: an upsert instead of an insert.
AddUserToSessionUpsert(u, s, role) ==
  member' = [member EXCEPT ![s][u] = role]

\* A plain insert: the primary key refuses a second row.
AddUserToSession(u, s, role) ==
  member' = [member EXCEPT ![s][u] = IF @ = None THEN role ELSE @]

RemoveUserFromSession(u, s) == member' = [member EXCEPT ![s][u] = None]

\* GetActiveSessionByUser: any active session the user takes part in.
HasActiveSession(u) ==
  \E s \in Sessions : status[s] \in Active /\ HasUserAccess(u, s)

\* CreateNewSession: the session and its owner in one transaction.
CreateNewSession(u, s) ==
  /\ status[s] = "absent"
  /\ status' = [status EXCEPT ![s] = "new"]
  /\ member' = [member EXCEPT ![s][u] = "owner"]

Goto(c, at, s, u, role) ==
  call' = [call EXCEPT ![c] = [at |-> at, ses |-> s, user |-> u, role |-> role]]

Return(c) == call' = [call EXCEPT ![c] = IdleCall]

-----------------------------------------------------------------------------
(* Creating, starting, stopping and ending a session.                      *)

CreateSession(p, u) ==
  /\ ~HasActiveSession(u)
  /\ Goto(p, "create", None, u, None)
  /\ UNCHANGED <<status, member, link>>

CreateWrite(p) ==
  /\ call[p].at = "create"
  /\ \E s \in Sessions : CreateNewSession(call[p].user, s)
  /\ Return(p)
  /\ UNCHANGED link

RecordingStart(c) ==
  /\ link[c] = NoLink
  /\ ~HasActiveSession(UserOf[c])
  /\ Goto(c, "start_create", None, UserOf[c], None)
  /\ UNCHANGED <<status, member, link>>

StartCreate(c) ==
  /\ call[c].at = "start_create"
  /\ \E s \in Sessions :
       /\ CreateNewSession(call[c].user, s)
       /\ Goto(c, "start_record", s, call[c].user, None)
  /\ UNCHANGED link

\* Shared tail of recording_start and recording_begin: the status, then the link.
StartRecord(c) ==
  /\ call[c].at \in {"start_record", "begin_write"}
  /\ status' = [status EXCEPT ![call[c].ses] = "recording"]
  /\ link' = [link EXCEPT ![c] = [ses |-> call[c].ses, role |-> "owner"]]
  /\ Return(c)
  /\ UNCHANGED member

\* Mutation of RecordingBegin: any member may begin.
RecordingBeginMember(c, s) ==
  /\ link[c] = NoLink
  /\ HasUserAccess(UserOf[c], s)
  /\ status[s] = "new"
  /\ Goto(c, "begin_write", s, UserOf[c], None)
  /\ UNCHANGED <<status, member, link>>

RecordingBegin(c, s) ==
  /\ link[c] = NoLink
  /\ member[s][UserOf[c]] = "owner"
  /\ status[s] = "new"
  /\ Goto(c, "begin_write", s, UserOf[c], None)
  /\ UNCHANGED <<status, member, link>>

\* The link alone says that the caller owns the session.
RecordingStop(c) ==
  /\ link[c].role = "owner"
  /\ status' = [status EXCEPT ![link[c].ses] = "over"]
  /\ link' = [link EXCEPT ![c] = NoLink]
  /\ UNCHANGED <<member, call>>

EndSession(p, u, s) ==
  /\ member[s][u] = "owner"
  /\ status[s] = "new"
  /\ Goto(p, "end_write", s, u, None)
  /\ UNCHANGED <<status, member, link>>

EndWrite(p) ==
  /\ call[p].at = "end_write"
  /\ status' = [status EXCEPT ![call[p].ses] = "over"]
  /\ Return(p)
  /\ UNCHANGED <<member, link>>

-----------------------------------------------------------------------------
(* Inviting, declining, joining, leaving and removing.                     *)

\* A linked connection acts with its link's role, another with the row's.
InviteRole(c, s) ==
  IF link[c] # NoLink THEN link[c].role ELSE member[s][UserOf[c]]

SessionInvite(c, s, u, role) ==
  /\ u # UserOf[c]
  /\ link[c] # NoLink => s = link[c].ses
  /\ InviteRole(c, s) \in {"owner", "editor"}
  /\ role \in {"editor", "viewer"}
  /\ s \in Invitable
  /\ ~HasUserAccess(u, s)
  /\ Goto(c, "add", s, u, role)
  /\ UNCHANGED <<status, member, link>>

Add(c) ==
  /\ call[c].at = "add"
  /\ AddUserToSession(call[c].user, call[c].ses, call[c].role)
  /\ Return(c)
  /\ UNCHANGED <<status, link>>

SessionInviteDecline(c, s) ==
  /\ HasUserAccess(UserOf[c], s)
  /\ member[s][UserOf[c]] # "owner"
  /\ Goto(c, "remove", s, UserOf[c], None)
  /\ UNCHANGED <<status, member, link>>

\* By session id.
SessionJoin(c, s) ==
  /\ link[c] = NoLink
  /\ Goto(c, "join_read", s, UserOf[c], None)
  /\ UNCHANGED <<status, member, link>>

\* By the code of an active session: a stranger becomes a viewer first.
SessionJoinByCode(c, s) ==
  /\ link[c] = NoLink
  /\ status[s] \in Active
  /\ \/ /\ HasUserAccess(UserOf[c], s)
        /\ Goto(c, "join_read", s, UserOf[c], None)
     \/ /\ ~HasUserAccess(UserOf[c], s)
        /\ s \in Invitable
        /\ Goto(c, "code_add", s, UserOf[c], "viewer")
  /\ UNCHANGED <<status, member, link>>

\* The insert fails, and the join with it, when an invitation came first.
CodeAdd(c) ==
  /\ call[c].at = "code_add"
  /\ AddUserToSession(call[c].user, call[c].ses, "viewer")
  /\ IF HasUserAccess(call[c].user, call[c].ses) THEN Return(c)
     ELSE Goto(c, "code_read", call[c].ses, call[c].user, None)
  /\ UNCHANGED <<status, link>>

\* After an insert by code the status read before it is used again.
AfterRead(c) == IF call[c].at = "code_read" THEN "join_link" ELSE "join_status"

\* Mutation of JoinRead: the role is read without the access check.
JoinReadUnchecked(c) ==
  /\ call[c].at \in {"join_read", "code_read"}
  /\ Goto(c, AfterRead(c), call[c].ses, call[c].user,
          member[call[c].ses][call[c].user])
  /\ UNCHANGED <<status, member, link>>

JoinRead(c) ==
  /\ call[c].at \in {"join_read", "code_read"}
  /\ LET s == call[c].ses
         u == call[c].user
     IN IF HasUserAccess(u, s) THEN Goto(c, AfterRead(c), s, u, member[s][u])
                               ELSE Return(c)
  /\ UNCHANGED <<status, member, link>>

JoinStatus(c) ==
  /\ call[c].at = "join_status"
  /\ IF status[call[c].ses] \in Active
     THEN Goto(c, "join_link", call[c].ses, call[c].user, call[c].role)
     ELSE Return(c)
  /\ UNCHANGED <<status, member, link>>

\* SetLink with the role read before, whatever happened to the row since.
JoinLink(c) ==
  /\ call[c].at = "join_link"
  /\ link' = [link EXCEPT ![c] = [ses |-> call[c].ses, role |-> call[c].role]]
  /\ Return(c)
  /\ UNCHANGED <<status, member>>

\* Mutation of SessionLeave: the owner's link is not restored but used.
SessionLeaveAnyone(c) ==
  /\ link[c] # NoLink
  /\ link' = [link EXCEPT ![c] = NoLink]
  /\ Goto(c, "remove", link[c].ses, UserOf[c], None)
  /\ UNCHANGED <<status, member>>

SessionLeave(c) ==
  /\ link[c] # NoLink
  /\ link[c].role # "owner"
  /\ link' = [link EXCEPT ![c] = NoLink]
  /\ Goto(c, "remove", link[c].ses, UserOf[c], None)
  /\ UNCHANGED <<status, member>>

\* DELETE members: the row goes, the links of its user stay.
RemoveSessionMember(p, u, s, target) ==
  /\ member[s][u] \in {"owner", "editor"}
  /\ HasUserAccess(target, s)
  /\ member[s][target] # "owner"
  /\ Goto(p, "remove", s, target, None)
  /\ UNCHANGED <<status, member, link>>

\* The DELETE of decline, leave and remove: by key, whatever the role is now.
Remove(c) ==
  /\ call[c].at = "remove"
  /\ RemoveUserFromSession(call[c].user, call[c].ses)
  /\ Return(c)
  /\ UNCHANGED <<status, link>>

\* OnDisconnect forgets the link, also in the middle of an RPC.
Disconnect(c) ==
  /\ link[c] # NoLink
  /\ link' = [link EXCEPT ![c] = NoLink]
  /\ UNCHANGED <<status, member, call>>

\* The server process restarts: only the rows are left.
ServerCrash ==
  /\ call' = [c \in Callers |-> IdleCall]
  /\ link' = [c \in Clients |-> NoLink]
  /\ UNCHANGED <<status, member>>

-----------------------------------------------------------------------------
ClientRequest(c) ==
  /\ call[c] = IdleCall
  /\ \/ RecordingStart(c) \/ RecordingStop(c) \/ SessionLeave(c)
     \/ \E s \in Sessions :
          \/ RecordingBegin(c, s) \/ SessionInviteDecline(c, s)
          \/ SessionJoin(c, s) \/ SessionJoinByCode(c, s)
          \/ \E u \in Users, role \in Roles : SessionInvite(c, s, u, role)

PostRequest(p) ==
  /\ call[p] = IdleCall
  /\ \E u \in Users :
       \/ CreateSession(p, u)
       \/ \E s \in Sessions :
            \/ EndSession(p, u, s)
            \/ \E target \in Users : RemoveSessionMember(p, u, s, target)

CallStep(c) ==
  \/ CreateWrite(c) \/ EndWrite(c) \/ Add(c) \/ CodeAdd(c) \/ JoinRead(c)
  \/ JoinStatus(c) \/ Remove(c)

ClientStep(c) == StartCreate(c) \/ StartRecord(c) \/ JoinLink(c) \/ Disconnect(c)

Next ==
  \/ \E c \in Clients : ClientRequest(c) \/ ClientStep(c)
  \/ \E p \in Posts : PostRequest(p)
  \/ \E c \in Callers : CallStep(c)
  \/ ServerCrash

Spec == Init /\ [][Next]_vars

-----------------------------------------------------------------------------
\* A session that exists has one owner, and goes on having one: no order of
\* invitations, declines, joins by code, departures and removals, each of
\* which checks and writes in separate statements, leaves a session without
\* the user who can begin, stop and end it or gives it a second one.
OneOwner ==
  \A s \in Sessions : status[s] # "absent" =>
    \E u \in Users : \A v \in Users : member[s][v] = "owner" <=> v = u

\* recording_stop and session_leave decide by the link alone: a link says
\* owner exactly when its user owns the session.
LinkKnowsOwner ==
  \A c \in Clients : link[c] # NoLink =>
    (link[c].role = "owner" <=> member[link[c].ses][UserOf[c]] = "owner")

\* A role is given once: while a user takes part, no racing invitation or
\* join by code changes what the user takes part as.
RolesAreGivenOnce ==
  [][\A s \in Sessions, u \in Users :
       HasUserAccess(u, s) => member'[s][u] \in {member[s][u], None}]_vars

-----------------------------------------------------------------------------
\* The inductive invariant.  An owner's row is never touched, because what a
\* handler in flight read of it cannot change.
CallKnowsOwner ==
  \A c \in Callers :
    LET owns == member[call[c].ses][call[c].user] = "owner"
    IN /\ call[c].at \in {"start_record", "begin_write"} => owns
       /\ call[c].at = "remove" => ~owns
       /\ call[c].at \in {"join_status", "join_link"} => (call[c].role = "owner" <=> owns)
       /\ call[c].at \in {"add", "code_add"} => call[c].role # "owner"
       /\ c \in Clients /\ call[c].at \in
                {"start_create", "start_record", "begin_write", "code_add",
                 "join_read", "code_read", "join_status", "join_link"}
            => call[c].user = UserOf[c]

\* A session that does not exist yet has no rows.
NoRowsBefore ==
  \A s \in Sessions : status[s] = "absent" => \A u \in Users : member[s][u] = None

\* Links, and handlers that checked a row, are about sessions that exist.
SessionsExist ==
  /\ \A c \in Clients : link[c] # NoLink => status[link[c].ses] # "absent"
  /\ \A c \in Callers :
       call[c].at \in {"add", "code_add", "join_status", "join_link",
                      "start_record", "begin_write", "remove", "end_write"}
         => status[call[c].ses] # "absent"

MembershipInv ==
  /\ TypeOK
  /\ OneOwner
  /\ LinkKnowsOwner
  /\ CallKnowsOwner
  /\ NoRowsBefore
  /\ SessionsExist
=============================================================================
