---------------------- MODULE SessionMembership_proofs ----------------------
(***************************************************************************)
(* One owner per session, for any number of users, connections, requests    *)
(* and sessions.  The argument is MembershipInv: an owner's row is written   *)
(* once, with its session, and whatever a link or a handler in flight knows  *)
(* of who owns a session it knows for good; so no handler that may remove or *)
(* add a row holds the owner's.                                             *)
(***************************************************************************)
EXTENDS SessionMembership, TLAPS

\* The kinds of calls in flight: each step of a handler knows its session,
\* its user and its role.
LEMMA CallOf ==
  ASSUME TypeOK, NEW c \in Callers
  PROVE  /\ call[c] = IdleCall \/ call[c] \in CreateCalls
              \/ call[c] \in RowCalls \/ call[c] \in PlainCalls
         /\ call[c].at \in {"create", "start_create"} => call[c] \in CreateCalls
         /\ call[c].at \in {"add", "code_add", "join_status", "join_link"}
              => call[c] \in RowCalls
         /\ call[c].at \in {"start_record", "begin_write", "remove", "join_read",
                            "code_read", "end_write"} => call[c] \in PlainCalls
  BY DEF TypeOK, IdleCall, CreateCalls, RowCalls, PlainCalls

-----------------------------------------------------------------------------
\* What the invariant says of one link and of one call.
LinkFine(c) ==
  link[c] # NoLink =>
    /\ status[link[c].ses] # "absent"
    /\ link[c].role = "owner" <=> member[link[c].ses][UserOf[c]] = "owner"

CallFine(c) ==
  LET owns == member[call[c].ses][call[c].user] = "owner"
  IN /\ call[c].at \in {"start_record", "begin_write"} => owns
     /\ call[c].at = "remove" => ~owns
     /\ call[c].at \in {"join_status", "join_link"} => (call[c].role = "owner" <=> owns)
     /\ call[c].at \in {"add", "code_add"} => call[c].role # "owner"
     /\ c \in Clients /\ call[c].at \in
              {"start_create", "start_record", "begin_write", "code_add",
               "join_read", "code_read", "join_status", "join_link"}
          => call[c].user = UserOf[c]
     /\ call[c].at \in {"add", "code_add", "join_status", "join_link",
                        "start_record", "begin_write", "remove", "end_write"}
          => status[call[c].ses] # "absent"

\* The three parts of the invariant about links and calls, one at a time.
LEMMA OneByOne ==
  (LinkKnowsOwner /\ CallKnowsOwner /\ SessionsExist)
    <=> (\A c \in Clients : LinkFine(c)) /\ (\A c \in Callers : CallFine(c))
  BY DEF LinkKnowsOwner, CallKnowsOwner, SessionsExist, LinkFine, CallFine

\* The rows: one owner where there is a session, nobody where there is none.
RowsFine == OneOwner /\ NoRowsBefore

\* A step that makes no session vanish and leaves its owner's row alone.
OwnersKept ==
  \A s \in Sessions : status[s] # "absent" =>
    /\ status'[s] # "absent"
    /\ \A u \in Users : member'[s][u] = "owner" <=> member[s][u] = "owner"

\* The initial rows, links and calls satisfy the invariant.
LEMMA Initially == ASSUME Init PROVE MembershipInv
  <1>1. TypeOK
    BY DEF Init, TypeOK, Active
  <1>2. OneOwner /\ NoRowsBefore
    BY DEF Init, OneOwner, NoRowsBefore
  <1>3. LinkKnowsOwner /\ CallKnowsOwner /\ SessionsExist
    BY DEF Init, LinkKnowsOwner, CallKnowsOwner, SessionsExist, IdleCall, NoLink,
           Callers
  <1> QED BY <1>1, <1>2, <1>3 DEF MembershipInv

-----------------------------------------------------------------------------
(* The four ways in which a step changes the rows.                         *)

\* Most steps leave them alone.
LEMMA RowsSame ==
  ASSUME TypeOK, RowsFine, UNCHANGED <<status, member>>
  PROVE  RowsFine' /\ OwnersKept
  BY DEF RowsFine, OneOwner, NoRowsBefore, OwnersKept

\* UpdateStatus on a session that exists.
LEMMA StatusWritten ==
  ASSUME TypeOK, RowsFine, NEW s \in Sessions, NEW st \in {"recording", "over"},
         status[s] # "absent",
         status' = [status EXCEPT ![s] = st], UNCHANGED member
  PROVE  RowsFine' /\ OwnersKept /\ status' \in [Sessions -> Active \cup {"absent", "over"}]
  BY DEF RowsFine, OneOwner, NoRowsBefore, OwnersKept, TypeOK, Active

\* CreateNewSession makes its user the one owner of a session without rows.
LEMMA SessionCreated ==
  ASSUME TypeOK, RowsFine, NEW s \in Sessions, NEW u \in Users, CreateNewSession(u, s)
  PROVE  /\ RowsFine' /\ OwnersKept
         /\ status' \in [Sessions -> Active \cup {"absent", "over"}]
         /\ member' \in [Sessions -> [Users -> Roles \cup {None}]]
         /\ status'[s] # "absent" /\ member'[s][u] = "owner"
  <1>1. /\ status' \in [Sessions -> Active \cup {"absent", "over"}]
        /\ member' \in [Sessions -> [Users -> Roles \cup {None}]]
        /\ status'[s] # "absent" /\ member'[s][u] = "owner"
    BY DEF TypeOK, CreateNewSession, Active, Roles
  <1>2. \A t \in Sessions \ {s} : status'[t] = status[t] /\ member'[t] = member[t]
    BY DEF TypeOK, CreateNewSession
  <1>3. None # "owner"
    BY MembershipAssumption DEF Roles
  <1>4. \A v \in Users : member'[s][v] = "owner" <=> v = u
    BY <1>3 DEF TypeOK, RowsFine, NoRowsBefore, CreateNewSession
  <1>5. OwnersKept
    BY <1>2 DEF OwnersKept, CreateNewSession
  <1>6. OneOwner'
    BY <1>2, <1>4 DEF OneOwner, RowsFine
  <1>7. NoRowsBefore'
    BY <1>1, <1>2 DEF NoRowsBefore, RowsFine
  <1> QED BY <1>1, <1>5, <1>6, <1>7 DEF RowsFine

\* AddUserToSession never touches a row that is there, so not the owner's.
LEMMA RowAdded ==
  ASSUME TypeOK, RowsFine, NEW s \in Sessions, NEW u \in Users, NEW role \in Roles,
         role # "owner", status[s] # "absent",
         AddUserToSession(u, s, role), UNCHANGED status
  PROVE  RowsFine' /\ OwnersKept /\ member' \in [Sessions -> [Users -> Roles \cup {None}]]
  <1>1. member' \in [Sessions -> [Users -> Roles \cup {None}]]
    BY DEF TypeOK, AddUserToSession
  <1>2. \A t \in Sessions \ {s} : member'[t] = member[t]
    BY DEF TypeOK, AddUserToSession
  <1>3. \A v \in Users : member'[s][v] = "owner" <=> member[s][v] = "owner"
    BY MembershipAssumption DEF TypeOK, AddUserToSession, Roles
  <1> QED BY <1>1, <1>2, <1>3 DEF RowsFine, OneOwner, NoRowsBefore, OwnersKept

\* RemoveUserFromSession on a row that is not the owner's.
LEMMA RowRemoved ==
  ASSUME TypeOK, RowsFine, NEW s \in Sessions, NEW u \in Users,
         status[s] # "absent", member[s][u] # "owner",
         RemoveUserFromSession(u, s), UNCHANGED status
  PROVE  RowsFine' /\ OwnersKept /\ member' \in [Sessions -> [Users -> Roles \cup {None}]]
  <1>1. member' \in [Sessions -> [Users -> Roles \cup {None}]]
    BY DEF TypeOK, RemoveUserFromSession
  <1>2. \A t \in Sessions \ {s} : member'[t] = member[t]
    BY DEF TypeOK, RemoveUserFromSession
  <1>3. None # "owner"
    BY MembershipAssumption DEF Roles
  <1>4. \A v \in Users : member'[s][v] = "owner" <=> member[s][v] = "owner"
    BY <1>3 DEF TypeOK, RemoveUserFromSession
  <1> QED BY <1>1, <1>2, <1>4 DEF RowsFine, OneOwner, NoRowsBefore, OwnersKept

-----------------------------------------------------------------------------
(* Links and calls.                                                        *)

\* A link that a step keeps knows what it knew.
LEMMA LinkKept ==
  ASSUME TypeOK, OwnersKept, NEW c \in Clients, LinkFine(c), link'[c] = link[c]
  PROVE  LinkFine(c)'
  <1>1. link[c] # NoLink => link[c].ses \in Sessions /\ UserOf[c] \in Users
    BY MembershipAssumption DEF TypeOK, NoLink
  <1> QED BY <1>1 DEF OwnersKept, LinkFine, NoLink

\* So does a handler that a step does not concern.
LEMMA CallKept ==
  ASSUME TypeOK, OwnersKept, NEW c \in Callers, CallFine(c), call'[c] = call[c]
  PROVE  CallFine(c)'
  <1>1. CASE call[c].at \in {"idle", "create", "start_create", "join_read", "code_read"}
    BY <1>1 DEF CallFine
  <1>2. CASE call[c] \in RowCalls
    BY <1>2 DEF CallFine, OwnersKept, RowCalls
  <1>3. CASE call[c] \in PlainCalls
    BY <1>3 DEF CallFine, OwnersKept, PlainCalls
  <1> QED BY <1>1, <1>2, <1>3, CallOf DEF IdleCall, CreateCalls

\* A step of handler c that changes at most its own call and link, and leaves
\* these fine, leaves all of them fine.
LEMMA StepOf ==
  ASSUME MembershipInv, OwnersKept, RowsFine', TypeOK',
         \E c \in Callers :
           /\ \A d \in Callers \ {c} : call'[d] = call[d]
           /\ \A d \in Clients \ {c} : link'[d] = link[d]
           /\ call'[c] \in {call[c], IdleCall} \/ CallFine(c)'
           /\ c \in Clients => link'[c] \in {link[c], NoLink} \/ LinkFine(c)'
  PROVE  MembershipInv'
  <1> USE DEF MembershipInv
  <1>1. ASSUME NEW d \in Callers PROVE CallFine(d)'
    <2>1. CallFine(d)
      BY OneByOne
    <2>2. CASE call'[d] = call[d]
      BY <2>1, <2>2, CallKept
    <2>3. CASE call'[d] = IdleCall
      BY <2>3 DEF CallFine, IdleCall
    <2> QED BY <2>2, <2>3
  <1>2. ASSUME NEW d \in Clients PROVE LinkFine(d)'
    <2>1. LinkFine(d)
      BY OneByOne
    <2>2. CASE link'[d] = link[d]
      BY <2>1, <2>2, LinkKept
    <2>3. CASE link'[d] = NoLink
      BY <2>3 DEF LinkFine
    <2> QED BY <2>2, <2>3
  <1>3. LinkKnowsOwner' /\ CallKnowsOwner' /\ SessionsExist'
    BY <1>1, <1>2 DEF LinkKnowsOwner, CallKnowsOwner, SessionsExist, LinkFine, CallFine
  <1> QED BY <1>3 DEF RowsFine

\* A request of a connection: a check, and a call or a link that follows.
LEMMA ClientRequestInv ==
  ASSUME MembershipInv, NEW c \in Clients, ClientRequest(c)
  PROVE  MembershipInv'
  <1> USE DEF MembershipInv
  <1>1. c \in Callers /\ UserOf[c] \in Users /\ LinkFine(c) /\ RowsFine /\ call[c] = IdleCall
    BY OneByOne, MembershipAssumption DEF Callers, RowsFine, ClientRequest
  <1>2. None \notin Sessions /\ None \notin Roles /\ "owner" \in Roles
    BY MembershipAssumption DEF Roles
  <1>3. CASE RecordingStart(c)
    <2>1. TypeOK'
      BY <1>1, <1>3 DEF RecordingStart, Goto, TypeOK, CreateCalls
    <2>2. CallFine(c)'
      BY <1>1, <1>3 DEF RecordingStart, Goto, TypeOK, CallFine
    <2> QED BY <1>1, <1>3, <2>1, <2>2, RowsSame, StepOf DEF RecordingStart, Goto, TypeOK
  <1>4. CASE RecordingStop(c)
    <2>1. /\ link[c] # NoLink /\ link[c].ses \in Sessions
          /\ status[link[c].ses] # "absent"
      BY <1>1, <1>2, <1>4 DEF RecordingStop, NoLink, TypeOK, LinkFine
    <2>2. RowsFine' /\ OwnersKept /\ status' \in [Sessions -> Active \cup {"absent", "over"}]
      BY <1>1, <1>4, <2>1, StatusWritten DEF RecordingStop
    <2>3. TypeOK'
      BY <1>1, <1>4, <2>2 DEF RecordingStop, TypeOK
    <2> QED BY <1>1, <1>4, <2>2, <2>3, StepOf DEF RecordingStop, TypeOK
  <1>5. CASE SessionLeave(c)
    <2>1. /\ link[c].ses \in Sessions /\ status[link[c].ses] # "absent"
          /\ member[link[c].ses][UserOf[c]] # "owner"
      BY <1>1, <1>5 DEF SessionLeave, TypeOK, LinkFine
    <2>2. TypeOK'
      BY <1>1, <1>5, <2>1 DEF SessionLeave, Goto, TypeOK, PlainCalls
    <2>3. CallFine(c)'
      BY <1>1, <1>5, <2>1 DEF SessionLeave, Goto, TypeOK, CallFine
    <2> QED BY <1>1, <1>5, <2>2, <2>3, RowsSame, StepOf DEF SessionLeave, Goto, TypeOK
  <1>6. ASSUME NEW s \in Sessions, RecordingBegin(c, s) PROVE MembershipInv'
    <2>1. TypeOK'
      BY <1>1, <1>6 DEF RecordingBegin, Goto, TypeOK, PlainCalls
    <2>2. CallFine(c)'
      BY <1>1, <1>6 DEF RecordingBegin, Goto, TypeOK, CallFine
    <2> QED BY <1>1, <1>6, <2>1, <2>2, RowsSame, StepOf DEF RecordingBegin, Goto, TypeOK
  <1>7. ASSUME NEW s \in Sessions, SessionInviteDecline(c, s) PROVE MembershipInv'
    <2>1. status[s] # "absent"
      BY <1>1, <1>7 DEF SessionInviteDecline, HasUserAccess, NoRowsBefore
    <2>2. TypeOK'
      BY <1>1, <1>7 DEF SessionInviteDecline, Goto, TypeOK, PlainCalls
    <2>3. CallFine(c)'
      BY <1>1, <1>7, <2>1 DEF SessionInviteDecline, Goto, TypeOK, CallFine
    <2> QED BY <1>1, <1>7, <2>2, <2>3, RowsSame, StepOf
            DEF SessionInviteDecline, Goto, TypeOK
  <1>8. ASSUME NEW s \in Sessions, SessionJoin(c, s) PROVE MembershipInv'
    <2>1. TypeOK'
      BY <1>1, <1>8 DEF SessionJoin, Goto, TypeOK, PlainCalls
    <2>2. CallFine(c)'
      BY <1>1, <1>8 DEF SessionJoin, Goto, TypeOK, CallFine
    <2> QED BY <1>1, <1>8, <2>1, <2>2, RowsSame, StepOf DEF SessionJoin, Goto, TypeOK
  <1>9. ASSUME NEW s \in Sessions, SessionJoinByCode(c, s) PROVE MembershipInv'
    <2>1. TypeOK'
      BY <1>1, <1>9 DEF SessionJoinByCode, Goto, TypeOK, PlainCalls, RowCalls, Roles
    <2>2. CallFine(c)'
      BY <1>1, <1>9 DEF SessionJoinByCode, Goto, TypeOK, CallFine, Active
    <2> QED BY <1>1, <1>9, <2>1, <2>2, RowsSame, StepOf DEF SessionJoinByCode, Goto, TypeOK
  <1>10. ASSUME NEW s \in Sessions, NEW u \in Users, NEW role \in Roles,
                SessionInvite(c, s, u, role)
         PROVE  MembershipInv'
    <2>1. status[s] # "absent"
      <3>1. CASE link[c] # NoLink
        BY <1>1, <1>10, <3>1 DEF SessionInvite, LinkFine
      <3>2. CASE link[c] = NoLink
        BY <1>1, <1>2, <1>10, <3>2 DEF SessionInvite, InviteRole, NoRowsBefore, Roles
      <3> QED BY <3>1, <3>2
    <2>2. TypeOK'
      BY <1>1, <1>10 DEF SessionInvite, Goto, TypeOK, RowCalls
    <2>3. CallFine(c)'
      BY <1>1, <1>10, <2>1 DEF SessionInvite, Goto, TypeOK, CallFine
    <2> QED BY <1>1, <1>10, <2>2, <2>3, RowsSame, StepOf DEF SessionInvite, Goto, TypeOK
  <1> QED BY <1>3, <1>4, <1>5, <1>6, <1>7, <1>8, <1>9, <1>10 DEF ClientRequest

\* An HTTP request: only its own call changes.
LEMMA PostRequestInv ==
  ASSUME MembershipInv, NEW p \in Posts, PostRequest(p)
  PROVE  MembershipInv'
  <1> USE DEF MembershipInv
  <1>1. p \in Callers /\ p \notin Clients /\ RowsFine /\ call[p] = IdleCall
    BY MembershipAssumption DEF Callers, RowsFine, PostRequest
  <1>2. None \notin Roles
    BY MembershipAssumption
  <1>3. ASSUME NEW u \in Users, CreateSession(p, u) PROVE MembershipInv'
    <2>1. TypeOK'
      BY <1>1, <1>3 DEF CreateSession, Goto, TypeOK, CreateCalls
    <2>2. CallFine(p)'
      BY <1>1, <1>3 DEF CreateSession, Goto, TypeOK, CallFine
    <2> QED BY <1>1, <1>3, <2>1, <2>2, RowsSame, StepOf DEF CreateSession, Goto, TypeOK
  <1>4. ASSUME NEW u \in Users, NEW s \in Sessions, EndSession(p, u, s)
        PROVE  MembershipInv'
    <2>1. TypeOK'
      BY <1>1, <1>4 DEF EndSession, Goto, TypeOK, PlainCalls
    <2>2. CallFine(p)'
      BY <1>1, <1>4 DEF EndSession, Goto, TypeOK, CallFine
    <2> QED BY <1>1, <1>4, <2>1, <2>2, RowsSame, StepOf DEF EndSession, Goto, TypeOK
  <1>5. ASSUME NEW u \in Users, NEW s \in Sessions, NEW t \in Users,
               RemoveSessionMember(p, u, s, t)
        PROVE  MembershipInv'
    <2>1. status[s] # "absent"
      BY <1>5 DEF RemoveSessionMember, HasUserAccess, NoRowsBefore
    <2>2. TypeOK'
      BY <1>1, <1>5 DEF RemoveSessionMember, Goto, TypeOK, PlainCalls
    <2>3. CallFine(p)'
      BY <1>1, <1>5, <2>1 DEF RemoveSessionMember, Goto, TypeOK, CallFine
    <2> QED BY <1>1, <1>5, <2>2, <2>3, RowsSame, StepOf DEF RemoveSessionMember, Goto, TypeOK
  <1> QED BY <1>3, <1>4, <1>5 DEF PostRequest

\* The later step of a handler, of a connection or an HTTP slot.
LEMMA CallStepInv ==
  ASSUME MembershipInv, NEW c \in Callers, CallStep(c)
  PROVE  MembershipInv'
  <1> USE DEF MembershipInv
  <1>1. RowsFine /\ CallFine(c)
    BY OneByOne DEF RowsFine
  <1>2. "viewer" \in Roles /\ "viewer" # "owner"
    BY DEF Roles
  <1>3. CASE CreateWrite(c)
    <2>1. call[c] \in CreateCalls
      BY <1>3, CallOf DEF CreateWrite
    <2>2. PICK s \in Sessions : CreateNewSession(call[c].user, s)
      BY <1>3 DEF CreateWrite
    <2>3. /\ RowsFine' /\ OwnersKept
          /\ status' \in [Sessions -> Active \cup {"absent", "over"}]
          /\ member' \in [Sessions -> [Users -> Roles \cup {None}]]
      BY <1>1, <2>1, <2>2, SessionCreated DEF CreateCalls
    <2>4. TypeOK'
      BY <1>3, <2>3 DEF CreateWrite, Return, TypeOK
    <2> QED BY <1>3, <2>3, <2>4, StepOf DEF CreateWrite, Return, TypeOK
  <1>4. CASE EndWrite(c)
    <2>1. call[c].ses \in Sessions /\ status[call[c].ses] # "absent"
      BY <1>1, <1>4, CallOf DEF EndWrite, CallFine, PlainCalls
    <2>2. RowsFine' /\ OwnersKept /\ status' \in [Sessions -> Active \cup {"absent", "over"}]
      BY <1>1, <1>4, <2>1, StatusWritten DEF EndWrite
    <2>3. TypeOK'
      BY <1>4, <2>2 DEF EndWrite, Return, TypeOK
    <2> QED BY <1>4, <2>2, <2>3, StepOf DEF EndWrite, Return, TypeOK
  <1>5. CASE Add(c)
    <2>1. /\ call[c] \in RowCalls /\ status[call[c].ses] # "absent"
          /\ call[c].role # "owner"
      BY <1>1, <1>5, CallOf DEF Add, CallFine
    <2>2. RowsFine' /\ OwnersKept /\ member' \in [Sessions -> [Users -> Roles \cup {None}]]
      BY <1>1, <1>5, <2>1, RowAdded DEF Add, RowCalls
    <2>3. TypeOK'
      BY <1>5, <2>2 DEF Add, Return, TypeOK
    <2> QED BY <1>5, <2>2, <2>3, StepOf DEF Add, Return, TypeOK
  <1>6. CASE CodeAdd(c)
    <2>1. call[c] \in RowCalls /\ status[call[c].ses] # "absent"
      BY <1>1, <1>6, CallOf DEF CodeAdd, CallFine
    <2>2. RowsFine' /\ OwnersKept /\ member' \in [Sessions -> [Users -> Roles \cup {None}]]
      BY <1>1, <1>2, <1>6, <2>1, RowAdded DEF CodeAdd, RowCalls
    <2>3. TypeOK'
      BY <1>6, <2>1, <2>2 DEF CodeAdd, Return, Goto, TypeOK, RowCalls, PlainCalls
    <2>4. CASE Return(c)
      BY <1>6, <2>2, <2>3, <2>4, StepOf DEF CodeAdd, Return, TypeOK
    <2>5. CASE Goto(c, "code_read", call[c].ses, call[c].user, None)
      <3>1. c \in Clients => call[c].user = UserOf[c]
        BY <1>1, <1>6 DEF CodeAdd, CallFine
      <3>2. CallFine(c)'
        BY <2>5, <3>1 DEF Goto, TypeOK, CallFine
      <3> QED BY <1>6, <2>2, <2>3, <2>5, <3>2, StepOf DEF CodeAdd, Goto, TypeOK
    <2> QED BY <1>6, <2>4, <2>5 DEF CodeAdd
  <1>7. CASE JoinRead(c)
    <2> DEFINE s == call[c].ses
               u == call[c].user
    <2>1. call[c] \in PlainCalls
      BY <1>7, CallOf DEF JoinRead
    <2>2. s \in Sessions /\ u \in Users
      BY <2>1 DEF PlainCalls
    <2>3. CASE HasUserAccess(u, s)
      <3>1. PICK at \in {"join_status", "join_link"} :
              call' = [call EXCEPT ![c] = [at |-> at, ses |-> s, user |-> u,
                                           role |-> member[s][u]]]
        BY <1>7, <2>3 DEF JoinRead, Goto, AfterRead
      <3>2. member[s][u] \in Roles /\ status[s] # "absent"
        BY <2>2, <2>3 DEF HasUserAccess, TypeOK, NoRowsBefore
      <3>3. TypeOK'
        BY <1>7, <2>2, <3>1, <3>2 DEF JoinRead, TypeOK, RowCalls
      <3>4. c \in Clients => u = UserOf[c]
        BY <1>1, <1>7 DEF JoinRead, CallFine
      <3>5. CallFine(c)'
        BY <1>7, <3>1, <3>2, <3>4 DEF JoinRead, TypeOK, CallFine
      <3> QED BY <1>1, <1>7, <3>1, <3>3, <3>5, RowsSame, StepOf DEF JoinRead, TypeOK
    <2>4. CASE ~HasUserAccess(u, s)
      <3>1. Return(c)
        BY <1>7, <2>4 DEF JoinRead
      <3>2. TypeOK'
        BY <1>7, <3>1 DEF JoinRead, Return, TypeOK
      <3> QED BY <1>1, <1>7, <3>1, <3>2, RowsSame, StepOf DEF JoinRead, Return, TypeOK
    <2> QED BY <2>3, <2>4
  <1>8. CASE JoinStatus(c)
    <2>1. call[c] \in RowCalls
      BY <1>8, CallOf DEF JoinStatus
    <2>2. TypeOK'
      BY <1>8, <2>1 DEF JoinStatus, Return, Goto, TypeOK, RowCalls
    <2>3. call'[c] = IdleCall \/ CallFine(c)'
      BY <1>1, <1>8, <2>1 DEF JoinStatus, Return, Goto, TypeOK, CallFine
    <2> QED BY <1>1, <1>8, <2>2, <2>3, RowsSame, StepOf DEF JoinStatus, Return, Goto, TypeOK
  <1>9. CASE Remove(c)
    <2>1. /\ call[c] \in PlainCalls /\ status[call[c].ses] # "absent"
          /\ member[call[c].ses][call[c].user] # "owner"
      BY <1>1, <1>9, CallOf DEF Remove, CallFine
    <2>2. RowsFine' /\ OwnersKept /\ member' \in [Sessions -> [Users -> Roles \cup {None}]]
      BY <1>1, <1>9, <2>1, RowRemoved DEF Remove, PlainCalls
    <2>3. TypeOK'
      BY <1>9, <2>2 DEF Remove, Return, TypeOK
    <2> QED BY <1>9, <2>2, <2>3, StepOf DEF Remove, Return, TypeOK
  <1> QED BY <1>3, <1>4, <1>5, <1>6, <1>7, <1>8, <1>9 DEF CallStep

\* The steps of a connection that set its link, and its disconnection.
LEMMA ClientStepInv ==
  ASSUME MembershipInv, NEW c \in Clients, ClientStep(c)
  PROVE  MembershipInv'
  <1> USE DEF MembershipInv
  <1>1. c \in Callers /\ RowsFine /\ CallFine(c)
    BY OneByOne DEF Callers, RowsFine
  <1>2. CASE StartCreate(c)
    <2>1. call[c] \in CreateCalls /\ call[c].user = UserOf[c]
      BY <1>1, <1>2, CallOf DEF StartCreate, CallFine
    <2>2. PICK s \in Sessions : /\ CreateNewSession(call[c].user, s)
                               /\ Goto(c, "start_record", s, call[c].user, None)
      BY <1>2 DEF StartCreate
    <2>3. /\ RowsFine' /\ OwnersKept
          /\ status' \in [Sessions -> Active \cup {"absent", "over"}]
          /\ member' \in [Sessions -> [Users -> Roles \cup {None}]]
          /\ status'[s] # "absent" /\ member'[s][call[c].user] = "owner"
      BY <1>1, <2>1, <2>2, SessionCreated DEF CreateCalls
    <2>4. TypeOK'
      BY <1>1, <1>2, <2>1, <2>2, <2>3 DEF StartCreate, Goto, TypeOK, CreateCalls, PlainCalls
    <2>5. call'[c] = [at |-> "start_record", ses |-> s, user |-> call[c].user, role |-> None]
      BY <1>1, <2>2 DEF Goto, TypeOK
    <2>6. CallFine(c)'
      BY <2>1, <2>3, <2>5 DEF CallFine
    <2> QED BY <1>1, <1>2, <2>2, <2>3, <2>4, <2>6, StepOf DEF StartCreate, Goto, TypeOK
  <1>3. CASE StartRecord(c)
    <2>1. /\ call[c] \in PlainCalls /\ status[call[c].ses] # "absent"
          /\ member[call[c].ses][UserOf[c]] = "owner"
      BY <1>1, <1>3, CallOf DEF StartRecord, CallFine
    <2>2. RowsFine' /\ OwnersKept /\ status' \in [Sessions -> Active \cup {"absent", "over"}]
      BY <1>1, <1>3, <2>1, StatusWritten DEF StartRecord, PlainCalls
    <2>3. TypeOK'
      BY <1>3, <2>1, <2>2 DEF StartRecord, Return, TypeOK, PlainCalls, Roles
    <2>4. link'[c] = [ses |-> call[c].ses, role |-> "owner"]
      BY <1>3 DEF StartRecord, TypeOK
    <2>5. LinkFine(c)'
      BY <1>3, <2>1, <2>2, <2>4 DEF StartRecord, LinkFine, OwnersKept, PlainCalls
    <2> QED BY <1>1, <1>3, <2>2, <2>3, <2>5, StepOf DEF StartRecord, Return, TypeOK
  <1>4. CASE JoinLink(c)
    <2>1. /\ call[c] \in RowCalls /\ status[call[c].ses] # "absent"
          /\ call[c].role = "owner" <=> member[call[c].ses][UserOf[c]] = "owner"
      BY <1>1, <1>4, CallOf DEF JoinLink, CallFine
    <2>2. TypeOK'
      BY <1>4, <2>1 DEF JoinLink, Return, TypeOK, RowCalls
    <2>3. link'[c] = [ses |-> call[c].ses, role |-> call[c].role]
      BY <1>4 DEF JoinLink, TypeOK
    <2>4. LinkFine(c)'
      BY <1>4, <2>1, <2>3 DEF JoinLink, LinkFine
    <2> QED BY <1>1, <1>4, <2>2, <2>4, RowsSame, StepOf DEF JoinLink, Return, TypeOK
  <1>5. CASE Disconnect(c)
    <2>1. TypeOK'
      BY <1>5 DEF Disconnect, TypeOK
    <2> QED BY <1>1, <1>5, <2>1, RowsSame, StepOf DEF Disconnect, TypeOK
  <1> QED BY <1>2, <1>3, <1>4, <1>5 DEF ClientStep

\* A restart forgets every link and every call.
LEMMA ServerCrashInv ==
  ASSUME MembershipInv, ServerCrash PROVE MembershipInv'
  <1>1. TypeOK' /\ OneOwner' /\ NoRowsBefore'
    BY DEF MembershipInv, ServerCrash, TypeOK, OneOwner, NoRowsBefore
  <1>2. LinkKnowsOwner' /\ CallKnowsOwner' /\ SessionsExist'
    BY DEF ServerCrash, LinkKnowsOwner, CallKnowsOwner, SessionsExist, IdleCall, NoLink
  <1> QED BY <1>1, <1>2 DEF MembershipInv

\* Every step preserves the invariant.
LEMMA Inductive ==
  ASSUME MembershipInv, [Next]_vars PROVE MembershipInv'
  <1>1. CASE Next
    BY <1>1, ClientRequestInv, ClientStepInv, PostRequestInv, CallStepInv,
       ServerCrashInv DEF Next
  <1>2. CASE UNCHANGED vars
    BY <1>2 DEF vars, MembershipInv, TypeOK, OneOwner, LinkKnowsOwner, CallKnowsOwner,
            NoRowsBefore, SessionsExist
  <1> QED BY <1>1, <1>2

-----------------------------------------------------------------------------
\* The invariant holds in every reachable state.
THEOREM MembershipInvariant == Spec => []MembershipInv
  <1> QED BY Initially, Inductive, PTL DEF Spec

\* Rows, links and calls keep their types, also when a handler writes a role
\* it read several statements ago.
THEOREM MembershipTyped == Spec => []TypeOK
  <1>1. MembershipInv => TypeOK
    BY DEF MembershipInv
  <1> QED BY <1>1, MembershipInvariant, PTL

\* Every session that exists has one owner for ever, whatever handlers of
\* handler.go and sessions_members.go run together.
THEOREM OwnerIsUnique == Spec => []OneOwner
  <1>1. MembershipInv => OneOwner
    BY DEF MembershipInv
  <1> QED BY <1>1, MembershipInvariant, PTL

\* The link by which recording_stop and session_leave decide never disagrees
\* with the rows on who owns the session.
THEOREM LinkIsRight == Spec => []LinkKnowsOwner
  <1>1. MembershipInv => LinkKnowsOwner
    BY DEF MembershipInv
  <1> QED BY <1>1, MembershipInvariant, PTL

-----------------------------------------------------------------------------
\* What a step may do to the row of a user who takes part.
RoleStays ==
  \A s \in Sessions, u \in Users :
    HasUserAccess(u, s) => member'[s][u] \in {member[s][u], None}

\* One write to one row at a time: an insert finds the row absent, a delete
\* leaves None, and a new session has no rows to lose.
LEMMA RoleStep ==
  ASSUME MembershipInv, Next PROVE RoleStays
  <1> USE DEF MembershipInv
  <1>1. ASSUME NEW s, NEW u, RemoveUserFromSession(u, s) PROVE RoleStays
    BY <1>1 DEF RoleStays, RemoveUserFromSession, TypeOK
  <1>2. ASSUME NEW s, NEW u, NEW role, AddUserToSession(u, s, role) PROVE RoleStays
    BY <1>2 DEF RoleStays, AddUserToSession, HasUserAccess, TypeOK
  <1>3. ASSUME NEW s \in Sessions, NEW u, CreateNewSession(u, s) PROVE RoleStays
    BY <1>3 DEF RoleStays, CreateNewSession, HasUserAccess, NoRowsBefore, TypeOK
  <1>4. ASSUME UNCHANGED member PROVE RoleStays
    BY <1>4 DEF RoleStays
  <1>5. ASSUME NEW c \in Clients, ClientRequest(c) PROVE RoleStays
    BY <1>4, <1>5 DEF ClientRequest, RecordingStart, RecordingStop, SessionLeave,
       RecordingBegin, SessionInviteDecline, SessionJoin, SessionJoinByCode, SessionInvite
  <1>6. ASSUME NEW c \in Clients, ClientStep(c) PROVE RoleStays
    BY <1>3, <1>4, <1>6 DEF ClientStep, StartCreate, StartRecord, JoinLink, Disconnect
  <1>7. ASSUME NEW p \in Posts, PostRequest(p) PROVE RoleStays
    BY <1>4, <1>7 DEF PostRequest, CreateSession, EndSession, RemoveSessionMember
  <1>8. ASSUME NEW c \in Callers, CallStep(c) PROVE RoleStays
    <2>1. CASE CreateWrite(c)
      BY <1>3, <2>1 DEF CreateWrite
    <2>2. CASE Add(c) \/ CodeAdd(c)
      BY <1>2, <2>2 DEF Add, CodeAdd
    <2>3. CASE Remove(c)
      BY <1>1, <2>3 DEF Remove
    <2>4. CASE EndWrite(c) \/ JoinRead(c) \/ JoinStatus(c)
      BY <1>4, <2>4 DEF EndWrite, JoinRead, JoinStatus
    <2> QED BY <1>8, <2>1, <2>2, <2>3, <2>4 DEF CallStep
  <1>9. CASE ServerCrash
    BY <1>4, <1>9 DEF ServerCrash
  <1> QED BY <1>5, <1>6, <1>7, <1>8, <1>9 DEF Next

\* The primary key settles every race of invitations and joins by code: a
\* user who takes part keeps the role until the row goes.
THEOREM RolesNeverChange == Spec => RolesAreGivenOnce
  <1>1. MembershipInv /\ [Next]_vars =>
          [\A s \in Sessions, u \in Users :
             HasUserAccess(u, s) => member'[s][u] \in {member[s][u], None}]_vars
    BY RoleStep DEF RoleStays
  <1> QED BY <1>1, MembershipInvariant, PTL DEF Spec, RolesAreGivenOnce
=============================================================================
