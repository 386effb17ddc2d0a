---------------------------- MODULE SessionLists ----------------------------
(***************************************************************************)
(* What a browser tab offers to join: the list of active sessions, fetched *)
(* anew after every event that may change it, the invitations, and the     *)
(* removal the user is told of.  Requests may be in flight together and    *)
(* their answers come in any order; publications come in order.            *)
(***************************************************************************)
EXTENDS Naturals, Sequences, FiniteSets, SequencesExt

CONSTANTS Sessions, None,
          Own,        \* sessions this user creates; others own the rest
          MaxGets,    \* GETs of the list in flight, a bound
          MaxInbox,   \* events on their way, a bound
          MaxPresses  \* requests of the user and lost connections, a bound

ASSUME ListsAssumption ==
  /\ Own \subseteq Sessions /\ None \notin Sessions
  /\ {MaxGets, MaxInbox, MaxPresses} \subseteq Nat

VARIABLES
  active,    \* activeSessions
  ended,     \* endedSessionsRef
  invites,   \* invites, the latest in front
  removedId, \* removedSessionId
  gets,      \* GETs of the active sessions, in the order they were asked
  calls,     \* other requests in flight
  channels,  \* sessions subscribed to
  inbox,     \* publications on their way
  presses,
  stale,     \* history: an answer was lost, or overtaken by a later one
  member,    \* at the server: sessions the user has a row in
  live       \* at the server: sessions that are new or recording

vars == <<active, ended, invites, removedId, gets, calls, channels, inbox,
          presses, stale, member, live>>
serverVars == <<member, live>>

Kinds == {"create", "join", "leave", "stop", "decline"}
Calls == [kind : Kinds, s : Sessions, step : {"sent", "ok", "failed"}]
Events == [type : {"session_invited", "active_sessions_updated", "removed",
                   "session_started", "session_ended", "upload_completed"},
           s : Sessions]
Gets == [rows : {None} \cup SUBSET Sessions, old : BOOLEAN]

TypeOK ==
  /\ active \subseteq Sessions /\ ended \subseteq Sessions
  /\ invites \in Seq(Sessions) /\ removedId \in Sessions \cup {None}
  /\ gets \in Seq(Gets) /\ calls \subseteq Calls
  /\ channels \subseteq Sessions /\ inbox \in Seq(Events)
  /\ presses \in 0 .. MaxPresses /\ stale \in BOOLEAN
  /\ member \subseteq Sessions /\ live \subseteq Sessions

Asked == [rows |-> None, old |-> FALSE]

\* The page is loaded: connecting fetches the list.
Init ==
  /\ active = {} /\ ended = {} /\ invites = <<>> /\ removedId = None
  /\ gets = <<Asked>> /\ calls = {} /\ channels = {} /\ inbox = <<>>
  /\ presses = 0 /\ stale = TRUE
  /\ member \in SUBSET Sessions /\ live \in SUBSET Sessions
  /\ Own \cap live \subseteq member

-----------------------------------------------------------------------------
\* The list of active sessions.

\* fetchActiveSessions up to its await.
FetchActiveSessions == Len(gets) < MaxGets /\ gets' = Append(gets, Asked)

\* GET sessions/active: rows of the user in sessions that are new or recording.
ActiveRead(i) ==
  /\ gets[i].rows = None
  /\ gets' = [gets EXCEPT ![i].rows = member \cap live]
  /\ UNCHANGED <<active, ended, invites, removedId, calls, channels, inbox,
                 presses, stale, serverVars>>

\* GETs still in flight that were asked before the one answered.
Answer(i) ==
  gets' = RemoveAt([j \in DOMAIN gets |->
                     [gets[j] EXCEPT !.old = @ \/ j < i]], i)

\* Mutation of ActiveShown: what the server said when it was asked.
ActiveShownAsRead(i) ==
  /\ gets[i].rows # None
  /\ active' = gets[i].rows
  /\ Answer(i)
  /\ stale' = gets[i].old
  /\ UNCHANGED <<ended, invites, removedId, calls, channels, inbox, presses,
                 serverVars>>

\* The answer is filtered by what has ended by the time it arrives.
ActiveShown(i) ==
  /\ gets[i].rows # None
  /\ active' = gets[i].rows \ ended
  /\ Answer(i)
  /\ stale' = gets[i].old
  /\ UNCHANGED <<ended, invites, removedId, calls, channels, inbox, presses,
                 serverVars>>

\* The list stays as it is, and the error is shown.
ActiveFailed(i) ==
  /\ Answer(i)
  /\ stale' = (stale \/ ~gets[i].old)
  /\ UNCHANGED <<active, ended, invites, removedId, calls, channels, inbox,
                 presses, serverVars>>

\* The button Vernieuwen.
RefreshActiveSessions ==
  /\ presses < MaxPresses /\ presses' = presses + 1
  /\ FetchActiveSessions
  /\ UNCHANGED <<active, ended, invites, removedId, calls, channels, inbox,
                 stale, serverVars>>

MarkSessionEnded(s) == ended' = ended \cup {s} /\ active' = active \ {s}

\* What filtering s out leaves of q, in its order: SelectSeq, written out since
\* the prover knows nothing of the standard operator.
Without(q, s) ==
  LET kept[n \in 0 .. Len(q)] ==
        IF n = 0 THEN <<>>
        ELSE IF q[n] = s THEN kept[n - 1] ELSE Append(kept[n - 1], q[n])
  IN  kept[Len(q)]

DismissInvite(s) == invites' = Without(invites, s)

-----------------------------------------------------------------------------
\* Requests of the user.

Pushes(e) == Len(inbox) < MaxInbox /\ inbox' = Append(inbox, e)
Event(type, s) == [type |-> type, s |-> s]
Step(c, step) == calls' = (calls \ {c}) \cup {[c EXCEPT !.step = step]}

Ask(kind, s) ==
  /\ presses < MaxPresses /\ presses' = presses + 1
  /\ calls' = calls \cup {[kind |-> kind, s |-> s, step |-> "sent"]}
  /\ UNCHANGED <<active, ended, invites, removedId, gets, channels, inbox,
                 stale, serverVars>>

Create == channels = {} /\ \E s \in Own \ (member \cup live) : Ask("create", s)
Join(s) == channels = {} /\ s \in active \cup ToSet(invites) /\ Ask("join", s)
Decline(s) == s \in ToSet(invites) /\ Ask("decline", s)

\* stopRecording and leaveSession unsubscribe before they ask.
LeaveOrStop(s) ==
  /\ s \in channels
  /\ presses < MaxPresses /\ presses' = presses + 1
  /\ channels' = channels \ {s}
  /\ calls' = calls \cup {[kind |-> IF s \in Own THEN "stop" ELSE "leave",
                           s |-> s, step |-> "sent"]}
  /\ UNCHANGED <<active, ended, invites, removedId, gets, inbox, stale,
                 serverVars>>

\* The server's part: the change, and the publication to the user.
Served(c) ==
  /\ c.step = "sent"
  /\ \/ /\ c.kind = "create" /\ Own \cap live = {}
        /\ live' = live \cup {c.s} /\ member' = member \cup {c.s}
        /\ Pushes(Event("active_sessions_updated", c.s)) /\ Step(c, "ok")
     \/ /\ c.kind = "join" /\ c.s \in live   \* by its code a member is added
        /\ member' = member \cup {c.s} /\ Step(c, "ok")
        /\ UNCHANGED <<live, inbox>>
     \/ /\ c.kind \in {"leave", "decline"} /\ c.s \notin Own
        /\ member' = member \ {c.s} /\ UNCHANGED live
        /\ Pushes(Event("active_sessions_updated", c.s)) /\ Step(c, "ok")
     \/ /\ c.kind = "stop" /\ c.s \in live
        /\ live' = live \ {c.s} /\ UNCHANGED member
        /\ Pushes(Event("active_sessions_updated", c.s)) /\ Step(c, "ok")
     \/ /\ \/ c.kind = "create" /\ Own \cap live # {}
           \/ c.kind \in {"join", "stop"} /\ c.s \notin live
           \/ c.kind \in {"leave", "decline"} /\ c.s \in Own
        /\ Step(c, "failed") /\ UNCHANGED <<inbox, serverVars>>
  /\ UNCHANGED <<active, ended, invites, removedId, gets, channels, presses,
                 stale>>

Entered(s) == ended' = ended \ {s} /\ channels' = channels \cup {s}

\* The rest of startRecording, joinSession, declineInvite, leaveSession and
\* stopRecording: each fetches the list.
Continued(c) ==
  /\ c.step = "ok" /\ calls' = calls \ {c}
  /\ \/ c.kind = "create" /\ Entered(c.s) /\ UNCHANGED <<active, invites>>
     \/ /\ c.kind = "join" /\ Entered(c.s) /\ DismissInvite(c.s)
        /\ UNCHANGED active
     \/ /\ c.kind = "decline" /\ DismissInvite(c.s)
        /\ UNCHANGED <<active, ended, channels>>
     \/ /\ c.kind \in {"leave", "stop"} /\ MarkSessionEnded(c.s)
        /\ UNCHANGED <<invites, channels>>
  /\ FetchActiveSessions
  /\ UNCHANGED <<removedId, inbox, presses, stale, serverVars>>

Failed(c) ==
  /\ c.step = "failed" /\ calls' = calls \ {c}
  /\ UNCHANGED <<active, ended, invites, removedId, gets, channels, inbox,
                 presses, stale, serverVars>>

\* The page of a session the user was removed from has sent the user home.
ClearRemovedSession ==
  /\ removedId # None /\ removedId' = None
  /\ UNCHANGED <<active, ended, invites, gets, calls, channels, inbox,
                 presses, stale, serverVars>>

-----------------------------------------------------------------------------
\* Publications.

Receive(type) ==
  inbox # <<>> /\ Head(inbox).type = type /\ inbox' = Tail(inbox)
Subject == Head(inbox).s

\* Mutation of HandleSessionInvited: an invitation renewed is another entry.
HandleSessionInvitedTwice ==
  /\ Receive("session_invited")
  /\ invites' = <<Subject>> \o invites
  /\ FetchActiveSessions
  /\ UNCHANGED <<active, ended, removedId, calls, channels, presses, stale,
                 serverVars>>

HandleSessionInvited ==
  /\ Receive("session_invited")
  /\ invites' = IF Subject \in ToSet(invites) THEN invites
                                              ELSE <<Subject>> \o invites
  /\ FetchActiveSessions
  /\ UNCHANGED <<active, ended, removedId, calls, channels, presses, stale,
                 serverVars>>

HandleActiveSessionsUpdated ==
  /\ Receive("active_sessions_updated") \/ Receive("session_started")
  /\ FetchActiveSessions
  /\ UNCHANGED <<active, ended, invites, removedId, calls, channels, presses,
                 stale, serverVars>>

\* Mutation of HandleUserRemovedFromSession: the list is left to the next event.
HandleRemovedQuietly ==
  /\ Receive("removed")
  /\ channels' = channels \ {Subject}
  /\ DismissInvite(Subject)
  /\ removedId' = Subject
  /\ UNCHANGED <<active, ended, gets, calls, presses, stale, serverVars>>

HandleUserRemovedFromSession ==
  /\ Receive("removed")
  /\ channels' = channels \ {Subject}
  /\ DismissInvite(Subject)
  /\ removedId' = Subject
  /\ FetchActiveSessions
  /\ UNCHANGED <<active, ended, calls, presses, stale, serverVars>>

\* session_ended keeps the subscription, upload_completed gives it up.
HandleSessionOver ==
  /\ \/ Receive("session_ended") /\ UNCHANGED channels
     \/ Receive("upload_completed") /\ channels' = channels \ {Subject}
  /\ MarkSessionEnded(Subject)
  /\ FetchActiveSessions
  /\ UNCHANGED <<invites, removedId, calls, presses, stale, serverVars>>

Deliver ==
  \/ HandleSessionInvited \/ HandleActiveSessionsUpdated
  \/ HandleUserRemovedFromSession \/ HandleSessionOver

-----------------------------------------------------------------------------
\* The other users, and the connection.

ServerOnly == UNCHANGED <<active, ended, invites, removedId, gets, calls,
                          channels, presses, stale>>

OtherInvites(s) ==
  /\ s \in live \ Own
  /\ member' = member \cup {s}
  /\ Pushes(Event("session_invited", s))
  /\ ServerOnly /\ UNCHANGED live

OtherRemoves(s) ==
  /\ s \in member \ Own
  /\ member' = member \ {s}
  /\ Pushes(Event("removed", s))
  /\ ServerOnly /\ UNCHANGED live

\* The channel hears that a session begins or ends, its members that their
\* list changed.
OtherBegins(s) ==
  /\ s \in live \ Own
  /\ s \in channels /\ Pushes(Event("session_started", s))
  /\ ServerOnly /\ UNCHANGED serverVars

OtherEnds(s) ==
  /\ s \in live \ Own
  /\ live' = live \ {s}
  /\ LET told == (IF s \in channels THEN <<Event("session_ended", s)>>
                                    ELSE <<>>) \o
                 (IF s \in member THEN <<Event("active_sessions_updated", s)>>
                                  ELSE <<>>)
     IN Len(inbox \o told) <= MaxInbox /\ inbox' = inbox \o told
  /\ ServerOnly /\ UNCHANGED member

Completes(s) ==
  /\ s \in channels \ live
  /\ Pushes(Event("upload_completed", s))
  /\ ServerOnly /\ UNCHANGED serverVars

\* The connection is lost and made again by the client: what was published
\* meanwhile is not sent again, and the list is not fetched.
Reconnect ==
  /\ presses < MaxPresses /\ presses' = presses + 1
  /\ inbox' = <<>>
  /\ gets' = [i \in DOMAIN gets |-> [gets[i] EXCEPT !.old = TRUE]]
  /\ calls' = {[c EXCEPT !.step = "failed"] : c \in calls}
  /\ stale' = TRUE
  /\ UNCHANGED <<active, ended, invites, removedId, channels, serverVars>>

Next ==
  \/ \E i \in DOMAIN gets : ActiveRead(i) \/ ActiveShown(i) \/ ActiveFailed(i)
  \/ RefreshActiveSessions \/ Create \/ ClearRemovedSession
  \/ \E s \in Sessions : Join(s) \/ Decline(s) \/ LeaveOrStop(s)
  \/ \E c \in calls : Served(c) \/ Continued(c) \/ Failed(c)
  \/ Deliver \/ Reconnect
  \/ \E s \in Sessions : \/ OtherInvites(s) \/ OtherRemoves(s)
                         \/ OtherBegins(s) \/ OtherEnds(s) \/ Completes(s)

Spec == Init /\ [][Next]_vars

-----------------------------------------------------------------------------
\* A session the tab was told has ended, or has left, is not offered, although
\* an answer read before the end may arrive after it; until it is entered again.
EndedNotOffered == active \cap ended = {}

\* A session is invited to at most once in the list, however often the
\* invitation is repeated, declined or withdrawn.
OneInvitePerSession ==
  \A i, j \in DOMAIN invites : invites[i] = invites[j] => i = j

\* Every change of the list is followed by a fetch that sees it: with nothing
\* in flight the list is what the server would answer now, less the sessions
\* that ended.  (An answer that fails or is overtaken leaves an old list.)
Quiet == gets = <<>> /\ inbox = <<>> /\ calls = {}

QuietListIsCurrent ==
  Quiet /\ ~stale => active = (member \cap live) \ ended

\* The strengthening that is inductive.  A GET is old once a later one was
\* answered, so the old ones come first; and unless a publication, or the answer
\* to a request, has still to make the tab fetch again, the last GET asked will
\* see what the server has now, or was answered and left it in the list.
OldComeFirst ==
  \A i, j \in DOMAIN gets : i < j /\ gets[j].old => gets[i].old

WillFetch == inbox # <<>> \/ \E c \in calls : c.step = "ok"
Offered == member \cap live
LastGet == gets[Len(gets)]

ListSettles ==
  \/ WillFetch
  \/ gets # <<>> /\ ~LastGet.old /\ LastGet.rows \in {None, Offered}
  \/ /\ gets = <<>> \/ LastGet.old
     /\ stale \/ active = Offered \ ended

ListsInv == TypeOK /\ OldComeFirst /\ ListSettles
=============================================================================
