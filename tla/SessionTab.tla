----------------------------- MODULE SessionTab -----------------------------
(***************************************************************************)
(* One browser tab: the session context of the frontend (which session it  *)
(* is in, its subscriptions, the sessions it offers), the recorder, and    *)
(* the server as this tab's user sees it.                                  *)
(*                                                                         *)
(* An operation that waits for an answer is a record in calls from the     *)
(* press to the answer; everything between two awaits is one step.         *)
(* sessionIdRef follows view.id when the tab renders, so a step uses the   *)
(* view it started with.                                                   *)
(***************************************************************************)
EXTENDS SegmentRecorder, Sequences

CONSTANTS Own,         \* sessions this user creates; others own the rest
          Overlaps,    \* pairs <<press, kind in flight>> the user may make
          MaxPresses,  \* presses, lost connections and reloads, a bound
          MaxInbox     \* events on their way to the tab, a bound

ASSUME TabAssumption ==
  /\ Own \subseteq Sessions
  /\ None \notin {"new", "recording", "over", "done"}
  /\ {MaxPresses, MaxInbox} \subseteq Nat

VARIABLES
  view,       \* SessionState: id, owner, status, mic
  subRef,     \* subRef.current is set
  listeners,  \* publication handlers on the channel of each session
  ended,      \* endedSessionsRef
  autoJoined, \* autoJoinAttemptedRef
  connected,
  blipped,    \* history: the connection was lost, or the page reloaded
  askedIn,    \* history: the session the last capture was asked for in
  calls,      \* operations in flight
  inbox,      \* publications on their way, in order
  presses,
  status,     \* at the server: status of each session
  member,     \* sessions the user has a row in
  link        \* the participant link of this connection

subVars == <<subRef, listeners>>
connVars == <<autoJoined, connected>>
histVars == <<blipped, askedIn>>
tabVars == <<view, subVars, ended, connVars, calls, inbox, presses, histVars>>
serverVars == <<status, member, link>>
vars == <<recVars, tabVars, serverVars>>

Others == Sessions \ Own

Idle == [id |-> None, owner |-> FALSE, status |-> None, mic |-> FALSE]

Live == {"new", "recording"}

Kinds == {"create", "join", "mic", "stop", "leave"}
Calls == [kind : Kinds, s : Sessions \cup {None}, was : Live \cup {None},
          step : {"sent", "flush", "permission", "ok", "failed"}]

\* The other publications to the user concern the lists only.
UserEvents == {"removed"}

Events == [type : {"session_started", "session_ended", "upload_completed"}
                    \cup UserEvents,
           s : Sessions]

TypeOK ==
  /\ RecorderTypeOK
  /\ view \in [id : Sessions \cup {None}, owner : BOOLEAN,
               status : Live \cup {None}, mic : BOOLEAN]
  /\ subRef \in BOOLEAN /\ autoJoined \in BOOLEAN /\ connected \in BOOLEAN
  /\ listeners \in [Sessions -> Nat]
  /\ ended \subseteq Sessions
  /\ blipped \in BOOLEAN /\ askedIn \in Sessions \cup {None}
  /\ calls \subseteq Calls
  /\ inbox \in Seq(Events)
  /\ presses \in 0 .. MaxPresses
  /\ status \in [Sessions -> {None, "new", "recording", "over", "done"}]
  /\ member \subseteq Sessions
  /\ link \in Sessions \cup {None}

Init ==
  /\ RecorderInit
  /\ view = Idle /\ subRef = FALSE /\ listeners = [s \in Sessions |-> 0]
  /\ ended = {}
  /\ blipped = FALSE /\ askedIn = None
  /\ autoJoined = FALSE /\ connected = TRUE /\ calls = {} /\ inbox = <<>>
  /\ presses = 0
  /\ status \in [Sessions -> Live \cup {None}]
  /\ \A s \in Others : status[s] # None
  /\ \A s, t \in Own : status[s] # None /\ status[t] # None => s = t
  /\ member \in SUBSET Sessions
  /\ \A s \in Own : s \in member <=> status[s] # None
  /\ link = None

-----------------------------------------------------------------------------
\* Parts of steps.

\* A press is possible within the bound, and while no other operation is in
\* flight that the user waits for.
Press(kind) ==
  /\ presses < MaxPresses /\ presses' = presses + 1
  /\ \A c \in calls : <<kind, c.kind>> \in Overlaps

Call(kind, s, was, step) == [kind |-> kind, s |-> s, was |-> was, step |-> step]

At(c, step) == (calls \ {c}) \cup {[c EXCEPT !.step = step]}

\* subscribeToSession adds a handler to the subscription, new or not.
Subscribe(s) == listeners' = [listeners EXCEPT ![s] = @ + 1] /\ subRef' = TRUE

SubscribeOnce(s) == IF subRef THEN UNCHANGED <<subVars>>
                              ELSE Subscribe(s)

\* Mutation of Unsubscribe: one handler is taken away.
UnsubscribeOne(s) == listeners' = [listeners EXCEPT ![s] = @ - 1]

Unsubscribe(s) == listeners' = [listeners EXCEPT ![s] = 0]

MarkSessionEnded(s) == ended' = ended \cup {s}

ResetToIdle ==
  /\ StopAndReset(rec, uploads, view.id)
  /\ subRef' = FALSE
  /\ view' = Idle

\* PublishToSession reaches the tab while it is subscribed, a publication to
\* the user while it is connected.
Publish(e) ==
  IF connected /\ (e.type \in UserEvents \/ listeners[e.s] > 0)
  THEN Len(inbox) < MaxInbox /\ inbox' = Append(inbox, e)
  ELSE UNCHANGED inbox

Event(type, s) == [type |-> type, s |-> s]

-----------------------------------------------------------------------------
\* Creating a session.

StartRecording ==
  /\ view.id = None /\ connected
  /\ Press("create")
  /\ calls' = calls \cup {Call("create", None, None, "sent")}
  /\ UNCHANGED <<recVars, view, subVars, ended, connVars, inbox, histVars,
                 serverVars>>

\* POST sessions: refused while the user has an active session.
SessionCreated(c) ==
  /\ c.kind = "create" /\ c.step = "sent"
  /\ IF \E s \in Own : status[s] \in Live
     THEN calls' = At(c, "failed") /\ UNCHANGED <<status, member>>
     ELSE \E s \in Own :
            /\ status[s] = None
            /\ status' = [status EXCEPT ![s] = "new"]
            /\ member' = member \cup {s}
            /\ calls' = (calls \ {c}) \cup {[c EXCEPT !.s = s, !.step = "ok"]}
  /\ UNCHANGED <<recVars, view, subVars, ended, connVars, inbox, presses,
                 histVars, link>>

RecordingStarted(c) ==
  /\ c.kind = "create" /\ c.step = "ok"
  /\ calls' = calls \ {c}
  /\ ended' = ended \ {c.s}
  /\ SubscribeOnce(c.s)
  /\ view' = [id |-> c.s, owner |-> TRUE, status |-> "new", mic |-> FALSE]
  /\ UNCHANGED <<recVars, connVars, inbox, presses, histVars, serverVars>>

-----------------------------------------------------------------------------
\* The microphone.

\* startMic where a capture exists: resumed if it is paused.
ResumeMic ==
  /\ view.id # None /\ connected /\ ~view.mic
  /\ view.owner \/ view.status = "recording"
  /\ cap.ref \in cap.paused
  /\ Press("mic")
  /\ cap' = [cap EXCEPT !.paused = @ \ {cap.ref}]
  /\ view' = [view EXCEPT !.mic = TRUE]
  /\ UNCHANGED <<rec, uploads, stored, spokenIn, subVars, ended, connVars,
                 calls, inbox, histVars, serverVars>>

\* startMic where there is none.
StartMic ==
  /\ view.id # None /\ connected /\ ~view.mic
  /\ view.owner \/ view.status = "recording"
  /\ cap.ref = None
  /\ Press("mic")
  /\ IF view.owner /\ view.status = "new"
     THEN /\ calls' = calls \cup {Call("mic", view.id, "new", "sent")}
          /\ UNCHANGED <<subVars>>
     ELSE /\ calls' = calls \cup {Call("mic", view.id, None, "permission")}
          /\ IF view.owner THEN SubscribeOnce(view.id)
                           ELSE UNCHANGED <<subVars>>
  /\ UNCHANGED <<recVars, view, ended, connVars, inbox, histVars,
                 serverVars>>

\* HandleRecordingBegin: the owner, from a connection without a link.
SessionBegun(c) ==
  /\ c.kind = "mic" /\ c.step = "sent"
  /\ IF link = None /\ c.s \in Own \cap member /\ status[c.s] = "new"
     THEN /\ status' = [status EXCEPT ![c.s] = "recording"]
          /\ link' = c.s
          /\ Publish(Event("session_started", c.s))
          /\ calls' = At(c, "ok")
     ELSE calls' = At(c, "failed") /\ UNCHANGED <<inbox, status, link>>
  /\ UNCHANGED <<recVars, view, subVars, ended, connVars, presses,
                 histVars, member>>

\* Mutation of MicBegun: rpc does not throw on a reply of type error.
MicBegunAnyway(c) ==
  /\ c.kind = "mic" /\ c.step \in {"ok", "failed"}
  /\ calls' = At(c, "permission")
  /\ SubscribeOnce(c.s)
  /\ view' = IF view.id # None THEN [view EXCEPT !.status = "recording"]
                               ELSE view
  /\ UNCHANGED <<recVars, ended, connVars, inbox, presses, histVars,
                 serverVars>>

\* Mutation of MicBegun: the tab goes on taking the session for a new one.
MicBegunStillNew(c) ==
  /\ c.kind = "mic" /\ c.step = "ok"
  /\ calls' = At(c, "permission")
  /\ SubscribeOnce(c.s)
  /\ UNCHANGED <<recVars, view, ended, connVars, inbox, presses, histVars,
                 serverVars>>

MicBegun(c) ==
  /\ c.kind = "mic" /\ c.step = "ok"
  /\ calls' = At(c, "permission")
  /\ SubscribeOnce(c.s)
  /\ view' = IF view.id # None THEN [view EXCEPT !.status = "recording"]
                               ELSE view
  /\ UNCHANGED <<recVars, ended, connVars, inbox, presses, histVars,
                 serverVars>>

\* The browser gives or refuses access to the microphone.
CaptureStarted(c) ==
  /\ c.kind = "mic" /\ c.step = "permission"
  /\ calls' = calls \ {c}
  /\ \/ \E i \in Captures \ cap.used :
          /\ cap' = [ref |-> i, live |-> cap.live \cup {i},
                     paused |-> cap.paused, used |-> cap.used \cup {i}]
          /\ view' = IF view.id # None THEN [view EXCEPT !.mic = TRUE] ELSE view
          /\ rec' = [rec EXCEPT !.timer = TRUE]
          /\ askedIn' = c.s
     \/ UNCHANGED <<rec, cap, view, askedIn>>
  /\ UNCHANGED <<uploads, stored, spokenIn, subVars, ended, connVars,
                 inbox, presses, blipped, serverVars>>

StopMic ==
  /\ view.mic
  /\ Press("mic")
  /\ cap' = IF StopsCapture THEN [cap EXCEPT !.paused = @ \cup {cap.ref}]
                            ELSE cap
  /\ rec' = Flushed(rec, view.id)
  /\ uploads' = uploads \cup FlushUpload(rec, view.id, FALSE)
  /\ view' = [view EXCEPT !.mic = FALSE]
  /\ UNCHANGED <<stored, spokenIn, subVars, ended, connVars, calls, inbox,
                 histVars, serverVars>>

\* A track ends by itself: unplugged, or the shared tab is closed.
TrackEnds(i) ==
  /\ i \in cap.live
  /\ cap' = Silenced(i)
  /\ rec' = Flushed(rec, view.id)
  /\ uploads' = uploads \cup FlushUpload(rec, view.id, FALSE)
  /\ view' = [view EXCEPT !.mic = FALSE]
  /\ UNCHANGED <<stored, spokenIn, subVars, ended, connVars, calls, inbox,
                 presses, histVars, serverVars>>
-----------------------------------------------------------------------------
\* Stopping and leaving.

\* stopRecording up to its first await.  Its closure keeps the session and
\* the status of the moment of the press.
StopRecording ==
  LET was == IF view.status = "new" THEN "new" ELSE "recording"
      waits == Flushes(rec, view.id)
  IN /\ view.id # None /\ view.owner
     /\ Press("stop")
     /\ calls' = calls \cup {Call("stop", view.id, was,
                                 IF waits THEN "flush" ELSE "sent")}
     /\ IF waits
        THEN /\ rec' = Flushed(rec, view.id)
             /\ uploads' = uploads \cup FlushUpload(rec, view.id, TRUE)
             /\ UNCHANGED <<cap, stored, subVars>>
        ELSE /\ StopAndReset(rec, uploads, view.id)
             /\ Unsubscribe(view.id)
             /\ subRef' = FALSE
     /\ view' = IF ~waits /\ StopsCapture THEN [view EXCEPT !.mic = FALSE]
                                         ELSE view
     /\ UNCHANGED <<spokenIn, ended, connVars, inbox, histVars, serverVars>>

\* The awaited upload is answered: the rest of stopRecording up to the call
\* that ends the session.  The capture stops after the flush, so what it
\* recorded meanwhile is flushed again by onStop, or goes with the reset.
StopFlushed(c, u) ==
  /\ c.kind = "stop" /\ c.step = "flush"
  /\ u \in uploads /\ u.awaited /\ u.step # "sent"
  /\ \E accepted \in {u.step = "accepted", FALSE} :
       StopAndReset(Answered(rec, accepted), uploads \ {u}, view.id)
  /\ Unsubscribe(c.s)
  /\ subRef' = FALSE
  /\ view' = IF StopsCapture THEN [view EXCEPT !.mic = FALSE] ELSE view
  /\ calls' = At(c, "sent")
  /\ UNCHANGED <<spokenIn, ended, connVars, inbox, presses, histVars,
                 serverVars>>

\* POST end, where the tab knew the session as new; else HandleRecordingStop,
\* which goes by the link.
SessionStopped(c) ==
  /\ c.kind = "stop" /\ c.step = "sent"
  /\ IF c.was = "new"
     THEN IF c.s \in Own \cap member /\ status[c.s] = "new"
          THEN /\ status' = [status EXCEPT ![c.s] = "over"]
               /\ Publish(Event("session_ended", c.s))
               /\ calls' = At(c, "ok")
               /\ UNCHANGED link
          ELSE calls' = At(c, "failed") /\ UNCHANGED <<inbox, status, link>>
     ELSE IF connected /\ link \in Own
          THEN /\ status' = [status EXCEPT ![link] = "over"]
               /\ Publish(Event("session_ended", link))
               /\ link' = None
               /\ calls' = At(c, "ok")
          ELSE calls' = At(c, "failed") /\ UNCHANGED <<inbox, status, link>>
  /\ UNCHANGED <<recVars, view, subVars, ended, connVars, presses,
                 histVars, member>>

LeaveSession ==
  /\ view.id # None /\ ~view.owner
  /\ Press("leave")
  /\ calls' = calls \cup {Call("leave", view.id, None, "sent")}
  /\ StopAndReset(rec, uploads, view.id)
  /\ Unsubscribe(view.id)
  /\ subRef' = FALSE
  /\ view' = IF StopsCapture THEN [view EXCEPT !.mic = FALSE] ELSE view
  /\ UNCHANGED <<spokenIn, ended, connVars, inbox, histVars, serverVars>>

\* HandleSessionLeave: not for an owner.
SessionLeft(c) ==
  /\ c.kind = "leave" /\ c.step = "sent"
  /\ IF connected /\ link # None /\ link \notin Own
     THEN /\ member' = member \ {link}
          /\ link' = None
          /\ calls' = At(c, "ok")
     ELSE calls' = At(c, "failed") /\ UNCHANGED <<member, link>>
  /\ UNCHANGED <<recVars, view, subVars, ended, connVars, inbox, presses,
                 histVars, status>>

\* The last part of stopRecording and of leaveSession.
StoppedOrLeft(c) ==
  /\ c.kind \in {"stop", "leave"} /\ c.step = "ok"
  /\ calls' = calls \ {c}
  /\ view' = Idle
  /\ MarkSessionEnded(c.s)
  /\ UNCHANGED <<recVars, subVars, connVars, inbox, presses, histVars,
                 serverVars>>

-----------------------------------------------------------------------------
\* Joining.

\* The early return of joinSession: the owner of a new session does not ask
\* the server, and the recorder is not reset.
EnterOwnNew(s) ==
  /\ ended' = ended \ {s}
  /\ view' = [id |-> s, owner |-> TRUE, status |-> "new", mic |-> FALSE]
  /\ SubscribeOnce(s)
  /\ cap' = CaptureStopped
  /\ rec' = IF StopsCapture THEN Flushed(rec, view.id) ELSE rec
  /\ uploads' = uploads \cup (IF StopsCapture
                              THEN FlushUpload(rec, view.id, FALSE) ELSE {})
  /\ UNCHANGED <<stored, spokenIn, calls>>

AskToJoin(s) ==
  /\ calls' = calls \cup {Call("join", s, None, "sent")}
  /\ UNCHANGED <<recVars, view, subVars, ended>>

\* joinSession(s).  The list of active sessions is the business of SessionLists;
\* here it is either current about a session of the user, or lacks it.
EnterOrAsk(s) ==
  \/ s \in Own \ ended /\ status[s] = "new" /\ EnterOwnNew(s)
  \/ AskToJoin(s)

\* From the lists of the home page, or by a link.
JoinSession(s) ==
  /\ view.id = None /\ connected
  /\ Press("join")
  /\ EnterOrAsk(s)
  /\ UNCHANGED <<connVars, inbox, histVars, serverVars>>

\* useAutoJoinOwnerSession, once per connection: the session updated last is
\* entered if it is the user's own.
AutoJoin ==
  /\ connected /\ view.id = None /\ ~autoJoined
  /\ autoJoined' = TRUE
  /\ \E s \in member \ ended :
       IF s \in Own THEN EnterOrAsk(s)
       ELSE UNCHANGED <<recVars, view, subVars, ended, calls>>
  /\ UNCHANGED <<connected, inbox, presses, histVars, serverVars>>

\* HandleSessionJoin: a member, from a connection without a link, while the
\* session is live.  The reply carries the status.
SessionJoined(c) ==
  /\ c.kind = "join" /\ c.step = "sent"
  /\ IF link = None /\ c.s \in member /\ status[c.s] \in Live
     THEN /\ link' = c.s
          /\ calls' = (calls \ {c}) \cup
                      {[c EXCEPT !.was = status[c.s], !.step = "ok"]}
     ELSE calls' = At(c, "failed") /\ UNCHANGED link
  /\ UNCHANGED <<recVars, view, subVars, ended, connVars, inbox, presses,
                 histVars, status, member>>

TabJoined(c) ==
  /\ c.kind = "join" /\ c.step = "ok"
  /\ calls' = calls \ {c}
  /\ ended' = ended \ {c.s}
  /\ view' = [id |-> c.s, owner |-> c.s \in Own, status |-> c.was,
              mic |-> FALSE]
  /\ Subscribe(c.s)
  /\ StopAndReset(rec, uploads, view.id)
  /\ UNCHANGED <<spokenIn, connVars, inbox, presses, histVars, serverVars>>

\* The catch of every operation: the error is shown, nothing is undone.
CallFailed(c) ==
  /\ c \in calls /\ c.step = "failed"
  /\ calls' = calls \ {c}
  /\ UNCHANGED <<recVars, view, subVars, ended, connVars, inbox, presses,
                 histVars, serverVars>>

-----------------------------------------------------------------------------
\* Publications, handled in order of arrival.

Receive(type) == inbox # <<>> /\ Head(inbox).type = type /\ inbox' = Tail(inbox)

Heard(e) == e.type \in UserEvents \/ listeners[e.s] > 0

\* removeSubscription dropped the channel while the publication was on its way.
Unheard ==
  /\ inbox # <<>> /\ ~Heard(Head(inbox))
  /\ inbox' = Tail(inbox)
  /\ UNCHANGED <<recVars, view, subVars, ended, connVars, calls, presses,
                 histVars, serverVars>>

HandleSessionStarted ==
  /\ Receive("session_started") /\ Heard(Head(inbox))
  /\ view' = IF view.id = Head(inbox).s
             THEN [view EXCEPT !.status = "recording"] ELSE view
  /\ UNCHANGED <<recVars, subVars, ended, connVars, calls, presses,
                 histVars, serverVars>>

\* Whichever session the tab is in, and without leaving or unsubscribing.
HandleSessionEnded ==
  /\ Receive("session_ended") /\ Heard(Head(inbox))
  /\ ResetToIdle
  /\ MarkSessionEnded(Head(inbox).s)
  /\ UNCHANGED <<spokenIn, listeners, connVars, calls, presses, histVars,
                 serverVars>>

\* handleUploadCompleted and handleUploadFailed: the recorder is not stopped,
\* and subRef is cleared whichever session the tab is in.
HandleUploadCompleted ==
  /\ Receive("upload_completed") /\ Heard(Head(inbox))
  /\ Unsubscribe(Head(inbox).s)
  /\ subRef' = FALSE
  /\ view' = IF view.id = Head(inbox).s THEN Idle ELSE view
  /\ MarkSessionEnded(Head(inbox).s)
  /\ UNCHANGED <<recVars, connVars, calls, presses, histVars, serverVars>>

HandleUserRemovedFromSession ==
  /\ Receive("removed")
  /\ IF view.id = Head(inbox).s
     THEN Unsubscribe(view.id) /\ ResetToIdle
     ELSE UNCHANGED <<rec, cap, uploads, stored, view, subVars>>
  /\ UNCHANGED <<spokenIn, ended, connVars, calls, presses, histVars,
                 serverVars>>

Deliver ==
  \/ Unheard \/ HandleSessionStarted \/ HandleSessionEnded
  \/ HandleUploadCompleted \/ HandleUserRemovedFromSession

-----------------------------------------------------------------------------
\* The connection.

Rpc(c) == c.kind \in {"mic", "join", "leave"} \/ (c.kind = "stop" /\ c.was # "new")

Waiting(c) == c.step \in {"sent", "ok"} /\ Rpc(c)

ConnectionGone ==
  /\ presses < MaxPresses /\ presses' = presses + 1
  /\ blipped' = TRUE
  /\ link' = None
  /\ inbox' = <<>>
  /\ calls' = {IF Waiting(c) THEN [c EXCEPT !.step = "failed"] ELSE c : c \in calls}

\* The client connects anew by itself: nothing in the tab is told, and the new
\* connection has no link.
Reconnect ==
  /\ connected
  /\ ConnectionGone
  /\ UNCHANGED <<recVars, view, subVars, ended, connVars, askedIn, status,
                 member>>

\* The disconnected event: the server sent the client away for good.
Disconnect ==
  /\ connected
  /\ ConnectionGone
  /\ connected' = FALSE
  /\ ResetToIdle
  /\ autoJoined' = FALSE
  /\ UNCHANGED <<spokenIn, listeners, ended, askedIn, status, member>>

\* The page is loaded again.  Audio not yet uploaded is gone.
Reload ==
  /\ presses < MaxPresses /\ presses' = presses + 1
  /\ blipped' = TRUE
  /\ rec' = EmptyRecorder
  /\ cap' = [NoCapture EXCEPT !.used = cap.used]
  /\ uploads' = {} /\ stored' = RestartedStore
  /\ view' = Idle /\ subRef' = FALSE /\ listeners' = [s \in Sessions |-> 0]
  /\ ended' = {}
  /\ autoJoined' = FALSE /\ connected' = TRUE
  /\ calls' = {} /\ inbox' = <<>> /\ link' = None
  /\ UNCHANGED <<spokenIn, askedIn, status, member>>

-----------------------------------------------------------------------------
\* The other users, and the pipeline.

ServerOnly == UNCHANGED <<recVars, view, subVars, ended, connVars, calls,
                          presses, histVars, link>>

OtherBegins(s) ==
  /\ s \in Others /\ status[s] = "new"
  /\ status' = [status EXCEPT ![s] = "recording"]
  /\ Publish(Event("session_started", s))
  /\ ServerOnly /\ UNCHANGED member

OtherEnds(s) ==
  /\ s \in Others /\ status[s] \in Live
  /\ status' = [status EXCEPT ![s] = "over"]
  /\ Publish(Event("session_ended", s))
  /\ ServerOnly /\ UNCHANGED member

\* The transcription of a session that is over is complete, or failed.
Completes(s) ==
  /\ status[s] = "over"
  /\ status' = [status EXCEPT ![s] = "done"]
  /\ Publish(Event("upload_completed", s))
  /\ ServerOnly /\ UNCHANGED member

OtherInvites(s) ==
  /\ s \in Others \ member /\ status[s] \in Live
  /\ member' = member \cup {s}
  /\ ServerOnly /\ UNCHANGED <<inbox, status>>

OtherRemoves(s) ==
  /\ s \in Others \cap member
  /\ member' = member \ {s}
  /\ Publish(Event("removed", s))
  /\ ServerOnly /\ UNCHANGED status

-----------------------------------------------------------------------------
Audio ==
  /\ \/ \E c \in Chunks : Chunk(c, view.id)
     \/ TimerFlush(view.id)
     \/ \E u \in uploads :
          \/ UploadArrives(u, {s \in member : status[s] = "recording"})
          \/ UploadAnswered(u)
  /\ UNCHANGED <<tabVars, serverVars>>

User ==
  \/ StartRecording \/ StopRecording \/ LeaveSession
  \/ ResumeMic \/ StartMic \/ StopMic
  \/ \E s \in Sessions : JoinSession(s)

ServerCall(c) ==
  \/ SessionCreated(c) \/ SessionBegun(c) \/ SessionStopped(c)
  \/ SessionLeft(c) \/ SessionJoined(c)

Continue(c) ==
  \/ RecordingStarted(c) \/ MicBegun(c) \/ CaptureStarted(c)
  \/ \E u \in uploads : StopFlushed(c, u)
  \/ StoppedOrLeft(c) \/ TabJoined(c) \/ CallFailed(c)

Environment ==
  \/ \E i \in Captures : TrackEnds(i)
  \/ Reconnect \/ Disconnect \/ Reload
  \/ \E s \in Sessions : \/ OtherBegins(s) \/ OtherEnds(s) \/ Completes(s)
                         \/ OtherInvites(s) \/ OtherRemoves(s)

Next ==
  \/ Audio \/ User \/ AutoJoin
  \/ \E c \in calls : ServerCall(c) \/ Continue(c)
  \/ Deliver \/ Environment

Spec == Init /\ [][Next]_vars

-----------------------------------------------------------------------------
\* Audio goes to the session it was recorded in: what is stored under a session
\* was not spoken while the tab was in another, although the buffer and the
\* uploads in flight outlive the session they began in.  (A tab that lost its
\* connection may have missed that its session ended.)
StoredAudioIsOwn ==
  ~blipped =>
    \A s \in Sessions, q \in Seqs : \A c \in stored[s][q].chunks :
      spokenIn[c] \in {s, None}

\* A tab that shows its microphone on is linked at the server to the session
\* it shows, so that stop and leave, which go by the link, end the right one.
MicMeansLinked ==
  view.mic /\ askedIn = view.id /\ calls = {} /\ ~blipped => link = view.id

\* A stop is refused only when the session is over already: the owner is not
\* left with a session that cannot be stopped.
RefusedStopIsOver ==
  ~blipped =>
    \A c \in calls : c.kind = "stop" /\ c.step = "failed" =>
      status[c.s] \in {"over", "done"}

\* Within one numbering a segment is stored again only with all its audio: the
\* retry of an upload whose answer was lost carries what the first one carried.
\* (The answer to an upload of an earlier numbering ends the wait for the one in
\* flight, and another may pass it: the upload waited for must be the only one.)
WaitsForOne ==
  rec.flushing /\ \A u, v \in uploads : u.current /\ v.current => u = v

RetriesKeepAudio ==
  [][WaitsForOne =>
       \A s \in Sessions, q \in Seqs :
         stored[s][q].current /\ stored'[s][q].current =>
           stored[s][q].chunks \subseteq stored'[s][q].chunks]_vars

\* Audio is captured only in a session.
MicNeedsSession ==
  cap.live \ cap.paused # {} /\ ~blipped => view.id # None

-----------------------------------------------------------------------------
\* The strengthenings that are inductive.

\* A call names its session, a create once the server has made it.
CallsName ==
  \A c \in calls :
    c.s \in Sessions \/ (c.kind = "create" /\ c.step \in {"sent", "failed"})

\* What of the current numbering is stored or in flight under a number is in the
\* buffer while that number is the next; an upload that is waited for has all
\* there was under its number.
OfNumbering(x, q, chunks) == x.current /\ q = rec.seq => x.chunks \subseteq chunks

NumbersKeepAudio ==
  /\ \A u \in uploads : u.current => u.seq <= rec.seq
  /\ \A s \in Sessions, q \in Seqs : stored[s][q].current => q <= rec.seq
  /\ \A u \in uploads : OfNumbering(u, u.seq, rec.buffer)
  /\ \A s \in Sessions, q \in Seqs : OfNumbering(stored[s][q], q, rec.buffer)
  /\ rec.flushing =>
       \E w \in uploads :
         /\ w.current /\ w.seq = rec.seq
         /\ \A u \in uploads : OfNumbering(u, u.seq, w.chunks)
         /\ \A s \in Sessions, q \in Seqs :
              OfNumbering(stored[s][q], q, w.chunks)

\* Buttons wait: of the operations that start or end something one at a time.
ButtonsWait == Overlaps \subseteq {"create", "join"} \X {"stop", "leave"}

Steps == {"sent", "flush", "permission", "ok", "failed"}
InFlight(kind, steps) == \E c \in calls : c.kind = kind /\ c.step \in steps
Over(s) == status[s] \in {"over", "done"}

OneAtATime ==
  /\ \A c, d \in calls : {c.kind, d.kind} \subseteq {"mic", "stop", "leave"}
                           => c = d
  /\ \A c, d \in calls : c.kind = "create" /\ d.kind \in {"create", "mic"}
                           => c = d
  /\ \A c, d \in calls : c.kind = "join" /\ d.kind = "join"
                         /\ {c.s, d.s} \subseteq Others => c = d

OwnSessions ==
  /\ \A s, t \in Own : status[s] \in Live /\ status[t] \in Live => s = t
  /\ \A s \in Own : status[s] # None => s \in member

\* A join that the server has answered: nothing in flight goes by the link but
\* what is about its session.
Joined(c) ==
  /\ link = c.s /\ c.was \in Live
  /\ c.s \in Own =>
       IF c.was = "new" THEN status[c.s] = "new" \/ Over(c.s)
                        ELSE status[c.s] = "recording"
  /\ c.s \in Own /\ Over(c.s) => ~InFlight("mic", Steps)
  /\ ~InFlight("leave", {"sent"})
  /\ \A d \in calls : d.kind = "stop" /\ d.step \in {"flush", "sent"}
                      => d.was = "new"
  /\ \A d \in calls : d.kind = "join" /\ d.step = "ok" => d = c

JoinKnows(c) ==
  /\ c.s \in Others => view.id # c.s
  /\ c.step = "ok" => Joined(c)

StopKnows(c) ==
  /\ c.s \in Own /\ status[c.s] # None /\ c.was \in Live
  /\ c.step \in {"flush", "sent"} =>
       IF c.was = "new" THEN status[c.s] = "new" \/ Over(c.s)
                        ELSE status[c.s] = "recording" /\ link = c.s
  /\ c.step = "failed" => Over(c.s)

LeaveKnows(c) ==
  /\ c.s \in Others /\ c.step \in {"sent", "ok"}
  /\ c.step = "sent" => link = c.s

MicKnows(c) ==
  /\ c.step = "sent" => c.s \in Own
  /\ c.step = "ok" => c.s \in Own /\ status[c.s] = "recording" /\ link = c.s
  /\ c.step = "permission" /\ c.s \in Own => status[c.s] \notin {None, "new"}

CreateKnows(c) ==
  c.step = "ok" => /\ c.s \in Own /\ status[c.s] = "new"
                   /\ \A d \in calls : d.kind = "stop" => d.s # c.s

CallKnows(c) ==
  /\ c.kind = "join" => JoinKnows(c)
  /\ c.kind = "stop" => StopKnows(c)
  /\ c.kind = "leave" => LeaveKnows(c)
  /\ c.kind = "mic" => MicKnows(c)
  /\ c.kind = "create" => CreateKnows(c)

\* The session shown is the one the connection is linked to, except where the
\* owner has not begun it, or the answer to the stop or leave is on its way.
ViewKnows ==
  /\ view.id = None => view = Idle
  /\ view.id # None => view.status \in Live /\ view.owner = (view.id \in Own)
  /\ view.id \in Others => link = view.id \/ InFlight("leave", {"ok"})
  /\ view.id \in Own =>
       /\ status[view.id] # None
       /\ Over(view.id) => link = view.id \/ InFlight("stop", {"ok"})
       /\ view.status = "recording" =>
            \/ link = view.id /\ status[view.id] = "recording"
            \/ InFlight("stop", {"ok"})
       /\ view.status = "new" /\ status[view.id] = "recording" =>
            \E c \in calls : c.kind = "mic" /\ c.step = "ok" /\ c.s = view.id

EventKnows(e) ==
  /\ e.type = "session_started" /\ e.s \in Own =>
       IF link = e.s THEN status[e.s] = "recording" ELSE Over(e.s)
  /\ e.type = "upload_completed" => status[e.s] = "done"

LinksKnow ==
  /\ connected /\ OneAtATime /\ OwnSessions
  /\ \A c \in calls : CallKnows(c)
  /\ ViewKnows
  /\ \A i \in DOMAIN inbox : EventKnows(inbox[i])
  /\ askedIn \in Own => status[askedIn] \notin {None, "new"}

\* The link is left on a session of others that is over: nothing the tab can do
\* ends or begins anything until it connects anew.
Stranded ==
  /\ link \in Others /\ Over(link) /\ view.id # link
  /\ ~InFlight("leave", Steps) /\ ~InFlight("join", {"ok"})

Silent == rec.buffer = {} /\ cap.live = {}
SpokenIn(chunks, s) == \A c \in chunks : spokenIn[c] \in {s, None}

\* What is captured and collected: in the session shown, and of nothing while a
\* stop or leave waits for its answer.
BufferKnows ==
  /\ cap.live \subseteq {cap.ref}
  /\ InFlight("mic", Steps) => cap.live = {}
  /\ InFlight("leave", Steps) \/ InFlight("stop", Steps \ {"flush"}) => Silent
  /\ InFlight("create", Steps) =>
       /\ SpokenIn(rec.buffer, None) \/ Stranded
       /\ view.id # None => cap.live = {}
  /\ view.id \in Own /\ Over(view.id) =>
       Silent /\ ~InFlight("mic", {"ok", "permission"})
  /\ SpokenIn(rec.buffer, view.id) \/ Stranded

\* An upload carries audio of its session, or a session that cannot begin any
\* more while the connection lasts.
UploadKnows(u) ==
  \/ SpokenIn(u.chunks, u.session)
  \/ Stranded /\ u.session \in Own /\ status[u.session] # "recording"

AudioKnows ==
  /\ BufferKnows
  /\ \A u \in uploads : UploadKnows(u)
  /\ \A s \in Sessions, q \in Seqs : SpokenIn(stored[s][q].chunks, s)

TabInv ==
  /\ TypeOK /\ CallsName /\ NumbersKeepAudio
  /\ ~blipped => LinksKnow /\ AudioKnows
=============================================================================
