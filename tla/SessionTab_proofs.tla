-------------------------- MODULE SessionTab_proofs --------------------------
(***************************************************************************)
(* The browser tab, for every value of the constants: types, what a retry  *)
(* of an upload carries, and, while the buttons wait for the operation     *)
(* they started, that the link of the connection is the session shown, a   *)
(* stop is refused only when it is too late, and audio stays in the        *)
(* session it was spoken in.  The invariants are TabInv of SessionTab.     *)
(***************************************************************************)
EXTENDS SessionTab, TLAPS

-----------------------------------------------------------------------------
(* What any step can do to the recorder.                                   *)

Sids == Sessions \cup {None}

Rests ==
  /\ rec' \in {rec, [rec EXCEPT !.timer = TRUE]}
  /\ UNCHANGED <<uploads, stored>>

FlushStep ==
  \E awaited \in BOOLEAN :
    /\ rec' = Flushed(rec, view.id)
    /\ uploads' = uploads \cup FlushUpload(rec, view.id, awaited)
    /\ stored' = stored

\* An upload of before, or one of the buffer.
OfTab(u) ==
  \/ \E v \in uploads : v.session = u.session /\ v.chunks = u.chunks
  \/ u.session = view.id /\ u.chunks \subseteq rec.buffer /\ u.chunks # {}

ResetStep ==
  /\ rec' = EmptyRecorder
  /\ uploads' \subseteq Uploads
  /\ \A u \in uploads' : ~u.current /\ OfTab(u)
  /\ stored' = RestartedStore

UploadStep ==
  \E u \in uploads :
    \/ UploadArrives(u, {s \in member : status[s] = "recording"})
    \/ UploadAnswered(u)

ChunkStep == \E c \in Chunks : Chunk(c, view.id)

Recorders == [buffer : SUBSET Chunks, seq : 1 .. MaxSeq + 1,
              flushing : BOOLEAN, timer : BOOLEAN]

LEMMA FlushTyped ==
  ASSUME NEW r \in Recorders, NEW sid \in Sids, NEW awaited \in BOOLEAN
  PROVE  /\ Flushed(r, sid) \in Recorders
         /\ FlushUpload(r, sid, awaited) \subseteq Uploads
<1>1. r.buffer \in SUBSET Chunks /\ [r EXCEPT !.flushing = TRUE] \in Recorders
  BY DEF Recorders
<1>2. Flushed(r, sid) \in Recorders
  BY <1>1 DEF Flushed
<1>3. CASE Flushes(r, sid)
  <2>1. sid \in Sessions /\ r.seq \in Seqs
    BY <1>3 DEF Flushes, Sids
  <2> QED
    BY <1>1, <1>2, <1>3, <2>1 DEF FlushUpload, Uploads
<1>4. CASE ~Flushes(r, sid)
  BY <1>2, <1>4 DEF FlushUpload
<1> QED
  BY <1>3, <1>4

LEMMA AnsweredTyped ==
  ASSUME NEW r \in Recorders, NEW accepted \in BOOLEAN
  PROVE  Answered(r, accepted) \in Recorders
<1>0. MaxSeq \in Nat /\ r.seq \in 1 .. MaxSeq + 1
  BY RecorderAssumption DEF Recorders
<1>1. /\ \A q \in 1 .. MaxSeq + 1 :
           [r EXCEPT !.seq = q, !.buffer = {}, !.flushing = FALSE] \in Recorders
      /\ [r EXCEPT !.flushing = FALSE] \in Recorders
  BY RecorderAssumption DEF Recorders
<1>2. (IF r.seq > MaxSeq THEN r.seq ELSE r.seq + 1) \in 1 .. MaxSeq + 1
  BY <1>0
<1> DEFINE q == IF r.seq > MaxSeq THEN r.seq ELSE r.seq + 1
<1>3. CASE accepted
  <2>1. Answered(r, accepted) = [r EXCEPT !.seq = q, !.buffer = {}, !.flushing = FALSE]
    BY <1>3 DEF Answered
  <2> QED
    BY <1>1, <1>2, <2>1
<1> QED
  BY <1>1, <1>3 DEF Answered

LEMMA EmptyTyped == EmptyRecorder \in Recorders
BY RecorderAssumption DEF Recorders, EmptyRecorder

\* The uploads after a reset are of an earlier numbering.
LEMMA ResetResets ==
  ASSUME uploads \subseteq Uploads, view.id \in Sids,
         NEW r \in Recorders, r.buffer \subseteq rec.buffer,
         NEW us \in SUBSET uploads, StopAndReset(r, us, view.id)
  PROVE  ResetStep
<1> DEFINE vs == us \cup (IF StopsCapture THEN FlushUpload(r, view.id, FALSE) ELSE {})
<1>1. vs \subseteq Uploads
  BY FlushTyped
<1>2. \A u \in Uploads : LET v == [u EXCEPT !.current = FALSE] IN
        v \in Uploads /\ ~v.current /\ v.session = u.session /\ v.chunks = u.chunks
  BY DEF Uploads
<1>3. uploads' = Restarted(vs) /\ rec' = EmptyRecorder /\ stored' = RestartedStore
  BY DEF StopAndReset, ResetSegmentState
<1>4. \A u \in vs : OfTab(u)
  BY DEF OfTab, FlushUpload, Flushes
<1> HIDE DEF vs
<1>5. ASSUME NEW u \in uploads'
      PROVE  u \in Uploads /\ ~u.current /\ OfTab(u)
  <2>1. PICK w \in vs : u = [w EXCEPT !.current = FALSE]
    BY <1>3 DEF Restarted
  <2>2. u \in Uploads /\ ~u.current /\ u.session = w.session /\ u.chunks = w.chunks
    BY <1>1, <1>2, <2>1
  <2> QED
    BY <1>4, <2>2 DEF OfTab
<1> QED
  BY <1>3, <1>5 DEF ResetStep

LEMMA TypesOfRecorder ==
  ASSUME TypeOK
  PROVE  /\ rec \in Recorders /\ uploads \subseteq Uploads /\ view.id \in Sids
BY DEF TypeOK, RecorderTypeOK, Recorders, Sids

LEMMA RecorderStep ==
  ASSUME TypeOK, [Next]_vars
  PROVE  Rests \/ FlushStep \/ ResetStep \/ UploadStep \/ ChunkStep
<1>0. rec \in Recorders /\ uploads \subseteq Uploads /\ view.id \in Sids
  BY TypesOfRecorder
<1>1. ASSUME UNCHANGED <<rec, uploads, stored>>
      PROVE  Rests
  BY <1>1 DEF Rests
<1>2. ASSUME NEW us \in SUBSET uploads, NEW r \in Recorders,
             r.buffer \subseteq rec.buffer, StopAndReset(r, us, view.id)
      PROVE  ResetStep
  BY <1>0, <1>2, ResetResets
<1>3. ASSUME NEW awaited \in BOOLEAN,
             rec' = Flushed(rec, view.id), stored' = stored,
             uploads' = uploads \cup FlushUpload(rec, view.id, awaited)
      PROVE  FlushStep
  BY <1>0, <1>3 DEF FlushStep
<1>4. ASSUME Audio
      PROVE  FlushStep \/ UploadStep \/ ChunkStep
  BY <1>3, <1>4 DEF Audio, TimerFlush, UploadStep, ChunkStep
<1>5. ASSUME User
      PROVE  Rests \/ FlushStep \/ ResetStep
  <2>1. CASE StartRecording \/ ResumeMic \/ StartMic
    BY <1>1, <2>1 DEF StartRecording, ResumeMic, StartMic, recVars
  <2>2. CASE StopMic
    BY <1>3, <2>2 DEF StopMic
  <2>3. CASE StopRecording
    BY <1>0, <1>2, <1>3, <2>3 DEF StopRecording
  <2>4. CASE LeaveSession
    BY <1>0, <1>2, <2>4 DEF LeaveSession
  <2>5. ASSUME NEW s \in Sessions, JoinSession(s)
        PROVE  Rests \/ FlushStep
    <3>1. CASE AskToJoin(s)
      BY <1>1, <3>1 DEF AskToJoin, recVars
    <3>2. CASE EnterOwnNew(s)
      BY <1>1, <1>3, <3>2 DEF EnterOwnNew
    <3> QED
      BY <2>5, <3>1, <3>2 DEF JoinSession, EnterOrAsk
  <2> QED
    BY <1>5, <2>1, <2>2, <2>3, <2>4, <2>5 DEF User
<1>6. ASSUME AutoJoin
      PROVE  Rests \/ FlushStep
  <2>1. PICK s : IF s \in Own THEN EnterOrAsk(s) ELSE UNCHANGED <<recVars, view, subVars, ended, calls>>
    BY <1>6 DEF AutoJoin
  <2>2. CASE AskToJoin(s) \/ s \notin Own
    BY <1>1, <2>1, <2>2 DEF AskToJoin, recVars
  <2>3. CASE EnterOwnNew(s)
    BY <1>1, <1>3, <2>3 DEF EnterOwnNew
  <2> QED
    BY <2>1, <2>2, <2>3 DEF EnterOrAsk
<1>7. ASSUME NEW c \in calls, ServerCall(c) \/ Continue(c)
      PROVE  Rests \/ ResetStep
  <2>1. CASE ServerCall(c)
    BY <1>1, <2>1 DEF ServerCall, SessionCreated, SessionBegun, SessionStopped,
                      SessionLeft, SessionJoined, recVars
  <2>2. CASE RecordingStarted(c) \/ MicBegun(c) \/ StoppedOrLeft(c) \/ CallFailed(c)
    BY <1>1, <2>2 DEF RecordingStarted, MicBegun, StoppedOrLeft, CallFailed, recVars
  <2>3. CASE CaptureStarted(c)
    BY <2>3 DEF CaptureStarted, Rests
  <2>4. ASSUME NEW u \in uploads, StopFlushed(c, u)
        PROVE  ResetStep
    <3>1. PICK accepted \in BOOLEAN : StopAndReset(Answered(rec, accepted), uploads \ {u}, view.id)
      BY <2>4 DEF StopFlushed
    <3>2. Answered(rec, accepted).buffer \subseteq rec.buffer
      BY <1>0 DEF Answered, Recorders
    <3> QED
      BY <1>0, <1>2, <3>1, <3>2, AnsweredTyped
  <2>5. CASE TabJoined(c)
    BY <1>0, <1>2, <2>5 DEF TabJoined
  <2> QED
    BY <1>7, <2>1, <2>2, <2>3, <2>4, <2>5 DEF Continue
<1>8. ASSUME Deliver
      PROVE  Rests \/ ResetStep
  <2>1. CASE ResetToIdle
    BY <1>0, <1>2, <2>1 DEF ResetToIdle
  <2>2. CASE HandleUserRemovedFromSession
    BY <1>1, <2>1, <2>2 DEF HandleUserRemovedFromSession
  <2> QED
    BY <1>1, <1>8, <2>1, <2>2
    DEF Deliver, Unheard, HandleSessionStarted, HandleSessionEnded,
        HandleUploadCompleted, recVars
<1>9. ASSUME Environment
      PROVE  Rests \/ FlushStep \/ ResetStep
  <2>1. ASSUME NEW i \in Captures, TrackEnds(i)
        PROVE  FlushStep
    BY <1>3, <2>1 DEF TrackEnds
  <2>2. CASE Disconnect
    BY <1>0, <1>2, <2>2 DEF Disconnect, ResetToIdle
  <2>3. CASE Reload
    BY <2>3 DEF Reload, ResetStep
  <2>4. CASE Reconnect
    BY <1>1, <2>4 DEF Reconnect, recVars
  <2>5. ASSUME NEW s \in Sessions,
               \/ OtherBegins(s) \/ OtherEnds(s) \/ Completes(s)
               \/ OtherInvites(s) \/ OtherRemoves(s)
        PROVE  Rests
    BY <1>1, <2>5 DEF OtherBegins, OtherEnds, Completes, OtherInvites, OtherRemoves,
                      ServerOnly, recVars
  <2> QED
    BY <1>9, <2>1, <2>2, <2>3, <2>4, <2>5 DEF Environment
<1>10. CASE UNCHANGED vars
  BY <1>1, <1>10 DEF vars, recVars
<1> QED
  BY <1>4, <1>5, <1>6, <1>7, <1>8, <1>9, <1>10 DEF Next

-----------------------------------------------------------------------------
(* Types.                                                                  *)

Captured == [ref : Captures \cup {None}, live : SUBSET Captures,
             paused : SUBSET Captures, used : SUBSET Captures]

Views == [id : Sessions \cup {None}, owner : BOOLEAN,
          status : Live \cup {None}, mic : BOOLEAN]

Statuses == {None, "new", "recording", "over", "done"}

\* The calls of CallsName.
NamedCalls ==
  {c \in Calls : c.s \in Sessions
                 \/ (c.kind = "create" /\ c.step \in {"sent", "failed"})}

TabTypeOK ==
  /\ cap \in Captured
  /\ spokenIn \in [Chunks -> Sessions \cup {None, "unspoken"}]
  /\ view \in Views
  /\ subRef \in BOOLEAN /\ autoJoined \in BOOLEAN /\ connected \in BOOLEAN
  /\ listeners \in [Sessions -> Nat]
  /\ ended \subseteq Sessions
  /\ blipped \in BOOLEAN /\ askedIn \in Sessions \cup {None}
  /\ calls \subseteq NamedCalls
  /\ inbox \in Seq(Events)
  /\ presses \in 0 .. MaxPresses
  /\ status \in [Sessions -> Statuses]
  /\ member \subseteq Sessions
  /\ link \in Sessions \cup {None}

Segments == [chunks : SUBSET Chunks, current : BOOLEAN]

RowsTypeOK ==
  /\ rec \in Recorders
  /\ uploads \subseteq Uploads
  /\ stored \in [Sessions -> [Seqs -> Segments]]

LEMMA TypesSplit == TypeOK /\ CallsName <=> RowsTypeOK /\ TabTypeOK
BY DEF TypeOK, CallsName, RecorderTypeOK, RowsTypeOK, TabTypeOK, Recorders,
       Captured, Views, NamedCalls, Statuses, Segments

LEMMA RowsTyped ==
  ASSUME TypeOK, CallsName, [Next]_vars
  PROVE  RowsTypeOK'
<1> USE TypesSplit
<1>1. CASE Rests
  BY <1>1 DEF Rests, RowsTypeOK, Recorders
<1>2. CASE FlushStep
  BY <1>2, FlushTyped, TypesOfRecorder DEF FlushStep, RowsTypeOK
<1>3. CASE ResetStep
  <2>1. \A x \in Segments : [x EXCEPT !.current = FALSE] \in Segments
    BY DEF Segments
  <2>2. \A s \in Sessions, q \in Seqs : stored[s][q] \in Segments
    BY DEF RowsTypeOK
  <2>3. stored' \in [Sessions -> [Seqs -> Segments]]
    BY <1>3, <2>1, <2>2 DEF ResetStep, RestartedStore
  <2> QED
    BY <1>3, <2>3, EmptyTyped DEF ResetStep, RowsTypeOK
<1>4. CASE ChunkStep
  BY <1>4 DEF ChunkStep, Chunk, RowsTypeOK, Recorders
<1>5. ASSUME NEW u \in uploads,
             \/ UploadArrives(u, {s \in member : status[s] = "recording"})
             \/ UploadAnswered(u)
      PROVE  RowsTypeOK'
  <2>1. u \in Uploads
    BY DEF RowsTypeOK
  <2>2. CASE UploadArrives(u, {s \in member : status[s] = "recording"})
    <3>1. /\ [u EXCEPT !.step = "accepted"] \in Uploads
          /\ [u EXCEPT !.step = "refused"] \in Uploads
          /\ [chunks |-> u.chunks, current |-> u.current]
               \in Segments
          /\ u.session \in Sessions /\ u.seq \in Seqs
      BY <2>1 DEF Uploads, Segments
    <3>2. uploads' \subseteq Uploads /\ rec' = rec
      BY <2>2, <3>1 DEF UploadArrives, RowsTypeOK
    <3>3. CASE stored' = [stored EXCEPT ![u.session][u.seq] =
                            [chunks |-> u.chunks, current |-> u.current]]
      <4>1. [stored[u.session] EXCEPT ![u.seq] = [chunks |-> u.chunks, current |-> u.current]]
              \in [Seqs -> Segments]
        BY <3>1 DEF RowsTypeOK
      <4>2. stored' \in [Sessions -> [Seqs -> Segments]]
        BY <3>3, <4>1 DEF RowsTypeOK
      <4> QED
        BY <3>2, <4>2 DEF RowsTypeOK
    <3> QED
      BY <2>2, <3>2, <3>3 DEF UploadArrives, RowsTypeOK
  <2>3. CASE UploadAnswered(u)
    BY <2>3, AnsweredTyped DEF UploadAnswered, RowsTypeOK
  <2> QED
    BY <1>5, <2>2, <2>3
<1> QED
  BY <1>1, <1>2, <1>3, <1>4, <1>5, RecorderStep DEF UploadStep

LEMMA AtTyped ==
  ASSUME calls \subseteq NamedCalls, NEW c \in calls, NEW step \in Steps,
         c.s \in Sessions \/ (c.kind = "create" /\ step = "failed")
  PROVE  At(c, step) \subseteq NamedCalls
<1>1. [c EXCEPT !.step = step] \in NamedCalls
  BY DEF NamedCalls, Calls, Steps
<1> QED
  BY <1>1 DEF At

LEMMA CallTyped ==
  ASSUME NEW kind \in Kinds, NEW s \in Sessions, NEW was \in Live \cup {None},
         NEW step \in Steps
  PROVE  Call(kind, s, was, step) \in NamedCalls
BY DEF NamedCalls, Calls, Call, Steps

LEMMA PublishTyped ==
  ASSUME inbox \in Seq(Events), NEW e \in Events, Publish(e)
  PROVE  inbox' \in Seq(Events)
<1>1. CASE inbox' = Append(inbox, e)
  BY <1>1
<1> QED
  BY <1>1 DEF Publish

LEMMA TailTyped ==
  ASSUME inbox \in Seq(Events), inbox # <<>>
  PROVE  Tail(inbox) \in Seq(Events) /\ Head(inbox) \in Events
OBVIOUS

LEMMA StoppedTyped ==
  ASSUME cap \in Captured
  PROVE  CaptureStopped \in Captured /\ \A i \in Captures : Silenced(i) \in Captured
BY DEF Captured, CaptureStopped, Silenced, StopsCapture

LEMMA ResetTyped ==
  ASSUME TabTypeOK, ResetToIdle
  PROVE  cap' \in Captured /\ view' \in Views /\ subRef' \in BOOLEAN
BY StoppedTyped DEF ResetToIdle, StopAndReset, TabTypeOK, Idle, Views

LEMMA ViewTyped ==
  ASSUME TabTypeOK
  PROVE  /\ [view EXCEPT !.mic = FALSE] \in Views /\ [view EXCEPT !.mic = TRUE] \in Views
         /\ [view EXCEPT !.status = "recording"] \in Views
         /\ \A s \in Sessions, own \in BOOLEAN, st \in Live \cup {None} :
              [id |-> s, owner |-> own, status |-> st, mic |-> FALSE] \in Views
         /\ view \in Views /\ view.id \in Sids
BY DEF TabTypeOK, Views, Live, Sids

LEMMA SubscribeTyped ==
  ASSUME TabTypeOK, NEW s \in Sessions, Subscribe(s) \/ SubscribeOnce(s)
  PROVE  listeners' \in [Sessions -> Nat] /\ subRef' \in BOOLEAN
<1>1. [listeners EXCEPT ![s] = @ + 1] \in [Sessions -> Nat]
  BY DEF TabTypeOK
<1> QED
  BY <1>1 DEF SubscribeOnce, Subscribe, TabTypeOK, subVars

LEMMA EnterTyped ==
  ASSUME TabTypeOK, NEW s \in Sessions, EnterOrAsk(s)
  PROVE  /\ cap' \in Captured /\ view' \in Views /\ spokenIn' = spokenIn
         /\ subRef' \in BOOLEAN /\ listeners' \in [Sessions -> Nat]
         /\ ended' \subseteq Sessions /\ calls' \subseteq NamedCalls
<1>1. CASE AskToJoin(s)
  <2>1. Call("join", s, None, "sent") \in NamedCalls
    BY CallTyped DEF Kinds, Steps
  <2> QED
    BY <1>1, <2>1 DEF AskToJoin, TabTypeOK, recVars, subVars
<1>2. CASE EnterOwnNew(s)
  <2>1. view' \in Views
    BY <1>2 DEF EnterOwnNew, Views, Live
  <2> QED
    BY <1>2, <2>1, StoppedTyped, SubscribeTyped DEF EnterOwnNew, TabTypeOK
<1> QED
  BY <1>1, <1>2 DEF EnterOrAsk

LEMMA TabTyped ==
  ASSUME TypeOK, CallsName, [Next]_vars
  PROVE  TabTypeOK'
<1> USE TypesSplit
<1>a. MaxPresses \in Nat
  BY TabAssumption
<1>b. ASSUME NEW type \in {"session_started", "session_ended", "upload_completed", "removed"},
             NEW s \in Sessions
      PROVE  Event(type, s) \in Events
  BY DEF Event, Events, UserEvents
<1>c. /\ \A kind \in Kinds : \A s \in Sessions, was \in Live \cup {None}, step \in Steps :
           Call(kind, s, was, step) \in NamedCalls
      /\ \A c \in calls : c \in NamedCalls
      /\ calls \subseteq NamedCalls
      /\ Call("create", None, None, "sent") \in NamedCalls
  BY CallTyped DEF TabTypeOK, NamedCalls, Calls, Call, Kinds
<1>d. Idle \in Views
  BY DEF Idle, Views
<1>e. <<>> \in Seq(Events) /\ {} \subseteq NamedCalls /\ {} \subseteq Sessions
  OBVIOUS
<1>1. CASE Audio
  <2>1. spokenIn' \in [Chunks -> Sessions \cup {None, "unspoken"}]
    BY <1>1 DEF Audio, Chunk, TimerFlush, UploadArrives, UploadAnswered, TabTypeOK, Views
  <2>2. cap' = cap /\ UNCHANGED <<tabVars, serverVars>>
    BY <1>1 DEF Audio, Chunk, TimerFlush, UploadArrives, UploadAnswered
  <2> QED
    BY <2>1, <2>2 DEF TabTypeOK, tabVars, serverVars, subVars, connVars, histVars
<1>2. CASE User
  <2>1. CASE StartRecording
    BY <1>a, <1>c, <2>1 DEF StartRecording, Press, TabTypeOK, recVars, subVars, connVars, histVars,
                      serverVars
  <2>2. CASE ResumeMic
    <3>1. cap' \in Captured /\ view' \in Views
      BY <2>2 DEF ResumeMic, TabTypeOK, Captured, Views
    <3> QED
      BY <1>a, <2>2, <3>1 DEF ResumeMic, Press, TabTypeOK, subVars, connVars, histVars, serverVars
  <2>3. CASE StartMic
    <3>1. view.id \in Sessions
      BY <2>3 DEF StartMic, TabTypeOK, Views
    <3>2. calls' \subseteq NamedCalls
      <4>1. Call("mic", view.id, "new", "sent") \in NamedCalls
        BY <1>c, <3>1 DEF Kinds, Live, Steps
      <4>2. Call("mic", view.id, None, "permission") \in NamedCalls
        BY <1>c, <3>1 DEF Kinds, Live, Steps
      <4> QED
        BY <1>c, <2>3, <4>1, <4>2 DEF StartMic
    <3>3. listeners' \in [Sessions -> Nat] /\ subRef' \in BOOLEAN
      BY <2>3, <3>1, SubscribeTyped DEF StartMic, subVars, TabTypeOK
    <3> QED
      BY <1>a, <2>3, <3>2, <3>3 DEF StartMic, Press, TabTypeOK, recVars, connVars, histVars, serverVars
  <2>4. CASE StopMic
    <3>1. cap' \in Captured /\ view' \in Views
      <4>1. cap \in Captured
        BY DEF TabTypeOK
      <4>2. StopsCapture => [cap EXCEPT !.paused = @ \cup {cap.ref}] \in Captured
        BY <4>1 DEF StopsCapture, Captured
      <4> QED
        BY <2>4, <4>1, <4>2, ViewTyped DEF StopMic
    <3> QED
      BY <1>a, <2>4, <3>1 DEF StopMic, Press, TabTypeOK, subVars, connVars, histVars, serverVars
  <2>5. CASE StopRecording
    <3>1. view.id \in Sessions
      BY <2>5 DEF StopRecording, TabTypeOK, Views
    <3>2. calls' \subseteq NamedCalls
      <4>1. \A was \in Live, step \in Steps : Call("stop", view.id, was, step) \in NamedCalls
        BY <1>c, <3>1 DEF Kinds
      <4> QED
        BY <1>c, <2>5, <4>1 DEF StopRecording, Live, Steps
    <3>3. listeners' \in [Sessions -> Nat] /\ subRef' \in BOOLEAN
      <4>1. [listeners EXCEPT ![view.id] = 0] \in [Sessions -> Nat]
        BY <3>1 DEF TabTypeOK
      <4>2. listeners \in [Sessions -> Nat] /\ subRef \in BOOLEAN
        BY DEF TabTypeOK
      <4>3. \/ UNCHANGED <<subVars>>
            \/ Unsubscribe(view.id) /\ subRef' = FALSE
        BY <2>5 DEF StopRecording
      <4> QED
        BY <4>1, <4>2, <4>3 DEF Unsubscribe, subVars
    <3>4. cap' \in Captured /\ view' \in Views
      BY <2>5, StoppedTyped DEF StopRecording, StopAndReset, TabTypeOK, Views
    <3> QED
      BY <1>a, <2>5, <3>2, <3>3, <3>4 DEF StopRecording, Press, TabTypeOK, connVars, histVars, serverVars
  <2>6. CASE LeaveSession
    <3>1. view.id \in Sessions
      BY <2>6 DEF LeaveSession, TabTypeOK, Views
    <3>2. calls' \subseteq NamedCalls
      BY <1>c, <2>6, <3>1 DEF LeaveSession, Kinds, Live, Steps
    <3>3. listeners' \in [Sessions -> Nat] /\ subRef' \in BOOLEAN
      BY <2>6, <3>1 DEF LeaveSession, Unsubscribe, TabTypeOK
    <3>4. cap' \in Captured /\ view' \in Views
      BY <2>6, StoppedTyped DEF LeaveSession, StopAndReset, TabTypeOK, Views
    <3> QED
      BY <1>a, <2>6, <3>2, <3>3, <3>4 DEF LeaveSession, Press, TabTypeOK, connVars, histVars, serverVars
  <2>7. ASSUME NEW s \in Sessions, JoinSession(s)
        PROVE  TabTypeOK'
    <3>1. EnterOrAsk(s)
      BY <2>7 DEF JoinSession
    <3> QED
      BY <1>a, <2>7, <3>1, EnterTyped DEF JoinSession, Press, TabTypeOK, connVars, histVars, serverVars
  <2> QED
    BY <1>2, <2>1, <2>2, <2>3, <2>4, <2>5, <2>6, <2>7 DEF User
<1>3. CASE AutoJoin
  <2>1. PICK s \in member \ ended :
          IF s \in Own THEN EnterOrAsk(s) ELSE UNCHANGED <<recVars, view, subVars, ended, calls>>
    BY <1>3 DEF AutoJoin
  <2>2. s \in Sessions
    BY DEF TabTypeOK
  <2>3. CASE s \in Own
    BY <1>3, <2>1, <2>2, <2>3, EnterTyped DEF AutoJoin, TabTypeOK, histVars, serverVars
  <2> QED
    BY <1>3, <2>1, <2>3 DEF AutoJoin, TabTypeOK, recVars, subVars, histVars, serverVars
<1>4. ASSUME NEW c \in calls, ServerCall(c)
      PROVE  TabTypeOK'
  <2>1. /\ UNCHANGED <<recVars, view, subVars, ended, connVars, presses, histVars>>
        /\ c \in NamedCalls
    BY <1>c, <1>4 DEF ServerCall, SessionCreated, SessionBegun, SessionStopped, SessionLeft,
                      SessionJoined
  <2>a. \A s \in Sessions, st \in Statuses : [status EXCEPT ![s] = st] \in [Sessions -> Statuses]
    BY DEF TabTypeOK
  <2>b. c.s \in Sessions \/ (c.kind = "create" /\ c.step \in {"sent", "failed"})
    BY <2>1 DEF NamedCalls
  <2>c. At(c, "failed") \subseteq NamedCalls /\ (c.s \in Sessions => At(c, "ok") \subseteq NamedCalls)
    BY <1>c, <2>b, AtTyped DEF Steps
  <2>2. CASE SessionCreated(c)
    <3>1. ASSUME NEW s \in Own, calls' = (calls \ {c}) \cup {[c EXCEPT !.s = s, !.step = "ok"]}
          PROVE  calls' \subseteq NamedCalls
      <4>1. [c EXCEPT !.s = s, !.step = "ok"] \in NamedCalls
        BY <2>1, TabAssumption DEF NamedCalls, Calls
      <4> QED
        BY <1>c, <3>1, <4>1
    <3>2. calls' \subseteq NamedCalls
      BY <2>2, <2>c, <3>1 DEF SessionCreated
    <3>3. /\ status' \in [Sessions -> Statuses] /\ member' \subseteq Sessions
          /\ inbox' = inbox /\ link' = link
      <4>1. \A s \in Own : s \in Sessions /\ [status EXCEPT ![s] = "new"] \in [Sessions -> Statuses]
        BY <2>a, TabAssumption DEF Statuses
      <4>2. status \in [Sessions -> Statuses] /\ member \subseteq Sessions
        BY DEF TabTypeOK
      <4>3. \/ UNCHANGED <<status, member>>
            \/ \E s \in Own : status' = [status EXCEPT ![s] = "new"] /\ member' = member \cup {s}
        BY <2>2 DEF SessionCreated
      <4>4. inbox' = inbox /\ link' = link
        BY <2>2 DEF SessionCreated
      <4> QED
        BY <4>1, <4>2, <4>3, <4>4
    <3> QED
      BY <2>1, <3>2, <3>3 DEF TabTypeOK, recVars, subVars, connVars, histVars
  <2>3. CASE SessionBegun(c)
    <3>1. c.s \in Sessions
      BY <2>3, <2>b DEF SessionBegun
    <3>2. inbox' \in Seq(Events)
      BY <1>b, <2>3, <3>1, PublishTyped DEF SessionBegun, TabTypeOK
    <3>3. calls' \subseteq NamedCalls /\ status' \in [Sessions -> Statuses]
      BY <2>3, <2>a, <2>c, <3>1 DEF SessionBegun, TabTypeOK, Statuses
    <3> QED
      BY <2>1, <2>3, <3>1, <3>2, <3>3 DEF SessionBegun, TabTypeOK, recVars, subVars, connVars, histVars
  <2>4. CASE SessionStopped(c)
    <3>1. c.s \in Sessions
      BY <2>4, <2>b DEF SessionStopped
    <3>2. inbox' \in Seq(Events)
      BY <1>b, <2>4, <3>1, PublishTyped, TabAssumption DEF SessionStopped, TabTypeOK
    <3>3. calls' \subseteq NamedCalls /\ status' \in [Sessions -> Statuses]
      BY <2>4, <2>a, <2>c, <3>1, TabAssumption DEF SessionStopped, TabTypeOK, Statuses
    <3>4. link' \in Sessions \cup {None} /\ member' \subseteq Sessions
      BY <2>4 DEF SessionStopped, TabTypeOK
    <3> QED
      BY <2>1, <3>2, <3>3, <3>4 DEF TabTypeOK, recVars, subVars, connVars, histVars
  <2>5. CASE SessionLeft(c)
    <3>1. calls' \subseteq NamedCalls
      BY <2>5, <2>b, <2>c DEF SessionLeft
    <3> QED
      BY <2>1, <2>5, <3>1 DEF SessionLeft, TabTypeOK, recVars, subVars, connVars, histVars
  <2>6. CASE SessionJoined(c)
    <3>1. c.s \in Sessions
      BY <2>6, <2>b DEF SessionJoined
    <3>2. ASSUME status[c.s] \in Live, calls' = (calls \ {c}) \cup {[c EXCEPT !.was = status[c.s], !.step = "ok"]}
          PROVE  calls' \subseteq NamedCalls
      <4>1. [c EXCEPT !.was = status[c.s], !.step = "ok"] \in NamedCalls
        BY <2>1, <3>1, <3>2 DEF NamedCalls, Calls
      <4> QED
        BY <1>c, <3>2, <4>1
    <3>3. calls' \subseteq NamedCalls /\ link' \in Sessions \cup {None}
      BY <2>6, <2>c, <3>1, <3>2 DEF SessionJoined, TabTypeOK
    <3> QED
      BY <2>1, <2>6, <3>3 DEF SessionJoined, TabTypeOK, recVars, subVars, connVars, histVars
  <2> QED
    BY <1>4, <2>2, <2>3, <2>4, <2>5, <2>6 DEF ServerCall
<1>5. ASSUME NEW c \in calls, Continue(c)
      PROVE  TabTypeOK'
  <2>a. /\ UNCHANGED <<inbox, presses, serverVars, blipped, connVars>>
        /\ c \in NamedCalls /\ calls \ {c} \subseteq NamedCalls
    BY <1>c, <1>5 DEF Continue, RecordingStarted, MicBegun, CaptureStarted, StopFlushed,
                      StoppedOrLeft, TabJoined, CallFailed, histVars
  <2>b. c.step # "failed" /\ c.step # "sent" => c.s \in Sessions
    BY <2>a DEF NamedCalls
  <2>1. CASE RecordingStarted(c)
    <3>1. c.s \in Sessions
      BY <2>1, <2>b DEF RecordingStarted
    <3>2. view' \in Views /\ listeners' \in [Sessions -> Nat] /\ subRef' \in BOOLEAN
      BY <2>1, <3>1, ViewTyped, SubscribeTyped DEF RecordingStarted, Live
    <3> QED
      BY <2>1, <2>a, <3>2 DEF RecordingStarted, TabTypeOK, recVars, connVars, histVars, serverVars
  <2>2. CASE MicBegun(c)
    <3>1. c.s \in Sessions
      BY <2>2, <2>b DEF MicBegun
    <3>2. view' \in Views /\ listeners' \in [Sessions -> Nat] /\ subRef' \in BOOLEAN
      BY <2>2, <3>1, ViewTyped, SubscribeTyped DEF MicBegun
    <3>3. calls' \subseteq NamedCalls
      BY <1>c, <2>2, <3>1, AtTyped DEF MicBegun, Steps
    <3> QED
      BY <2>2, <2>a, <3>2, <3>3 DEF MicBegun, TabTypeOK, recVars, connVars, histVars, serverVars
  <2>3. CASE CaptureStarted(c)
    <3>1. c.s \in Sessions
      BY <2>3, <2>b DEF CaptureStarted
    <3>2. cap' \in Captured /\ view' \in Views /\ askedIn' \in Sessions \cup {None}
      <4>1. cap \in Captured /\ askedIn \in Sessions \cup {None}
        BY DEF TabTypeOK
      <4>2. \A i \in Captures : [ref |-> i, live |-> cap.live \cup {i}, paused |-> cap.paused,
                                used |-> cap.used \cup {i}] \in Captured
        BY <4>1 DEF Captured
      <4> QED
        BY <2>3, <3>1, <4>1, <4>2, ViewTyped DEF CaptureStarted
    <3> QED
      BY <2>3, <2>a, <3>2 DEF CaptureStarted, TabTypeOK, connVars, subVars, serverVars
  <2>4. ASSUME NEW u \in uploads, StopFlushed(c, u)
        PROVE  TabTypeOK'
    <3>1. c.s \in Sessions
      <4>1. c.kind = "stop"
        BY <2>4 DEF StopFlushed
      <4> QED
        BY <4>1, <2>a DEF NamedCalls
    <3>2. view' \in Views /\ listeners' \in [Sessions -> Nat] /\ subRef' \in BOOLEAN
      BY <2>4, <3>1 DEF StopFlushed, Unsubscribe, TabTypeOK, Views
    <3>3. calls' \subseteq NamedCalls /\ cap' \in Captured
      BY <1>c, <2>4, <3>1, AtTyped, StoppedTyped DEF StopFlushed, StopAndReset, Steps, TabTypeOK
    <3> QED
      BY <2>4, <2>a, <3>2, <3>3 DEF StopFlushed, TabTypeOK, connVars, histVars, serverVars
  <2>5. CASE StoppedOrLeft(c)
    <3>1. c.s \in Sessions
      BY <2>5, <2>b DEF StoppedOrLeft
    <3> QED
      BY <1>d, <2>5, <2>a, <3>1 DEF StoppedOrLeft, MarkSessionEnded, TabTypeOK, recVars, subVars,
                                    connVars, histVars, serverVars
  <2>6. CASE TabJoined(c)
    <3>1. c.s \in Sessions
      BY <2>6, <2>b DEF TabJoined
    <3>2. view' \in Views
      BY <2>6, <2>a, <3>1 DEF TabJoined, Views, NamedCalls, Calls
    <3>3. listeners' \in [Sessions -> Nat] /\ subRef' \in BOOLEAN /\ cap' \in Captured
      BY <2>6, <3>1, StoppedTyped DEF TabJoined, Subscribe, StopAndReset, TabTypeOK
    <3> QED
      BY <2>6, <2>a, <3>2, <3>3 DEF TabJoined, TabTypeOK, connVars, histVars, serverVars
  <2>7. CASE CallFailed(c)
    BY <2>7, <2>a DEF CallFailed, TabTypeOK, recVars, subVars, connVars, histVars, serverVars
  <2> QED
    BY <1>5, <2>1, <2>2, <2>3, <2>4, <2>5, <2>6, <2>7 DEF Continue
<1>6. CASE Deliver
  <2>a. /\ inbox \in Seq(Events) /\ inbox # <<>> /\ inbox' = Tail(inbox)
        /\ UNCHANGED <<connVars, calls, presses, histVars, serverVars, spokenIn>>
    BY <1>6 DEF Deliver, Unheard, HandleSessionStarted, HandleSessionEnded, HandleUploadCompleted,
                HandleUserRemovedFromSession, Receive, TabTypeOK, recVars
  <2>b. inbox' \in Seq(Events) /\ Head(inbox).s \in Sessions
    BY <2>a, TailTyped DEF Events
  <2>1. CASE Unheard
    BY <2>1, <2>a, <2>b DEF Unheard, TabTypeOK, recVars, subVars, connVars, histVars, serverVars
  <2>2. CASE HandleSessionStarted
    <3>1. view' \in Views
      BY <2>2 DEF HandleSessionStarted, TabTypeOK, Views, Live
    <3> QED
      BY <2>2, <2>a, <2>b, <3>1 DEF HandleSessionStarted, TabTypeOK, recVars, subVars, connVars,
                                    histVars, serverVars
  <2>3. CASE HandleSessionEnded
    BY <2>3, <2>a, <2>b, ResetTyped DEF HandleSessionEnded, MarkSessionEnded, TabTypeOK, connVars,
                                        histVars, serverVars
  <2>4. CASE HandleUploadCompleted
    BY <1>d, <2>4, <2>a, <2>b DEF HandleUploadCompleted, MarkSessionEnded, Unsubscribe, TabTypeOK,
                                  recVars, connVars, histVars, serverVars
  <2>5. CASE HandleUserRemovedFromSession
    <3>1. listeners' \in [Sessions -> Nat] /\ cap' \in Captured /\ view' \in Views /\ subRef' \in BOOLEAN
      BY <2>5, <2>b, ResetTyped DEF HandleUserRemovedFromSession, Unsubscribe, TabTypeOK, subVars
    <3> QED
      BY <2>5, <2>a, <2>b, <3>1 DEF HandleUserRemovedFromSession, TabTypeOK, connVars, histVars,
                                    serverVars
  <2> QED
    BY <1>6, <2>1, <2>2, <2>3, <2>4, <2>5 DEF Deliver
<1>7. CASE Environment
  <2>a. ASSUME ConnectionGone
        PROVE  /\ calls' \subseteq NamedCalls /\ inbox' \in Seq(Events) /\ link' = None
               /\ blipped' = TRUE /\ presses' \in 0 .. MaxPresses
    <3>1. ASSUME NEW c \in calls, Waiting(c)
          PROVE  [c EXCEPT !.step = "failed"] \in NamedCalls
      BY <1>c, <3>1 DEF Waiting, Rpc, NamedCalls, Calls
    <3>2. calls' \subseteq NamedCalls
      BY <1>c, <2>a, <3>1 DEF ConnectionGone
    <3> QED
      BY <1>a, <2>a, <3>2 DEF ConnectionGone, TabTypeOK
  <2>1. ASSUME NEW i \in Captures, TrackEnds(i)
        PROVE  TabTypeOK'
    <3>1. view' \in Views /\ cap' \in Captured
      BY <2>1, StoppedTyped DEF TrackEnds, TabTypeOK, Views
    <3> QED
      BY <2>1, <3>1 DEF TrackEnds, TabTypeOK, subVars, connVars, histVars, serverVars
  <2>2. CASE Reconnect
    BY <2>2, <2>a DEF Reconnect, TabTypeOK, recVars, subVars, connVars
  <2>3. CASE Disconnect
    BY <2>3, <2>a, ResetTyped DEF Disconnect, TabTypeOK
  <2>4. CASE Reload
    <3>1. cap' \in Captured
      <4>1. cap \in Captured
        BY DEF TabTypeOK
      <4>2. [NoCapture EXCEPT !.used = cap.used] \in Captured
        BY <4>1 DEF NoCapture, Captured
      <4> QED
        BY <2>4, <4>2 DEF Reload
    <3> QED
      <4>1. /\ view' = Idle /\ subRef' = FALSE /\ ended' = {} /\ autoJoined' = FALSE
            /\ connected' = TRUE /\ calls' = {} /\ inbox' = <<>> /\ link' = None
            /\ blipped' = TRUE /\ UNCHANGED <<spokenIn, askedIn, status, member>>
        BY <2>4 DEF Reload
      <4>2. presses' \in 0 .. MaxPresses /\ listeners' \in [Sessions -> Nat]
        BY <1>a, <2>4 DEF Reload, TabTypeOK
      <4> QED
        BY <1>d, <1>e, <3>1, <4>1, <4>2 DEF TabTypeOK
  <2>5. ASSUME NEW s \in Sessions,
               \/ OtherBegins(s) \/ OtherEnds(s) \/ Completes(s)
               \/ OtherInvites(s) \/ OtherRemoves(s)
        PROVE  TabTypeOK'
    <3>1. inbox' \in Seq(Events)
      BY <1>b, <2>5, PublishTyped DEF OtherBegins, OtherEnds, Completes, OtherInvites, OtherRemoves,
                                      TabTypeOK
    <3>2. status' \in [Sessions -> Statuses] /\ member' \subseteq Sessions
      BY <2>5 DEF OtherBegins, OtherEnds, Completes, OtherInvites, OtherRemoves, TabTypeOK, Statuses
    <3>3. ServerOnly
      BY <2>5 DEF OtherBegins, OtherEnds, Completes, OtherInvites, OtherRemoves
    <3> QED
      BY <3>1, <3>2, <3>3 DEF ServerOnly, TabTypeOK, recVars, subVars, connVars, histVars
  <2> QED
    BY <1>7, <2>1, <2>2, <2>3, <2>4, <2>5 DEF Environment
<1>8. CASE UNCHANGED vars
  BY <1>8 DEF vars, tabVars, serverVars, recVars, subVars, connVars, histVars, TabTypeOK
<1> QED
  BY <1>1, <1>2, <1>3, <1>4, <1>5, <1>6, <1>7, <1>8 DEF Next

LEMMA InitTyped ==
  ASSUME Init
  PROVE  TypeOK /\ CallsName
<1>1. MaxPresses \in Nat /\ MaxSeq \in Nat \ {0}
  BY TabAssumption, RecorderAssumption
<1>2. RowsTypeOK
  BY <1>1, EmptyTyped DEF Init, RecorderInit, RowsTypeOK, NoSegment, Segments
<1>3. cap \in Captured /\ spokenIn \in [Chunks -> Sessions \cup {None, "unspoken"}]
  <2>1. NoCapture \in Captured
    BY DEF NoCapture, Captured
  <2> QED
    BY <2>1 DEF Init, RecorderInit
<1>5. <<>> \in Seq(Events) /\ {} \subseteq NamedCalls /\ {} \subseteq Sessions
  OBVIOUS
<1>4. TabTypeOK
  <2>1. Idle \in Views
    BY DEF Idle, Views
  <2>2. status \in [Sessions -> Statuses]
    BY DEF Init, Live, Statuses
  <2>3. /\ view = Idle /\ subRef = FALSE /\ listeners = [s \in Sessions |-> 0]
        /\ ended = {} /\ blipped = FALSE /\ askedIn = None
        /\ autoJoined = FALSE /\ connected = TRUE /\ calls = {} /\ inbox = <<>>
        /\ presses = 0 /\ member \subseteq Sessions /\ link = None
    BY DEF Init
  <2>4. presses \in 0 .. MaxPresses /\ listeners \in [Sessions -> Nat]
    BY <1>1, <2>3
  <2> QED
    BY <1>3, <1>5, <2>1, <2>2, <2>3, <2>4 DEF TabTypeOK
<1> QED
  BY <1>2, <1>4, TypesSplit

LEMMA Typed == TypeOK /\ CallsName /\ [Next]_vars => TypeOK' /\ CallsName'
<1> SUFFICES ASSUME TypeOK, CallsName, [Next]_vars
             PROVE  TypeOK' /\ CallsName'
  OBVIOUS
<1>1. RowsTypeOK' /\ TabTypeOK'
  BY RowsTyped, TabTyped
<1>2. RowsTypeOK' /\ TabTypeOK' => TypeOK' /\ CallsName'
  BY TypesSplit, PTL
<1> QED
  BY <1>1, <1>2

LEMMA AlwaysTyped == Spec => [](TypeOK /\ CallsName)
BY InitTyped, Typed, PTL DEF Spec

\* Every variable of the tab keeps its type: a call always names its session.
THEOREM TabIsTyped == Spec => []TypeOK
BY AlwaysTyped, PTL

-----------------------------------------------------------------------------
(* Retries.                                                                *)

LEMMA NumbersInit == Init => NumbersKeepAudio
BY DEF Init, RecorderInit, EmptyRecorder, NoSegment, NumbersKeepAudio, OfNumbering

LEMMA NumbersStep ==
  ASSUME TypeOK, CallsName, NumbersKeepAudio, [Next]_vars
  PROVE  NumbersKeepAudio'
<1>0. RowsTypeOK /\ RowsTypeOK'
  BY RowsTyped, TypesSplit
<1>1. CASE Rests
  <2>1. rec'.buffer = rec.buffer /\ rec'.seq = rec.seq /\ rec'.flushing = rec.flushing
    BY <1>0, <1>1 DEF Rests, RowsTypeOK, Recorders
  <2>2. uploads' = uploads /\ stored' = stored
    BY <1>1 DEF Rests
  <2> QED
    BY <2>1, <2>2 DEF NumbersKeepAudio, OfNumbering
<1>2. ASSUME NEW awaited \in BOOLEAN,
             rec' = Flushed(rec, view.id), stored' = stored,
             uploads' = uploads \cup FlushUpload(rec, view.id, awaited)
      PROVE  NumbersKeepAudio'
  <2>1. CASE ~Flushes(rec, view.id)
    <3>1. rec' = rec /\ uploads' = uploads
      BY <1>2, <2>1 DEF Flushed, FlushUpload
    <3> QED
      BY <1>2, <3>1 DEF NumbersKeepAudio, OfNumbering
  <2>2. CASE Flushes(rec, view.id)
    <3> DEFINE w == [session |-> view.id, seq |-> rec.seq, chunks |-> rec.buffer,
                     current |-> TRUE, awaited |-> awaited, step |-> "sent"]
    <3>1. rec'.buffer = rec.buffer /\ rec'.seq = rec.seq /\ rec' \in Recorders
      BY <1>0, <1>2, <2>2 DEF Flushed, RowsTypeOK, Recorders
    <3>2. uploads' = uploads \cup {w}
      BY <1>2, <2>2 DEF FlushUpload
    <3>3. w.current /\ w.seq = rec.seq /\ w.chunks = rec.buffer
      OBVIOUS
    <3>4. w \in uploads' /\ rec.seq <= rec.seq
      BY <1>0, <3>2, RecorderAssumption DEF RowsTypeOK, Recorders
    <3>5. \A u \in uploads' : u \in uploads \/ u = w
      BY <3>2
    <3> HIDE DEF w
    <3>6. /\ \A u \in uploads' : u.current => u.seq <= rec'.seq
          /\ \A s \in Sessions, q \in Seqs : stored'[s][q].current => q <= rec'.seq
      BY <1>2, <3>1, <3>3, <3>4, <3>5 DEF NumbersKeepAudio
    <3>7. /\ \A u \in uploads' : u.current /\ u.seq = rec.seq => u.chunks \subseteq rec.buffer
          /\ \A s \in Sessions, q \in Seqs :
               stored'[s][q].current /\ q = rec.seq => stored'[s][q].chunks \subseteq rec.buffer
      BY <1>2, <3>3, <3>5 DEF NumbersKeepAudio, OfNumbering
    <3> QED
      BY <3>1, <3>3, <3>4, <3>6, <3>7 DEF NumbersKeepAudio, OfNumbering
  <2> QED
    BY <2>1, <2>2
<1>3. CASE ResetStep
  <2>1. ~rec'.flushing /\ \A u \in uploads' : ~u.current
    BY <1>3 DEF ResetStep, EmptyRecorder
  <2>2. \A s \in Sessions, q \in Seqs : ~stored'[s][q].current
    <3>1. ASSUME NEW s \in Sessions, NEW q \in Seqs
          PROVE  ~stored'[s][q].current
      <4>1. stored[s][q] \in Segments
        BY <1>0 DEF RowsTypeOK
      <4>2. stored'[s][q] = [stored[s][q] EXCEPT !.current = FALSE]
        BY <1>3 DEF ResetStep, RestartedStore
      <4> QED
        BY <4>1, <4>2 DEF Segments
    <3> QED
      BY <3>1
  <2> QED
    BY <2>1, <2>2 DEF NumbersKeepAudio, OfNumbering
<1>4. CASE ChunkStep
  <2>1. /\ rec'.seq = rec.seq /\ rec'.flushing = rec.flushing
        /\ rec.buffer \subseteq rec'.buffer
        /\ UNCHANGED <<uploads, stored>>
    BY <1>0, <1>4 DEF ChunkStep, Chunk, RowsTypeOK, Recorders
  <2> QED
    BY <2>1 DEF NumbersKeepAudio, OfNumbering
<1>5. ASSUME NEW u \in uploads,
             UploadArrives(u, {s \in member : status[s] = "recording"})
      PROVE  NumbersKeepAudio'
  <2>0. u \in Uploads /\ u.session \in Sessions /\ u.seq \in Seqs /\ rec' = rec
    BY <1>0, <1>5 DEF RowsTypeOK, Uploads, UploadArrives
  <2>1. PICK step \in {"accepted", "refused"} :
          uploads' = (uploads \ {u}) \cup {[u EXCEPT !.step = step]}
    BY <1>5 DEF UploadArrives
  <2> DEFINE v == [u EXCEPT !.step = step]
  <2>2. v.current = u.current /\ v.seq = u.seq /\ v.chunks = u.chunks
    BY <2>0 DEF Uploads
  <2>3. /\ \A x \in uploads' : \E y \in uploads :
             y.current = x.current /\ y.seq = x.seq /\ y.chunks = x.chunks
        /\ \A y \in uploads : \E x \in uploads' :
             y.current = x.current /\ y.seq = x.seq /\ y.chunks = x.chunks
    BY <2>1, <2>2
  <2> HIDE DEF v
  <2>4. ASSUME NEW s \in Sessions, NEW q \in Seqs
        PROVE  \/ stored'[s][q] = stored[s][q]
               \/ q = u.seq /\ stored'[s][q] = [chunks |-> u.chunks, current |-> u.current]
    BY <1>0, <1>5, <2>0 DEF UploadArrives, RowsTypeOK
  <2>5. ASSUME NEW s \in Sessions, NEW q \in Seqs
        PROVE  \/ stored'[s][q] = stored[s][q]
               \/ q = u.seq /\ stored'[s][q].chunks = u.chunks /\ stored'[s][q].current = u.current
    BY <2>4
  <2>6. /\ \A x \in uploads' : x.current => x.seq <= rec'.seq
        /\ \A x \in uploads' : OfNumbering(x, x.seq, rec.buffer)
    BY <2>0, <2>3 DEF NumbersKeepAudio, OfNumbering
  <2>7. \A s \in Sessions, q \in Seqs :
          /\ stored'[s][q].current => q <= rec.seq
          /\ OfNumbering(stored'[s][q], q, rec.buffer)
    BY <2>5 DEF NumbersKeepAudio, OfNumbering
  <2>8. ASSUME rec.flushing
        PROVE  \E w \in uploads' :
                 /\ w.current /\ w.seq = rec.seq
                 /\ \A x \in uploads' : OfNumbering(x, x.seq, w.chunks)
                 /\ \A s \in Sessions, q \in Seqs : OfNumbering(stored'[s][q], q, w.chunks)
    <3>1. PICK y \in uploads :
            /\ y.current /\ y.seq = rec.seq
            /\ \A x \in uploads : OfNumbering(x, x.seq, y.chunks)
            /\ \A s \in Sessions, q \in Seqs : OfNumbering(stored[s][q], q, y.chunks)
      BY <2>8 DEF NumbersKeepAudio
    <3>2. PICK w \in uploads' : y.current = w.current /\ y.seq = w.seq /\ y.chunks = w.chunks
      BY <2>3
    <3>3. \A x \in uploads' : OfNumbering(x, x.seq, w.chunks)
      <4>1. ASSUME NEW x \in uploads'
            PROVE  OfNumbering(x, x.seq, w.chunks)
        <5>1. PICK z \in uploads : z.current = x.current /\ z.seq = x.seq /\ z.chunks = x.chunks
          BY <2>3
        <5>2. OfNumbering(z, z.seq, y.chunks)
          BY <3>1
        <5> QED
          BY <3>2, <5>1, <5>2 DEF OfNumbering
      <4> QED
        BY <4>1
    <3>4. \A s \in Sessions, q \in Seqs : OfNumbering(stored'[s][q], q, w.chunks)
      <4>1. ASSUME NEW s \in Sessions, NEW q \in Seqs
            PROVE  OfNumbering(stored'[s][q], q, w.chunks)
        <5>1. OfNumbering(stored[s][q], q, y.chunks) /\ OfNumbering(u, u.seq, y.chunks)
          BY <3>1
        <5>2. CASE stored'[s][q] = stored[s][q]
          BY <3>2, <5>1, <5>2
        <5>3. CASE q = u.seq /\ stored'[s][q].chunks = u.chunks
                   /\ stored'[s][q].current = u.current
          BY <3>2, <5>1, <5>3 DEF OfNumbering
        <5> QED
          BY <2>5, <5>2, <5>3
      <4> QED
        BY <4>1
    <3> QED
      BY <3>1, <3>2, <3>3, <3>4
  <2> QED
    BY <2>0, <2>6, <2>7, <2>8 DEF NumbersKeepAudio, OfNumbering
<1>6. ASSUME NEW u \in uploads, UploadAnswered(u)
      PROVE  NumbersKeepAudio'
  <2>1. uploads' \subseteq uploads /\ stored' = stored
    BY <1>6 DEF UploadAnswered
  <2>2. PICK accepted \in BOOLEAN : rec' = Answered(rec, accepted)
    BY <1>6 DEF UploadAnswered
  <2>3. ~rec'.flushing
    BY <1>0, <2>2 DEF Answered, RowsTypeOK, Recorders
  <2>4. CASE ~accepted
    <3>1. rec'.seq = rec.seq /\ rec'.buffer = rec.buffer
      BY <1>0, <2>2, <2>4 DEF Answered, RowsTypeOK, Recorders
    <3> QED
      BY <2>1, <2>3, <3>1 DEF NumbersKeepAudio, OfNumbering
  <2>5. CASE accepted
    <3>1. rec'.seq = IF rec.seq > MaxSeq THEN rec.seq ELSE rec.seq + 1
      BY <1>0, <2>2, <2>5 DEF Answered, RowsTypeOK, Recorders
    <3>2. rec.seq \in 1 .. MaxSeq + 1 /\ MaxSeq \in Nat
      BY <1>0, RecorderAssumption DEF RowsTypeOK, Recorders
    <3>3. \A q \in Seqs : q <= rec.seq => q <= rec'.seq /\ q # rec'.seq
      BY <3>1, <3>2 DEF Seqs
    <3>4. \A x \in uploads : x.seq \in Seqs
      BY <1>0 DEF RowsTypeOK, Uploads
    <3> QED
      BY <2>1, <2>3, <3>3, <3>4 DEF NumbersKeepAudio, OfNumbering
  <2> QED
    BY <2>4, <2>5
<1> QED
  BY <1>1, <1>2, <1>3, <1>4, <1>5, <1>6, RecorderStep DEF FlushStep, UploadStep

LEMMA AlwaysNumbered == Spec => [](TypeOK /\ CallsName /\ NumbersKeepAudio)
<1>1. TypeOK /\ CallsName /\ NumbersKeepAudio /\ [Next]_vars => NumbersKeepAudio'
  BY NumbersStep
<1> QED
  BY <1>1, NumbersInit, InitTyped, Typed, PTL DEF Spec

LEMMA RetryStep ==
  ASSUME TypeOK, CallsName, NumbersKeepAudio, [Next]_vars, WaitsForOne,
         NEW s \in Sessions, NEW q \in Seqs,
         stored[s][q].current, stored'[s][q].current
  PROVE  stored[s][q].chunks \subseteq stored'[s][q].chunks
<1>0. RowsTypeOK
  BY TypesSplit
<1>1. CASE stored' = stored
  BY <1>1
<1>2. CASE ResetStep
  <2>1. stored[s][q] \in Segments
    BY <1>0 DEF RowsTypeOK
  <2>2. stored'[s][q] = [stored[s][q] EXCEPT !.current = FALSE]
    BY <1>2 DEF ResetStep, RestartedStore
  <2> QED
    BY <2>1, <2>2 DEF Segments
<1>3. ASSUME NEW u \in uploads,
             UploadArrives(u, {t \in member : status[t] = "recording"})
      PROVE  stored[s][q].chunks \subseteq stored'[s][q].chunks
  <2>0. u \in Uploads /\ u.session \in Sessions /\ u.seq \in Seqs
    BY <1>0, <1>3 DEF RowsTypeOK, Uploads
  <2>1. \/ stored'[s][q] = stored[s][q]
        \/ q = u.seq /\ stored'[s][q] = [chunks |-> u.chunks, current |-> u.current]
    BY <1>0, <1>3, <2>0 DEF UploadArrives, RowsTypeOK
  <2>2. PICK w \in uploads :
          /\ w.current /\ w.seq = rec.seq
          /\ OfNumbering(stored[s][q], q, w.chunks)
    BY DEF NumbersKeepAudio, WaitsForOne
  <2>3. CASE q = u.seq /\ stored'[s][q] = [chunks |-> u.chunks, current |-> u.current]
    <3>1. u.current /\ stored'[s][q].chunks = u.chunks
      BY <2>3
    <3>2. u = w
      BY <2>2, <3>1 DEF WaitsForOne
    <3> QED
      BY <2>2, <2>3, <3>1, <3>2 DEF OfNumbering
  <2> QED
    BY <2>1, <2>3
<1> QED
  BY <1>1, <1>2, <1>3, RecorderStep
  DEF Rests, FlushStep, ChunkStep, Chunk, UploadStep, UploadAnswered

\* Within one numbering a segment is stored again only with all its audio, by
\* every legal use of flushSegment: for any number of chunks, captures, uploads
\* in flight and lost answers, and through lost connections and reloads.
THEOREM RetriesCarryAll == Spec => RetriesKeepAudio
<1>1. TypeOK /\ CallsName /\ NumbersKeepAudio /\ [Next]_vars =>
        [WaitsForOne =>
           \A s \in Sessions, q \in Seqs :
             stored[s][q].current /\ stored'[s][q].current =>
               stored[s][q].chunks \subseteq stored'[s][q].chunks]_vars
  BY RetryStep
<1> QED
  BY <1>1, AlwaysNumbered, PTL DEF Spec, RetriesKeepAudio

-----------------------------------------------------------------------------
(* The link.  One lemma per action, for a tab that has not lost its        *)
(* connection.                                                             *)

Known == TypeOK /\ CallsName /\ LinksKnow

\* What a call is, whatever its step.
LEMMA CallFacts ==
  ASSUME TypeOK, CallsName, NEW c \in calls
  PROVE  /\ c \in Calls /\ c.kind \in Kinds /\ c.step \in Steps
         /\ c.was \in Live \cup {None}
         /\ c.kind # "create" => c.s \in Sessions
         /\ c.step = "ok" => c.s \in Sessions
         /\ c.s # None => c.s \in Sessions
BY DEF TypeOK, CallsName, Calls, Steps

\* A call that goes on is the same call at another step.
LEMMA AtOther ==
  ASSUME TypeOK, NEW c \in calls, NEW step
  PROVE  \E d : /\ d.kind = c.kind /\ d.s = c.s /\ d.was = c.was /\ d.step = step
                /\ At(c, step) = (calls \ {c}) \cup {d}
<1> DEFINE d == [c EXCEPT !.step = step]
<1>1. d.kind = c.kind /\ d.s = c.s /\ d.was = c.was /\ d.step = step
  BY DEF TypeOK, Calls
<1>2. At(c, step) = (calls \ {c}) \cup {d}
  BY DEF At
<1> QED
  BY <1>1, <1>2

LEMMA FieldsOfCall ==
  ASSUME NEW kind, NEW s, NEW was, NEW step
  PROVE  LET d == Call(kind, s, was, step) IN
         d.kind = kind /\ d.s = s /\ d.was = was /\ d.step = step
BY DEF Call

LEMMA Names == /\ None \notin Sessions /\ Own \subseteq Sessions
               /\ Others \subseteq Sessions /\ \A s \in Own : s \notin Others
               /\ \A s \in Sessions : s \in Own \/ s \in Others
               /\ None \notin {"new", "recording", "over", "done"}
BY RecorderAssumption, TabAssumption DEF Others

LEMMA FewerKeepOne ==
  ASSUME OneAtATime, calls' \subseteq calls
  PROVE  OneAtATime'
BY DEF OneAtATime

LEMMA OtherKeepsOne ==
  ASSUME OneAtATime, NEW c \in calls, NEW d, calls' \subseteq (calls \ {c}) \cup {d},
         d.kind = c.kind, d.kind = "join" => d.s = c.s
  PROVE  OneAtATime'
<1>1. \A x \in calls' : x = d \/ (x \in calls /\ x # c)
  OBVIOUS
<1>2. ASSUME NEW x \in calls', NEW y \in calls',
             {x.kind, y.kind} \subseteq {"mic", "stop", "leave"}
      PROVE  x = y
  BY <1>1, <1>2 DEF OneAtATime
<1>3. ASSUME NEW x \in calls', NEW y \in calls',
             x.kind = "create", y.kind \in {"create", "mic"}
      PROVE  x = y
  BY <1>1, <1>3 DEF OneAtATime
<1>4. ASSUME NEW x \in calls', NEW y \in calls', x.kind = "join", y.kind = "join",
             {x.s, y.s} \subseteq Others
      PROVE  x = y
  BY <1>1, <1>4 DEF OneAtATime
<1> QED
  BY <1>2, <1>3, <1>4 DEF OneAtATime

\* The publications on their way are of before the step, or e.
LEMMA PublishAdds ==
  ASSUME TypeOK, NEW e, Publish(e)
  PROVE  \A i \in DOMAIN inbox' :
           inbox'[i] = e \/ \E j \in DOMAIN inbox : inbox'[i] = inbox[j]
<1>1. inbox \in Seq(Events)
  BY DEF TypeOK
<1>2. CASE inbox' = Append(inbox, e)
  BY <1>1, <1>2
<1> QED
  BY <1>2 DEF Publish

LEMMA TailShows ==
  ASSUME TypeOK, inbox # <<>>, inbox' = Tail(inbox)
  PROVE  /\ \A i \in DOMAIN inbox' : \E j \in DOMAIN inbox : inbox'[i] = inbox[j]
         /\ 1 \in DOMAIN inbox /\ Head(inbox) = inbox[1]
<1>1. inbox \in Seq(Events)
  BY DEF TypeOK
<1> QED
  BY <1>1

LEMMA EventsInside ==
  ASSUME TypeOK, NEW j \in DOMAIN inbox
  PROVE  inbox[j].s \in Sessions
<1>1. inbox \in Seq(Events)
  BY DEF TypeOK
<1>2. inbox[j] \in Events
  BY <1>1
<1> QED
  BY <1>2 DEF Events

\* No own session comes to life or is left.
LEMMA OwnStay ==
  ASSUME Known, member \cap Own \subseteq member',
         \A s \in Own : /\ status'[s] \in Live => status[s] \in Live
                        /\ status'[s] # None => status[s] # None
  PROVE  OwnSessions'
BY DEF Known, LinksKnow, OwnSessions

\* What the parts of LinksKnow need of a step that leaves statuses and link alone.
LEMMA CallsStay ==
  ASSUME Known, calls' \subseteq calls, UNCHANGED <<status, link>>,
         \A c \in calls' : c.kind = "join" /\ c.s \in Others => view'.id # c.s
  PROVE  OneAtATime' /\ \A c \in calls' : CallKnows(c)'
<1>1. OneAtATime'
  BY FewerKeepOne DEF Known, LinksKnow
<1>2. ASSUME NEW x \in calls'
      PROVE  CallKnows(x)'
  <2>1. CallKnows(x) /\ x \in calls /\ \A s \in Sessions : Over(s)' = Over(s)
    BY DEF Known, LinksKnow, Over
  <2>2. /\ x.kind = "stop" => StopKnows(x)'
        /\ x.kind = "leave" => LeaveKnows(x)'
        /\ x.kind = "mic" => MicKnows(x)'
    BY <2>1 DEF CallKnows, StopKnows, LeaveKnows, MicKnows, Over
  <2>3. x.kind = "create" => CreateKnows(x)'
    BY <2>1 DEF CallKnows, CreateKnows
  <2>4. x.kind = "join" => JoinKnows(x)'
    BY <2>1 DEF CallKnows, JoinKnows, Joined, InFlight, Over
  <2> QED
    BY <2>2, <2>3, <2>4 DEF CallKnows
<1> QED
  BY <1>1, <1>2

LEMMA EventsStay ==
  ASSUME Known, UNCHANGED <<status, link>>,
         \A i \in DOMAIN inbox' : \E j \in DOMAIN inbox : inbox'[i] = inbox[j]
  PROVE  \A i \in DOMAIN inbox' : EventKnows(inbox[i])'
<1>1. ASSUME NEW i \in DOMAIN inbox'
      PROVE  EventKnows(inbox[i])'
  <2>1. PICK j \in DOMAIN inbox : inbox'[i] = inbox[j]
    OBVIOUS
  <2>2. EventKnows(inbox[j])
    BY DEF Known, LinksKnow
  <2> QED
    BY <2>1, <2>2 DEF EventKnows, Over
<1> QED
  BY <1>1

\* The calls whose answers the view waits for stay in flight.
LEMMA ViewStays ==
  ASSUME Known, UNCHANGED <<status, link>>,
         view'.id = view.id, view'.owner = view.owner, view'.status = view.status,
         view.id = None => view' = view,
         \A c \in calls : c.step = "ok" /\ c.kind \in {"leave", "stop", "mic"} => c \in calls'
  PROVE  ViewKnows'
<1>1. ViewKnows
  BY DEF Known, LinksKnow
<1>2. /\ InFlight("leave", {"ok"}) => InFlight("leave", {"ok"})'
      /\ InFlight("stop", {"ok"}) => InFlight("stop", {"ok"})'
  BY DEF InFlight
<1>3. view'.id \in Others => link' = view'.id \/ InFlight("leave", {"ok"})'
  BY <1>1, <1>2 DEF ViewKnows
<1>4. ASSUME view'.id \in Own
      PROVE  /\ status'[view'.id] # None
             /\ Over(view.id)' => link' = view'.id \/ InFlight("stop", {"ok"})'
             /\ view'.status = "recording" =>
                  \/ link' = view'.id /\ status'[view'.id] = "recording"
                  \/ InFlight("stop", {"ok"})'
             /\ view'.status = "new" /\ status'[view'.id] = "recording" =>
                  \E c \in calls' : c.kind = "mic" /\ c.step = "ok" /\ c.s = view'.id
  BY <1>1, <1>2, <1>4 DEF ViewKnows, Over
<1>5. /\ view'.id = None => view' = Idle
      /\ view'.id # None => view'.status \in Live /\ view'.owner = (view'.id \in Own)
  BY <1>1 DEF ViewKnows
<1> QED
  BY <1>3, <1>4, <1>5 DEF ViewKnows

\* Steps of the recorder, and of the microphone button.
LEMMA QuietIdle ==
  ASSUME view \in Views, ViewKnows, view.id = None
  PROVE  [view EXCEPT !.mic = FALSE] = view
<1>1. view.mic = FALSE
  BY DEF ViewKnows, Idle
<1>2. [view EXCEPT !.mic = FALSE] \in Views
  BY DEF Views
<1> QED
  BY <1>1, <1>2 DEF Views

LEMMA QuietLinks ==
  ASSUME Known, UNCHANGED <<calls, inbox, connected, askedIn, status, member, link>>,
         view' \in {view, [view EXCEPT !.mic = TRUE], [view EXCEPT !.mic = FALSE]},
         view' = [view EXCEPT !.mic = TRUE] => view.id # None
  PROVE  LinksKnow'
<1>0. view \in Views /\ LinksKnow
  BY DEF Known, TypeOK, Views
<1>1. view'.id = view.id /\ view'.owner = view.owner /\ view'.status = view.status
  BY <1>0 DEF Views
<1>2. view.id = None => view' = view
  BY <1>0, QuietIdle DEF LinksKnow
<1>3. ViewKnows'
  BY <1>1, <1>2, ViewStays
<1>4. OneAtATime' /\ \A c \in calls' : CallKnows(c)'
  <2>1. \A c \in calls' : c.kind = "join" /\ c.s \in Others => view'.id # c.s
    BY <1>0, <1>1 DEF LinksKnow, CallKnows, JoinKnows
  <2> QED
    BY <2>1, CallsStay
<1>5. \A i \in DOMAIN inbox' : EventKnows(inbox[i])'
  BY EventsStay
<1>6. OwnSessions'
  BY OwnStay
<1> QED
  BY <1>0, <1>3, <1>4, <1>5, <1>6 DEF LinksKnow

\* A tab in no session shows nothing.
LEMMA IdleKnows ==
  ASSUME view' = Idle
  PROVE  ViewKnows'
<1>1. view'.id = None /\ None \notin Own /\ None \notin Others
  BY Names DEF Idle
<1> QED
  BY <1>1 DEF ViewKnows

\* Steps that take a call away or nothing, and may empty the view.
LEMMA LessLinks ==
  ASSUME Known, UNCHANGED <<connected, status, member, link>>, calls' \subseteq calls,
         view' = Idle \/ (view' = view /\
           \A c \in calls : c.step = "ok" /\ c.kind \in {"leave", "stop", "mic"} => c \in calls'),
         \A i \in DOMAIN inbox' : \E j \in DOMAIN inbox : inbox'[i] = inbox[j],
         askedIn' = askedIn
  PROVE  LinksKnow'
<1>0. LinksKnow
  BY DEF Known
<1>1. ViewKnows'
  BY IdleKnows, ViewStays
<1>2. OneAtATime' /\ \A c \in calls' : CallKnows(c)'
  <2>1. view'.id = None \/ view'.id = view.id
    BY DEF Idle
  <2>2. \A c \in calls' : c.kind = "join" /\ c.s \in Others => view'.id # c.s
    BY <1>0, <2>1, Names DEF LinksKnow, CallKnows, JoinKnows
  <2> QED
    BY <2>2, CallsStay
<1>3. \A i \in DOMAIN inbox' : EventKnows(inbox[i])'
  BY EventsStay
<1>4. OwnSessions'
  BY OwnStay
<1> QED
  BY <1>0, <1>1, <1>2, <1>3, <1>4 DEF LinksKnow

LEMMA RefusedLinks ==
  ASSUME Known, NEW c \in calls, c.step = "sent", calls' = At(c, "failed"),
         UNCHANGED <<view, connected, askedIn, inbox, status, member, link>>,
         c.kind # "leave", c.kind = "stop" => Over(c.s)
  PROVE  LinksKnow'
<1>0. TypeOK /\ CallsName /\ LinksKnow
  BY DEF Known
<1>1. PICK d : /\ d.kind = c.kind /\ d.s = c.s /\ d.was = c.was /\ d.step = "failed"
               /\ calls' = (calls \ {c}) \cup {d}
  BY <1>0, AtOther
<1>2. OneAtATime'
  BY <1>0, <1>1, OtherKeepsOne DEF LinksKnow
<1>3. ASSUME NEW x \in calls'
      PROVE  CallKnows(x)'
  <2>1. \A s \in Sessions : Over(s)' = Over(s)
    BY DEF Over
  <2>2. CASE x = d
    <3>1. CallKnows(c)
      BY <1>0 DEF LinksKnow
    <3> QED
      BY <1>1, <2>2, <3>1 DEF CallKnows, JoinKnows, StopKnows, MicKnows, CreateKnows, Over
  <2>3. CASE x \in calls /\ x # c
    <3>1. CallKnows(x)
      BY <1>0, <2>3 DEF LinksKnow
    <3>2. CreateKnows(x) => CreateKnows(x)'
      BY <1>1 DEF CreateKnows
    <3>3. Joined(x) => Joined(x)'
      BY <1>1, <2>3 DEF Joined, InFlight, Over, Steps
    <3> QED
      BY <3>1, <3>2, <3>3 DEF CallKnows, JoinKnows, StopKnows, LeaveKnows, MicKnows, Over
  <2> QED
    BY <1>1, <2>2, <2>3
<1>4. ViewKnows'
  BY <1>1, ViewStays
<1>5. \A i \in DOMAIN inbox' : EventKnows(inbox[i])'
  BY EventsStay
<1>6. OwnSessions'
  BY OwnStay
<1> QED
  BY <1>0, <1>2, <1>3, <1>4, <1>5, <1>6 DEF LinksKnow

LEMMA BegunLinks ==
  ASSUME Known, NEW c \in calls, SessionBegun(c)
  PROVE  LinksKnow'
<1>0. TypeOK /\ CallsName /\ LinksKnow
  BY DEF Known
<1>1. /\ c.kind = "mic" /\ c.step = "sent" /\ c.s \in Sessions
      /\ UNCHANGED <<view, connected, askedIn, member>>
  BY <1>0, CallFacts DEF SessionBegun, connVars, histVars
<1>2. CASE calls' = At(c, "failed") /\ UNCHANGED <<inbox, status, link>>
  BY <1>1, <1>2, RefusedLinks
<1>3. CASE /\ link = None /\ c.s \in Own /\ status[c.s] = "new"
           /\ status' = [status EXCEPT ![c.s] = "recording"] /\ link' = c.s
           /\ Publish(Event("session_started", c.s)) /\ calls' = At(c, "ok")
  <2>1. PICK d : /\ d.kind = c.kind /\ d.s = c.s /\ d.was = c.was /\ d.step = "ok"
                 /\ calls' = (calls \ {c}) \cup {d}
    BY <1>0, <1>3, AtOther
  <2>2. OneAtATime'
    BY <1>0, <2>1, OtherKeepsOne DEF LinksKnow
  <2>s. \A s \in Sessions : status'[s] = IF s = c.s THEN "recording" ELSE status[s]
    BY <1>0, <1>3 DEF TypeOK
  <2>3. OwnSessions'
    BY <1>1, <1>3, <2>s, OwnStay, Names DEF Live
  <2>4. ASSUME NEW x \in calls'
        PROVE  CallKnows(x)'
    <3>1. CASE x = d
      BY <1>1, <1>3, <2>1, <2>s, <3>1 DEF CallKnows, MicKnows
    <3>2. CASE x \in calls /\ x # c
      <4>1. /\ x.kind \in {"create", "join"} /\ x.kind # "create"
            /\ x.kind = "join" => x.step # "ok"
        BY <1>0, <1>1, <1>3, <3>2, CallFacts, Names DEF LinksKnow, CallKnows, JoinKnows, Joined, OneAtATime, Kinds
      <4> QED
        BY <1>0, <1>1, <3>2, <4>1 DEF LinksKnow, CallKnows, JoinKnows
    <3> QED
      BY <2>1, <3>1, <3>2
  <2>5. ViewKnows'
    <3>1. \A x \in calls : x.kind \notin {"leave", "stop"} /\ (x.kind = "mic" => x.step = "sent")
      BY <1>0, <1>1 DEF LinksKnow, OneAtATime
    <3>2. view.id \in Sessions \cup {None}
      BY <1>0 DEF TypeOK
    <3> QED
      <4>1. d \in calls' /\ view' = view
        BY <1>1, <2>1
      <4>2. ViewKnows /\ view.id \notin Others
        <5>1. ViewKnows
          BY <1>0 DEF LinksKnow
        <5>2. ~InFlight("leave", {"ok"}) /\ link \notin Others
          BY <1>3, <3>1, Names DEF InFlight
        <5> QED
          BY <5>1, <5>2 DEF ViewKnows
      <4>3. CASE view.id \in Own
        <5>1. ~Over(view.id) /\ view.status # "recording" /\ status[view.id] # "recording"
          BY <1>3, <3>1, <4>2, <4>3, Names DEF ViewKnows, InFlight, Live
        <5>2. status'[view.id] = IF view.id = c.s THEN "recording" ELSE status[view.id]
          BY <2>s, <4>3, Names
        <5>3. /\ ~Over(view.id)' /\ view.status # "recording"
              /\ status'[view.id] = "recording" => view.id = c.s
              /\ status'[view.id] # None
          BY <1>1, <4>2, <4>3, <5>1, <5>2, Names DEF ViewKnows, Over
        <5>4. ViewKnows => /\ view.id = None => view = Idle
                           /\ view.id # None => view.status \in Live /\ view.owner = (view.id \in Own)
          BY DEF ViewKnows
        <5> QED
          BY <1>1, <2>1, <4>1, <4>2, <4>3, <5>3, <5>4, Names DEF ViewKnows
      <4> QED
        BY <1>1, <4>1, <4>2, <4>3, <3>2 DEF ViewKnows
  <2>6. ASSUME NEW i \in DOMAIN inbox'
        PROVE  EventKnows(inbox[i])'
    <3>1. CASE inbox'[i] = Event("session_started", c.s)
      BY <1>1, <1>3, <2>s, <3>1 DEF EventKnows, Event
    <3>2. ASSUME NEW j \in DOMAIN inbox, inbox'[i] = inbox[j]
          PROVE  EventKnows(inbox[i])'
      BY <1>0, <1>1, <1>3, <2>s, <3>2, EventsInside, Names DEF LinksKnow, EventKnows, Over
    <3> QED
      BY <1>0, <1>3, <3>1, <3>2, PublishAdds
  <2>7. askedIn' \in Own => status'[askedIn'] \notin {None, "new"}
    BY <1>0, <1>1, <2>s, Names DEF LinksKnow
  <2> QED
    BY <1>0, <1>1, <2>2, <2>3, <2>4, <2>5, <2>6, <2>7 DEF LinksKnow
<1> QED
  BY <1>2, <1>3 DEF SessionBegun

LEMMA CallFailsLinks ==
  ASSUME Known, NEW c \in calls, CallFailed(c)
  PROVE  LinksKnow'
<1>1. /\ calls' = calls \ {c} /\ c.step # "ok" /\ inbox' = inbox
      /\ UNCHANGED <<view, connected, status, member, link, askedIn>>
  BY DEF CallFailed, connVars, histVars, serverVars
<1> QED
  BY <1>1, LessLinks

LEMMA StoppedLinks ==
  ASSUME Known, NEW c \in calls, StoppedOrLeft(c)
  PROVE  LinksKnow'
<1>1. /\ calls' = calls \ {c} /\ view' = Idle /\ inbox' = inbox
      /\ UNCHANGED <<connected, status, member, link, askedIn>>
  BY DEF StoppedOrLeft, connVars, histVars, serverVars
<1> QED
  BY <1>1, LessLinks

LEMMA DeliveredLinks ==
  ASSUME Known, Deliver
  PROVE  LinksKnow'
<1>0. TypeOK /\ CallsName /\ LinksKnow
  BY DEF Known
<1>1. /\ calls' = calls /\ inbox # <<>> /\ inbox' = Tail(inbox)
      /\ UNCHANGED <<connected, status, member, link, askedIn>>
  BY DEF Deliver, Unheard, HandleSessionStarted, HandleSessionEnded, HandleUploadCompleted,
         HandleUserRemovedFromSession, Receive, connVars, histVars, serverVars
<1>2. /\ \A i \in DOMAIN inbox' : \E j \in DOMAIN inbox : inbox'[i] = inbox[j]
      /\ 1 \in DOMAIN inbox /\ Head(inbox) = inbox[1]
  BY <1>0, <1>1, TailShows
<1>3. CASE view' \in {view, Idle}
  BY <1>1, <1>2, <1>3, LessLinks
<1>4. CASE /\ HandleSessionStarted /\ view.id = Head(inbox).s
           /\ view' = [view EXCEPT !.status = "recording"]
  <2>0. view.id \in Sessions
    BY <1>0, <1>2, <1>4, EventsInside
  <2>1. view'.id = view.id /\ view'.owner = view.owner /\ view'.status = "recording"
    BY <1>0, <1>4 DEF TypeOK
  <2>2. EventKnows(inbox[1]) /\ inbox[1].type = "session_started"
    BY <1>0, <1>2, <1>4 DEF LinksKnow, HandleSessionStarted, Receive
  <2>3. view.id \in Own =>
          IF link = view.id THEN status[view.id] = "recording" ELSE Over(view.id)
    BY <1>2, <1>4, <2>2 DEF EventKnows
  <2>4. ViewKnows
    BY <1>0 DEF LinksKnow
  <2>5. ViewKnows'
    <3>1. view.id \in Own => /\ status[view.id] # None
                             /\ Over(view.id) => link = view.id \/ InFlight("stop", {"ok"})
                             /\ \/ link = view.id /\ status[view.id] = "recording"
                                \/ InFlight("stop", {"ok"})
      BY <2>3, <2>4 DEF ViewKnows
    <3>2. /\ view.id \in Others => link = view.id \/ InFlight("leave", {"ok"})
          /\ view.owner = (view.id \in Own)
      BY <2>0, <2>4, Names DEF ViewKnows
    <3> QED
      BY <1>1, <2>0, <2>1, <3>1, <3>2, Names DEF ViewKnows, Live, Over, InFlight
  <2>6. OneAtATime' /\ \A c \in calls' : CallKnows(c)'
    <3>1. \A c \in calls' : c.kind = "join" /\ c.s \in Others => view'.id # c.s
      BY <1>0, <1>1, <2>1 DEF LinksKnow, CallKnows, JoinKnows
    <3> QED
      BY <1>1, <3>1, CallsStay
  <2>7. \A i \in DOMAIN inbox' : EventKnows(inbox[i])'
    BY <1>1, <1>2, EventsStay
  <2>8. OwnSessions'
    BY <1>1, OwnStay
  <2> QED
    BY <1>0, <1>1, <2>5, <2>6, <2>7, <2>8 DEF LinksKnow
<1> QED
  BY <1>3, <1>4 DEF Deliver, Unheard, HandleSessionStarted, HandleSessionEnded,
       HandleUploadCompleted, HandleUserRemovedFromSession, ResetToIdle

LEMMA CapturedLinks ==
  ASSUME Known, NEW c \in calls, CaptureStarted(c)
  PROVE  LinksKnow'
<1>0. TypeOK /\ CallsName /\ LinksKnow
  BY DEF Known
<1>1. /\ calls' = calls \ {c} /\ c.kind = "mic" /\ c.step = "permission" /\ inbox' = inbox
      /\ UNCHANGED <<connected, status, member, link>>
      /\ askedIn' \in {askedIn, c.s}
      /\ view' = view \/ (view' = [view EXCEPT !.mic = TRUE] /\ view.id # None)
  BY DEF CaptureStarted, connVars, serverVars
<1>2. view'.id = view.id /\ view'.owner = view.owner /\ view'.status = view.status
  BY <1>0, <1>1 DEF TypeOK
<1>3. ViewKnows'
  BY <1>1, <1>2, ViewStays
<1>4. OneAtATime' /\ \A d \in calls' : CallKnows(d)'
  <2>1. \A d \in calls' : d.kind = "join" /\ d.s \in Others => view'.id # d.s
    BY <1>0, <1>1, <1>2 DEF LinksKnow, CallKnows, JoinKnows
  <2> QED
    BY <1>1, <2>1, CallsStay
<1>5. \A i \in DOMAIN inbox' : EventKnows(inbox[i])'
  BY <1>1, EventsStay
<1>6. OwnSessions'
  BY <1>1, OwnStay
<1>7. askedIn' \in Own => status'[askedIn'] \notin {None, "new"}
  BY <1>0, <1>1 DEF LinksKnow, CallKnows, MicKnows
<1> QED
  BY <1>0, <1>1, <1>3, <1>4, <1>5, <1>6, <1>7 DEF LinksKnow

\* A press while nothing is in flight, and one beside a stop or leave.
LEMMA Pressed ==
  ASSUME ButtonsWait, TypeOK, NEW kind, Press(kind)
  PROVE  /\ kind \notin {"create", "join"} => calls = {}
         /\ \A c \in calls : c.kind \in {"stop", "leave"}
<1>1. \A c \in calls : <<kind, c.kind>> \in {"create", "join"} \X {"stop", "leave"}
  BY DEF Press, ButtonsWait
<1>2. \A c \in calls : kind \in {"create", "join"} /\ c.kind \in {"stop", "leave"}
  BY <1>1
<1> QED
  BY <1>2

\* A step that only adds the one call d, where there was none of its kind that
\* it has to wait for.
LEMMA AddedLinks ==
  ASSUME Known, NEW d, calls' = calls \cup {d}, d.step # "ok",
         d.kind \in {"mic", "stop", "leave"} => calls = {},
         d.kind = "create" => \A c \in calls : c.kind \notin {"create", "mic"},
         d.kind = "join" => d.s \in Own \/ \A c \in calls : c.kind # "join",
         d.kind \in Kinds, CallKnows(d),
         view' \in {view, [view EXCEPT !.mic = FALSE]},
         UNCHANGED <<connected, inbox, status, member, link, askedIn>>
  PROVE  LinksKnow'
<1>0. TypeOK /\ CallsName /\ LinksKnow /\ \A x \in calls : x.kind \in Kinds
  BY CallFacts DEF Known
<1>1. view'.id = view.id /\ view'.owner = view.owner /\ view'.status = view.status
  BY <1>0 DEF TypeOK
<1>2. view.id = None => view' = view
  <2>1. ViewKnows /\ view \in Views
    BY <1>0 DEF LinksKnow, TypeOK, Views
  <2> QED
    BY <2>1, QuietIdle
<1>3. ViewKnows'
  BY <1>1, <1>2, ViewStays
<1>4. OneAtATime'
  <2>0. /\ \A x \in calls' : x = d \/ x \in calls
        /\ OneAtATime /\ \A s \in Own : s \notin Others
    BY <1>0, Names DEF LinksKnow
  <2>1. ASSUME NEW x \in calls', NEW y \in calls',
               {x.kind, y.kind} \subseteq {"mic", "stop", "leave"}
        PROVE  x = y
    BY <2>0, <2>1 DEF OneAtATime
  <2>2. ASSUME NEW x \in calls', NEW y \in calls',
               x.kind = "create", y.kind \in {"create", "mic"}
        PROVE  x = y
    BY <2>0, <2>2 DEF OneAtATime
  <2>3. ASSUME NEW x \in calls', NEW y \in calls', x.kind = "join", y.kind = "join",
               {x.s, y.s} \subseteq Others
        PROVE  x = y
    BY <2>0, <2>3 DEF OneAtATime
  <2> QED
    BY <2>1, <2>2, <2>3 DEF OneAtATime
<1>5. ASSUME NEW x \in calls'
      PROVE  CallKnows(x)'
  <2>0. /\ \A s \in Sessions : Over(s)' = Over(s)
        /\ x = d \/ x \in calls
        /\ CallKnows(x)
    BY <1>0 DEF Over, LinksKnow
  <2>1. /\ x.kind = "stop" => StopKnows(x)'
        /\ x.kind = "leave" => LeaveKnows(x)'
        /\ x.kind = "mic" => MicKnows(x)'
    BY <2>0 DEF CallKnows, StopKnows, LeaveKnows, MicKnows, Over
  <2>2. x.kind = "create" => CreateKnows(x)'
    <3>1. CASE x = d
      BY <3>1 DEF CreateKnows
    <3>2. CASE x \in calls /\ x # d
      BY <2>0, <3>2 DEF CallKnows, CreateKnows
    <3> QED
      BY <2>0, <3>1, <3>2
  <2>3. x.kind = "join" => JoinKnows(x)'
    <3>1. CASE x.step # "ok"
      BY <1>1, <2>0, <3>1 DEF CallKnows, JoinKnows
    <3>2. CASE x \in calls /\ x.step = "ok" /\ x.kind = "join"
      <4>1. d.kind \in {"create", "join"} /\ Joined(x)
        BY <2>0, <3>2 DEF Kinds, CallKnows, JoinKnows
      <4>2. Joined(x)'
        BY <2>0, <3>2, <4>1 DEF Joined, InFlight, Over
      <4> QED
        BY <1>1, <2>0, <3>2, <4>2 DEF CallKnows, JoinKnows
    <3> QED
      BY <2>0, <3>1, <3>2
  <2> QED
    BY <2>1, <2>2, <2>3 DEF CallKnows
<1>6. \A i \in DOMAIN inbox' : EventKnows(inbox[i])'
  BY EventsStay
<1>7. OwnSessions'
  BY OwnStay
<1> QED
  BY <1>0, <1>3, <1>4, <1>5, <1>6, <1>7 DEF LinksKnow

LEMMA PressLinks ==
  ASSUME ButtonsWait, Known, StartRecording \/ StartMic \/ StopRecording \/ LeaveSession
  PROVE  LinksKnow'
<1>0. TypeOK /\ CallsName /\ LinksKnow /\ ViewKnows /\ view.id \in Sids
  BY DEF Known, LinksKnow, TypeOK, Sids
<1>1. CASE StartRecording
  <2> DEFINE d == Call("create", None, None, "sent")
  <2>1. d.kind = "create" /\ d.step = "sent" /\ CallKnows(d)
    BY FieldsOfCall DEF CallKnows, CreateKnows
  <2>2. /\ calls' = calls \cup {d} /\ view' = view
        /\ UNCHANGED <<connected, inbox, status, member, link, askedIn>>
        /\ Press("create")
    BY <1>1 DEF StartRecording, connVars, histVars, serverVars
  <2>3. \A c \in calls : c.kind \in {"stop", "leave"}
    BY <1>0, <2>2, Pressed
  <2> HIDE DEF d
  <2> QED
    BY <2>1, <2>2, <2>3, AddedLinks DEF Kinds
<1>2. CASE StartMic
  <2>1. PICK was, step : /\ calls' = calls \cup {Call("mic", view.id, was, step)}
                         /\ \/ step = "sent" /\ view.owner
                            \/ step = "permission" /\ ~(view.owner /\ view.status = "new")
    <3>1. CASE view.owner /\ view.status = "new"
      <4>1. calls' = calls \cup {Call("mic", view.id, "new", "sent")}
        BY <1>2, <3>1 DEF StartMic
      <4> QED
        BY <3>1, <4>1
    <3>2. CASE ~(view.owner /\ view.status = "new")
      <4>1. calls' = calls \cup {Call("mic", view.id, None, "permission")}
        BY <1>2, <3>2 DEF StartMic
      <4> QED
        BY <3>2, <4>1
    <3> QED
      BY <3>1, <3>2
  <2> DEFINE d == Call("mic", view.id, was, step)
  <2>2. d.kind = "mic" /\ d.s = view.id /\ d.step = step
    BY FieldsOfCall
  <2>3. /\ view' = view /\ view.id # None /\ calls = {}
        /\ UNCHANGED <<connected, inbox, status, member, link, askedIn>>
    BY <1>0, <1>2, Pressed DEF StartMic, connVars, histVars, serverVars
  <2>4. calls' = calls \cup {d}
    BY <2>1
  <2> HIDE DEF d
  <2>5. CallKnows(d)
    <3>1. step = "sent" => view.id \in Own
      BY <1>0, <2>1, <2>3 DEF ViewKnows
    <3>2. step = "permission" /\ view.id \in Own => status[view.id] \notin {None, "new"}
      <4>1. ASSUME step = "permission", view.id \in Own
            PROVE  status[view.id] = "recording"
        <5>1. view.status = "recording" /\ ~InFlight("stop", {"ok"})
          BY <1>0, <2>1, <2>3, <4>1 DEF ViewKnows, Live, InFlight
        <5> QED
          BY <1>0, <4>1, <5>1 DEF ViewKnows
      <4> QED
        BY <4>1, Names
    <3> QED
      BY <2>1, <2>2, <3>1, <3>2 DEF CallKnows, MicKnows
  <2> QED
    BY <2>1, <2>2, <2>3, <2>4, <2>5, AddedLinks DEF Kinds
<1>3. CASE StopRecording
  <2>1. PICK was, step : /\ calls' = calls \cup {Call("stop", view.id, was, step)}
                         /\ step \in {"flush", "sent"}
                         /\ was = IF view.status = "new" THEN "new" ELSE "recording"
    BY <1>3 DEF StopRecording
  <2> DEFINE d == Call("stop", view.id, was, step)
  <2>2. d.kind = "stop" /\ d.s = view.id /\ d.step = step /\ d.was = was
    BY FieldsOfCall
  <2>3. /\ view' \in {view, [view EXCEPT !.mic = FALSE]}
        /\ view.id # None /\ view.owner /\ calls = {}
        /\ UNCHANGED <<connected, inbox, status, member, link, askedIn>>
    BY <1>0, <1>3, Pressed DEF StopRecording, connVars, histVars, serverVars
  <2>4. calls' = calls \cup {d}
    BY <2>1
  <2> HIDE DEF d
  <2>5. CallKnows(d)
    <3>1. view.id \in Own /\ view.status \in Live /\ ~InFlight("stop", {"ok"})
      BY <1>0, <2>3 DEF ViewKnows, InFlight
    <3>2. status[view.id] # None
          /\ (view.status = "recording" => link = view.id /\ status[view.id] = "recording")
          /\ (view.status = "new" => status[view.id] # "recording")
      BY <1>0, <2>3, <3>1 DEF ViewKnows
    <3>3. status[view.id] \in Statuses
      BY <1>0, <3>1, Names DEF TypeOK, Statuses
    <3> QED
      BY <2>1, <2>2, <3>1, <3>2, <3>3 DEF CallKnows, StopKnows, Live, Over, Statuses
  <2> QED
    BY <2>1, <2>2, <2>3, <2>4, <2>5, AddedLinks DEF Kinds
<1>4. CASE LeaveSession
  <2> DEFINE d == Call("leave", view.id, None, "sent")
  <2>2. d.kind = "leave" /\ d.s = view.id /\ d.step = "sent"
    BY FieldsOfCall
  <2>3. /\ view' \in {view, [view EXCEPT !.mic = FALSE]}
        /\ view.id # None /\ ~view.owner /\ calls = {} /\ calls' = calls \cup {d}
        /\ UNCHANGED <<connected, inbox, status, member, link, askedIn>>
    BY <1>0, <1>4, Pressed DEF LeaveSession, connVars, histVars, serverVars
  <2> HIDE DEF d
  <2>5. CallKnows(d)
    <3>1. view.id \in Others /\ ~InFlight("leave", {"ok"})
      BY <1>0, <2>3, Names DEF ViewKnows, InFlight, Sids
    <3> QED
      BY <1>0, <2>2, <3>1 DEF CallKnows, LeaveKnows, ViewKnows
  <2> QED
    BY <2>2, <2>3, <2>5, AddedLinks DEF Kinds
<1> QED
  BY <1>1, <1>2, <1>3, <1>4

LEMMA EnterLinks ==
  ASSUME Known, NEW s \in Sessions, EnterOrAsk(s), view.id = None,
         s \in Own \/ \A c \in calls : c.kind # "join",
         UNCHANGED <<connected, inbox, askedIn, status, member, link>>
  PROVE  LinksKnow'
<1>0. TypeOK /\ CallsName /\ LinksKnow
  BY DEF Known
<1>1. CASE AskToJoin(s)
  <2> DEFINE d == Call("join", s, None, "sent")
  <2>1. d.kind = "join" /\ d.s = s /\ d.step = "sent"
    BY FieldsOfCall
  <2>2. calls' = calls \cup {d} /\ view' = view
    BY <1>1 DEF AskToJoin
  <2> HIDE DEF d
  <2>3. CallKnows(d)
    BY <2>1, Names DEF CallKnows, JoinKnows
  <2> QED
    BY <2>1, <2>2, <2>3, AddedLinks DEF Kinds
<1>2. CASE EnterOwnNew(s) /\ s \in Own /\ status[s] = "new"
  <2>1. /\ view'.id = s /\ view'.owner = TRUE /\ view'.status = "new" /\ calls' = calls
    BY <1>2 DEF EnterOwnNew
  <2>2. ViewKnows'
    BY <1>2, <2>1, Names DEF ViewKnows, Over, Live
  <2>3. OneAtATime' /\ \A c \in calls' : CallKnows(c)'
    <3>1. \A c \in calls' : c.kind = "join" /\ c.s \in Others => view'.id # c.s
      BY <1>2, <2>1, Names
    <3> QED
      BY <2>1, <3>1, CallsStay
  <2>4. \A i \in DOMAIN inbox' : EventKnows(inbox[i])'
    BY EventsStay
  <2>5. OwnSessions'
    BY OwnStay
  <2> QED
    BY <1>0, <2>2, <2>3, <2>4, <2>5 DEF LinksKnow
<1> QED
  BY <1>1, <1>2 DEF EnterOrAsk

LEMMA JoinedLinks ==
  ASSUME Known, NEW c \in calls, SessionJoined(c)
  PROVE  LinksKnow'
<1>0. TypeOK /\ CallsName /\ LinksKnow /\ ViewKnows
  BY DEF Known, LinksKnow
<1>1. /\ c.kind = "join" /\ c.step = "sent" /\ c.s \in Sessions
      /\ UNCHANGED <<view, connected, askedIn, member, inbox, status>>
  BY <1>0, CallFacts DEF SessionJoined, connVars, histVars
<1>2. CASE calls' = At(c, "failed") /\ link' = link
  BY <1>1, <1>2, RefusedLinks
<1>3. CASE /\ link = None /\ c.s \in member /\ status[c.s] \in Live /\ link' = c.s
           /\ calls' = (calls \ {c}) \cup {[c EXCEPT !.was = status[c.s], !.step = "ok"]}
  <2>1. PICK d : /\ d.kind = "join" /\ d.s = c.s /\ d.was = status[c.s] /\ d.step = "ok"
                 /\ calls' = (calls \ {c}) \cup {d}
    <3>1. c \in Calls
      BY <1>0, CallFacts
    <3>2. LET e == [c EXCEPT !.was = status[c.s], !.step = "ok"] IN
          e.kind = "join" /\ e.s = c.s /\ e.was = status[c.s] /\ e.step = "ok"
      BY <1>1, <3>1 DEF Calls
    <3> QED
      BY <1>3, <3>2
  <2>2. OneAtATime'
    BY <1>0, <1>1, <2>1, OtherKeepsOne DEF LinksKnow
  <2>3. ASSUME NEW x \in calls
        PROVE  /\ CallKnows(x) /\ (x.kind = "join" => x.step # "ok")
               /\ x.kind = "leave" => x.step # "sent"
               /\ x.kind = "stop" /\ x.step \in {"flush", "sent"} => x.was = "new"
               /\ x.kind = "mic" => x.step # "ok"
    <3>1. CallKnows(x) /\ (x.kind # "create" => x.s \in Sessions /\ x.s # link)
      BY <1>0, <1>3, CallFacts, Names DEF LinksKnow
    <3> QED
      BY <3>1 DEF CallKnows, JoinKnows, Joined, LeaveKnows, StopKnows, MicKnows
  <2>4. ASSUME NEW x \in calls'
        PROVE  CallKnows(x)'
    <3>1. CASE x = d
      <4>1. CallKnows(c)
        BY <1>0 DEF LinksKnow
      <4>2. Joined(x)'
        <5>1. /\ status[c.s] = "new" \/ status[c.s] = "recording"
              /\ link' = c.s /\ \A y \in calls' : y = x \/ y \in calls
          BY <1>3, <2>1, <3>1 DEF Live
        <5> QED
          BY <1>1, <2>1, <2>3, <3>1, <5>1 DEF Joined, Live, Over, InFlight
      <4> QED
        BY <1>1, <2>1, <3>1, <4>1, <4>2 DEF CallKnows, JoinKnows
    <3>2. CASE x \in calls /\ x # c
      <4>1. CreateKnows(x) => CreateKnows(x)'
        BY <1>1, <2>1 DEF CreateKnows
      <4> QED
        BY <1>1, <2>3, <3>2, <4>1 DEF CallKnows, JoinKnows, StopKnows, LeaveKnows, MicKnows, Over
    <3> QED
      BY <2>1, <3>1, <3>2
  <2>5. ViewKnows'
    <3>1. /\ InFlight("leave", {"ok"}) => InFlight("leave", {"ok"})'
          /\ InFlight("stop", {"ok"}) => InFlight("stop", {"ok"})'
          /\ \A x \in calls : x.kind = "mic" => x \in calls'
      BY <1>1, <2>1 DEF InFlight
    <3>2. view.id \in Others => InFlight("leave", {"ok"})
      BY <1>0, <1>3, Names DEF ViewKnows
    <3>3. view.id \in Own /\ (Over(view.id) \/ view.status = "recording") => InFlight("stop", {"ok"})
      BY <1>0, <1>3, Names DEF ViewKnows
    <3> QED
      BY <1>0, <1>1, <3>1, <3>2, <3>3 DEF ViewKnows, Over
  <2>6. ASSUME NEW i \in DOMAIN inbox'
        PROVE  EventKnows(inbox[i])'
    <3>1. EventKnows(inbox[i]) /\ inbox[i].s \in Sessions
      BY <1>0, <1>1, EventsInside DEF LinksKnow
    <3> QED
      BY <1>1, <1>3, <3>1, Names DEF EventKnows, Over, Live
  <2>7. OwnSessions'
    BY <1>1, OwnStay
  <2> QED
    BY <1>0, <1>1, <2>2, <2>4, <2>5, <2>6, <2>7 DEF LinksKnow
<1> QED
  BY <1>2, <1>3 DEF SessionJoined

LEMMA TabJoinedLinks ==
  ASSUME Known, NEW c \in calls, TabJoined(c)
  PROVE  LinksKnow'
<1>0. TypeOK /\ CallsName /\ LinksKnow
  BY DEF Known
<1>1. /\ c.kind = "join" /\ c.step = "ok" /\ c.s \in Sessions /\ calls' = calls \ {c}
      /\ view'.id = c.s /\ view'.owner = (c.s \in Own) /\ view'.status = c.was
      /\ UNCHANGED <<connected, askedIn, member, inbox, status, link>>
  BY <1>0, CallFacts DEF TabJoined, connVars, histVars, serverVars
<1>2. Joined(c) /\ OneAtATime
  BY <1>0, <1>1 DEF LinksKnow, CallKnows, JoinKnows
<1>3. ViewKnows'
  BY <1>1, <1>2, Names DEF ViewKnows, Joined, Over, Live
<1>4. OneAtATime' /\ \A x \in calls' : CallKnows(x)'
  <2>1. \A x \in calls' : x.kind = "join" /\ x.s \in Others => view'.id # x.s
    BY <1>1, <1>2 DEF OneAtATime
  <2> QED
    BY <1>1, <2>1, CallsStay
<1>5. \A i \in DOMAIN inbox' : EventKnows(inbox[i])'
  BY <1>1, EventsStay
<1>6. OwnSessions'
  BY <1>1, OwnStay
<1> QED
  BY <1>0, <1>1, <1>3, <1>4, <1>5, <1>6 DEF LinksKnow

LEMMA StartedLinks ==
  ASSUME Known, NEW c \in calls, RecordingStarted(c)
  PROVE  LinksKnow'
<1>0. TypeOK /\ CallsName /\ LinksKnow
  BY DEF Known
<1>1. /\ c.kind = "create" /\ c.step = "ok" /\ calls' = calls \ {c}
      /\ view'.id = c.s /\ view'.owner = TRUE /\ view'.status = "new"
      /\ UNCHANGED <<connected, askedIn, member, inbox, status, link>>
  BY <1>0 DEF RecordingStarted, connVars, histVars, serverVars
<1>2. c.s \in Own /\ status[c.s] = "new"
  BY <1>0, <1>1 DEF LinksKnow, CallKnows, CreateKnows
<1>3. ViewKnows'
  BY <1>1, <1>2, Names DEF ViewKnows, Over, Live
<1>4. OneAtATime' /\ \A x \in calls' : CallKnows(x)'
  <2>1. \A x \in calls' : x.kind = "join" /\ x.s \in Others => view'.id # x.s
    BY <1>1, <1>2, Names
  <2> QED
    BY <1>1, <2>1, CallsStay
<1>5. \A i \in DOMAIN inbox' : EventKnows(inbox[i])'
  BY <1>1, EventsStay
<1>6. OwnSessions'
  BY <1>1, OwnStay
<1> QED
  BY <1>0, <1>1, <1>3, <1>4, <1>5, <1>6 DEF LinksKnow

LEMMA CreatedLinks ==
  ASSUME Known, NEW c \in calls, SessionCreated(c)
  PROVE  LinksKnow'
<1>0. TypeOK /\ CallsName /\ LinksKnow /\ ViewKnows
  BY DEF Known, LinksKnow
<1>1. /\ c.kind = "create" /\ c.step = "sent"
      /\ UNCHANGED <<view, connected, askedIn, inbox, link>>
  BY DEF SessionCreated, connVars, histVars
<1>2. CASE calls' = At(c, "failed") /\ UNCHANGED <<status, member>>
  BY <1>1, <1>2, RefusedLinks
<1>3. ASSUME NEW n \in Own, status[n] = None, \A s \in Own : status[s] \notin Live,
             status' = [status EXCEPT ![n] = "new"], member' = member \cup {n},
             calls' = (calls \ {c}) \cup {[c EXCEPT !.s = n, !.step = "ok"]}
      PROVE  LinksKnow'
  <2>1. PICK d : /\ d.kind = "create" /\ d.s = n /\ d.step = "ok"
                 /\ calls' = (calls \ {c}) \cup {d}
    <3>1. c \in Calls
      BY <1>0, CallFacts
    <3>2. LET e == [c EXCEPT !.s = n, !.step = "ok"] IN
          e.kind = "create" /\ e.s = n /\ e.step = "ok"
      BY <1>1, <3>1 DEF Calls
    <3> QED
      BY <1>3, <3>2
  <2>2. OneAtATime'
    BY <1>0, <1>1, <2>1, OtherKeepsOne DEF LinksKnow
  <2>s. \A s \in Sessions : status'[s] = IF s = n THEN "new" ELSE status[s]
    BY <1>0, <1>3 DEF TypeOK
  <2>o. /\ \A s \in Sessions : Over(s)' = Over(s)
        /\ \A s \in Sessions : status[s] # None => status'[s] = status[s]
    BY <1>3, <2>s, Names DEF Over
  <2>3. OwnSessions'
    BY <1>0, <1>3, <2>s, Names DEF LinksKnow, OwnSessions
  <2>4. ASSUME NEW x \in calls'
        PROVE  CallKnows(x)'
    <3>1. CASE x = d
      <4>1. \A y \in calls : y.kind = "stop" => y.s # n
        BY <1>0, <1>3 DEF LinksKnow, CallKnows, StopKnows
      <4> QED
        BY <1>1, <1>3, <2>1, <2>s, <3>1, <4>1, Names DEF CallKnows, CreateKnows
    <3>2. CASE x \in calls /\ x # c
      <4>1. /\ CallKnows(x) /\ x.kind # "create" /\ x.kind # "mic" /\ x.s \in Sessions
            /\ x.kind \in Kinds
        <5>1. CallKnows(x) /\ OneAtATime
          BY <1>0, <3>2 DEF LinksKnow
        <5>2. x.kind # "create" /\ x.kind # "mic"
          BY <1>1, <3>2, <5>1 DEF OneAtATime
        <5> QED
          BY <1>0, <3>2, <5>1, <5>2, CallFacts
      <4>2. x.kind = "stop" => StopKnows(x)'
        <5>1. ASSUME x.kind = "stop"
              PROVE  StopKnows(x)'
          <6>1. StopKnows(x) /\ x.s \in Sessions
            BY <4>1, <5>1 DEF CallKnows
          <6>2. status'[x.s] = status[x.s] /\ Over(x.s)' = Over(x.s)
            BY <2>o, <6>1 DEF StopKnows
          <6> QED
            BY <1>1, <6>1, <6>2 DEF StopKnows
        <5> QED
          BY <5>1
      <4>3. x.kind = "leave" => LeaveKnows(x)'
        BY <1>1, <4>1 DEF CallKnows, LeaveKnows
      <4>4. x.kind = "join" /\ x.step = "ok" => Joined(x)'
        <5>1. ASSUME x.kind = "join", x.step = "ok"
              PROVE  Joined(x)'
          <6>1. Joined(x)
            BY <4>1, <5>1 DEF CallKnows, JoinKnows
          <6>2. x.s \in Own => status[x.s] # None
            BY <6>1, Names DEF Joined, Over
          <6> QED
            BY <1>1, <2>1, <2>o, <4>1, <6>1, <6>2, Names DEF Joined, InFlight, Over
        <5> QED
          BY <5>1
      <4> QED
        BY <1>1, <4>1, <4>2, <4>3, <4>4 DEF CallKnows, JoinKnows
    <3> QED
      BY <2>1, <3>1, <3>2
  <2>5. ViewKnows'
    <3>1. /\ InFlight("leave", {"ok"}) => InFlight("leave", {"ok"})'
          /\ InFlight("stop", {"ok"}) => InFlight("stop", {"ok"})'
          /\ \A x \in calls : x.kind = "mic" => x \in calls'
      BY <1>1, <2>1 DEF InFlight
    <3>2. view.id \in Own => status'[view.id] = status[view.id]
      BY <1>0, <2>o, Names DEF ViewKnows
    <3> QED
      BY <1>0, <1>1, <3>1, <3>2 DEF ViewKnows, Over
  <2>6. ASSUME NEW i \in DOMAIN inbox'
        PROVE  EventKnows(inbox[i])'
    <3>1. EventKnows(inbox[i]) /\ inbox[i].s \in Sessions
      BY <1>0, <1>1, EventsInside DEF LinksKnow
    <3> QED
      BY <1>1, <2>o, <3>1, Names DEF EventKnows, Over
  <2>7. askedIn' \in Own => status'[askedIn'] \notin {None, "new"}
    BY <1>0, <1>1, <2>o, Names DEF LinksKnow
  <2> QED
    BY <1>0, <1>1, <2>2, <2>3, <2>4, <2>5, <2>6, <2>7 DEF LinksKnow
<1> QED
  BY <1>2, <1>3 DEF SessionCreated

\* While an operation that starts or ends something is in flight, the others
\* are creates and joins.
LEMMA OnlyOne ==
  ASSUME Known, NEW c \in calls, c.kind \in {"mic", "stop", "leave"}
  PROVE  \A x \in calls : /\ x = c \/ x.kind \in {"create", "join"}
                          /\ c.kind = "mic" => x = c \/ x.kind = "join"
<1>1. OneAtATime /\ \A x \in calls : x.kind \in Kinds
  BY CallFacts DEF Known, LinksKnow
<1> QED
  BY <1>1 DEF OneAtATime, Kinds

LEMMA MicLinks ==
  ASSUME Known, NEW c \in calls, MicBegun(c)
  PROVE  LinksKnow'
<1>0. TypeOK /\ CallsName /\ LinksKnow /\ ViewKnows /\ OwnSessions
  BY DEF Known, LinksKnow
<1>1. /\ c.kind = "mic" /\ c.step = "ok" /\ calls' = At(c, "permission")
      /\ view'.id = view.id /\ view'.owner = view.owner
      /\ view' = IF view.id # None THEN [view EXCEPT !.status = "recording"] ELSE view
      /\ UNCHANGED <<connected, askedIn, inbox, status, member, link>>
  BY <1>0 DEF MicBegun, connVars, histVars, serverVars, TypeOK
<1>2. PICK d : /\ d.kind = "mic" /\ d.s = c.s /\ d.step = "permission"
               /\ calls' = (calls \ {c}) \cup {d}
  BY <1>0, <1>1, AtOther
<1>3. c.s \in Own /\ status[c.s] = "recording" /\ link = c.s
  BY <1>0, <1>1 DEF LinksKnow, CallKnows, MicKnows
<1>4. \A x \in calls : x = c \/ x.kind = "join"
  BY <1>1, OnlyOne
<1>5. OneAtATime'
  BY <1>0, <1>1, <1>2, OtherKeepsOne DEF LinksKnow
<1>6. ASSUME NEW x \in calls'
      PROVE  CallKnows(x)'
  <2>1. CASE x = d
    BY <1>1, <1>2, <1>3, <2>1, Names DEF CallKnows, MicKnows
  <2>2. CASE x \in calls /\ x.kind = "join"
    <3>1. JoinKnows(x)
      BY <1>0, <2>2 DEF LinksKnow, CallKnows
    <3>2. Joined(x) => Joined(x)'
      BY <1>1, <1>2, <2>2 DEF Joined, InFlight, Over, Steps
    <3> QED
      BY <1>1, <2>2, <3>1, <3>2 DEF CallKnows, JoinKnows
  <2> QED
    BY <1>2, <1>4, <2>1, <2>2
<1>7. ViewKnows'
  <2>1. ~InFlight("stop", {"ok"}) /\ ~InFlight("leave", {"ok"})
    BY <1>1, <1>4 DEF InFlight
  <2>2. view.id \in Sids
    BY <1>0 DEF TypeOK, Sids
  <2>3. view.id \in {c.s, None}
    <3>1. view.id \notin Others
      BY <1>0, <1>3, <2>1, Names DEF ViewKnows
    <3>2. ASSUME view.id \in Own, view.id # c.s
          PROVE  FALSE
      <4>1. status[view.id] \notin Live /\ status[view.id] # None /\ ~Over(view.id)
        BY <1>0, <1>3, <2>1, <3>2 DEF ViewKnows, OwnSessions, Live
      <4>2. status[view.id] \in Statuses
        BY <1>0, <3>2, Names DEF TypeOK, Statuses
      <4> QED
        BY <4>1, <4>2 DEF Statuses, Live, Over
    <3> QED
      BY <2>2, <3>1, <3>2, Names DEF Sids
  <2>4. CASE view.id = None
    <3>1. view' = Idle
      BY <1>0, <1>1, <2>4 DEF ViewKnows
    <3> QED
      BY <3>1, IdleKnows
  <2>5. CASE view.id = c.s
    <3>1. view'.status = "recording" /\ view.owner = (view.id \in Own)
      BY <1>0, <1>1, <1>3, <2>5, Names DEF TypeOK, ViewKnows
    <3> QED
      BY <1>1, <1>3, <2>5, <3>1, Names DEF ViewKnows, Over, Live
  <2> QED
    BY <2>3, <2>4, <2>5
<1>8. \A i \in DOMAIN inbox' : EventKnows(inbox[i])'
  BY <1>1, EventsStay
<1>9. OwnSessions'
  BY <1>1, OwnStay
<1> QED
  BY <1>0, <1>1, <1>5, <1>6, <1>7, <1>8, <1>9 DEF LinksKnow

LEMMA FlushedLinks ==
  ASSUME Known, NEW c \in calls, NEW u, StopFlushed(c, u)
  PROVE  LinksKnow'
<1>0. TypeOK /\ CallsName /\ LinksKnow /\ ViewKnows
  BY DEF Known, LinksKnow
<1>1. /\ c.kind = "stop" /\ c.step = "flush" /\ calls' = At(c, "sent")
      /\ view' \in {view, [view EXCEPT !.mic = FALSE]}
      /\ UNCHANGED <<connected, askedIn, inbox, status, member, link>>
  BY <1>0 DEF StopFlushed, connVars, histVars, serverVars
<1>2. PICK d : /\ d.kind = "stop" /\ d.s = c.s /\ d.was = c.was /\ d.step = "sent"
               /\ calls' = (calls \ {c}) \cup {d}
  BY <1>0, <1>1, AtOther
<1>3. view'.id = view.id /\ view'.owner = view.owner /\ view'.status = view.status
  BY <1>0, <1>1 DEF TypeOK
<1>4. \A x \in calls : x = c \/ x.kind \in {"create", "join"}
  BY <1>1, OnlyOne
<1>5. OneAtATime'
  BY <1>0, <1>1, <1>2, OtherKeepsOne DEF LinksKnow
<1>6. ASSUME NEW x \in calls'
      PROVE  CallKnows(x)'
  <2>0. CallKnows(c) /\ \A y \in calls : CallKnows(y)
    BY <1>0 DEF LinksKnow
  <2>1. CASE x = d
    BY <1>1, <1>2, <2>0, <2>1 DEF CallKnows, StopKnows, Over
  <2>2. CASE x \in calls /\ x.kind = "join"
    <3>1. Joined(x) => Joined(x)'
      BY <1>1, <1>2, <2>2 DEF Joined, InFlight, Over, Steps
    <3> QED
      BY <1>3, <2>0, <2>2, <3>1 DEF CallKnows, JoinKnows
  <2>3. CASE x \in calls /\ x.kind = "create"
    BY <1>1, <1>2, <2>0, <2>3 DEF CallKnows, CreateKnows
  <2> QED
    BY <1>2, <1>4, <2>1, <2>2, <2>3
<1>7. ViewKnows'
  <2>1. view \in Views
    BY <1>0 DEF TypeOK, Views
  <2>2. view.id = None => view' = view
    BY <1>0, <1>1, <2>1, QuietIdle
  <2> QED
    BY <1>1, <1>2, <1>3, <2>2, ViewStays
<1>8. \A i \in DOMAIN inbox' : EventKnows(inbox[i])'
  BY <1>1, EventsStay
<1>9. OwnSessions'
  BY <1>1, OwnStay
<1> QED
  BY <1>0, <1>1, <1>5, <1>6, <1>7, <1>8, <1>9 DEF LinksKnow

LEMMA LeftLinks ==
  ASSUME Known, NEW c \in calls, SessionLeft(c)
  PROVE  LinksKnow'
<1>0. TypeOK /\ CallsName /\ LinksKnow /\ ViewKnows
  BY DEF Known, LinksKnow
<1>1. /\ c.kind = "leave" /\ c.step = "sent" /\ connected
      /\ UNCHANGED <<view, connected, askedIn, inbox, status>>
  BY <1>0 DEF SessionLeft, connVars, histVars, LinksKnow
<1>2. c.s \in Others /\ link = c.s /\ link # None /\ link \notin Own
  BY <1>0, <1>1, Names DEF LinksKnow, CallKnows, LeaveKnows
<1>3. link' = None /\ member' = member \ {link} /\ calls' = At(c, "ok")
  BY <1>1, <1>2 DEF SessionLeft
<1>4. PICK d : /\ d.kind = "leave" /\ d.s = c.s /\ d.step = "ok"
               /\ calls' = (calls \ {c}) \cup {d}
  BY <1>0, <1>1, <1>3, AtOther
<1>5. /\ \A x \in calls : x = c \/ x.kind \in {"create", "join"}
      /\ \A x \in calls : x.kind = "join" => x.step # "ok"
  <2>1. ASSUME NEW x \in calls, x.kind = "join", x.step = "ok"
        PROVE  FALSE
    BY <1>0, <1>1, <2>1 DEF LinksKnow, CallKnows, JoinKnows, Joined, InFlight
  <2> QED
    BY <1>1, <2>1, OnlyOne
<1>6. OneAtATime'
  BY <1>0, <1>1, <1>4, OtherKeepsOne DEF LinksKnow
<1>7. ASSUME NEW x \in calls'
      PROVE  CallKnows(x)'
  <2>1. CASE x = d
    BY <1>2, <1>4, <2>1 DEF CallKnows, LeaveKnows
  <2>2. CASE x \in calls /\ x # c
    <3>1. CallKnows(x)
      BY <1>0, <2>2 DEF LinksKnow
    <3>2. CreateKnows(x) => CreateKnows(x)'
      BY <1>1, <1>4 DEF CreateKnows
    <3> QED
      BY <1>1, <1>5, <2>2, <3>1, <3>2 DEF CallKnows, JoinKnows
  <2> QED
    BY <1>4, <2>1, <2>2
<1>8. ViewKnows'
  <2>1. /\ ~InFlight("stop", {"ok"}) /\ \A x \in calls : x.kind # "mic"
        /\ InFlight("leave", {"ok"})'
    BY <1>1, <1>4, <1>5 DEF InFlight
  <2>2. view.id \in Own => ~Over(view.id) /\ view.status # "recording" /\ status[view.id] # None
                           /\ ~(view.status = "new" /\ status[view.id] = "recording")
    BY <1>0, <1>2, <2>1 DEF ViewKnows
  <2> QED
    BY <1>0, <1>1, <2>1, <2>2 DEF ViewKnows, Over
<1>9. ASSUME NEW i \in DOMAIN inbox'
      PROVE  EventKnows(inbox[i])'
  <2>1. EventKnows(inbox[i]) /\ inbox[i].s \in Sessions
    BY <1>0, <1>1, EventsInside DEF LinksKnow
  <2> QED
    BY <1>1, <1>2, <1>3, <2>1, Names DEF EventKnows, Over
<1>10. OwnSessions'
  BY <1>1, <1>2, <1>3, OwnStay
<1> QED
  BY <1>0, <1>1, <1>6, <1>7, <1>8, <1>9, <1>10 DEF LinksKnow

LEMMA StopLinks ==
  ASSUME Known, NEW c \in calls, SessionStopped(c)
  PROVE  LinksKnow'
<1>0. TypeOK /\ CallsName /\ LinksKnow /\ ViewKnows /\ OwnSessions /\ connected
  BY DEF Known, LinksKnow
<1>1. /\ c.kind = "stop" /\ c.step = "sent"
      /\ UNCHANGED <<view, connected, askedIn, member>>
  BY <1>0 DEF SessionStopped, connVars, histVars
<1>2. StopKnows(c) /\ c.s \in Own /\ c.s \in Sessions
  BY <1>0, <1>1, Names DEF LinksKnow, CallKnows, StopKnows
<1>3. CASE c.was = "new" /\ status[c.s] # "new"
  <2>1. Over(c.s)
    BY <1>1, <1>2, <1>3 DEF StopKnows
  <2> QED
    BY <1>1, <1>3, <2>1, RefusedLinks DEF SessionStopped
<1>4. ASSUME status[c.s] \in Live, status' = [status EXCEPT ![c.s] = "over"],
             Publish(Event("session_ended", c.s)), calls' = At(c, "ok"),
             \/ c.was = "new" /\ status[c.s] = "new" /\ link' = link
             \/ c.was # "new" /\ status[c.s] = "recording" /\ link = c.s /\ link' = None
      PROVE  LinksKnow'
  <2>1. PICK d : /\ d.kind = "stop" /\ d.s = c.s /\ d.was = c.was /\ d.step = "ok"
                 /\ calls' = (calls \ {c}) \cup {d}
    BY <1>0, <1>1, <1>4, AtOther
  <2>2. \A x \in calls : x = c \/ x.kind \in {"create", "join"}
    BY <1>1, OnlyOne
  <2>3. OneAtATime'
    BY <1>0, <1>1, <2>1, OtherKeepsOne DEF LinksKnow
  <2>s. \A s \in Sessions : status'[s] = IF s = c.s THEN "over" ELSE status[s]
    BY <1>0, <1>4 DEF TypeOK
  <2>o. /\ Over(c.s)' /\ \A s \in Sessions : s # c.s => Over(s)' = Over(s)
        /\ \A s \in Sessions : status'[s] = None => status[s] = None
    BY <1>2, <2>s, Names DEF Over
  <2>4. OwnSessions'
    <3>1. \A s \in Own : /\ status'[s] \in Live => status[s] \in Live
                         /\ status'[s] # None => status[s] # None
      BY <1>2, <2>s, Names DEF Live, StopKnows
    <3> QED
      BY <1>1, <3>1, OwnStay
  <2>5. ASSUME NEW x \in calls'
        PROVE  CallKnows(x)'
    <3>1. CASE x = d
      BY <1>2, <2>1, <2>s, <3>1, Names DEF CallKnows, StopKnows
    <3>2. CASE x \in calls /\ x.kind = "join" /\ x.step # "ok"
      <4>1. CallKnows(x)
        BY <1>0, <3>2 DEF LinksKnow
      <4> QED
        BY <1>1, <3>2, <4>1 DEF CallKnows, JoinKnows
    <3>3. CASE x \in calls /\ x.kind = "join" /\ x.step = "ok"
      <4>1. JoinKnows(x) /\ Joined(x) /\ x.s \in Sessions
        BY <1>0, <3>3, CallFacts DEF LinksKnow, CallKnows, JoinKnows
      <4>2. c.was = "new" /\ status[c.s] = "new" /\ link' = link
        BY <1>1, <1>4, <4>1 DEF Joined
      <4>3. ~InFlight("mic", Steps)' /\ ~InFlight("leave", {"sent"})'
        BY <2>1, <2>2 DEF InFlight
      <4>4. \A y \in calls' : y = d \/ y \in calls
        BY <2>1
      <4>5. Joined(x)'
        <5>1. CASE x.s = c.s
          BY <2>1, <2>o, <3>3, <4>1, <4>2, <4>3, <4>4, <5>1 DEF Joined, Live
        <5>2. CASE x.s # c.s
          <6>1. status'[x.s] = status[x.s] /\ Over(x.s)' = Over(x.s)
            BY <2>s, <2>o, <4>1, <5>2
          <6> QED
            BY <2>1, <3>3, <4>1, <4>2, <4>3, <4>4, <6>1 DEF Joined
        <5> QED
          BY <5>1, <5>2
      <4> QED
        BY <1>1, <3>3, <4>1, <4>5 DEF CallKnows, JoinKnows
    <3>4. CASE x \in calls /\ x.kind = "create"
      <4>1. CreateKnows(x)
        BY <1>0, <3>4 DEF LinksKnow, CallKnows
      <4> QED
        BY <1>1, <2>1, <2>s, <3>4, <4>1, Names DEF CallKnows, CreateKnows
    <3> QED
      BY <2>1, <2>2, <3>1, <3>2, <3>3, <3>4
  <2>6. ViewKnows'
    <3>1. /\ InFlight("stop", {"ok"})' /\ \A x \in calls : x.kind # "mic"
          /\ ~InFlight("leave", {"ok"})
      BY <1>1, <2>1, <2>2 DEF InFlight
    <3>2. view.id \in Others => link' = view.id
      BY <1>0, <1>2, <1>4, <3>1, Names DEF ViewKnows
    <3>3. view.id \in Own => /\ status'[view.id] # None
                             /\ ~(view.status = "new" /\ status'[view.id] = "recording")
      BY <1>0, <2>s, <3>1, Names DEF ViewKnows
    <3> QED
      BY <1>0, <1>1, <3>1, <3>2, <3>3 DEF ViewKnows
  <2>7. ASSUME NEW i \in DOMAIN inbox'
        PROVE  EventKnows(inbox[i])'
    <3>1. CASE inbox'[i] = Event("session_ended", c.s)
      BY <3>1 DEF EventKnows, Event
    <3>2. ASSUME NEW j \in DOMAIN inbox, inbox'[i] = inbox[j]
          PROVE  EventKnows(inbox[i])'
      <4>1. EventKnows(inbox[j]) /\ inbox[j].s \in Sessions
        BY <1>0, EventsInside DEF LinksKnow
      <4>2. CASE inbox[j].s = c.s
        <5>1. inbox[j].type = "session_started" => c.was # "new"
          BY <1>2, <1>4, <4>1, <4>2 DEF EventKnows, Over
        <5>2. inbox[j].type # "upload_completed"
          BY <1>4, <4>1, <4>2 DEF EventKnows, Live
        <5> QED
          BY <1>2, <1>4, <2>o, <3>2, <4>2, <5>1, <5>2, Names DEF EventKnows
      <4>3. CASE inbox[j].s # c.s
        <5>1. status'[inbox[j].s] = status[inbox[j].s] 
          BY <2>s, <4>1, <4>3
        <5>2. link' = inbox[j].s <=> link = inbox[j].s
          BY <1>4, <4>1, <4>3, Names
        <5> QED
          BY <3>2, <4>1, <5>1, <5>2 DEF EventKnows, Over
      <4> QED
        BY <4>2, <4>3
    <3> QED
      BY <1>0, <1>4, <3>1, <3>2, PublishAdds
  <2>8. askedIn' \in Own => status'[askedIn'] \notin {None, "new"}
    BY <1>0, <1>1, <2>s, Names DEF LinksKnow
  <2> QED
    BY <1>0, <1>1, <2>3, <2>4, <2>5, <2>6, <2>7, <2>8 DEF LinksKnow
<1>5. CASE c.was = "new" /\ status[c.s] = "new"
  <2>1. c.s \in member
    BY <1>0, <1>2, <1>5, Names DEF OwnSessions
  <2> QED
    BY <1>2, <1>4, <1>5, <2>1 DEF SessionStopped, Live
<1>6. CASE c.was # "new"
  <2>1. status[c.s] = "recording" /\ link = c.s
    BY <1>1, <1>2, <1>6 DEF StopKnows
  <2> QED
    BY <1>0, <1>2, <1>4, <1>6, <2>1 DEF SessionStopped, Live
<1> QED
  BY <1>3, <1>5, <1>6

LEMMA OthersLinks ==
  ASSUME Known, NEW s \in Sessions,
         \/ OtherBegins(s) \/ OtherEnds(s) \/ Completes(s)
         \/ OtherInvites(s) \/ OtherRemoves(s)
  PROVE  LinksKnow'
<1>0. TypeOK /\ CallsName /\ LinksKnow /\ ViewKnows
  BY DEF Known, LinksKnow
<1>1. UNCHANGED <<view, connected, calls, askedIn, link>>
  BY DEF OtherBegins, OtherEnds, Completes, OtherInvites, OtherRemoves, ServerOnly, connVars, histVars
<1>2. /\ \A t \in Own : status'[t] = status[t] \/ (status[t] = "over" /\ status'[t] = "done")
      /\ \A t \in Sessions : status[t] = "done" => status'[t] = "done"
      /\ member \cap Own \subseteq member'
  <2>1. CASE Completes(s)
    BY <1>0, <2>1 DEF Completes, TypeOK
  <2>2. CASE OtherBegins(s) \/ OtherEnds(s)
    BY <1>0, <2>2, Names DEF OtherBegins, OtherEnds, TypeOK, Live
  <2>3. CASE OtherInvites(s) \/ OtherRemoves(s)
    BY <2>3, Names DEF OtherInvites, OtherRemoves
  <2> QED
    BY <2>1, <2>2, <2>3
<1>3. \A t \in Own : Over(t)' = Over(t)
  BY <1>2 DEF Over
<1>4. OwnSessions'
  BY <1>2, OwnStay, Names DEF Live
<1>5. OneAtATime'
  BY <1>0, <1>1 DEF LinksKnow, OneAtATime
<1>6. ASSUME NEW x \in calls'
      PROVE  CallKnows(x)'
  <2>0. CallKnows(x) /\ x \in calls
    BY <1>0, <1>1 DEF LinksKnow
  <2>1. x.kind = "stop" => StopKnows(x)'
    BY <1>1, <1>2, <1>3, <2>0, Names DEF CallKnows, StopKnows
  <2>2. x.kind = "leave" => LeaveKnows(x)'
    BY <1>1, <2>0 DEF CallKnows, LeaveKnows
  <2>3. x.kind = "mic" => MicKnows(x)'
    BY <1>1, <1>2, <2>0, Names DEF CallKnows, MicKnows
  <2>4. x.kind = "create" => CreateKnows(x)'
    BY <1>1, <1>2, <2>0 DEF CallKnows, CreateKnows
  <2>5. x.kind = "join" => JoinKnows(x)'
    <3>1. Joined(x) => Joined(x)'
      BY <1>1, <1>2, <1>3 DEF Joined, InFlight
    <3> QED
      BY <1>1, <2>0, <3>1 DEF CallKnows, JoinKnows
  <2> QED
    BY <2>1, <2>2, <2>3, <2>4, <2>5 DEF CallKnows
<1>7. ViewKnows'
  <2>1. /\ InFlight("leave", {"ok"})' = InFlight("leave", {"ok"})
        /\ InFlight("stop", {"ok"})' = InFlight("stop", {"ok"})
    BY <1>1 DEF InFlight
  <2>2. view.id \in Own => /\ status'[view.id] # None /\ Over(view.id)' = Over(view.id)
                           /\ (status'[view.id] = "recording") = (status[view.id] = "recording")
    BY <1>0, <1>1, <1>2, <1>3, Names DEF ViewKnows, Over
  <2> QED
    BY <1>0, <1>1, <2>1, <2>2 DEF ViewKnows
<1>8. ASSUME NEW i \in DOMAIN inbox'
      PROVE  EventKnows(inbox[i])'
  <2>1. ASSUME NEW j \in DOMAIN inbox, inbox'[i] = inbox[j]
        PROVE  EventKnows(inbox[i])'
    <3>1. EventKnows(inbox[j]) /\ inbox[j].s \in Sessions
      BY <1>0, EventsInside DEF LinksKnow
    <3>2. /\ inbox[j].s \in Own =>
               /\ status'[inbox[j].s] = "recording" <=> status[inbox[j].s] = "recording"
               /\ status'[inbox[j].s] \in {"over", "done"} <=> Over(inbox[j].s)
          /\ status[inbox[j].s] = "done" => status'[inbox[j].s] = "done"
      BY <1>2, <3>1 DEF Over
    <3> QED
      BY <1>1, <2>1, <3>1, <3>2 DEF EventKnows, Over
  <2>2. ASSUME NEW e, inbox'[i] = e,
               \/ e = Event("session_started", s) /\ s \in Others
               \/ e = Event("session_ended", s)
               \/ e = Event("upload_completed", s) /\ status'[s] = "done"
               \/ e = Event("removed", s)
        PROVE  EventKnows(inbox[i])'
    BY <2>2, Names DEF EventKnows, Event
  <2>3. CASE OtherBegins(s)
    BY <1>0, <2>1, <2>2, <2>3, PublishAdds DEF OtherBegins
  <2>4. CASE OtherEnds(s)
    BY <1>0, <2>1, <2>2, <2>4, PublishAdds DEF OtherEnds
  <2>5. CASE Completes(s)
    <3>1. status'[s] = "done" /\ Publish(Event("upload_completed", s))
      BY <1>0, <2>5 DEF Completes, TypeOK
    <3> QED
      BY <1>0, <2>1, <2>2, <3>1, PublishAdds
  <2>6. CASE OtherRemoves(s)
    BY <1>0, <2>1, <2>2, <2>6, PublishAdds DEF OtherRemoves
  <2>7. CASE OtherInvites(s)
    BY <2>1, <2>7 DEF OtherInvites
  <2> QED
    BY <2>3, <2>4, <2>5, <2>6, <2>7
<1>9. askedIn' \in Own => status'[askedIn'] \notin {None, "new"}
  BY <1>0, <1>1, <1>2, Names DEF LinksKnow
<1> QED
  BY <1>0, <1>1, <1>4, <1>5, <1>6, <1>7, <1>8, <1>9 DEF LinksKnow

\* Whatever happens but a lost connection or a reload.
LEMMA LinksStep ==
  ASSUME ButtonsWait, Known, [Next]_vars, ~blipped'
  PROVE  LinksKnow'
<1>0. TypeOK /\ CallsName /\ LinksKnow
  BY DEF Known
<1>m. ([view EXCEPT !.mic = FALSE]).mic # ([view EXCEPT !.mic = TRUE]).mic
  BY <1>0 DEF TypeOK
<1>v. view' = view => (view' = [view EXCEPT !.mic = TRUE] => view.id # None)
  <2>1. view.id = None => view.mic = FALSE
    BY <1>0 DEF LinksKnow, ViewKnows, Idle
  <2> QED
    BY <1>0, <2>1 DEF TypeOK
<1>1. CASE Audio
  <2>1. UNCHANGED <<tabVars, serverVars>>
    BY <1>1 DEF Audio
  <2>2. UNCHANGED <<view, calls, inbox, connected, askedIn, status, member, link>>
    BY <2>1 DEF tabVars, serverVars, connVars, histVars
  <2> QED
    BY <1>v, <2>2, QuietLinks
<1>2. CASE User
  <2>1. CASE StartRecording \/ StartMic \/ StopRecording \/ LeaveSession
    BY <2>1, PressLinks
  <2>2. CASE ResumeMic
    <3>1. /\ UNCHANGED <<calls, inbox, connected, askedIn, status, member, link>>
          /\ view' = [view EXCEPT !.mic = TRUE] /\ view.id # None
      BY <2>2 DEF ResumeMic, connVars, histVars, serverVars
    <3> QED
      BY <3>1, QuietLinks
  <2>3. CASE StopMic
    <3>1. /\ UNCHANGED <<calls, inbox, connected, askedIn, status, member, link>>
          /\ view' = [view EXCEPT !.mic = FALSE]
      BY <2>3 DEF StopMic, connVars, histVars, serverVars
    <3> QED
      BY <1>m, <3>1, QuietLinks
  <2>4. ASSUME NEW s \in Sessions, JoinSession(s)
        PROVE  LinksKnow'
    <3>1. \A c \in calls : c.kind # "join"
      BY <1>0, <2>4, Pressed DEF JoinSession
    <3> QED
      BY <2>4, <3>1, EnterLinks DEF JoinSession, connVars, histVars, serverVars
  <2> QED
    BY <1>2, <2>1, <2>2, <2>3, <2>4 DEF User
<1>3. CASE AutoJoin
  <2>1. PICK s \in member \ ended :
          IF s \in Own THEN EnterOrAsk(s) ELSE UNCHANGED <<recVars, view, subVars, ended, calls>>
    BY <1>3 DEF AutoJoin
  <2>2. /\ UNCHANGED <<connected, inbox, askedIn, status, member, link>>
        /\ view.id = None
    BY <1>3 DEF AutoJoin, histVars, serverVars
  <2>3. CASE s \in Own
    <3>1. EnterOrAsk(s) /\ s \in Sessions
      BY <2>1, <2>3, Names
    <3> QED
      BY <2>2, <2>3, <3>1, EnterLinks
  <2>4. CASE s \notin Own
    <3>1. view' = view /\ calls' = calls
      BY <2>1, <2>4
    <3> QED
      BY <1>v, <2>2, <3>1, QuietLinks
  <2> QED
    BY <2>3, <2>4
<1>4. ASSUME NEW c \in calls, ServerCall(c)
      PROVE  LinksKnow'
  BY <1>4, CreatedLinks, BegunLinks, StopLinks, LeftLinks, JoinedLinks DEF ServerCall
<1>5. ASSUME NEW c \in calls, Continue(c)
      PROVE  LinksKnow'
  BY <1>5, StartedLinks, MicLinks, CapturedLinks, FlushedLinks, StoppedLinks, TabJoinedLinks,
     CallFailsLinks DEF Continue
<1>6. CASE Deliver
  BY <1>6, DeliveredLinks
<1>7. CASE Environment
  <2>1. ~Reconnect /\ ~Disconnect /\ ~Reload
    BY DEF Reconnect, Disconnect, Reload, ConnectionGone
  <2>2. ASSUME NEW i \in Captures, TrackEnds(i)
        PROVE  LinksKnow'
    <3>1. /\ UNCHANGED <<calls, inbox, connected, askedIn, status, member, link>>
          /\ view' = [view EXCEPT !.mic = FALSE]
      BY <2>2 DEF TrackEnds, connVars, histVars, serverVars
    <3> QED
      BY <1>m, <3>1, QuietLinks
  <2>3. ASSUME NEW s \in Sessions,
               \/ OtherBegins(s) \/ OtherEnds(s) \/ Completes(s)
               \/ OtherInvites(s) \/ OtherRemoves(s)
        PROVE  LinksKnow'
    BY <2>3, OthersLinks
  <2> QED
    BY <1>7, <2>1, <2>2, <2>3 DEF Environment
<1>8. CASE UNCHANGED vars
  <2>1. UNCHANGED <<view, calls, inbox, connected, askedIn, status, member, link>>
    BY <1>8 DEF vars, tabVars, serverVars, connVars, histVars
  <2> QED
    BY <1>v, <2>1, QuietLinks
<1> QED
  BY <1>1, <1>2, <1>3, <1>4, <1>5, <1>6, <1>7, <1>8 DEF Next

LEMMA LinksInit == Init => LinksKnow
<1> SUFFICES ASSUME Init
             PROVE  LinksKnow
  OBVIOUS
<1>1. view = Idle /\ calls = {} /\ inbox = <<>> /\ connected /\ askedIn = None /\ link = None
  BY DEF Init
<1>2. ViewKnows
  BY <1>1, Names DEF ViewKnows, Idle
<1>3. OneAtATime /\ OwnSessions
  BY <1>1, Names DEF Init, OneAtATime, OwnSessions, Live
<1> QED
  BY <1>1, <1>2, <1>3, Names DEF LinksKnow

\* A lost connection is not forgotten.
LEMMA BlipStays == TypeOK /\ [Next]_vars /\ blipped => blipped'
<1> SUFFICES ASSUME TypeOK, [Next]_vars, blipped
             PROVE  blipped'
  OBVIOUS
<1>1. blipped' = blipped \/ blipped' = TRUE
  <2>1. CASE Audio \/ User \/ AutoJoin \/ Deliver
    BY <2>1 DEF Audio, User, AutoJoin, Deliver, StartRecording, StopRecording, LeaveSession,
         ResumeMic, StartMic, StopMic, JoinSession, Unheard, HandleSessionStarted, HandleSessionEnded,
         HandleUploadCompleted, HandleUserRemovedFromSession, tabVars, histVars
  <2>2. ASSUME NEW c \in calls, ServerCall(c) \/ Continue(c)
        PROVE  blipped' = blipped
    BY <2>2 DEF ServerCall, Continue, SessionCreated, SessionBegun, SessionStopped, SessionLeft,
         SessionJoined, RecordingStarted, MicBegun, CaptureStarted, StopFlushed, StoppedOrLeft,
         TabJoined, CallFailed, histVars
  <2>3. CASE Environment
    BY <2>3 DEF Environment, TrackEnds, Reconnect, Disconnect, Reload, ConnectionGone, OtherBegins,
         OtherEnds, Completes, OtherInvites, OtherRemoves, ServerOnly, histVars
  <2>4. CASE UNCHANGED vars
    BY <2>4 DEF vars, tabVars, histVars
  <2> QED
    BY <2>1, <2>2, <2>3, <2>4 DEF Next
<1> QED
  BY <1>1

LEMMA AlwaysKnows ==
  ASSUME ButtonsWait
  PROVE  Spec => [](TypeOK /\ CallsName /\ (~blipped => LinksKnow))
<1> DEFINE Inv == ~blipped => LinksKnow
<1>1. TypeOK /\ CallsName /\ Inv /\ [Next]_vars => Inv'
  BY LinksStep, BlipStays DEF Known
<1>2. Init => Inv
  BY LinksInit
<1> QED
  BY <1>1, <1>2, InitTyped, Typed, PTL DEF Spec

\* While the buttons wait for the operation they started, a tab that shows its
\* microphone on is linked at the server to the session it shows, for any number
\* of sessions, events on their way and operations that overlap with a join.
THEOREM MicIsLinked ==
  ASSUME ButtonsWait
  PROVE  Spec => []MicMeansLinked
<1>1. ASSUME TypeOK, CallsName, ~blipped => LinksKnow
      PROVE  MicMeansLinked
  <2>1. ASSUME view.mic, askedIn = view.id, calls = {}, ~blipped
        PROVE  link = view.id
    <3>1. LinksKnow /\ ViewKnows /\ view.id \in Sids
      BY <1>1, <2>1 DEF LinksKnow, TypeOK, Sids
    <3>2. ~InFlight("leave", {"ok"}) /\ ~InFlight("stop", {"ok"})
      BY <2>1 DEF InFlight
    <3>3. view.id # None
      BY <2>1, <3>1 DEF ViewKnows, Idle
    <3>4. CASE view.id \in Others
      BY <3>1, <3>2, <3>4 DEF ViewKnows
    <3>5. CASE view.id \in Own
      <4>1. status[view.id] \in {"recording", "over", "done"}
        BY <1>1, <2>1, <3>1, <3>5, Names DEF LinksKnow, TypeOK
      <4>2. status[view.id] = "recording" => view.status = "recording"
        BY <2>1, <3>1, <3>3, <3>5 DEF ViewKnows, Live
      <4> QED
        BY <3>1, <3>2, <3>5, <4>1, <4>2 DEF ViewKnows, Over
    <3> QED
      BY <3>1, <3>3, <3>4, <3>5, Names DEF Sids
  <2> QED
    BY <2>1 DEF MicMeansLinked
<1> QED
  BY <1>1, AlwaysKnows, PTL

\* While the buttons wait, a stop is refused only where the session is over
\* already, by whichever way the owner came into it.
THEOREM RefusedStopsAreOver ==
  ASSUME ButtonsWait
  PROVE  Spec => []RefusedStopIsOver
<1>1. ASSUME TypeOK, CallsName, ~blipped => LinksKnow
      PROVE  RefusedStopIsOver
  BY <1>1 DEF RefusedStopIsOver, LinksKnow, CallKnows, StopKnows, Over
<1> QED
  BY <1>1, AlwaysKnows, PTL

-----------------------------------------------------------------------------
(* The audio.                                                              *)

Heeds == Known /\ AudioKnows

\* A link left on a session of others that is over stays there, and no session
\* of the user begins.
LEMMA StrandedStays ==
  ASSUME ButtonsWait, Known, Stranded, [Next]_vars, ~blipped'
  PROVE  Stranded' /\ \A s \in Own : status'[s] = "recording" => status[s] = "recording"
<1>0. /\ TypeOK /\ CallsName /\ LinksKnow /\ ViewKnows /\ \A c \in calls : CallKnows(c)
      /\ link \in Others /\ link \in Sessions /\ link \notin Own /\ link # None
      /\ view.id # link
      /\ \A c \in calls : c.kind # "leave" /\ (c.kind = "join" => c.step # "ok")
  BY CallFacts, Names DEF Known, LinksKnow, Stranded, InFlight
<1>g. ASSUME link' = link, view'.id # link,
             \A c \in calls' : c.kind # "leave" /\ (c.kind = "join" => c.step # "ok"),
             Over(link)'
      PROVE  Stranded'
  BY <1>0, <1>g DEF Stranded, InFlight
<1>h. ASSUME UNCHANGED <<status, link>>, view'.id # link,
             \A c \in calls' : c.kind # "leave" /\ (c.kind = "join" => c.step # "ok")
      PROVE  Stranded' /\ \A s \in Own : status'[s] = "recording" => status[s] = "recording"
  BY <1>g, <1>h DEF Stranded, Over
<1>i. ASSUME UNCHANGED <<status, link, calls>>, view'.id \in {view.id, None} \cup Own
      PROVE  Stranded' /\ \A s \in Own : status'[s] = "recording" => status[s] = "recording"
  BY <1>0, <1>h, <1>i
<1>v. /\ ([view EXCEPT !.mic = FALSE]).id = view.id /\ ([view EXCEPT !.mic = TRUE]).id = view.id
      /\ ([view EXCEPT !.status = "recording"]).id = view.id /\ Idle.id = None
  BY <1>0 DEF TypeOK, Idle
<1>1. CASE Audio
  BY <1>1, <1>i DEF Audio, tabVars, serverVars
<1>2. CASE User
  <2>1. CASE StartRecording
    <3>1. /\ calls' = calls \cup {Call("create", None, None, "sent")}
          /\ UNCHANGED <<view, status, link>>
      BY <2>1 DEF StartRecording, serverVars
    <3> QED
      BY <1>0, <1>h, <3>1, FieldsOfCall
  <2>2. CASE ResumeMic \/ StopMic
    <3>1. UNCHANGED <<calls, status, link>> /\ view'.id = view.id
      BY <1>v, <2>2 DEF ResumeMic, StopMic, serverVars
    <3> QED
      BY <1>i, <3>1
  <2>3. CASE StartMic
    <3>1. /\ \E was, step : calls' = calls \cup {Call("mic", view.id, was, step)}
          /\ UNCHANGED <<view, status, link>>
      BY <2>3 DEF StartMic, serverVars
    <3> QED
      BY <1>0, <1>h, <3>1, FieldsOfCall
  <2>4. CASE StopRecording
    <3>1. /\ \E was, step : calls' = calls \cup {Call("stop", view.id, was, step)}
          /\ UNCHANGED <<status, link>> /\ view'.id = view.id
      BY <1>v, <2>4 DEF StopRecording, serverVars
    <3> QED
      BY <1>0, <1>h, <3>1, FieldsOfCall
  <2>5. ~LeaveSession
    <3>1. ASSUME LeaveSession
          PROVE  FALSE
      <4>1. view.id \in Others
        BY <1>0, <3>1, Names DEF LeaveSession, TypeOK, ViewKnows
      <4> QED
        BY <1>0, <4>1 DEF ViewKnows, InFlight
    <3> QED
      BY <3>1
  <2>6. ASSUME NEW s \in Sessions, JoinSession(s)
        PROVE  Stranded' /\ \A t \in Own : status'[t] = "recording" => status[t] = "recording"
    <3>1. UNCHANGED <<status, link>>
      BY <2>6 DEF JoinSession, serverVars
    <3>2. CASE AskToJoin(s)
      <4>1. calls' = calls \cup {Call("join", s, None, "sent")} /\ view' = view
        BY <3>2 DEF AskToJoin
      <4> QED
        BY <1>0, <1>h, <3>1, <4>1, FieldsOfCall
    <3>3. CASE EnterOwnNew(s) /\ s \in Own
      <4>1. calls' = calls /\ view'.id \in Own
        BY <3>3 DEF EnterOwnNew
      <4> QED
        BY <1>i, <3>1, <4>1
    <3> QED
      BY <2>6, <3>2, <3>3 DEF JoinSession, EnterOrAsk
  <2> QED
    BY <1>2, <2>1, <2>2, <2>3, <2>4, <2>5, <2>6 DEF User
<1>3. CASE AutoJoin
  <2>1. PICK s \in member \ ended :
          IF s \in Own THEN EnterOrAsk(s) ELSE UNCHANGED <<recVars, view, subVars, ended, calls>>
    BY <1>3 DEF AutoJoin
  <2>2. UNCHANGED <<status, link>>
    BY <1>3 DEF AutoJoin, serverVars
  <2>3. CASE AskToJoin(s)
    <3>1. calls' = calls \cup {Call("join", s, None, "sent")} /\ view' = view
      BY <2>3 DEF AskToJoin
    <3> QED
      BY <1>0, <1>h, <2>2, <3>1, FieldsOfCall
  <2>4. CASE EnterOwnNew(s) /\ s \in Own
    <3>1. calls' = calls /\ view'.id \in Own
      BY <2>4 DEF EnterOwnNew
    <3> QED
      BY <1>i, <2>2, <3>1
  <2> QED
    BY <1>i, <2>1, <2>2, <2>3, <2>4 DEF EnterOrAsk
<1>4. ASSUME NEW c \in calls, ServerCall(c)
      PROVE  Stranded' /\ \A s \in Own : status'[s] = "recording" => status[s] = "recording"
  <2>1. PICK step \in {"ok", "failed"} : \A x \in calls' : x \in calls \/ (x.kind = c.kind /\ x.step = step)
    <3>1. \A x \in At(c, "ok") : x \in calls \/ (x.kind = c.kind /\ x.step = "ok")
      BY <1>0, AtOther
    <3>2. \A x \in At(c, "failed") : x \in calls \/ (x.kind = c.kind /\ x.step = "failed")
      BY <1>0, AtOther
    <3>3. \A s : ([c EXCEPT !.s = s, !.step = "ok"]).kind = c.kind /\ ([c EXCEPT !.s = s, !.step = "ok"]).step = "ok"
      BY <1>0, CallFacts DEF Calls
    <3>4. calls' = At(c, "ok") \/ calls' = At(c, "failed")
          \/ \E s : calls' = (calls \ {c}) \cup {[c EXCEPT !.s = s, !.step = "ok"]}
      BY <1>0, <1>4 DEF ServerCall, SessionCreated, SessionBegun, SessionStopped, SessionLeft, SessionJoined
    <3> QED
      BY <3>1, <3>2, <3>3, <3>4
  <2>2. view' = view /\ link' = link
        /\ (c.kind = "join" => calls' = At(c, "failed"))
        /\ \A s \in Sessions : status'[s] = status[s] \/ (s \in Own /\ status'[s] \in {"new", "over"})
    <3>1. ~(link \in Own) /\ \A s \in Sessions : \A st : [status EXCEPT ![s] = st][s] = st
      BY <1>0 DEF TypeOK
    <3>2. c.kind = "stop" => StopKnows(c)
      BY <1>0 DEF CallKnows
    <3>3. CASE SessionCreated(c)
      BY <1>0, <3>3, Names DEF SessionCreated, TypeOK
    <3>4. CASE SessionBegun(c)
      BY <1>0, <3>4 DEF SessionBegun
    <3>5. CASE SessionStopped(c)
      BY <1>0, <3>2, <3>5, Names DEF SessionStopped, StopKnows, TypeOK
    <3>6. CASE SessionLeft(c)
      BY <1>0, <3>6 DEF SessionLeft
    <3>7. CASE SessionJoined(c)
      BY <1>0, <3>7 DEF SessionJoined
    <3> QED
      BY <1>4, <3>3, <3>4, <3>5, <3>6, <3>7 DEF ServerCall
  <2>3. \A x \in calls' : x.kind # "leave" /\ (x.kind = "join" => x.step # "ok")
    <3>1. c.kind = "join" => \A x \in calls' : x \in calls \/ x.step = "failed"
      BY <1>0, <2>2, AtOther
    <3> QED
      BY <1>0, <2>1, <3>1
  <2>4. Over(link)'
    BY <1>0, <2>2 DEF Stranded, Over
  <2> QED
    BY <1>0, <1>g, <2>2, <2>3, <2>4, Names
<1>5. ASSUME NEW c \in calls, Continue(c)
      PROVE  Stranded' /\ \A s \in Own : status'[s] = "recording" => status[s] = "recording"
  <2>1. UNCHANGED <<status, link>>
    BY <1>5 DEF Continue, RecordingStarted, MicBegun, CaptureStarted, StopFlushed, StoppedOrLeft,
                TabJoined, CallFailed, serverVars
  <2>2. \A x \in calls' : x \in calls \/ x.kind \in {"mic", "stop"}
    <3>1. \A step \in Steps : \A x \in At(c, step) : x \in calls \/ x.kind = c.kind
      BY <1>0, AtOther
    <3>2. \/ calls' = calls \ {c}
          \/ c.kind \in {"mic", "stop"} /\ \E step \in Steps : calls' = At(c, step)
      BY <1>5 DEF Continue, RecordingStarted, MicBegun, CaptureStarted, StopFlushed, StoppedOrLeft,
                  TabJoined, CallFailed, Steps
    <3> QED
      BY <3>1, <3>2
  <2>3. view'.id # link
    <3>1. CASE RecordingStarted(c)
      BY <1>0, <3>1 DEF RecordingStarted, CallKnows, CreateKnows
    <3>2. CASE MicBegun(c) \/ CaptureStarted(c) \/ StoppedOrLeft(c) \/ CallFailed(c)
      BY <1>0, <1>v, <3>2 DEF MicBegun, CaptureStarted, StoppedOrLeft, CallFailed
    <3>3. ASSUME NEW u \in uploads, StopFlushed(c, u)
          PROVE  view'.id # link
      BY <1>0, <1>v, <3>3 DEF StopFlushed
    <3>4. ~TabJoined(c)
      BY <1>0 DEF TabJoined
    <3> QED
      BY <1>5, <3>1, <3>2, <3>3, <3>4 DEF Continue
  <2> QED
    BY <1>0, <1>h, <2>1, <2>2, <2>3
<1>6. CASE Deliver
  <2>1. UNCHANGED <<status, link, calls>> /\ view'.id \in {view.id, None}
    BY <1>6, <1>v DEF Deliver, Unheard, HandleSessionStarted, HandleSessionEnded, HandleUploadCompleted,
       HandleUserRemovedFromSession, ResetToIdle, serverVars
  <2> QED
    BY <1>i, <2>1
<1>7. CASE Environment
  <2>1. ~Reconnect /\ ~Disconnect /\ ~Reload
    BY DEF Reconnect, Disconnect, Reload, ConnectionGone
  <2>2. ASSUME NEW i \in Captures, TrackEnds(i)
        PROVE  UNCHANGED <<status, link, calls>> /\ view'.id = view.id
    BY <1>v, <2>2 DEF TrackEnds, serverVars
  <2>3. ASSUME NEW s \in Sessions,
               \/ OtherBegins(s) \/ OtherEnds(s) \/ Completes(s)
               \/ OtherInvites(s) \/ OtherRemoves(s)
        PROVE  Stranded' /\ \A t \in Own : status'[t] = "recording" => status[t] = "recording"
    <3>1. UNCHANGED <<view, calls, link>>
      BY <2>3 DEF OtherBegins, OtherEnds, Completes, OtherInvites, OtherRemoves, ServerOnly
    <3>2. /\ status[link] \in {"over", "done"}
          /\ \A t \in Sessions : \/ status'[t] = status[t]
                                 \/ t \in Others /\ status[t] = "new"
                                 \/ status'[t] \in {"over", "done"}
      BY <1>0, <2>3 DEF OtherBegins, OtherEnds, Completes, OtherInvites, OtherRemoves, TypeOK,
                        Stranded, Over
    <3>3. Over(link)'
      BY <1>0, <3>1, <3>2 DEF Over
    <3> QED
      BY <1>0, <1>g, <3>1, <3>2, <3>3, Names
  <2> QED
    BY <1>7, <1>i, <2>1, <2>2, <2>3 DEF Environment
<1>8. CASE UNCHANGED vars
  BY <1>8, <1>i DEF vars, tabVars, serverVars
<1> QED
  BY <1>1, <1>2, <1>3, <1>4, <1>5, <1>6, <1>7, <1>8 DEF Next

SpokenThen(chunks, s) == \A c \in chunks : spokenIn'[c] \in {s, None}

\* Only a chunk that is captured is spoken, once.
LEMMA SpokenOnce ==
  ASSUME [Next]_vars
  PROVE  spokenIn' = spokenIn \/ (ChunkStep /\ UNCHANGED <<tabVars, serverVars>>)
<1>1. CASE Audio
  BY <1>1 DEF Audio, ChunkStep, TimerFlush, UploadArrives, UploadAnswered
<1>2. CASE User
  BY <1>2 DEF User, StartRecording, StopRecording, LeaveSession, ResumeMic, StartMic, StopMic,
              JoinSession, EnterOrAsk, EnterOwnNew, AskToJoin, recVars
<1>3. CASE AutoJoin
  BY <1>3 DEF AutoJoin, EnterOrAsk, EnterOwnNew, AskToJoin, recVars
<1>4. ASSUME NEW c \in calls, ServerCall(c) \/ Continue(c)
      PROVE  spokenIn' = spokenIn
  BY <1>4 DEF ServerCall, Continue, SessionCreated, SessionBegun, SessionStopped, SessionLeft,
       SessionJoined, RecordingStarted, MicBegun, CaptureStarted, StopFlushed, StoppedOrLeft,
       TabJoined, CallFailed, recVars
<1>5. CASE Deliver
  BY <1>5 DEF Deliver, Unheard, HandleSessionStarted, HandleSessionEnded, HandleUploadCompleted,
       HandleUserRemovedFromSession, recVars
<1>6. CASE Environment
  BY <1>6 DEF Environment, TrackEnds, Reconnect, Disconnect, Reload, OtherBegins, OtherEnds,
       Completes, OtherInvites, OtherRemoves, ServerOnly, recVars
<1>7. CASE UNCHANGED vars
  BY <1>7 DEF vars, recVars
<1> QED
  BY <1>1, <1>2, <1>3, <1>4, <1>5, <1>6, <1>7 DEF Next

LEMMA SpokenStays ==
  ASSUME TypeOK, [Next]_vars, NEW chunks \in SUBSET Chunks, NEW s \in Sids, SpokenIn(chunks, s)
  PROVE  SpokenThen(chunks, s)
<1>1. CASE spokenIn' = spokenIn
  BY <1>1 DEF SpokenIn, SpokenThen
<1>2. CASE ChunkStep
  <2>1. PICK d \in Chunks : Chunk(d, view.id)
    BY <1>2 DEF ChunkStep
  <2>2. spokenIn[d] = "unspoken" /\ \A c \in Chunks \ {d} : spokenIn'[c] = spokenIn[c]
    BY <2>1 DEF Chunk, TypeOK, RecorderTypeOK
  <2>3. d \notin chunks
    BY <2>2, RecorderAssumption DEF SpokenIn, Sids
  <2> QED
    BY <2>2, <2>3 DEF SpokenIn, SpokenThen
<1> QED
  BY <1>1, <1>2, SpokenOnce

\* What is uploaded of the buffer is of the session shown, or of one that cannot
\* begin any more.
LEMMA BufferIsOwn ==
  ASSUME ButtonsWait, Heeds, [Next]_vars, ~blipped',
         NEW chunks \in SUBSET rec.buffer, chunks # {}, view.id # None
  PROVE  \/ SpokenThen(chunks, view.id)
         \/ Stranded' /\ view.id \in Own /\ status'[view.id] # "recording"
<1>0. /\ TypeOK /\ Known /\ LinksKnow /\ ViewKnows /\ \A c \in calls : CallKnows(c)
      /\ BufferKnows /\ view.id \in Sids /\ rec.buffer \subseteq Chunks
  BY TypesOfRecorder DEF Heeds, Known, LinksKnow, AudioKnows, Recorders
<1>1. CASE SpokenIn(rec.buffer, view.id)
  <2>1. SpokenIn(chunks, view.id)
    BY <1>1 DEF SpokenIn
  <2> QED
    BY <1>0, <2>1, SpokenStays
<1>2. CASE Stranded
  <2>0. link \notin Own /\ link # view.id /\ ~InFlight("leave", {"ok"})
    BY <1>2, Names DEF Stranded, InFlight, Steps
  <2>1. view.id \in Own
    BY <1>0, <2>0, Names DEF ViewKnows, Sids
  <2>2. ~InFlight("stop", {"ok"})
    BY <1>0 DEF BufferKnows, Silent, InFlight, Steps
  <2>3. ~(\E c \in calls : c.kind = "mic" /\ c.step = "ok")
    BY <1>0, <2>0 DEF CallKnows, MicKnows
  <2>4. status[view.id] # "recording"
    BY <1>0, <2>0, <2>1, <2>2, <2>3 DEF ViewKnows, Live
  <2> QED
    BY <1>0, <1>2, <2>1, <2>4, StrandedStays
<1> QED
  BY <1>0, <1>1, <1>2 DEF BufferKnows

\* What is in flight stays what it is, or is of the tab.
LEMMA UploadsOfTab ==
  ASSUME ButtonsWait, Heeds, [Next]_vars, ~blipped', NEW u \in Uploads, OfTab(u)
  PROVE  UploadKnows(u)'
<1>0. TypeOK /\ Known /\ u.session \in Sessions /\ u.session \in Sids /\ u.chunks \in SUBSET Chunks
  BY DEF Heeds, Known, Uploads, Sids
<1>1. ASSUME SpokenThen(u.chunks, u.session)
      PROVE  UploadKnows(u)'
  BY <1>1 DEF SpokenThen, UploadKnows, SpokenIn
<1>2. ASSUME Stranded' /\ u.session \in Own /\ status'[u.session] # "recording"
      PROVE  UploadKnows(u)'
  BY <1>2 DEF UploadKnows
<1>3. ASSUME NEW v \in uploads, v.session = u.session, v.chunks = u.chunks
      PROVE  UploadKnows(u)'
  <2>1. SpokenIn(u.chunks, u.session) \/ (Stranded /\ u.session \in Own /\ status[u.session] # "recording")
    BY <1>3 DEF Heeds, AudioKnows, UploadKnows
  <2>2. CASE SpokenIn(u.chunks, u.session)
    BY <1>0, <1>1, <2>2, SpokenStays
  <2>3. CASE Stranded /\ u.session \in Own /\ status[u.session] # "recording"
    BY <1>0, <1>2, <2>3, StrandedStays
  <2> QED
    BY <2>1, <2>2, <2>3
<1>4. ASSUME u.session = view.id, u.chunks \subseteq rec.buffer, u.chunks # {}
      PROVE  UploadKnows(u)'
  BY <1>0, <1>1, <1>2, <1>4, BufferIsOwn, Names
<1> QED
  BY <1>3, <1>4 DEF OfTab

LEMMA AudioTravels ==
  ASSUME ButtonsWait, Heeds, [Next]_vars, ~blipped'
  PROVE  /\ \A u \in uploads' : UploadKnows(u)'
         /\ \A s \in Sessions, q \in Seqs : SpokenThen(stored'[s][q].chunks, s)
<1>0. /\ TypeOK /\ rec \in Recorders /\ uploads \subseteq Uploads /\ view.id \in Sids
      /\ rec.buffer \subseteq Chunks
      /\ \A s \in Sessions, q \in Seqs :
           stored[s][q].chunks \in SUBSET Chunks /\ SpokenIn(stored[s][q].chunks, s)
      /\ \A s \in Sessions : s \in Sids
      /\ \A u \in uploads : u \in Uploads
  BY TypesOfRecorder DEF Heeds, Known, AudioKnows, TypeOK, RecorderTypeOK, Recorders, Sids
<1>1. \A u \in uploads : OfTab(u)
  BY DEF OfTab
<1>2. ASSUME uploads' \subseteq Uploads, \A u \in uploads' : OfTab(u)
      PROVE  \A u \in uploads' : UploadKnows(u)'
  BY <1>2, UploadsOfTab
<1>3. ASSUME \A s \in Sessions, q \in Seqs : stored'[s][q].chunks = stored[s][q].chunks
      PROVE  \A s \in Sessions, q \in Seqs : SpokenThen(stored'[s][q].chunks, s)
  <2> TAKE s \in Sessions, q \in Seqs
  <2>1. SpokenThen(stored[s][q].chunks, s)
    BY <1>0, SpokenStays
  <2> QED
    BY <1>3, <2>1
<1>4. CASE Rests \/ ChunkStep
  BY <1>0, <1>1, <1>2, <1>3, <1>4 DEF Rests, ChunkStep, Chunk
<1>5. CASE FlushStep
  <2>1. PICK awaited \in BOOLEAN : uploads' = uploads \cup FlushUpload(rec, view.id, awaited) /\ stored' = stored
    BY <1>5 DEF FlushStep
  <2>2. FlushUpload(rec, view.id, awaited) \subseteq Uploads
    BY <1>0, FlushTyped
  <2>3. \A u \in FlushUpload(rec, view.id, awaited) : OfTab(u)
    BY DEF FlushUpload, Flushes, OfTab
  <2> QED
    BY <1>0, <1>1, <1>2, <1>3, <2>1, <2>2, <2>3
<1>6. CASE ResetStep
  <2>1. \A s \in Sessions, q \in Seqs : stored'[s][q].chunks = stored[s][q].chunks
    <3> TAKE s \in Sessions, q \in Seqs
    <3>1. stored'[s][q] = [stored[s][q] EXCEPT !.current = FALSE]
      BY <1>6 DEF ResetStep, RestartedStore
    <3>2. stored[s][q] \in Segments
      BY <1>0 DEF TypeOK, RecorderTypeOK, Segments
    <3> QED
      BY <3>1, <3>2 DEF Segments
  <2> QED
    BY <1>2, <1>3, <1>6, <2>1 DEF ResetStep
<1>7. ASSUME NEW u \in uploads, UploadAnswered(u)
      PROVE  /\ \A v \in uploads' : UploadKnows(v)'
             /\ \A s \in Sessions, q \in Seqs : SpokenThen(stored'[s][q].chunks, s)
  BY <1>0, <1>1, <1>2, <1>3, <1>7 DEF UploadAnswered
<1>8. ASSUME NEW u \in uploads, UploadArrives(u, {s \in member : status[s] = "recording"})
      PROVE  /\ \A v \in uploads' : UploadKnows(v)'
             /\ \A s \in Sessions, q \in Seqs : SpokenThen(stored'[s][q].chunks, s)
  <2>1. \A step : LET v == [u EXCEPT !.step = step] IN v.session = u.session /\ v.chunks = u.chunks
    BY <1>0 DEF Uploads
  <2>2. \A step \in {"accepted", "refused"} : [u EXCEPT !.step = step] \in Uploads
    BY <1>0 DEF Uploads
  <2>3. \A step \in {"accepted", "refused"} : OfTab([u EXCEPT !.step = step])
    BY <2>1 DEF OfTab
  <2>4. \A v \in uploads' : UploadKnows(v)'
    BY <1>0, <1>1, <1>2, <1>8, <2>2, <2>3 DEF UploadArrives
  <2>5. CASE stored' = stored
    BY <1>3, <2>4, <2>5
  <2>6. CASE /\ u.session \in member /\ status[u.session] = "recording"
             /\ stored' = [stored EXCEPT ![u.session][u.seq] =
                             [chunks |-> u.chunks, current |-> u.current]]
    <3>1. SpokenIn(u.chunks, u.session)
      BY <2>6 DEF Heeds, AudioKnows, UploadKnows
    <3>2. SpokenThen(u.chunks, u.session)
      BY <1>0, <3>1, SpokenStays DEF Uploads
    <3>3. ASSUME NEW s \in Sessions, NEW q \in Seqs
          PROVE  \/ stored'[s][q] = stored[s][q]
                 \/ s = u.session /\ stored'[s][q].chunks = u.chunks
      BY <1>0, <2>6 DEF TypeOK, RecorderTypeOK
    <3>4. ASSUME NEW s \in Sessions, NEW q \in Seqs
          PROVE  SpokenThen(stored'[s][q].chunks, s)
      <4>1. SpokenThen(stored[s][q].chunks, s)
        BY <1>0, SpokenStays
      <4> QED
        BY <3>2, <3>3, <4>1
    <3> QED
      BY <2>4, <3>4
  <2> QED
    BY <1>8, <2>4, <2>5, <2>6 DEF UploadArrives
<1> QED
  BY <1>0, <1>4, <1>5, <1>6, <1>7, <1>8, RecorderStep DEF UploadStep

-----------------------------------------------------------------------------
(* The buffer.                                                             *)

\* What Heeds says, for the steps that follow.
LEMMA HeedFacts ==
  ASSUME Heeds
  PROVE  /\ TypeOK /\ CallsName /\ Known /\ LinksKnow /\ ViewKnows /\ OneAtATime
         /\ \A c \in calls : CallKnows(c)
         /\ BufferKnows /\ rec \in Recorders /\ cap \in Captured /\ view.id \in Sids
         /\ rec.buffer \subseteq Chunks
BY TypesOfRecorder DEF Heeds, Known, LinksKnow, AudioKnows, TypeOK, RecorderTypeOK, Recorders, Captured

LEMMA BufferStays ==
  ASSUME ButtonsWait, Heeds, [Next]_vars, ~blipped',
         NEW chunks \in SUBSET rec.buffer, NEW s \in Sids, SpokenIn(rec.buffer, s) \/ Stranded
  PROVE  SpokenThen(chunks, s) \/ Stranded'
<1>1. CASE SpokenIn(rec.buffer, s)
  <2>1. SpokenIn(chunks, s) /\ chunks \in SUBSET Chunks
    BY <1>1, HeedFacts DEF SpokenIn
  <2> QED
    BY <2>1, SpokenStays, HeedFacts
<1>2. CASE Stranded
  BY <1>2, StrandedStays, HeedFacts
<1> QED
  BY <1>1, <1>2

\* A call of after the step that was in flight before, as far as the recorder is
\* concerned.
Follows(d) ==
  \/ d.kind = "join" \/ (d.kind = "stop" /\ d.step = "flush")
  \/ \E c \in calls :
       /\ c.kind = d.kind
       /\ d.kind = "mic" /\ d.step \in {"ok", "permission"} => c.step \in {"ok", "permission"}
       /\ d.kind = "stop" => c.step # "flush"
       /\ c.step \in Steps

\* Steps that collect nothing and show the same session.
LEMMA QuietAudio ==
  ASSUME ButtonsWait, Heeds, [Next]_vars, ~blipped',
         rec'.buffer \subseteq rec.buffer, cap'.live \subseteq cap.live, cap'.live \subseteq {cap'.ref},
         view'.id = view.id, \A d \in calls' : Follows(d),
         view.id \in Own /\ status'[view.id] \in {"over", "done"} => Over(view.id)
  PROVE  BufferKnows'
<1>0. BufferKnows /\ view.id \in Sids /\ None \in Sids
  BY HeedFacts DEF Sids
<1>1. ASSUME Silent PROVE Silent'
  BY <1>1 DEF Silent
<1>2. /\ InFlight("mic", Steps)' => InFlight("mic", Steps)
      /\ InFlight("leave", Steps)' => InFlight("leave", Steps)
      /\ InFlight("stop", Steps \ {"flush"})' => InFlight("stop", Steps \ {"flush"})
      /\ InFlight("create", Steps)' => InFlight("create", Steps)
      /\ InFlight("mic", {"ok", "permission"})' => InFlight("mic", {"ok", "permission"})
  BY DEF Follows, InFlight
<1>3. /\ (InFlight("mic", Steps) => cap.live = {})'
      /\ (InFlight("leave", Steps) \/ InFlight("stop", Steps \ {"flush"}) => Silent)'
      /\ (view.id \in Own /\ Over(view.id) => Silent /\ ~InFlight("mic", {"ok", "permission"}))'
  BY <1>0, <1>1, <1>2 DEF BufferKnows, Over
<1>4. (InFlight("create", Steps) => /\ SpokenIn(rec.buffer, None) \/ Stranded
                                    /\ view.id # None => cap.live = {})'
  <2>1. ASSUME InFlight("create", Steps)'
        PROVE  SpokenThen(rec'.buffer, None) \/ Stranded'
    BY <1>0, <1>2, <2>1, BufferStays DEF BufferKnows
  <2> QED
    BY <1>0, <1>2, <2>1 DEF BufferKnows, SpokenThen, SpokenIn
<1>5. (SpokenIn(rec.buffer, view.id) \/ Stranded)'
  <2>1. SpokenThen(rec'.buffer, view.id) \/ Stranded'
    BY <1>0, BufferStays DEF BufferKnows
  <2> QED
    BY <2>1 DEF SpokenThen, SpokenIn
<1> QED
  BY <1>3, <1>4, <1>5 DEF BufferKnows

\* Steps after which nothing is collected or captured.
LEMMA SilentAudio ==
  ASSUME rec'.buffer = {}, cap'.live = {},
         view'.id \in Own /\ status'[view'.id] \in {"over", "done"}
           => ~InFlight("mic", {"ok", "permission"})'
  PROVE  BufferKnows'
BY DEF BufferKnows, Silent, SpokenIn, Over

\* captureRef.current?.stop() stops all there is.
LEMMA StopSilences ==
  ASSUME Heeds
  PROVE  /\ CaptureStopped.live = {}
         /\ \A i \in cap.live : Silenced(i).live = {}
         /\ \A r, us, sid : StopAndReset(r, us, sid) => rec'.buffer = {} /\ cap'.live = {}
<1>1. cap \in Captured /\ cap.live \subseteq {cap.ref}
  BY HeedFacts DEF BufferKnows
<1>2. \A i \in cap.live : Silenced(i).live = {}
  BY <1>1 DEF Silenced, Captured
<1>3. CaptureStopped.live = {}
  BY <1>1, <1>2 DEF CaptureStopped, StopsCapture, Captured
<1>4. ASSUME NEW r, NEW us, NEW sid, StopAndReset(r, us, sid)
      PROVE  rec'.buffer = {} /\ cap'.live = {}
  <2>1. rec' = EmptyRecorder /\ cap' = CaptureStopped
    BY <1>4 DEF StopAndReset, ResetSegmentState
  <2>2. rec'.buffer = {}
    BY <2>1 DEF EmptyRecorder
  <2> QED
    BY <1>3, <2>1, <2>2
<1> QED
  BY <1>2, <1>3, <1>4

LEMMA FlushedBuffer ==
  ASSUME Heeds
  PROVE  /\ \A sid : Flushed(rec, sid).buffer = rec.buffer
         /\ \A accepted : Answered(rec, accepted).buffer \subseteq rec.buffer
BY HeedFacts DEF Flushed, Answered, Recorders

\* Calls that stay, go on or are one more.
LEMMA CallsFollow ==
  ASSUME Heeds
  PROVE  /\ \A c \in calls : Follows(c)
         /\ \A c \in calls, step \in Steps :
              /\ c.kind = "mic" /\ step \in {"ok", "permission"} => c.step \in {"ok", "permission"}
              /\ c.kind = "stop" => c.step # "flush"
              => \A d \in At(c, step) : Follows(d)
<1>0. TypeOK /\ CallsName
  BY HeedFacts
<1>1. \A c \in calls : c.step \in Steps
  BY <1>0, CallFacts
<1>2. \A c \in calls : Follows(c)
  BY <1>1 DEF Follows
<1>3. ASSUME NEW c \in calls, NEW step \in Steps,
             c.kind = "mic" /\ step \in {"ok", "permission"} => c.step \in {"ok", "permission"},
             c.kind = "stop" => c.step # "flush"
      PROVE  \A d \in At(c, step) : Follows(d)
  <2>1. PICK e : e.kind = c.kind /\ e.step = step /\ At(c, step) = (calls \ {c}) \cup {e}
    BY <1>0, AtOther
  <2>2. Follows(e)
    BY <1>1, <1>3, <2>1 DEF Follows
  <2> QED
    BY <1>2, <2>1, <2>2
<1> QED
  BY <1>2, <1>3

\* One more chunk: of the session shown, where nothing of the kind that stops,
\* leaves or asks for the microphone is in flight.
LEMMA ChunkBuffers ==
  ASSUME ButtonsWait, Heeds, [Next]_vars, ~blipped', NEW d \in Chunks, Chunk(d, view.id),
         UNCHANGED <<tabVars, serverVars>>
  PROVE  BufferKnows'
<1>0. /\ BufferKnows /\ view.id \in Sids /\ None \in Sids /\ TypeOK /\ rec \in Recorders
  BY HeedFacts DEF Sids
<1>1. cap' = cap /\ cap.live # {} /\ UNCHANGED <<calls, view, status>>
  BY DEF Chunk, tabVars, serverVars
<1>2. rec'.buffer = rec.buffer \cup {d} /\ spokenIn'[d] = view.id
  BY <1>0 DEF Chunk, Recorders, TypeOK, RecorderTypeOK
<1>3. ASSUME NEW s \in Sids, SpokenIn(rec.buffer, s) \/ Stranded, view.id \in {s, None}
      PROVE  (\A c \in rec'.buffer : spokenIn'[c] \in {s, None}) \/ Stranded'
  <2>1. SpokenThen(rec.buffer, s) \/ Stranded'
    BY <1>3, BufferStays
  <2> QED
    BY <1>2, <1>3, <2>1 DEF SpokenThen
<1>4. ~Silent
  BY <1>1 DEF Silent
<1>5. /\ ~InFlight("mic", Steps) /\ ~InFlight("leave", Steps) /\ ~InFlight("stop", Steps \ {"flush"})
      /\ ~(view.id \in Own /\ Over(view.id))
      /\ InFlight("create", Steps) => view.id = None
  BY <1>0, <1>1, <1>4 DEF BufferKnows
<1>6. /\ ~InFlight("mic", Steps)' /\ ~InFlight("leave", Steps)' /\ ~InFlight("stop", Steps \ {"flush"})'
      /\ ~(view.id \in Own /\ Over(view.id))'
      /\ InFlight("create", Steps)' => InFlight("create", Steps)
  BY <1>1, <1>5 DEF InFlight, Over
<1>7. (InFlight("create", Steps) => /\ SpokenIn(rec.buffer, None) \/ Stranded
                                    /\ view.id # None => cap.live = {})'
  BY <1>0, <1>1, <1>3, <1>5, <1>6 DEF BufferKnows, SpokenIn
<1>8. (SpokenIn(rec.buffer, view.id) \/ Stranded)'
  BY <1>0, <1>1, <1>3 DEF BufferKnows, SpokenIn
<1> QED
  BY <1>0, <1>1, <1>6, <1>7, <1>8 DEF BufferKnows

LEMMA AudioBuffers ==
  ASSUME ButtonsWait, Heeds, [Next]_vars, ~blipped', Audio
  PROVE  BufferKnows'
<1>0. BufferKnows /\ UNCHANGED <<tabVars, serverVars>>
  BY HeedFacts DEF Audio
<1>1. UNCHANGED <<calls, view, status>>
  BY <1>0 DEF tabVars, serverVars
<1>2. ASSUME rec'.buffer \subseteq rec.buffer, cap' = cap
      PROVE  BufferKnows'
  BY <1>0, <1>1, <1>2, QuietAudio, CallsFollow DEF BufferKnows, Over
<1>3. CASE TimerFlush(view.id)
  BY <1>2, <1>3, FlushedBuffer DEF TimerFlush
<1>4. ASSUME NEW u \in uploads, UploadArrives(u, {s \in member : status[s] = "recording"})
      PROVE  BufferKnows'
  BY <1>2, <1>4 DEF UploadArrives
<1>5. ASSUME NEW u \in uploads, UploadAnswered(u)
      PROVE  BufferKnows'
  BY <1>2, <1>5, FlushedBuffer DEF UploadAnswered
<1> QED
  BY <1>0, <1>3, <1>4, <1>5, ChunkBuffers DEF Audio

\* The buttons of the microphone, and a track that ends.
LEMMA ButtonBuffers ==
  ASSUME ButtonsWait, Heeds, [Next]_vars, ~blipped',
         ResumeMic \/ StopMic \/ \E i \in Captures : TrackEnds(i)
  PROVE  BufferKnows'
<1>0. /\ BufferKnows /\ TypeOK /\ cap \in Captured
      /\ \A mic : ([view EXCEPT !.mic = mic]).id = view.id
      /\ \A x : ([cap EXCEPT !.paused = x]).live = cap.live /\ ([cap EXCEPT !.paused = x]).ref = cap.ref
  BY HeedFacts DEF TypeOK, Captured
<1>1. ASSUME rec'.buffer = rec.buffer, UNCHANGED <<calls, status>>, view'.id = view.id,
             \/ cap'.live = cap.live /\ cap'.ref = cap.ref
             \/ cap'.live = {}
      PROVE  BufferKnows'
  BY <1>0, <1>1, QuietAudio, CallsFollow DEF BufferKnows, Over
<1>2. CASE ResumeMic
  BY <1>0, <1>1, <1>2 DEF ResumeMic, serverVars
<1>3. CASE StopMic
  <2>1. rec'.buffer = rec.buffer /\ UNCHANGED <<calls, status>> /\ view'.id = view.id
    BY <1>0, <1>3, FlushedBuffer DEF StopMic, serverVars
  <2>2. cap'.live = cap.live /\ cap'.ref = cap.ref
    BY <1>0, <1>3 DEF StopMic
  <2> QED
    BY <1>1, <2>1, <2>2
<1>4. ASSUME NEW i \in Captures, TrackEnds(i)
      PROVE  BufferKnows'
  <2>1. rec'.buffer = rec.buffer /\ UNCHANGED <<calls, status>> /\ view'.id = view.id
    BY <1>0, <1>4, FlushedBuffer DEF TrackEnds, serverVars
  <2>2. cap'.live = {}
    BY <1>4, StopSilences DEF TrackEnds
  <2> QED
    BY <1>1, <2>1, <2>2
<1> QED
  BY <1>2, <1>3, <1>4

LEMMA StartBuffers ==
  ASSUME ButtonsWait, Heeds, [Next]_vars, ~blipped', StartRecording
  PROVE  BufferKnows'
<1>0. /\ BufferKnows /\ None \in Sids /\ None \notin Own /\ view.id = None
  BY HeedFacts, Names DEF Sids, StartRecording
<1>1. UNCHANGED <<rec, cap, spokenIn, view>> /\ calls' = calls \cup {Call("create", None, None, "sent")}
  BY DEF StartRecording, recVars
<1>2. \A steps : /\ InFlight("mic", steps)' => InFlight("mic", steps)
                 /\ InFlight("leave", steps)' => InFlight("leave", steps)
                 /\ InFlight("stop", steps)' => InFlight("stop", steps)
  BY <1>1, FieldsOfCall DEF InFlight
<1>3. SpokenThen(rec.buffer, None) \/ Stranded'
  BY <1>0, BufferStays DEF BufferKnows
<1>4. /\ (InFlight("mic", Steps) => cap.live = {})'
      /\ (InFlight("leave", Steps) \/ InFlight("stop", Steps \ {"flush"}) => Silent)'
  BY <1>0, <1>1, <1>2 DEF BufferKnows, Silent
<1>5. (SpokenIn(rec.buffer, None) \/ Stranded)'
  BY <1>1, <1>3 DEF SpokenThen, SpokenIn
<1> QED
  BY <1>0, <1>1, <1>4, <1>5 DEF BufferKnows

LEMMA AskBuffers ==
  ASSUME ButtonsWait, Heeds, [Next]_vars, ~blipped', StartMic
  PROVE  BufferKnows'
<1>0. /\ TypeOK /\ LinksKnow /\ ViewKnows /\ BufferKnows /\ None \in Sids /\ cap \in Captured
      /\ view.id # None /\ view.id \in Sids
  BY HeedFacts DEF Sids, StartMic
<1>1. /\ UNCHANGED <<rec, cap, spokenIn, view, status>>
      /\ \E was, step :
           /\ calls' = calls \cup {Call("mic", view.id, was, step)}
           /\ view.owner => (view.status = "new" /\ step = "sent") \/ view.status = "recording"
  BY <1>0 DEF StartMic, recVars, serverVars, ViewKnows, Live
<1>2. PICK was, step : /\ calls' = calls \cup {Call("mic", view.id, was, step)}
                       /\ view.owner => (view.status = "new" /\ step = "sent") \/ view.status = "recording"
  BY <1>1
<1>3. calls = {}
  BY <1>0, Pressed DEF StartMic
<1>4. cap.live = {}
  BY <1>0, RecorderAssumption DEF StartMic, BufferKnows, Captured
<1>5. \A d \in calls' : d.kind = "mic" /\ d.step = step
  BY <1>2, <1>3, FieldsOfCall
<1>6. (view.id \in Own /\ Over(view.id) => Silent /\ ~InFlight("mic", {"ok", "permission"}))'
  <2>1. ASSUME view.id \in Own, Over(view.id)
        PROVE  Silent /\ step = "sent"
    <3>1. ~InFlight("stop", {"ok"})
      BY <1>3 DEF InFlight
    <3>2. view.status # "recording" /\ view.owner
      BY <1>0, <2>1, <3>1 DEF ViewKnows, Over
    <3> QED
      BY <1>0, <1>2, <2>1, <3>2 DEF BufferKnows
  <2> QED
    BY <1>1, <1>5, <2>1 DEF Silent, InFlight, Over
<1>7. SpokenThen(rec.buffer, view.id) \/ Stranded'
  BY <1>0, BufferStays DEF BufferKnows
<1>8. (SpokenIn(rec.buffer, view.id) \/ Stranded)'
  BY <1>1, <1>7 DEF SpokenThen, SpokenIn
<1>9. ~InFlight("leave", Steps)' /\ ~InFlight("stop", Steps \ {"flush"})' /\ ~InFlight("create", Steps)'
  BY <1>5 DEF InFlight
<1> QED
  BY <1>1, <1>4, <1>6, <1>8, <1>9 DEF BufferKnows

\* The presses that stop or leave: what waits for the flush changes nothing, what
\* does not has reset the recorder.
LEMMA EndBuffers ==
  ASSUME ButtonsWait, Heeds, [Next]_vars, ~blipped', StopRecording \/ LeaveSession
  PROVE  BufferKnows'
<1>0. /\ TypeOK /\ ViewKnows /\ BufferKnows /\ view.id \in Sids /\ view.id # None
      /\ \A mic : ([view EXCEPT !.mic = mic]).id = view.id
  BY HeedFacts DEF TypeOK, StopRecording, LeaveSession
<1>1. PICK kind, was, step :
           /\ kind \in {"stop", "leave"}
           /\ calls' = calls \cup {Call(kind, view.id, was, step)}
           /\ StopRecording => kind = "stop" /\ (Flushes(rec, view.id) => step = "flush")
  <2>1. CASE StopRecording
    <3> DEFINE step == IF Flushes(rec, view.id) THEN "flush" ELSE "sent"
    <3>1. PICK was : calls' = calls \cup {Call("stop", view.id, was, step)}
      BY <2>1 DEF StopRecording
    <3>2. Flushes(rec, view.id) => step = "flush"
      OBVIOUS
    <3> HIDE DEF step
    <3> QED
      BY <3>1, <3>2
  <2>2. CASE LeaveSession /\ ~StopRecording
    BY <2>2 DEF LeaveSession
  <2> QED
    BY <2>1, <2>2
<1>2. view'.id = view.id /\ status' = status
  BY <1>0 DEF StopRecording, LeaveSession, serverVars
<1>3. ASSUME StopAndReset(rec, uploads, view.id)
      PROVE  BufferKnows'
  <2>1. rec'.buffer = {} /\ cap'.live = {}
    BY <1>3, StopSilences
  <2>2. InFlight("mic", {"ok", "permission"})' => InFlight("mic", {"ok", "permission"})
    BY <1>1, FieldsOfCall DEF InFlight
  <2>3. view'.id \in Own /\ status'[view'.id] \in {"over", "done"}
          => ~InFlight("mic", {"ok", "permission"})'
    BY <1>0, <1>2, <2>2 DEF BufferKnows, Over
  <2> QED
    BY <2>1, <2>3, SilentAudio
<1>4. CASE StopRecording /\ Flushes(rec, view.id)
  <2>1. \A d \in calls' : d \in calls \/ (d.kind = "stop" /\ d.step = "flush")
    BY <1>1, <1>4, FieldsOfCall
  <2>2. \A d \in calls' : Follows(d)
    BY <2>1, CallsFollow DEF Follows
  <2>3. rec'.buffer = rec.buffer /\ cap' = cap
    BY <1>4, FlushedBuffer DEF StopRecording
  <2> QED
    BY <1>0, <1>2, <2>2, <2>3, QuietAudio DEF BufferKnows, Over
<1> QED
  BY <1>3, <1>4 DEF StopRecording, LeaveSession

LEMMA EnterBuffers ==
  ASSUME ButtonsWait, Heeds, [Next]_vars, ~blipped', view.id = None, status' = status,
         NEW s \in Sessions, EnterOrAsk(s)
  PROVE  BufferKnows'
<1>0. BufferKnows /\ None \in Sids /\ TypeOK
  BY HeedFacts DEF Sids
<1>1. CASE AskToJoin(s)
  <2>1. UNCHANGED <<rec, cap, view>> /\ calls' = calls \cup {Call("join", s, None, "sent")}
    BY <1>1 DEF AskToJoin, recVars
  <2>2. \A d \in calls' : d \in calls \/ d.kind = "join"
    BY <2>1, FieldsOfCall
  <2>3. \A d \in calls' : Follows(d)
    BY <2>2, CallsFollow DEF Follows
  <2> QED
    BY <1>0, <2>1, <2>3, QuietAudio DEF BufferKnows, Over
<1>2. CASE EnterOwnNew(s) /\ status[s] = "new"
  <2>1. view'.id = s /\ calls' = calls /\ spokenIn' = spokenIn
    BY <1>2 DEF EnterOwnNew
  <2>2. cap'.live = {} /\ rec'.buffer = rec.buffer
    BY <1>2, StopSilences, FlushedBuffer DEF EnterOwnNew
  <2>3. SpokenThen(rec.buffer, None) \/ Stranded'
    BY <1>0, BufferStays DEF BufferKnows
  <2>4. /\ (SpokenIn(rec.buffer, None) \/ Stranded)'
        /\ (SpokenIn(rec.buffer, view.id) \/ Stranded)'
    BY <2>2, <2>3 DEF SpokenThen, SpokenIn
  <2>5. (InFlight("leave", Steps) \/ InFlight("stop", Steps \ {"flush"}) => Silent)'
    BY <1>0, <2>1, <2>2 DEF BufferKnows, InFlight, Silent
  <2>6. status'[view'.id] = "new"
    BY <1>2, <2>1
  <2> QED
    BY <2>2, <2>4, <2>5, <2>6 DEF BufferKnows, Over
<1> QED
  BY <1>1, <1>2 DEF EnterOrAsk

LEMMA UserBuffers ==
  ASSUME ButtonsWait, Heeds, [Next]_vars, ~blipped', User \/ AutoJoin
  PROVE  BufferKnows'
<1>0. BufferKnows
  BY HeedFacts
<1>1. ASSUME NEW s \in Sessions, JoinSession(s)
      PROVE  BufferKnows'
  BY <1>1, EnterBuffers DEF JoinSession, serverVars
<1>2. CASE AutoJoin
  <2>1. PICK s \in member \ ended :
          IF s \in Own THEN EnterOrAsk(s) ELSE UNCHANGED <<recVars, view, subVars, ended, calls>>
    BY <1>2 DEF AutoJoin
  <2>2. status' = status /\ view.id = None
    BY <1>2 DEF AutoJoin, serverVars
  <2>3. CASE s \in Own
    BY <2>1, <2>2, <2>3, EnterBuffers, Names
  <2>4. CASE s \notin Own
    <3>1. UNCHANGED <<rec, cap, view, calls>>
      BY <2>1, <2>4 DEF recVars
    <3> QED
      BY <1>0, <2>2, <3>1, QuietAudio, CallsFollow DEF BufferKnows, Over
  <2> QED
    BY <2>3, <2>4
<1> QED
  BY <1>1, <1>2, StartBuffers, AskBuffers, EndBuffers, ButtonBuffers DEF User

\* The answers of the server.
LEMMA AnswerBuffers ==
  ASSUME ButtonsWait, Heeds, [Next]_vars, ~blipped', NEW c \in calls, ServerCall(c)
  PROVE  BufferKnows'
<1>0. /\ TypeOK /\ LinksKnow /\ ViewKnows /\ OneAtATime /\ BufferKnows /\ view.id \in Sids
      /\ None \in Sids /\ CallsName /\ CallKnows(c)
  BY HeedFacts DEF Sids
<1>1. UNCHANGED <<rec, cap, spokenIn, view>>
  BY DEF ServerCall, SessionCreated, SessionBegun, SessionStopped, SessionLeft, SessionJoined, recVars
<1>2. ASSUME \A d \in calls' : Follows(d),
             view.id \in Own /\ status'[view.id] \in {"over", "done"} => Over(view.id)
      PROVE  BufferKnows'
  BY <1>0, <1>1, <1>2, QuietAudio DEF BufferKnows
<1>3. c.kind # "mic" /\ c.step # "flush" => \A step \in Steps : \A d \in At(c, step) : Follows(d)
  BY CallsFollow
<1>4. \A d \in At(c, "failed") : c.step # "flush" => Follows(d)
  BY CallsFollow DEF Steps
<1>5. CASE SessionCreated(c)
  <2>1. \A x \in calls' : Follows(x)
    <3>1. CASE calls' = At(c, "failed")
      BY <1>4, <1>5, <3>1 DEF SessionCreated
    <3>2. ASSUME NEW s, calls' = (calls \ {c}) \cup {[c EXCEPT !.s = s, !.step = "ok"]}
          PROVE  \A x \in calls' : Follows(x)
      <4>1. ([c EXCEPT !.s = s, !.step = "ok"]).kind = "create" /\ c.step \in Steps
        BY <1>0, <1>5, CallFacts DEF SessionCreated, Calls
      <4>2. Follows([c EXCEPT !.s = s, !.step = "ok"])
        BY <1>5, <4>1 DEF Follows, SessionCreated
      <4> QED
        BY <3>2, <4>2, CallsFollow
    <3> QED
      BY <1>5, <3>1, <3>2 DEF SessionCreated
  <2>2. view.id \in Own /\ status'[view.id] \in {"over", "done"} => Over(view.id)
    BY <1>0, <1>5, Names DEF SessionCreated, TypeOK, Over
  <2> QED
    BY <1>2, <2>1, <2>2
<1>6. CASE SessionBegun(c) /\ ~(link = None /\ c.s \in Own \cap member /\ status[c.s] = "new")
  <2>1. status' = status /\ calls' = At(c, "failed") /\ c.step # "flush"
    BY <1>6 DEF SessionBegun
  <2> QED
    BY <1>2, <1>4, <2>1 DEF Over
<1>o. ASSUME c.kind \in {"mic", "stop"}, NEW step \in Steps, calls' = At(c, step)
      PROVE  \A d \in calls' : d.kind \in {"mic", "stop", "leave", "create"} =>
               d.kind = "create" \/ (d.kind = c.kind /\ d.step = step)
  <2>1. \A d \in calls \ {c} : d.kind \notin {"mic", "stop", "leave"}
    BY <1>0, <1>o DEF OneAtATime
  <2> QED
    BY <1>0, <1>o, <2>1, AtOther
<1>7. CASE SessionBegun(c) /\ link = None /\ c.s \in Own \cap member /\ status[c.s] = "new"
  <2>1. calls' = At(c, "ok") /\ status' = [status EXCEPT ![c.s] = "recording"] /\ c.kind = "mic"
    BY <1>7 DEF SessionBegun
  <2>2. \A d \in calls' : d.kind \notin {"stop", "leave", "create"}
    <3>1. \A d \in calls : d.kind # "create"
      BY <1>0, <2>1 DEF OneAtATime
    <3>2. \A d \in calls' : d.kind \notin {"stop", "leave"}
      BY <1>o, <2>1 DEF Steps
    <3>3. \A d \in calls' : d \in calls \/ d.kind = "mic"
      BY <1>0, <2>1, AtOther
    <3> QED
      BY <3>1, <3>2, <3>3
  <2>3. cap.live = {}
    BY <1>0, <2>1, CallFacts DEF BufferKnows, InFlight
  <2>4. ~(view.id \in Own /\ status'[view.id] \in {"over", "done"})
    <3>1. ~InFlight("stop", {"ok"})
      BY <1>0, <2>1 DEF OneAtATime, InFlight
    <3>2. view.id \in Own => ~Over(view.id)
      BY <1>0, <1>7, <3>1, Names DEF ViewKnows
    <3>3. view.id \in Own => status'[view.id] \in {status[view.id], "recording"}
      BY <1>0, <2>1 DEF TypeOK
    <3> QED
      BY <3>2, <3>3 DEF Over
  <2>5. SpokenThen(rec.buffer, view.id) \/ Stranded'
    BY <1>0, BufferStays DEF BufferKnows
  <2>6. (SpokenIn(rec.buffer, view.id) \/ Stranded)'
    BY <1>1, <2>5 DEF SpokenThen, SpokenIn
  <2>7. ~InFlight("leave", Steps)' /\ ~InFlight("stop", Steps \ {"flush"})' /\ ~InFlight("create", Steps)'
    BY <2>2 DEF InFlight
  <2>8. (view.id \in Own /\ Over(view.id) => Silent /\ ~InFlight("mic", {"ok", "permission"}))'
    BY <1>1, <2>4 DEF Over
  <2> QED
    BY <1>1, <2>3, <2>6, <2>7, <2>8 DEF BufferKnows
<1>8. CASE SessionStopped(c)
  <2>1. c.kind = "stop" /\ c.step = "sent" /\ \E step \in Steps : calls' = At(c, step)
    BY <1>8 DEF SessionStopped, Steps
  <2>2. Silent
    BY <1>0, <2>1 DEF BufferKnows, InFlight, Steps
  <2>3. ~InFlight("mic", {"ok", "permission"})'
    BY <1>o, <2>1 DEF InFlight
  <2> QED
    BY <1>1, <2>2, <2>3, SilentAudio DEF Silent
<1>9. CASE SessionLeft(c)
  <2>1. status' = status
    BY <1>9 DEF SessionLeft
  <2>2. \A d \in calls' : Follows(d)
    BY <1>3, <1>9 DEF SessionLeft, Steps
  <2> QED
    BY <1>2, <2>1, <2>2 DEF Over
<1>10. CASE SessionJoined(c)
  <2>1. status' = status
    BY <1>10 DEF SessionJoined
  <2>2. \A d \in calls' : d \in calls \/ d.kind = "join"
    <3>1. \A d \in At(c, "failed") : d \in calls \/ d.kind = "join"
      BY <1>0, <1>10, AtOther DEF SessionJoined
    <3>2. ([c EXCEPT !.was = status[c.s], !.step = "ok"]).kind = "join"
      BY <1>0, <1>10 DEF SessionJoined, TypeOK, Calls
    <3> QED
      BY <1>10, <3>1, <3>2 DEF SessionJoined
  <2> QED
    BY <1>2, <2>1, <2>2, CallsFollow DEF Over, Follows
<1> QED
  BY <1>5, <1>6, <1>7, <1>8, <1>9, <1>10 DEF ServerCall, SessionBegun

\* What the tab does with them.
LEMMA ContinueBuffers ==
  ASSUME ButtonsWait, Heeds, [Next]_vars, ~blipped', NEW c \in calls, Continue(c)
  PROVE  BufferKnows'
<1>0. /\ TypeOK /\ LinksKnow /\ ViewKnows /\ OneAtATime /\ BufferKnows /\ view.id \in Sids
      /\ None \in Sids /\ CallsName /\ CallKnows(c) /\ cap \in Captured /\ rec \in Recorders
      /\ \A mic : ([view EXCEPT !.mic = mic]).id = view.id
      /\ ([view EXCEPT !.status = "recording"]).id = view.id
  BY HeedFacts DEF Sids, TypeOK
<1>1. status' = status
  BY DEF Continue, RecordingStarted, MicBegun, CaptureStarted, StopFlushed, StoppedOrLeft, TabJoined,
         CallFailed, serverVars
<1>2. ASSUME UNCHANGED <<rec, cap>>, view'.id = view.id, \A d \in calls' : Follows(d)
      PROVE  BufferKnows'
  BY <1>0, <1>1, <1>2, QuietAudio DEF BufferKnows, Over
<1>3. CASE RecordingStarted(c)
  <2>1. view'.id = c.s /\ calls' = calls \ {c} /\ UNCHANGED <<rec, cap, spokenIn>>
    BY <1>3 DEF RecordingStarted, recVars
  <2>2. \A d \in calls' : d.kind \notin {"mic", "create"}
    BY <1>0, <1>3, <2>1 DEF RecordingStarted, OneAtATime
  <2>3. /\ SpokenIn(rec.buffer, None) \/ Stranded
        /\ status[c.s] = "new"
    BY <1>0, <1>3 DEF RecordingStarted, BufferKnows, InFlight, CallKnows, CreateKnows, Steps
  <2>4. SpokenThen(rec.buffer, None) \/ Stranded'
    BY <1>0, <2>3, BufferStays
  <2>5. (SpokenIn(rec.buffer, view.id) \/ Stranded)'
    BY <2>1, <2>4 DEF SpokenThen, SpokenIn
  <2>6. (InFlight("leave", Steps) \/ InFlight("stop", Steps \ {"flush"}) => Silent)'
    BY <1>0, <2>1 DEF BufferKnows, InFlight, Silent
  <2>7. ~InFlight("mic", Steps)' /\ ~InFlight("create", Steps)'
    BY <2>2 DEF InFlight
  <2>8. ~Over(view.id)'
    BY <1>1, <2>1, <2>3 DEF Over
  <2> QED
    BY <1>0, <2>1, <2>5, <2>6, <2>7, <2>8 DEF BufferKnows
<1>4. CASE MicBegun(c)
  <2>1. UNCHANGED <<rec, cap>> /\ view'.id = view.id
    BY <1>0, <1>4 DEF MicBegun, recVars
  <2>2. \A d \in calls' : Follows(d)
    BY <1>4, CallsFollow DEF MicBegun, Steps
  <2> QED
    BY <1>2, <2>1, <2>2
<1>5. CASE CaptureStarted(c)
  <2>1. calls' = calls \ {c} /\ c.kind = "mic" /\ c.step = "permission" /\ spokenIn' = spokenIn
    BY <1>5 DEF CaptureStarted
  <2>2. CASE UNCHANGED <<rec, cap, view>>
    BY <1>2, <2>1, <2>2, CallsFollow
  <2>3. ASSUME NEW i \in Captures, NEW used,
               cap' = [ref |-> i, live |-> cap.live \cup {i}, paused |-> cap.paused, used |-> used],
               rec' = [rec EXCEPT !.timer = TRUE], view'.id = view.id
        PROVE  BufferKnows'
    <3>1. rec'.buffer = rec.buffer
      BY <1>0, <2>3 DEF Recorders
    <3>2. cap'.ref = i /\ cap'.live = {i}
      BY <1>0, <2>1, <2>3 DEF BufferKnows, InFlight, Steps
    <3>3. \A d \in calls' : d.kind \notin {"mic", "stop", "leave", "create"}
      BY <1>0, <2>1 DEF OneAtATime
    <3>4. view.id \in Own => ~Over(view.id)
      BY <1>0, <2>1 DEF BufferKnows, InFlight
    <3>5. SpokenThen(rec.buffer, view.id) \/ Stranded'
      BY <1>0, BufferStays DEF BufferKnows
    <3>6. (SpokenIn(rec.buffer, view.id) \/ Stranded)'
      BY <2>3, <3>1, <3>5 DEF SpokenThen, SpokenIn
    <3>7. /\ ~InFlight("mic", Steps)' /\ ~InFlight("leave", Steps)'
          /\ ~InFlight("stop", Steps \ {"flush"})' /\ ~InFlight("create", Steps)'
      BY <3>3 DEF InFlight
    <3>8. ~(view.id \in Own /\ Over(view.id))'
      BY <1>1, <2>3, <3>4 DEF Over
    <3> QED
      BY <3>2, <3>6, <3>7, <3>8 DEF BufferKnows
  <2> QED
    BY <1>0, <1>5, <2>2, <2>3 DEF CaptureStarted
<1>6. ASSUME NEW u \in uploads, StopFlushed(c, u)
      PROVE  BufferKnows'
  <2>1. rec'.buffer = {} /\ cap'.live = {} /\ view'.id = view.id
    BY <1>0, <1>6, StopSilences DEF StopFlushed
  <2>2. c.kind = "stop" /\ calls' = At(c, "sent")
    BY <1>6 DEF StopFlushed
  <2>3. ~InFlight("mic", {"ok", "permission"})'
    <3>1. \A d \in calls : d.kind # "mic"
      BY <1>0, <2>2 DEF OneAtATime
    <3>2. \A d \in calls' : d \in calls \/ d.kind = "stop"
      BY <1>0, <2>2, AtOther
    <3> QED
      BY <3>1, <3>2 DEF InFlight
  <2> QED
    BY <2>1, <2>3, SilentAudio
<1>7. CASE StoppedOrLeft(c)
  <2>1. Silent
    BY <1>0, <1>7 DEF StoppedOrLeft, BufferKnows, InFlight, Steps
  <2>2. view'.id = None /\ UNCHANGED <<rec, cap>>
    BY <1>7 DEF StoppedOrLeft, Idle, recVars
  <2> QED
    BY <2>1, <2>2, SilentAudio, Names DEF Silent
<1>8. CASE TabJoined(c)
  <2>1. rec'.buffer = {} /\ cap'.live = {} /\ view'.id = c.s
    BY <1>8, StopSilences DEF TabJoined
  <2>2. c.s \in Own /\ Over(c.s) => ~InFlight("mic", Steps)
    BY <1>0, <1>8 DEF TabJoined, CallKnows, JoinKnows, Joined
  <2>3. c.s \in Own /\ Over(c.s) => ~InFlight("mic", {"ok", "permission"})'
    BY <1>8, <2>2 DEF TabJoined, InFlight, Steps
  <2> QED
    BY <1>1, <2>1, <2>3, SilentAudio DEF Over
<1>9. CASE CallFailed(c)
  BY <1>2, <1>9, CallsFollow DEF CallFailed, recVars
<1> QED
  BY <1>3, <1>4, <1>5, <1>6, <1>7, <1>8, <1>9 DEF Continue

\* The session shown is complete: its owner has collected nothing since the stop,
\* and the link of a participant stays on it.
LEMMA CompletedBuffers ==
  ASSUME ButtonsWait, Heeds, [Next]_vars, ~blipped', HandleUploadCompleted
  PROVE  BufferKnows'
<1>0. /\ TypeOK /\ LinksKnow /\ ViewKnows /\ OneAtATime /\ BufferKnows /\ view.id \in Sids
      /\ None \in Sids /\ CallsName /\ \A c \in calls : CallKnows(c)
      /\ UNCHANGED <<rec, cap, spokenIn, calls, status>>
  BY HeedFacts DEF Sids, HandleUploadCompleted, recVars, serverVars
<1>1. CASE view'.id = view.id
  BY <1>0, <1>1, QuietAudio, CallsFollow DEF BufferKnows, Over
<1>2. CASE view.id = Head(inbox).s /\ view'.id = None
  <2>1. status[view.id] = "done" /\ view.id \in Sessions
    <3>1. Head(inbox) = inbox[1] /\ 1 \in DOMAIN inbox /\ inbox[1].type = "upload_completed"
      BY <1>0, TailShows DEF HandleUploadCompleted, Receive
    <3> QED
      BY <1>0, <1>2, <3>1, EventsInside DEF LinksKnow, EventKnows
  <2>2. CASE Silent
    BY <1>0, <1>2, <2>2, SilentAudio, Names DEF Silent
  <2>3. CASE ~Silent
    <3>1. view.id \in Others
      BY <1>0, <2>1, <2>3, Names DEF BufferKnows, Over
    <3>2. ~InFlight("leave", Steps) /\ ~InFlight("stop", Steps \ {"flush"})
      BY <1>0, <2>3 DEF BufferKnows
    <3>3. link = view.id
      BY <1>0, <3>1, <3>2 DEF ViewKnows, InFlight, Steps
    <3>4. ~InFlight("join", {"ok"})
      BY <1>0, <3>1, <3>3 DEF InFlight, CallKnows, JoinKnows, Joined
    <3>5. Stranded'
      BY <1>0, <1>2, <2>1, <3>1, <3>2, <3>3, <3>4, Names
      DEF Stranded, Over, InFlight, HandleUploadCompleted, serverVars
    <3>6. (InFlight("mic", Steps) => cap.live = {})'
      BY <1>0 DEF BufferKnows, InFlight
    <3>7. ~InFlight("leave", Steps)' /\ ~InFlight("stop", Steps \ {"flush"})'
      BY <1>0, <3>2 DEF InFlight
    <3> QED
      BY <1>0, <1>2, <3>5, <3>6, <3>7, Names DEF BufferKnows
  <2> QED
    BY <2>2, <2>3
<1> QED
  BY <1>1, <1>2 DEF HandleUploadCompleted, Idle

LEMMA DeliveredBuffers ==
  ASSUME ButtonsWait, Heeds, [Next]_vars, ~blipped', Deliver
  PROVE  BufferKnows'
<1>0. /\ TypeOK /\ BufferKnows /\ Idle.id = None /\ ([view EXCEPT !.status = "recording"]).id = view.id
  BY HeedFacts DEF Idle, TypeOK
<1>1. ASSUME UNCHANGED <<rec, cap, calls, status>>, view'.id = view.id
      PROVE  BufferKnows'
  BY <1>0, <1>1, QuietAudio, CallsFollow DEF BufferKnows, Over
<1>2. CASE ResetToIdle
  BY <1>0, <1>2, StopSilences, SilentAudio, Names DEF ResetToIdle
<1>3. CASE Unheard \/ HandleSessionStarted
  <2>1. UNCHANGED <<rec, cap, calls, status>> /\ view'.id = view.id
    BY <1>0, <1>3 DEF Unheard, HandleSessionStarted, recVars, serverVars
  <2> QED
    BY <1>1, <2>1
<1>4. CASE HandleSessionEnded
  BY <1>2, <1>4 DEF HandleSessionEnded
<1>5. CASE HandleUserRemovedFromSession
  BY <1>1, <1>2, <1>5 DEF HandleUserRemovedFromSession, serverVars
<1> QED
  BY <1>3, <1>4, <1>5, CompletedBuffers DEF Deliver

LEMMA OthersBuffers ==
  ASSUME ButtonsWait, Heeds, [Next]_vars, ~blipped', Environment
  PROVE  BufferKnows'
<1>0. TypeOK /\ BufferKnows
  BY HeedFacts
<1>1. ~Reconnect /\ ~Disconnect /\ ~Reload
  BY DEF Reconnect, Disconnect, Reload, ConnectionGone
<1>2. ASSUME NEW s \in Sessions,
             OtherBegins(s) \/ OtherEnds(s) \/ Completes(s) \/ OtherInvites(s) \/ OtherRemoves(s)
      PROVE  BufferKnows'
  <2>1. UNCHANGED <<rec, cap, view, calls>>
    BY <1>2 DEF OtherBegins, OtherEnds, Completes, OtherInvites, OtherRemoves, ServerOnly, recVars
  <2>2. view.id \in Own /\ status'[view.id] \in {"over", "done"} => Over(view.id)
    BY <1>0, <1>2, Names DEF OtherBegins, OtherEnds, Completes, OtherInvites, OtherRemoves, TypeOK, Over
  <2> QED
    BY <1>0, <2>1, <2>2, QuietAudio, CallsFollow DEF BufferKnows
<1> QED
  BY <1>1, <1>2, ButtonBuffers DEF Environment

LEMMA AudioStep ==
  ASSUME ButtonsWait, Heeds, [Next]_vars, ~blipped'
  PROVE  AudioKnows'
<1>1. ASSUME UNCHANGED vars
      PROVE  BufferKnows'
  <2>1. BufferKnows /\ UNCHANGED <<rec, cap, view, calls, status>>
    BY <1>1, HeedFacts DEF vars, recVars, tabVars, serverVars
  <2> QED
    BY <2>1, QuietAudio, CallsFollow DEF BufferKnows, Over
<1>2. BufferKnows'
  BY <1>1, AudioBuffers, UserBuffers, AnswerBuffers, ContinueBuffers, DeliveredBuffers, OthersBuffers
  DEF Next
<1>3. \A u \in uploads' : UploadKnows(u)'
  BY AudioTravels
<1>4. (\A s \in Sessions, q \in Seqs : SpokenIn(stored[s][q].chunks, s))'
  BY AudioTravels DEF SpokenThen, SpokenIn
<1> QED
  BY <1>2, <1>3, <1>4 DEF AudioKnows

LEMMA AudioInit == Init => AudioKnows
<1> SUFFICES ASSUME Init
             PROVE  AudioKnows
  OBVIOUS
<1>1. /\ rec.buffer = {} /\ cap.live = {} /\ calls = {} /\ uploads = {} /\ view.id = None
      /\ \A s \in Sessions, q \in Seqs : stored[s][q].chunks = {}
  BY DEF Init, RecorderInit, EmptyRecorder, NoCapture, NoSegment, Idle
<1>2. BufferKnows
  BY <1>1, Names DEF BufferKnows, InFlight, Silent, SpokenIn
<1> QED
  BY <1>1, <1>2 DEF AudioKnows, SpokenIn

\* While the buttons wait, audio is stored under no session but the one it was
\* spoken in, for any number of sessions, chunks and uploads in flight: however
\* the buffer and the uploads outlive the session they began in.
THEOREM StoredAudioIsOwned ==
  ASSUME ButtonsWait
  PROVE  Spec => []StoredAudioIsOwn
<1> DEFINE Inv == ~blipped => LinksKnow /\ AudioKnows
<1>1. TypeOK /\ CallsName /\ Inv /\ [Next]_vars => Inv'
  BY LinksStep, AudioStep, BlipStays DEF Known, Heeds
<1>2. Init => Inv
  BY LinksInit, AudioInit
<1>3. Inv => StoredAudioIsOwn
  BY DEF AudioKnows, SpokenIn, StoredAudioIsOwn
<1> QED
  BY <1>1, <1>2, <1>3, InitTyped, Typed, PTL DEF Spec

=============================================================================
