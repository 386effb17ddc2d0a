----------------------------- MODULE SessionApi -----------------------------
(***************************************************************************)
(* The API server's handlers that move a session through the pipeline: the *)
(* websocket RPCs of an owner's tab (internal/websocket/handler.go) and the *)
(* HTTP requests (internal/handler).  Every handler is a goroutine; its     *)
(* reads and writes are separate statements, so a call in flight is a       *)
(* record saying which step comes next and what it read before.  Reads that *)
(* commute with every other process are merged with the step they precede. *)
(* The caller's role was checked before the first step modelled here.       *)
(***************************************************************************)
EXTENDS PipelineData

CONSTANTS
  Tabs,      \* websocket connections of session owners; one RPC at a time each
  Posts,     \* HTTP requests that can be in flight together
  Requests,  \* the requests users make in this instance
  MaxRequests

RequestNames ==
  {"begin", "join", "stop", "disconnect", "segment", "end", "file", "finish",
   "prompt", "delete_prompt", "segment_result", "redo_segments",
   "redo_session", "remove_segments", "remove_transcription"}

ASSUME ApiAssumption ==
  /\ Tabs \cap Posts = {}
  /\ None \notin Tabs \cup Posts
  /\ Requests \subseteq RequestNames
  /\ MaxRequests \in Nat

VARIABLES
  link,      \* ParticipantLink of a tab whose user owns the session
  call,      \* the call in flight of each tab and each HTTP slot
  budget,    \* how many more requests are made (bound)
  accepted   \* history: the takes whose segment upload was answered 202

Callers == Tabs \cup Posts

IdleCall == [at |-> "idle", ses |-> None, obj |-> None, take |-> None,
             row |-> None, objs |-> {}]

SegmentCalls == [at : {"segment_put", "segment_upsert", "segment_publish"},
                 ses : Sessions, obj : SegmentKeys, take : Takes,
                 row : {None}, objs : {{}}]
FileCalls    == [at : {"file_put", "file_publish"},
                 ses : Sessions, obj : Files, take : Takes,
                 row : {None}, objs : {{}}]
PromptCalls  == [at : {"prompt_publish"}, ses : Sessions, obj : {None},
                 take : {None}, row : ResultIds, objs : {{}}]
RedoCalls    == [at : {"redo_segments", "redo_publish"}, ses : Sessions,
                 obj : {None}, take : {None}, row : {None},
                 objs : SUBSET SegmentKeys]
PlainCalls   == [at : {"begin_write", "stop_publish", "end_write", "end_publish",
                       "finish_write", "finish_publish", "remove_lines"},
                 ses : Sessions, obj : {None}, take : {None}, row : {None},
                 objs : {{}}]

Calls == SegmentCalls \cup FileCalls \cup PromptCalls \cup RedoCalls
           \cup PlainCalls

ApiInit ==
  /\ link = [c \in Tabs |-> None]
  /\ call = [c \in Callers |-> IdleCall]
  /\ budget = MaxRequests
  /\ accepted = {}

ApiTypeOK ==
  /\ link \in [Tabs -> Sessions \cup {None}]
  /\ call \in [Callers -> {IdleCall} \cup Calls]
  /\ budget \in Nat
  /\ accepted \in SUBSET Takes

\* A user makes a request of this kind on a free slot.
Request(c, name) ==
  /\ name \in Requests
  /\ budget > 0
  /\ call[c] = IdleCall
  /\ budget' = budget - 1

At(c, step) == call[c].at = step

Goto(c, step, s) ==
  call' = [call EXCEPT ![c] = [IdleCall EXCEPT !.at = step, !.ses = s]]

Continue(c, step) == call' = [call EXCEPT ![c].at = step]

Return(c) == call' = [call EXCEPT ![c] = IdleCall]

-----------------------------------------------------------------------------
(* Websocket RPCs.  OnDisconnect only forgets the link.                    *)

\* Mutation of RecordingBegin: the check for status new is gone.
RecordingBeginAnyStatus(c, s) ==
  /\ Request(c, "begin")
  /\ link[c] = None
  /\ Goto(c, "begin_write", s)
  /\ UNCHANGED <<sessionVars, audioVars, promptResult, queueVars, link, accepted>>

\* HandleRecordingBegin: the status is checked here, written in BeginWrite.
RecordingBegin(c, s) ==
  /\ Request(c, "begin")
  /\ link[c] = None
  /\ status[s] = "new"
  /\ Goto(c, "begin_write", s)
  /\ UNCHANGED <<sessionVars, audioVars, promptResult, queueVars, link, accepted>>

BeginWrite(c) ==
  /\ At(c, "begin_write")
  /\ UpdateStatus(call[c].ses, "recording")
  /\ link' = [link EXCEPT ![c] = call[c].ses]
  /\ Return(c)
  /\ UNCHANGED <<audioVars, promptResult, queueVars, budget, accepted>>

\* HandleSessionJoin by the owner, from any tab.
OwnerJoin(c, s) ==
  /\ Request(c, "join")
  /\ link[c] = None
  /\ status[s] \in {"new", "recording"}
  /\ link' = [link EXCEPT ![c] = s]
  /\ UNCHANGED <<sessionVars, audioVars, promptResult, queueVars, call, accepted>>

\* Mutation of RecordingStop: the nil check of the link is gone.
RecordingStopUnlinked(c) ==
  /\ Request(c, "stop")
  /\ link' = [link EXCEPT ![c] = None]
  /\ UpdateStatus(link[c], "transcribing")
  /\ Goto(c, "stop_publish", link[c])
  /\ UNCHANGED <<audioVars, promptResult, queueVars, accepted>>

\* HandleRecordingStop looks at the link only, never at the status.
RecordingStop(c) ==
  /\ Request(c, "stop")
  /\ link[c] # None
  /\ link' = [link EXCEPT ![c] = None]
  /\ UpdateStatus(link[c], "transcribing")
  /\ Goto(c, "stop_publish", link[c])
  /\ UNCHANGED <<audioVars, promptResult, queueVars, accepted>>

\* Without segments nothing is queued.
StopPublish(c) ==
  /\ At(c, "stop_publish")
  /\ LET s == call[c].ses
     IN IF LiveSegments(s) = {} THEN UNCHANGED queueVars
        ELSE Publish(AudioJob("recording_ready", s, LiveSegments(s)))
  /\ Return(c)
  /\ UNCHANGED <<sessionVars, audioVars, promptResult, link, budget, accepted>>

Disconnect(c) ==
  /\ Request(c, "disconnect")
  /\ link[c] # None
  /\ link' = [link EXCEPT ![c] = None]
  /\ UNCHANGED <<sessionVars, audioVars, promptResult, queueVars, call, accepted>>

-----------------------------------------------------------------------------
(* POST segments: status check, MinIO put, upsert, fetch by key, publish.  *)

UploadSegment(c, s, k, t) ==
  /\ Request(c, "segment")
  /\ status[s] = "recording"
  /\ spokenIn[t] = None
  /\ spokenIn' = [spokenIn EXCEPT ![t] = s]
  /\ call' = [call EXCEPT ![c] = [IdleCall EXCEPT !.at = "segment_put",
                                    !.ses = s, !.obj = k, !.take = t]]
  /\ UNCHANGED <<sessionVars, segment, object, promptResult, queueVars, link, accepted>>

SegmentPut(c) ==
  /\ At(c, "segment_put")
  /\ PutObject(call[c].ses, call[c].obj, call[c].take)
  /\ Continue(c, "segment_upsert")
  /\ UNCHANGED <<sessionVars, segment, spokenIn, promptResult, queueVars,
                 link, budget, accepted>>

\* Mutation of SegmentPutFails: the error of the put is ignored.
SegmentPutFailsIgnored(c) ==
  /\ Fault("store_fails")
  /\ At(c, "segment_put")
  /\ Continue(c, "segment_upsert")
  /\ UNCHANGED <<sessionVars, audioVars, promptResult, queueVars, link, budget,
                 accepted>>

SegmentPutFails(c) ==
  /\ Fault("store_fails")
  /\ At(c, "segment_put")
  /\ Return(c)
  /\ UNCHANGED <<sessionVars, audioVars, promptResult, queueVars, link, budget,
                 accepted>>

SegmentUpsert(c) ==
  /\ At(c, "segment_upsert")
  /\ UpsertSegment(call[c].ses, call[c].obj)
  /\ Continue(c, "segment_publish")
  /\ UNCHANGED <<sessionVars, object, spokenIn, promptResult, queueVars,
                 link, budget, accepted>>

\* Mutation of SegmentPublish: only a segment without a transcript is queued.
SegmentPublishOnce(c) ==
  /\ At(c, "segment_publish")
  /\ LET s == call[c].ses
         k == call[c].obj
     IN IF k \in LiveSegments(s) /\ segment[s][k].text = {}
        THEN /\ Publish(AudioJob("segment_ready", s, {k}))
             /\ accepted' = IF chanOpen THEN accepted \cup {call[c].take} ELSE accepted
        ELSE UNCHANGED <<queueVars, accepted>>
  /\ Return(c)
  /\ UNCHANGED <<sessionVars, audioVars, promptResult, link, budget>>

\* GetSegmentByKey does not see a deleted row: 500 and nothing queued.
SegmentPublish(c) ==
  /\ At(c, "segment_publish")
  /\ LET s == call[c].ses
         k == call[c].obj
     IN IF k \in LiveSegments(s)
        THEN /\ Publish(AudioJob("segment_ready", s, {k}))
             /\ accepted' = IF chanOpen THEN accepted \cup {call[c].take} ELSE accepted
        ELSE UNCHANGED <<queueVars, accepted>>
  /\ Return(c)
  /\ UNCHANGED <<sessionVars, audioVars, promptResult, link, budget>>

-----------------------------------------------------------------------------
(* POST end, and the upload page: POST upload, POST finish.                *)

EndSession(c, s) ==
  /\ Request(c, "end")
  /\ status[s] = "new"
  /\ Goto(c, "end_write", s)
  /\ UNCHANGED <<sessionVars, audioVars, promptResult, queueVars, link, accepted>>

EndWrite(c) ==
  /\ At(c, "end_write")
  /\ UpdateStatus(call[c].ses, "finished")
  /\ Continue(c, "end_publish")
  /\ UNCHANGED <<audioVars, promptResult, queueVars, link, budget, accepted>>

EndPublish(c) ==
  /\ At(c, "end_publish")
  /\ Publish(AudioJob("recording_ready", call[c].ses, LiveSegments(call[c].ses)))
  /\ Return(c)
  /\ UNCHANGED <<sessionVars, audioVars, promptResult, link, budget, accepted>>

UploadAudio(c, s, f, t) ==
  /\ Request(c, "file")
  /\ status[s] = "new"
  /\ spokenIn[t] = None
  /\ spokenIn' = [spokenIn EXCEPT ![t] = s]
  /\ call' = [call EXCEPT ![c] = [IdleCall EXCEPT !.at = "file_put",
                                    !.ses = s, !.obj = f, !.take = t]]
  /\ UNCHANGED <<sessionVars, segment, object, promptResult, queueVars, link, accepted>>

FilePut(c) ==
  /\ At(c, "file_put")
  /\ PutObject(call[c].ses, call[c].obj, call[c].take)
  /\ Continue(c, "file_publish")
  /\ UNCHANGED <<sessionVars, segment, spokenIn, promptResult, queueVars,
                 link, budget, accepted>>

\* A failed put writes the error status, whatever the status is by now.
FilePutFails(c) ==
  /\ Fault("store_fails")
  /\ At(c, "file_put")
  /\ UpdateStatus(call[c].ses, "error")
  /\ Return(c)
  /\ UNCHANGED <<audioVars, promptResult, queueVars, link, budget, accepted>>

\* The upload row stays when the publish fails.
FilePublish(c) ==
  /\ At(c, "file_publish")
  /\ AddUpload(call[c].ses, call[c].obj)
  /\ Publish(AudioJob("upload_ready", call[c].ses, {call[c].obj}))
  /\ status' = IF chanOpen THEN status
               ELSE [status EXCEPT ![call[c].ses] = "error"]
  /\ Return(c)
  /\ UNCHANGED <<transcript, lines, audioVars, promptResult, link, budget, accepted>>

\* A finished session is answered at once; any other status goes on.
FinishUpload(c, s) ==
  /\ Request(c, "finish")
  /\ status[s] # "finished"
  /\ Goto(c, "finish_write", s)
  /\ UNCHANGED <<sessionVars, audioVars, promptResult, queueVars, link, accepted>>

FinishWrite(c) ==
  /\ At(c, "finish_write")
  /\ UpdateStatus(call[c].ses, "transcribing")
  /\ Continue(c, "finish_publish")
  /\ UNCHANGED <<audioVars, promptResult, queueVars, link, budget, accepted>>

\* Mutation of FinishPublish: no job when there are no segments.
FinishPublishSegmentsOnly(c) ==
  /\ At(c, "finish_publish")
  /\ IF LiveSegments(call[c].ses) = {} THEN UNCHANGED queueVars
     ELSE Publish(AudioJob("upload_finalize", call[c].ses,
                           LiveSegments(call[c].ses)))
  /\ Return(c)
  /\ UNCHANGED <<sessionVars, audioVars, promptResult, link, budget, accepted>>

\* The batch holds the live segments: for an upload session none.
FinishPublish(c) ==
  /\ At(c, "finish_publish")
  /\ Publish(AudioJob("upload_finalize", call[c].ses, LiveSegments(call[c].ses)))
  /\ Return(c)
  /\ UNCHANGED <<sessionVars, audioVars, promptResult, link, budget, accepted>>

-----------------------------------------------------------------------------
(* Prompt results.                                                         *)

\* SessionPromptApply up to the row it creates.
PromptApply(c, s, r) ==
  /\ Request(c, "prompt")
  /\ status[s] = "finished"
  /\ transcript[s] # {}
  /\ CreatePromptResult(r, s)
  /\ call' = [call EXCEPT ![c] = [IdleCall EXCEPT !.at = "prompt_publish",
                                    !.ses = s, !.row = r]]
  /\ UNCHANGED <<sessionVars, audioVars, queueVars, link, accepted>>

\* Mutation of PromptPublish: the row is marked failed after any publish.
PromptPublishAlwaysFailed(c) ==
  /\ At(c, "prompt_publish")
  /\ Publish(PromptJob(call[c].ses, call[c].row))
  /\ UpdatePromptResult(call[c].row, "failed")
  /\ Return(c)
  /\ UNCHANGED <<sessionVars, audioVars, link, budget, accepted>>

\* A failed publish marks the row failed.
PromptPublish(c) ==
  /\ At(c, "prompt_publish")
  /\ Publish(PromptJob(call[c].ses, call[c].row))
  /\ IF chanOpen THEN UNCHANGED promptResult
                 ELSE UpdatePromptResult(call[c].row, "failed")
  /\ Return(c)
  /\ UNCHANGED <<sessionVars, audioVars, link, budget, accepted>>

PromptDelete(c, r) ==
  /\ Request(c, "delete_prompt")
  /\ DeletePromptResult(r)
  /\ UNCHANGED <<sessionVars, audioVars, queueVars, link, call, accepted>>

-----------------------------------------------------------------------------
(* The legacy result callback, and the admin page.                         *)

SegmentResult(c, s, k, text) ==
  /\ Request(c, "segment_result")
  /\ k \in LiveSegments(s)
  /\ UpdateSegmentResult(s, k, text)
  /\ UNCHANGED <<sessionVars, object, spokenIn, promptResult, queueVars, link,
                 call, accepted>>

RedoSegments(c, s) ==
  /\ Request(c, "redo_segments")
  /\ LiveSegments(s) # {}
  /\ call' = [call EXCEPT ![c] = [IdleCall EXCEPT !.at = "redo_segments",
                                    !.ses = s, !.objs = LiveSegments(s)]]
  /\ UNCHANGED <<sessionVars, audioVars, promptResult, queueVars, link, accepted>>

\* One segment_ready per segment of the list, in turn.
RedoOneSegment(c) ==
  /\ At(c, "redo_segments")
  /\ \E k \in call[c].objs :
       /\ Publish(AudioJob("segment_ready", call[c].ses, {k}))
       /\ LET left == call[c].objs \ {k}
          IN call' = [call EXCEPT ![c] = IF left = {} THEN IdleCall
                                         ELSE [@ EXCEPT !.objs = left]]
  /\ UNCHANGED <<sessionVars, audioVars, promptResult, link, budget, accepted>>

\* AdminRetranscribeSession reads the segments before it writes the status.
RedoSession(c, s) ==
  /\ Request(c, "redo_session")
  /\ UpdateStatus(s, "transcribing")
  /\ call' = [call EXCEPT ![c] = [IdleCall EXCEPT !.at = "redo_publish",
                                    !.ses = s, !.objs = LiveSegments(s)]]
  /\ UNCHANGED <<audioVars, promptResult, queueVars, link, accepted>>

\* Lines go; then a batch of the segments, or else the last upload, or else
\* 400 with the status already written.
RedoPublish(c) ==
  /\ At(c, "redo_publish")
  /\ DeleteTranscriptLines(call[c].ses)
  /\ LET s == call[c].ses
     IN CASE call[c].objs # {} ->
               Publish(AudioJob("recording_ready", s, call[c].objs))
          [] call[c].objs = {} /\ upload[s] # None ->
               Publish(AudioJob("upload_ready", s, {upload[s]}))
          [] OTHER -> UNCHANGED queueVars
  /\ Return(c)
  /\ UNCHANGED <<audioVars, promptResult, link, budget, accepted>>

RemoveSegments(c, s) ==
  /\ Request(c, "remove_segments")
  /\ LiveSegments(s) # {}
  /\ DeleteSegmentsBySession(s)
  /\ UNCHANGED <<sessionVars, object, spokenIn, promptResult, queueVars, link,
                 call, accepted>>

RemoveTranscription(c, s) ==
  /\ Request(c, "remove_transcription")
  /\ UpdateTranscription(s, {})
  /\ Goto(c, "remove_lines", s)
  /\ UNCHANGED <<audioVars, promptResult, queueVars, link, accepted>>

RemoveLines(c) ==
  /\ At(c, "remove_lines")
  /\ DeleteTranscriptLines(call[c].ses)
  /\ Return(c)
  /\ UNCHANGED <<audioVars, promptResult, queueVars, link, budget, accepted>>

-----------------------------------------------------------------------------
\* The next step of a handler that is running.
CallStep(c) ==
  \/ BeginWrite(c) \/ StopPublish(c)
  \/ SegmentPut(c) \/ SegmentUpsert(c) \/ SegmentPublish(c)
  \/ EndWrite(c) \/ EndPublish(c)
  \/ FilePut(c) \/ FilePublish(c)
  \/ FinishWrite(c) \/ FinishPublish(c)
  \/ PromptPublish(c)
  \/ RedoOneSegment(c) \/ RedoPublish(c) \/ RemoveLines(c)

\* A user's request reaches its handler.
TabRequest(c) ==
  \/ \E s \in Sessions : RecordingBegin(c, s) \/ OwnerJoin(c, s)
  \/ RecordingStop(c)
  \/ Disconnect(c)

PostRequest(c) ==
  \/ \E s \in Sessions :
       \/ \E k \in SegmentKeys, t \in Takes : UploadSegment(c, s, k, t)
       \/ \E f \in Files, t \in Takes : UploadAudio(c, s, f, t)
       \/ \E k \in SegmentKeys, t \in Takes :
            spokenIn[t] = s /\ SegmentResult(c, s, k, {t})
       \/ \E r \in ResultIds : PromptApply(c, s, r)
       \/ EndSession(c, s) \/ FinishUpload(c, s)
       \/ RedoSegments(c, s) \/ RedoSession(c, s)
       \/ RemoveSegments(c, s) \/ RemoveTranscription(c, s)
  \/ \E r \in ResultIds : PromptDelete(c, r)
=============================================================================
