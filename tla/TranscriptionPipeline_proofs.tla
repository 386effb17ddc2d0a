--------------------- MODULE TranscriptionPipeline_proofs ---------------------
(***************************************************************************)
(* Proofs about TranscriptionPipeline for every value of its constants:    *)
(* the types and JobsNameStoredAudio from the inductive invariant           *)
(* PipelineInv, and PromptAccountedFor for deployments without the faults   *)
(* that lose a message.                                                    *)
(***************************************************************************)
EXTENDS TranscriptionPipeline, TLAPS

-----------------------------------------------------------------------------
(* Lemmas about the operators the actions are built from.                  *)

\* The step a call is at says what the rest of its record holds.
LEMMA CallKinds ==
  ASSUME ApiTypeOK, NEW c \in Callers
  PROVE  /\ call[c].at \in {"segment_put", "segment_upsert", "segment_publish"}
              => call[c] \in SegmentCalls
         /\ call[c].at \in {"file_put", "file_publish"} => call[c] \in FileCalls
         /\ call[c].at = "prompt_publish" => call[c] \in PromptCalls
         /\ call[c].at \in {"redo_segments", "redo_publish"} => call[c] \in RedoCalls
         /\ call[c].at \in {"begin_write", "stop_publish", "end_write", "end_publish",
                            "finish_write", "finish_publish", "remove_lines"}
              => call[c] \in PlainCalls
         /\ call[c] # IdleCall => call[c].ses \in Sessions
<1> DEFINE x == call[c]
<1>1. \/ x = IdleCall \/ x \in SegmentCalls \/ x \in FileCalls
      \/ x \in PromptCalls \/ x \in RedoCalls \/ x \in PlainCalls
  BY DEF ApiTypeOK, Calls
<1>2. CASE x = IdleCall
  BY <1>2 DEF IdleCall
<1>3. CASE x \in SegmentCalls
  BY <1>3 DEF SegmentCalls
<1>4. CASE x \in FileCalls
  BY <1>4 DEF FileCalls
<1>5. CASE x \in PromptCalls
  BY <1>5 DEF PromptCalls
<1>6. CASE x \in RedoCalls
  BY <1>6 DEF RedoCalls
<1>7. CASE x \in PlainCalls
  BY <1>7 DEF PlainCalls
<1> QED
  BY <1>1, <1>2, <1>3, <1>4, <1>5, <1>6, <1>7

\* A handler moves to a step whose record names stored audio only.
LEMMA CallMoves ==
  ASSUME ApiTypeOK, CallsNameStoredAudio, NEW c \in Callers,
         NEW x \in {IdleCall} \cup Calls,
         call' = [call EXCEPT ![c] = x],
         UNCHANGED object,
         x.at \in {"segment_upsert", "segment_publish", "file_publish"}
           => Stored(x.ses, x.obj),
         \A o \in x.objs : Stored(x.ses, o)
  PROVE  /\ call' \in [Callers -> {IdleCall} \cup Calls]
         /\ CallsNameStoredAudio'
<1>1. call' \in [Callers -> {IdleCall} \cup Calls]
  BY DEF ApiTypeOK
<1>2. ASSUME NEW d \in Callers
      PROVE  /\ call'[d].at \in {"segment_upsert", "segment_publish", "file_publish"}
                  => Stored(call'[d].ses, call'[d].obj)
             /\ \A o \in call'[d].objs : Stored(call'[d].ses, o)
  <2>1. CASE d = c
    <3>1. call'[d] = x
      BY <2>1 DEF ApiTypeOK
    <3> QED
      BY <3>1
  <2>2. CASE d # c
    <3>1. call'[d] = call[d]
      BY <2>2 DEF ApiTypeOK
    <3> QED
      BY <3>1 DEF CallsNameStoredAudio
  <2> QED
    BY <2>1, <2>2
<1>3. \A s, o : Stored(s, o)' <=> Stored(s, o)
  BY DEF Stored, ObjectName
<1> QED
  BY <1>1, <1>2, <1>3 DEF CallsNameStoredAudio, Stored, ObjectName

\* A handler that returns leaves an idle call, which names nothing.
LEMMA CallReturns ==
  ASSUME ApiTypeOK, CallsNameStoredAudio, NEW c \in Callers, Return(c),
         UNCHANGED object
  PROVE  /\ call' \in [Callers -> {IdleCall} \cup Calls]
         /\ CallsNameStoredAudio'
<1>1. /\ IdleCall.at \notin {"segment_upsert", "segment_publish", "file_publish"}
      /\ IdleCall.objs = {}
  BY DEF IdleCall
<1> QED
  BY <1>1, CallMoves DEF Return

\* A handler that goes on to a step without audio names nothing either.
LEMMA CallGoes ==
  ASSUME ApiTypeOK, CallsNameStoredAudio, NEW c \in Callers,
         NEW s \in Sessions,
         NEW step \in {"begin_write", "stop_publish", "end_write", "end_publish",
                       "finish_write", "finish_publish", "remove_lines"},
         Goto(c, step, s), UNCHANGED object
  PROVE  /\ call' \in [Callers -> {IdleCall} \cup Calls]
         /\ CallsNameStoredAudio'
<1> DEFINE x == [IdleCall EXCEPT !.at = step, !.ses = s]
<1>1. x \in PlainCalls /\ x.objs = {} /\ x.at = step
  BY DEF IdleCall, PlainCalls
<1> QED
  BY <1>1, CallMoves DEF Goto, Calls

\* Publishing a typed job keeps both queues typed, on an open or a closed channel.
LEMMA PublishTyped ==
  ASSUME DataTypeOK, NEW j \in Jobs, Publish(j)
  PROVE  jobs' \in Seq(Jobs) /\ results' \in Seq(Results) /\ chanOpen' \in BOOLEAN
BY DEF DataTypeOK, Publish

\* What a name stands for depends on the object store alone.
LEMMA StoredSame ==
  ASSUME UNCHANGED object
  PROVE  \A s, o : Stored(s, o)' <=> Stored(s, o)
BY DEF Stored, ObjectName

\* A published job names stored audio; the jobs before it still do.
LEMMA PublishStored ==
  ASSUME DataTypeOK, JobsNameStoredAudio, NEW j \in Jobs, Publish(j),
         \A o \in j.objs : Stored(j.ses, o),
         UNCHANGED <<object, worker>>
  PROVE  JobsNameStoredAudio'
<1>1. ASSUME NEW i \in DOMAIN jobs'
      PROVE  \A o \in jobs'[i].objs : Stored(jobs'[i].ses, o)
  <2>1. CASE jobs' = jobs
    BY <2>1 DEF JobsNameStoredAudio
  <2>2. CASE jobs' = Append(jobs, j)
    <3>1. jobs \in Seq(Jobs)
      BY DEF DataTypeOK
    <3>2. i \in 1..(Len(jobs) + 1)
      BY <2>2, <3>1
    <3>3. CASE i \in 1..Len(jobs)
      <4>1. jobs'[i] = jobs[i] /\ i \in DOMAIN jobs
        BY <2>2, <3>1, <3>3
      <4> QED
        BY <4>1 DEF JobsNameStoredAudio
    <3>4. CASE i = Len(jobs) + 1
      <4>1. jobs'[i] = j
        BY <2>2, <3>1, <3>4
      <4> QED
        BY <4>1
    <3> QED
      BY <3>2, <3>3, <3>4
  <2> QED
    BY <2>1, <2>2 DEF Publish
<1>2. worker # IdleWorker => \A o \in worker.job.objs : Stored(worker.job.ses, o)
  BY DEF JobsNameStoredAudio
<1>3. \A s, o : Stored(s, o)' <=> Stored(s, o)
  BY StoredSame
<1> QED
  BY <1>1, <1>2, <1>3 DEF JobsNameStoredAudio, Stored, ObjectName

\* Every AudioJob and PromptJob that the handlers make is a job of the queue.
LEMMA AudioJobTyped ==
  /\ \A s \in Sessions, keys \in SUBSET SegmentKeys,
        type \in BatchTypes \cup {"segment_ready"} :
       AudioJob(type, s, keys) \in Jobs
  /\ \A s \in Sessions, f \in Files : AudioJob("upload_ready", s, {f}) \in Jobs
  /\ \A s \in Sessions, r \in ResultIds : PromptJob(s, r) \in Jobs
BY DEF AudioJob, PromptJob, Jobs, SegmentJobs, FileJobs, PromptJobs

\* The operations on session_segments keep the rows typed.
LEMMA SegmentOps ==
  ASSUME DataTypeOK, NEW s \in Sessions, NEW k \in SegmentKeys,
         \/ UpsertSegment(s, k)
         \/ \E text \in SUBSET Takes : UpdateSegmentResult(s, k, text)
         \/ DeleteSegmentsBySession(s)
  PROVE  segment' \in [Sessions -> [SegmentKeys -> SegmentRow]]
<1>1. segment[s][k] \in SegmentRow /\ segment \in [Sessions -> [SegmentKeys -> SegmentRow]]
  BY DEF DataTypeOK
<1>2. CASE UpsertSegment(s, k)
  BY <1>1, <1>2 DEF UpsertSegment, SegmentRow
<1>3. CASE \E text \in SUBSET Takes : UpdateSegmentResult(s, k, text)
  BY <1>1, <1>3 DEF UpdateSegmentResult, SegmentRow
<1>4. CASE DeleteSegmentsBySession(s)
  <2>1. ASSUME NEW l \in SegmentKeys
        PROVE  [segment[s][l] EXCEPT !.state = "deleted"] \in SegmentRow
    <3>1. segment[s][l] \in SegmentRow
      BY <1>1
    <3> QED
      BY <3>1 DEF SegmentRow
  <2> DEFINE rows == [l \in SegmentKeys |->
                        IF segment[s][l].state = "live"
                        THEN [segment[s][l] EXCEPT !.state = "deleted"]
                        ELSE segment[s][l]]
  <2>2. rows \in [SegmentKeys -> SegmentRow]
    BY <1>1, <2>1
  <2>3. segment' = [segment EXCEPT ![s] = rows]
    BY <1>4 DEF DeleteSegmentsBySession
  <2> HIDE DEF rows
  <2> QED
    BY <1>1, <2>2, <2>3
<1> QED
  BY <1>2, <1>3, <1>4

\* The operations on session_prompt_results keep the rows typed.
LEMMA PromptOps ==
  ASSUME DataTypeOK, NEW r \in ResultIds, NEW s \in Sessions,
         \/ CreatePromptResult(r, s)
         \/ \E st \in PromptStatuses : UpdatePromptResult(r, st)
         \/ DeletePromptResult(r)
  PROVE  promptResult' \in [ResultIds -> PromptRow]
<1>1. promptResult \in [ResultIds -> PromptRow] /\ promptResult[r] \in PromptRow
  BY DEF DataTypeOK
<1>2. CASE CreatePromptResult(r, s)
  <2>1. [state |-> "queued", ses |-> s] \in PromptRow
    BY DEF PromptRow, PromptStatuses
  <2> QED
    BY <1>1, <1>2, <2>1 DEF CreatePromptResult
<1>3. CASE \E st \in PromptStatuses : UpdatePromptResult(r, st)
  BY <1>1, <1>3 DEF UpdatePromptResult, PromptRow
<1>4. CASE DeletePromptResult(r)
  BY <1>1, <1>4 DEF DeletePromptResult, PromptRow
<1> QED
  BY <1>2, <1>3, <1>4


-----------------------------------------------------------------------------
(* Steps that leave the audio store alone: what the parts of PipelineInv   *)
(* need of them.                                                           *)

RestTypeOK ==
  /\ status \in [Sessions -> Statuses]
  /\ segment \in [Sessions -> [SegmentKeys -> SegmentRow]]
  /\ upload \in [Sessions -> Files \cup {None}]
  /\ transcript \in [Sessions -> SUBSET Takes]
  /\ lines \in [Sessions -> SUBSET Takes]
  /\ promptResult \in [ResultIds -> PromptRow]
  /\ faults \in Nat
  /\ spokenIn \in [Takes -> Sessions \cup {None}]
  /\ link \in [Tabs -> Sessions \cup {None}]
  /\ budget \in Nat
  /\ accepted \in SUBSET Takes

CallOK == call \in [Callers -> {IdleCall} \cup Calls] /\ CallsNameStoredAudio

\* The state that a step outside the audio and the queues leaves alone is typed.
LEMMA RestTyped == TypeOK => RestTypeOK
BY DEF TypeOK, DataTypeOK, ApiTypeOK, RestTypeOK

\* Rows name stored audio as long as segments, uploads and objects stay.
LEMMA RowsSame ==
  ASSUME RowsNameStoredAudio, UNCHANGED <<segment, upload, object>>
  PROVE  RowsNameStoredAudio'
BY DEF RowsNameStoredAudio, Stored, ObjectName

\* Calls name stored audio as long as calls and objects stay.
LEMMA CallSame ==
  ASSUME PipelineInv, UNCHANGED <<call, object>>
  PROVE  CallOK'
BY DEF PipelineInv, TypeOK, ApiTypeOK, CallOK, CallsNameStoredAudio, Stored,
       ObjectName

\* A step without a queue operation.
LEMMA QuietStep ==
  ASSUME PipelineInv, RestTypeOK', RowsNameStoredAudio', CallOK',
         UNCHANGED <<object, queueVars, worker, consumer>>
  PROVE  PipelineInv'
<1>1. DataTypeOK' /\ ApiTypeOK'
  BY DEF PipelineInv, TypeOK, DataTypeOK, ApiTypeOK, RestTypeOK, CallOK, queueVars
<1>2. WorkerTypeOK' /\ ConsumerTypeOK'
  BY DEF PipelineInv, TypeOK, WorkerTypeOK, ConsumerTypeOK
<1>3. JobsNameStoredAudio'
  BY DEF PipelineInv, JobsNameStoredAudio, Stored, ObjectName, queueVars
<1> QED
  BY <1>1, <1>2, <1>3 DEF PipelineInv, TypeOK, CallOK

\* A step of a handler or of the consumer that publishes one job.
LEMMA PublishStep ==
  ASSUME PipelineInv, RestTypeOK', RowsNameStoredAudio', CallOK',
         NEW j \in Jobs, Publish(j), \A o \in j.objs : Stored(j.ses, o),
         UNCHANGED <<object, worker>>, ConsumerTypeOK'
  PROVE  PipelineInv'
<1>1. DataTypeOK /\ JobsNameStoredAudio
  BY DEF PipelineInv, TypeOK
<1>2. jobs' \in Seq(Jobs) /\ results' \in Seq(Results) /\ chanOpen' \in BOOLEAN
  BY <1>1, PublishTyped
<1>3. DataTypeOK' /\ ApiTypeOK'
  BY <1>1, <1>2 DEF DataTypeOK, ApiTypeOK, RestTypeOK, CallOK
<1>4. WorkerTypeOK'
  BY DEF PipelineInv, TypeOK, WorkerTypeOK
<1>5. JobsNameStoredAudio'
  BY <1>1, PublishStored
<1> QED
  BY <1>3, <1>4, <1>5 DEF PipelineInv, TypeOK, CallOK


-----------------------------------------------------------------------------
(* PipelineInv is inductive.                                               *)

\* The initial state satisfies the inductive invariant.
LEMMA InitInv == Init => PipelineInv
<1> SUFFICES ASSUME Init PROVE PipelineInv
  OBVIOUS
<1> USE DataAssumption, ApiAssumption, WorkerAssumption
<1>1. DataTypeOK
  BY DEF Init, DataInit, DataTypeOK, Statuses, SegmentRow, PromptRow, Objects
<1>2. ApiTypeOK
  BY DEF Init, ApiInit, ApiTypeOK
<1>3. WorkerTypeOK /\ ConsumerTypeOK
  BY DEF Init, WorkerInit, ConsumerInit, WorkerTypeOK, ConsumerTypeOK
<1>4. JobsNameStoredAudio
  BY DEF Init, DataInit, WorkerInit, JobsNameStoredAudio
<1>5. RowsNameStoredAudio
  BY DEF Init, DataInit, RowsNameStoredAudio
<1>6. CallsNameStoredAudio
  BY DEF Init, ApiInit, CallsNameStoredAudio, IdleCall
<1> QED
  BY <1>1, <1>2, <1>3, <1>4, <1>5, <1>6 DEF PipelineInv, TypeOK

\* Websocket calls.
LEMMA TabRequestInv ==
  ASSUME PipelineInv, NEW c \in Tabs, TabRequest(c), UNCHANGED <<faults, worker, consumer>>
  PROVE  PipelineInv'
<1> USE DataAssumption, ApiAssumption
<1>1. c \in Callers /\ ApiTypeOK /\ RestTypeOK /\ CallsNameStoredAudio /\ RowsNameStoredAudio
  BY RestTyped DEF Callers, PipelineInv, TypeOK
<1>2. ASSUME NEW s \in Sessions, RecordingBegin(c, s)
      PROVE  PipelineInv'
  <2>1. UNCHANGED <<segment, upload, object, queueVars>>
    BY <1>2 DEF RecordingBegin, sessionVars, audioVars
  <2>2. RestTypeOK'
    BY <1>1, <1>2 DEF RecordingBegin, Request, RestTypeOK, sessionVars, audioVars
  <2>3. CallOK'
    BY <1>1, <1>2, <2>1, CallGoes DEF RecordingBegin, CallOK
  <2> QED
    BY <1>1, <2>1, <2>2, <2>3, RowsSame, QuietStep
<1>3. ASSUME NEW s \in Sessions, OwnerJoin(c, s)
      PROVE  PipelineInv'
  <2>1. UNCHANGED <<segment, upload, object, queueVars, call>>
    BY <1>3 DEF OwnerJoin, sessionVars, audioVars
  <2>2. RestTypeOK'
    BY <1>1, <1>3 DEF OwnerJoin, Request, RestTypeOK, sessionVars, audioVars
  <2>3. CallOK'
    BY <2>1, CallSame
  <2> QED
    BY <1>1, <2>1, <2>2, <2>3, RowsSame, QuietStep
<1>4. ASSUME RecordingStop(c)
      PROVE  PipelineInv'
  <2>1. UNCHANGED <<segment, upload, object, queueVars>> /\ link[c] \in Sessions
    BY <1>1, <1>4 DEF RecordingStop, UpdateStatus, audioVars, RestTypeOK
  <2>2. RestTypeOK'
    BY <1>1, <1>4, <2>1 DEF RecordingStop, Request, UpdateStatus, RestTypeOK, audioVars,
                            Statuses
  <2>3. CallOK'
    BY <1>1, <1>4, <2>1, CallGoes DEF RecordingStop, CallOK
  <2> QED
    BY <1>1, <2>1, <2>2, <2>3, RowsSame, QuietStep
<1>5. ASSUME Disconnect(c)
      PROVE  PipelineInv'
  <2>1. UNCHANGED <<segment, upload, object, queueVars, call>>
    BY <1>5 DEF Disconnect, sessionVars, audioVars
  <2>2. RestTypeOK'
    BY <1>1, <1>5 DEF Disconnect, Request, RestTypeOK, sessionVars, audioVars
  <2>3. CallOK'
    BY <2>1, CallSame
  <2> QED
    BY <1>1, <2>1, <2>2, <2>3, RowsSame, QuietStep
<1> QED
  BY <1>2, <1>3, <1>4, <1>5 DEF TabRequest

\* A call starts at a step that has nothing stored to name yet.
LEMMA CallStarts ==
  ASSUME PipelineInv, NEW c \in Callers, NEW x \in Calls,
         call' = [call EXCEPT ![c] = x], UNCHANGED object,
         x.at \notin {"segment_upsert", "segment_publish", "file_publish"},
         \A o \in x.objs : Stored(x.ses, o)
  PROVE  CallOK'
BY CallMoves DEF PipelineInv, TypeOK, CallOK

\* What the lists of live segments name is stored.
LEMMA LiveStored ==
  ASSUME RowsNameStoredAudio, NEW s \in Sessions
  PROVE  /\ LiveSegments(s) \in SUBSET SegmentKeys
         /\ \A k \in LiveSegments(s) : Stored(s, k)
BY DEF RowsNameStoredAudio, LiveSegments

\* Segments change without a row of theirs appearing.
LEMMA SegmentsKept ==
  ASSUME DataTypeOK, RowsNameStoredAudio, NEW s \in Sessions, NEW k \in SegmentKeys,
         UNCHANGED <<upload, object>>,
         \/ Stored(s, k) /\ UpsertSegment(s, k)
         \/ \E text \in SUBSET Takes : UpdateSegmentResult(s, k, text)
         \/ DeleteSegmentsBySession(s)
  PROVE  RowsNameStoredAudio'
<1>1. segment \in [Sessions -> [SegmentKeys -> SegmentRow]]
  BY DEF DataTypeOK
<1>2. ASSUME NEW u \in Sessions, NEW l \in SegmentKeys, segment'[u][l].state # "absent"
      PROVE  segment[u][l].state # "absent" \/ (u = s /\ l = k /\ Stored(s, k))
  <2>1. CASE UpsertSegment(s, k) /\ Stored(s, k)
    BY <1>1, <1>2, <2>1 DEF UpsertSegment
  <2>2. CASE \E text \in SUBSET Takes : UpdateSegmentResult(s, k, text)
    BY <1>1, <1>2, <2>2 DEF UpdateSegmentResult, SegmentRow
  <2>3. CASE DeleteSegmentsBySession(s)
    BY <1>1, <1>2, <2>3 DEF DeleteSegmentsBySession
  <2> QED
    BY <2>1, <2>2, <2>3
<1>3. \A u, o : Stored(u, o)' <=> Stored(u, o)
  BY StoredSame
<1> QED
  BY <1>2, <1>3 DEF RowsNameStoredAudio

\* HTTP requests.
LEMMA PostRequestInv ==
  ASSUME PipelineInv, NEW c \in Posts, PostRequest(c), UNCHANGED <<faults, worker, consumer>>
  PROVE  PipelineInv'
<1> USE DataAssumption, ApiAssumption
<1>1. /\ c \in Callers /\ DataTypeOK /\ ApiTypeOK /\ RestTypeOK
      /\ CallsNameStoredAudio /\ RowsNameStoredAudio
  BY RestTyped DEF Callers, PipelineInv, TypeOK
<1>2. ASSUME NEW s \in Sessions, NEW k \in SegmentKeys, NEW t \in Takes,
             UploadSegment(c, s, k, t)
      PROVE  PipelineInv'
  <2> DEFINE x == [IdleCall EXCEPT !.at = "segment_put", !.ses = s,
                                   !.obj = k, !.take = t]
  <2>1. UNCHANGED <<segment, upload, object, queueVars>>
    BY <1>2 DEF UploadSegment, sessionVars
  <2>2. RestTypeOK'
    BY <1>1, <1>2 DEF UploadSegment, Request, RestTypeOK, sessionVars
  <2>3. x \in SegmentCalls /\ x.objs = {} /\ x.at = "segment_put"
    BY DEF IdleCall, SegmentCalls
  <2>4. CallOK'
    BY <1>1, <1>2, <2>1, <2>3, CallStarts DEF UploadSegment, Calls
  <2> QED
    BY <1>1, <2>1, <2>2, <2>4, RowsSame, QuietStep
<1>3. ASSUME NEW s \in Sessions, NEW f \in Files, NEW t \in Takes,
             UploadAudio(c, s, f, t)
      PROVE  PipelineInv'
  <2> DEFINE x == [IdleCall EXCEPT !.at = "file_put", !.ses = s,
                                   !.obj = f, !.take = t]
  <2>1. UNCHANGED <<segment, upload, object, queueVars>>
    BY <1>3 DEF UploadAudio, sessionVars
  <2>2. RestTypeOK'
    BY <1>1, <1>3 DEF UploadAudio, Request, RestTypeOK, sessionVars
  <2>3. x \in FileCalls /\ x.objs = {} /\ x.at = "file_put"
    BY DEF IdleCall, FileCalls
  <2>4. CallOK'
    BY <1>1, <1>3, <2>1, <2>3, CallStarts DEF UploadAudio, Calls
  <2> QED
    BY <1>1, <2>1, <2>2, <2>4, RowsSame, QuietStep
<1>4. ASSUME NEW s \in Sessions, NEW k \in SegmentKeys, NEW t \in Takes,
             SegmentResult(c, s, k, {t})
      PROVE  PipelineInv'
  <2>1. /\ UNCHANGED <<upload, object, queueVars, call>>
        /\ UpdateSegmentResult(s, k, {t}) /\ {t} \in SUBSET Takes
    BY <1>4 DEF SegmentResult, sessionVars
  <2>2. segment' \in [Sessions -> [SegmentKeys -> SegmentRow]]
    BY <1>1, <2>1, SegmentOps
  <2>3. RestTypeOK'
    BY <1>1, <1>4, <2>2 DEF SegmentResult, Request, RestTypeOK, sessionVars
  <2>4. CallOK'
    BY <2>1, CallSame
  <2>5. RowsNameStoredAudio'
    BY <1>1, <2>1, SegmentsKept
  <2> QED
    BY <2>1, <2>3, <2>4, <2>5, QuietStep
<1>5. ASSUME NEW s \in Sessions, NEW r \in ResultIds, PromptApply(c, s, r)
      PROVE  PipelineInv'
  <2> DEFINE x == [IdleCall EXCEPT !.at = "prompt_publish", !.ses = s, !.row = r]
  <2>1. UNCHANGED <<segment, upload, object, queueVars>>
    BY <1>5 DEF PromptApply, sessionVars, audioVars
  <2>2. promptResult' \in [ResultIds -> PromptRow]
    BY <1>1, <1>5, PromptOps DEF PromptApply
  <2>3. RestTypeOK'
    BY <1>1, <1>5, <2>2 DEF PromptApply, Request, RestTypeOK, sessionVars, audioVars
  <2>4. x \in PromptCalls /\ x.objs = {} /\ x.at = "prompt_publish"
    BY DEF IdleCall, PromptCalls
  <2>5. CallOK'
    BY <1>1, <1>5, <2>1, <2>4, CallStarts DEF PromptApply, Calls
  <2> QED
    BY <1>1, <2>1, <2>3, <2>5, RowsSame, QuietStep
<1>6. ASSUME NEW s \in Sessions, EndSession(c, s) \/ FinishUpload(c, s)
      PROVE  PipelineInv'
  <2>1. UNCHANGED <<segment, upload, object, queueVars>>
    BY <1>6 DEF EndSession, FinishUpload, sessionVars, audioVars
  <2>2. RestTypeOK'
    BY <1>1, <1>6 DEF EndSession, FinishUpload, Request, RestTypeOK, sessionVars,
                      audioVars
  <2>3. CallOK'
    BY <1>1, <1>6, <2>1, CallGoes DEF EndSession, FinishUpload, CallOK
  <2> QED
    BY <1>1, <2>1, <2>2, <2>3, RowsSame, QuietStep
<1>7. ASSUME NEW s \in Sessions, RedoSegments(c, s) \/ RedoSession(c, s)
      PROVE  PipelineInv'
  <2> DEFINE x(step) == [IdleCall EXCEPT !.at = step, !.ses = s,
                                         !.objs = LiveSegments(s)]
  <2>1. UNCHANGED <<segment, upload, object, queueVars>>
    BY <1>7 DEF RedoSegments, RedoSession, UpdateStatus, sessionVars, audioVars
  <2>2. RestTypeOK'
    <3>1. CASE RedoSegments(c, s)
      BY <1>1, <3>1 DEF RedoSegments, Request, RestTypeOK, sessionVars, audioVars
    <3>2. CASE RedoSession(c, s)
      BY <1>1, <3>2 DEF RedoSession, UpdateStatus, Request, RestTypeOK, audioVars,
                        Statuses
    <3> QED
      BY <1>7, <3>1, <3>2
  <2>3. \A step \in {"redo_segments", "redo_publish"} :
          /\ x(step) \in RedoCalls /\ x(step).at = step
          /\ x(step).ses = s /\ x(step).objs = LiveSegments(s)
    BY <1>1, LiveStored DEF IdleCall, RedoCalls
  <2>4. PICK step \in {"redo_segments", "redo_publish"} :
          call' = [call EXCEPT ![c] = x(step)]
    BY <1>7 DEF RedoSegments, RedoSession
  <2>5. x(step) \in Calls
    BY <2>3 DEF Calls
  <2>6. \A k \in LiveSegments(s) : Stored(s, k)
    BY <1>1, LiveStored
  <2> HIDE DEF x
  <2>7. /\ x(step).at \notin {"segment_upsert", "segment_publish", "file_publish"}
        /\ \A o \in x(step).objs : Stored(x(step).ses, o)
    BY <2>3, <2>6
  <2>8. CallOK'
    BY <1>1, <2>1, <2>4, <2>5, <2>7, CallStarts
  <2> QED
    BY <1>1, <2>1, <2>2, <2>8, RowsSame, QuietStep
<1>8. ASSUME NEW s \in Sessions, RemoveSegments(c, s)
      PROVE  PipelineInv'
  <2>1. /\ UNCHANGED <<upload, object, queueVars, call>>
        /\ DeleteSegmentsBySession(s)
    BY <1>8 DEF RemoveSegments, sessionVars
  <2>2. PICK k \in SegmentKeys : k \in LiveSegments(s)
    BY <1>8 DEF RemoveSegments, LiveSegments
  <2>3. segment' \in [Sessions -> [SegmentKeys -> SegmentRow]]
    BY <1>1, <2>1, SegmentOps
  <2>4. RestTypeOK'
    BY <1>1, <1>8, <2>3 DEF RemoveSegments, Request, RestTypeOK, sessionVars
  <2>5. CallOK'
    BY <2>1, CallSame
  <2>6. RowsNameStoredAudio'
    BY <1>1, <2>1, SegmentsKept
  <2> QED
    BY <2>1, <2>4, <2>5, <2>6, QuietStep
<1>9. ASSUME NEW s \in Sessions, RemoveTranscription(c, s)
      PROVE  PipelineInv'
  <2>1. UNCHANGED <<segment, upload, object, queueVars>>
    BY <1>9 DEF RemoveTranscription, UpdateTranscription, audioVars
  <2>2. RestTypeOK'
    BY <1>1, <1>9 DEF RemoveTranscription, UpdateTranscription, Request, RestTypeOK,
                      audioVars, Statuses
  <2>3. CallOK'
    BY <1>1, <1>9, <2>1, CallGoes DEF RemoveTranscription, CallOK
  <2> QED
    BY <1>1, <2>1, <2>2, <2>3, RowsSame, QuietStep
<1>10. ASSUME NEW r \in ResultIds, PromptDelete(c, r)
       PROVE  PipelineInv'
  <2>1. UNCHANGED <<segment, upload, object, queueVars, call>>
    BY <1>10 DEF PromptDelete, sessionVars, audioVars
  <2>2. promptResult \in [ResultIds -> PromptRow]
    BY <1>1 DEF RestTypeOK
  <2>3. promptResult' \in [ResultIds -> PromptRow]
    BY <1>10, <2>2 DEF PromptDelete, DeletePromptResult, PromptRow
  <2>4. RestTypeOK'
    BY <1>1, <1>10, <2>3 DEF PromptDelete, Request, RestTypeOK, sessionVars, audioVars
  <2>5. CallOK'
    BY <2>1, CallSame
  <2> QED
    BY <1>1, <2>1, <2>4, <2>5, RowsSame, QuietStep
<1> QED
  BY <1>2, <1>3, <1>4, <1>5, <1>6, <1>7, <1>8, <1>9, <1>10 DEF PostRequest

\* A handler stores audio and goes on to the step that names it.
LEMMA PutStep ==
  ASSUME PipelineInv, NEW c \in Callers, NEW x \in Calls,
         x.objs = {}, x.obj \in Objects, x.take \in Takes,
         PutObject(x.ses, x.obj, x.take), x.ses \in Sessions,
         call' = [call EXCEPT ![c] = x],
         UNCHANGED <<sessionVars, segment, spokenIn, promptResult, queueVars, faults,
                     link, budget, accepted, worker, consumer>>
  PROVE  PipelineInv'
<1> DEFINE Kept(s, o) == object'[ObjectName(s, o)] \in Takes
<1>1. /\ DataTypeOK /\ ApiTypeOK /\ JobsNameStoredAudio
      /\ RowsNameStoredAudio /\ CallsNameStoredAudio
  BY DEF PipelineInv, TypeOK
<1>2. object' \in [Sessions \X Objects -> Takes \cup {None}]
  BY <1>1 DEF PutObject, DataTypeOK, ObjectName
<1>3. Kept(x.ses, x.obj)
  BY <1>1 DEF PutObject, DataTypeOK, ObjectName, Stored
<1>4. ASSUME NEW s \in Sessions, NEW o \in Objects, Stored(s, o)
      PROVE  Kept(s, o)
  BY <1>1, <1>4 DEF PutObject, DataTypeOK, ObjectName, Stored
<1>5. DataTypeOK'
  BY <1>1, <1>2 DEF DataTypeOK, sessionVars, queueVars
<1>6. ApiTypeOK'
  BY <1>1 DEF ApiTypeOK
<1>7. WorkerTypeOK' /\ ConsumerTypeOK'
  BY DEF PipelineInv, TypeOK, WorkerTypeOK, ConsumerTypeOK
<1>8. \A j \in Jobs : j.ses \in Sessions /\ j.objs \subseteq Objects
  BY DEF Jobs, SegmentJobs, FileJobs, PromptJobs, Objects
<1>9. JobsNameStoredAudio'
  <2>1. ASSUME NEW i \in DOMAIN jobs, NEW o \in jobs[i].objs
        PROVE  Kept(jobs[i].ses, o)
    <3>1. jobs[i] \in Jobs
      BY <1>1 DEF DataTypeOK
    <3>2. Stored(jobs[i].ses, o)
      BY <1>1 DEF JobsNameStoredAudio
    <3> QED
      BY <1>4, <1>8, <3>1, <3>2
  <2>2. ASSUME worker # IdleWorker, NEW o \in worker.job.objs
        PROVE  Kept(worker.job.ses, o)
    <3>1. worker.job \in Jobs
      BY <2>2 DEF PipelineInv, TypeOK, WorkerTypeOK
    <3>2. Stored(worker.job.ses, o)
      BY <1>1, <2>2 DEF JobsNameStoredAudio
    <3> QED
      BY <1>4, <1>8, <3>1, <3>2
  <2> QED
    BY <2>1, <2>2 DEF JobsNameStoredAudio, Stored, ObjectName, queueVars
<1>10. RowsNameStoredAudio'
  <2>1. \A s \in Sessions : upload[s] \in Files \cup {None}
    BY <1>1 DEF DataTypeOK
  <2> QED
    BY <1>1, <1>4, <2>1 DEF RowsNameStoredAudio, Stored, ObjectName, sessionVars, Objects
<1>11. CallsNameStoredAudio'
  <2>1. ASSUME NEW d \in Callers
        PROVE  /\ call'[d].at \in {"segment_upsert", "segment_publish", "file_publish"}
                    => Kept(call'[d].ses, call'[d].obj)
               /\ \A o \in call'[d].objs : Kept(call'[d].ses, o)
    <3>1. CASE d = c
      <4>1. call'[d] = x
        BY <1>1, <3>1 DEF ApiTypeOK
      <4> QED
        BY <1>3, <4>1
    <3>2. CASE d # c
      <4>1. call'[d] = call[d] /\ call[d] \in {IdleCall} \cup Calls
        BY <1>1, <3>2 DEF ApiTypeOK
      <4>2. /\ call[d].at \in {"segment_upsert", "segment_publish", "file_publish"}
                 => call[d].ses \in Sessions /\ call[d].obj \in Objects
            /\ \A o \in call[d].objs : call[d].ses \in Sessions /\ o \in Objects
        BY <4>1 DEF Calls, SegmentCalls, FileCalls, PromptCalls, RedoCalls, PlainCalls,
                    IdleCall, Objects
      <4> QED
        BY <1>1, <1>4, <4>1, <4>2 DEF CallsNameStoredAudio
    <3> QED
      BY <3>1, <3>2
  <2> QED
    BY <2>1 DEF CallsNameStoredAudio, Stored, ObjectName
<1> QED
  BY <1>5, <1>6, <1>7, <1>9, <1>10, <1>11 DEF PipelineInv, TypeOK

\* A handler that returns, or goes on from one plain step to another.
LEMMA CallReturned ==
  ASSUME PipelineInv, NEW c \in Callers, Return(c), UNCHANGED object
  PROVE  CallOK'
BY CallReturns DEF PipelineInv, TypeOK, CallOK

\* A handler of a plain call goes on to its next step.
LEMMA CallContinues ==
  ASSUME PipelineInv, NEW c \in Callers, call[c] \in PlainCalls, UNCHANGED object,
         NEW step \in {"end_publish", "finish_publish"}, Continue(c, step)
  PROVE  CallOK'
<1> DEFINE x == [call[c] EXCEPT !.at = step]
<1>1. x \in PlainCalls /\ x.objs = {} /\ x.at = step
  BY DEF PlainCalls
<1>2. call' = [call EXCEPT ![c] = x]
  BY DEF Continue
<1> HIDE DEF x
<1> QED
  BY <1>1, <1>2, CallStarts DEF Calls

\* The steps of running handlers that write a row and publish nothing.
LEMMA WriteStepInv ==
  ASSUME PipelineInv, NEW c \in Callers, UNCHANGED <<worker, consumer>>,
         \/ BeginWrite(c) /\ UNCHANGED faults
         \/ EndWrite(c) /\ UNCHANGED faults
         \/ FinishWrite(c) /\ UNCHANGED faults
         \/ RemoveLines(c) /\ UNCHANGED faults
         \/ SegmentPutFails(c)
         \/ FilePutFails(c)
  PROVE  PipelineInv'
<1>1. /\ DataTypeOK /\ ApiTypeOK /\ RestTypeOK
      /\ CallsNameStoredAudio /\ RowsNameStoredAudio
  BY RestTyped DEF PipelineInv, TypeOK
<1>2. UNCHANGED <<segment, upload, object, queueVars>>
  BY DEF BeginWrite, EndWrite, FinishWrite, RemoveLines, SegmentPutFails, FilePutFails,
         UpdateStatus, DeleteTranscriptLines, SaveTranscriptLines, sessionVars, audioVars
<1>3. RowsNameStoredAudio'
  BY <1>1, <1>2, RowsSame
<1>4. CASE BeginWrite(c) /\ UNCHANGED faults
  <2>1. call[c].ses \in Sessions
    BY <1>1, <1>4, CallKinds DEF BeginWrite, At, IdleCall
  <2>2. RestTypeOK'
    BY <1>1, <1>4, <2>1 DEF BeginWrite, UpdateStatus, RestTypeOK, audioVars, Statuses
  <2>3. CallOK'
    BY <1>2, <1>4, CallReturned DEF BeginWrite
  <2> QED
    BY <1>2, <1>3, <2>2, <2>3, QuietStep
<1>5. CASE EndWrite(c) /\ UNCHANGED faults
  <2>1. call[c] \in PlainCalls
    BY <1>1, <1>5, CallKinds DEF EndWrite, At
  <2>2. RestTypeOK'
    BY <1>1, <1>5 DEF EndWrite, UpdateStatus, RestTypeOK, audioVars, Statuses
  <2>3. CallOK'
    BY <1>2, <1>5, <2>1, CallContinues DEF EndWrite
  <2> QED
    BY <1>2, <1>3, <2>2, <2>3, QuietStep
<1>6. CASE FinishWrite(c) /\ UNCHANGED faults
  <2>1. call[c] \in PlainCalls
    BY <1>1, <1>6, CallKinds DEF FinishWrite, At
  <2>2. RestTypeOK'
    BY <1>1, <1>6 DEF FinishWrite, UpdateStatus, RestTypeOK, audioVars, Statuses
  <2>3. CallOK'
    BY <1>2, <1>6, <2>1, CallContinues DEF FinishWrite
  <2> QED
    BY <1>2, <1>3, <2>2, <2>3, QuietStep
<1>7. CASE RemoveLines(c) /\ UNCHANGED faults
  <2>1. RestTypeOK'
    BY <1>1, <1>7 DEF RemoveLines, DeleteTranscriptLines, SaveTranscriptLines,
                      RestTypeOK, audioVars
  <2>2. CallOK'
    BY <1>2, <1>7, CallReturned DEF RemoveLines
  <2> QED
    BY <1>2, <1>3, <2>1, <2>2, QuietStep
<1>8. CASE SegmentPutFails(c)
  <2>1. RestTypeOK'
    BY <1>1, <1>8 DEF SegmentPutFails, Fault, RestTypeOK, sessionVars, audioVars
  <2>2. CallOK'
    BY <1>2, <1>8, CallReturned DEF SegmentPutFails
  <2> QED
    BY <1>2, <1>3, <2>1, <2>2, QuietStep
<1>9. CASE FilePutFails(c)
  <2>1. RestTypeOK'
    <3>1. faults' \in Nat
      BY <1>1, <1>9 DEF FilePutFails, Fault, RestTypeOK
    <3>2. status' \in [Sessions -> Statuses]
      BY <1>1, <1>9 DEF FilePutFails, UpdateStatus, RestTypeOK, Statuses
    <3> QED
      BY <1>1, <1>9, <3>1, <3>2
         DEF FilePutFails, UpdateStatus, RestTypeOK, audioVars
  <2>2. CallOK'
    BY <1>2, <1>9, CallReturned DEF FilePutFails
  <2> QED
    BY <1>2, <1>3, <2>1, <2>2, QuietStep
<1> QED
  BY <1>4, <1>5, <1>6, <1>7, <1>8, <1>9

\* The steps that store audio or turn it into a row.
LEMMA AudioStepInv ==
  ASSUME PipelineInv, NEW c \in Callers, UNCHANGED <<faults, worker, consumer>>,
         SegmentPut(c) \/ FilePut(c) \/ SegmentUpsert(c)
  PROVE  PipelineInv'
<1>1. /\ DataTypeOK /\ ApiTypeOK /\ RestTypeOK
      /\ CallsNameStoredAudio /\ RowsNameStoredAudio
  BY RestTyped DEF PipelineInv, TypeOK
<1>2. CASE SegmentPut(c)
  <2> DEFINE x == [call[c] EXCEPT !.at = "segment_upsert"]
  <2>1. call[c] \in SegmentCalls
    BY <1>1, <1>2, CallKinds DEF SegmentPut, At
  <2>2. /\ x \in SegmentCalls /\ x.objs = {} /\ x.obj \in Objects /\ x.take \in Takes
        /\ x.ses \in Sessions
        /\ x.ses = call[c].ses /\ x.obj = call[c].obj /\ x.take = call[c].take
    BY <2>1 DEF SegmentCalls, Objects
  <2>3. call' = [call EXCEPT ![c] = x] /\ PutObject(x.ses, x.obj, x.take)
    BY <1>2, <2>2 DEF SegmentPut, Continue
  <2>4. x \in Calls
    BY <2>2 DEF Calls
  <2>5. UNCHANGED <<sessionVars, segment, spokenIn, promptResult, queueVars, faults,
                    link, budget, accepted, worker, consumer>>
    BY <1>2 DEF SegmentPut
  <2> HIDE DEF x
  <2> QED
    BY <2>2, <2>3, <2>4, <2>5, PutStep
<1>3. CASE FilePut(c)
  <2> DEFINE x == [call[c] EXCEPT !.at = "file_publish"]
  <2>1. call[c] \in FileCalls
    BY <1>1, <1>3, CallKinds DEF FilePut, At
  <2>2. /\ x \in FileCalls /\ x.objs = {} /\ x.obj \in Objects /\ x.take \in Takes
        /\ x.ses \in Sessions
        /\ x.ses = call[c].ses /\ x.obj = call[c].obj /\ x.take = call[c].take
    BY <2>1 DEF FileCalls, Objects
  <2>3. call' = [call EXCEPT ![c] = x] /\ PutObject(x.ses, x.obj, x.take)
    BY <1>3, <2>2 DEF FilePut, Continue
  <2>4. x \in Calls
    BY <2>2 DEF Calls
  <2>5. UNCHANGED <<sessionVars, segment, spokenIn, promptResult, queueVars, faults,
                    link, budget, accepted, worker, consumer>>
    BY <1>3 DEF FilePut
  <2> HIDE DEF x
  <2> QED
    BY <2>2, <2>3, <2>4, <2>5, PutStep
<1>4. CASE SegmentUpsert(c)
  <2> DEFINE x == [call[c] EXCEPT !.at = "segment_publish"]
             s == call[c].ses
             k == call[c].obj
  <2>1. call[c] \in SegmentCalls /\ s \in Sessions /\ k \in SegmentKeys
    BY <1>1, <1>4, CallKinds DEF SegmentUpsert, At, SegmentCalls
  <2>2. Stored(s, k)
    BY <1>1, <1>4 DEF SegmentUpsert, At, CallsNameStoredAudio
  <2>3. /\ UpsertSegment(s, k) /\ call' = [call EXCEPT ![c] = x]
        /\ UNCHANGED <<upload, object, queueVars>>
    BY <1>4 DEF SegmentUpsert, Continue, sessionVars
  <2>4. segment' \in [Sessions -> [SegmentKeys -> SegmentRow]]
    BY <1>1, <2>1, <2>3, SegmentOps
  <2>5. RestTypeOK'
    BY <1>1, <1>4, <2>4 DEF SegmentUpsert, RestTypeOK, sessionVars
  <2>6. RowsNameStoredAudio'
    BY <1>1, <2>1, <2>2, <2>3, SegmentsKept
  <2>7. x \in SegmentCalls /\ x.objs = {} /\ x.ses = s /\ x.obj = k
    BY <2>1 DEF SegmentCalls
  <2>8. x \in Calls
    BY <2>7 DEF Calls
  <2>9. CallOK'
    <3> HIDE DEF x, s, k
    <3> QED
      BY <1>1, <2>2, <2>3, <2>7, <2>8, CallMoves DEF CallOK
  <2> QED
    BY <2>3, <2>5, <2>6, <2>9, QuietStep
<1> QED
  BY <1>2, <1>3, <1>4

\* The steps that publish a job.
LEMMA PublishStepInv ==
  ASSUME PipelineInv, NEW c \in Callers, UNCHANGED <<faults, worker, consumer>>,
         \/ StopPublish(c) \/ SegmentPublish(c) \/ EndPublish(c) \/ FilePublish(c)
         \/ FinishPublish(c) \/ PromptPublish(c) \/ RedoOneSegment(c) \/ RedoPublish(c)
  PROVE  PipelineInv'
<1> DEFINE s == call[c].ses
<1>1. /\ DataTypeOK /\ ApiTypeOK /\ RestTypeOK /\ ConsumerTypeOK'
      /\ CallsNameStoredAudio /\ RowsNameStoredAudio
  BY RestTyped DEF PipelineInv, TypeOK, ConsumerTypeOK
<1>2. s \in Sessions
  BY <1>1, CallKinds DEF StopPublish, SegmentPublish, EndPublish, FilePublish,
        FinishPublish, PromptPublish, RedoOneSegment, RedoPublish, At, IdleCall
<1>3. LiveSegments(s) \in SUBSET SegmentKeys /\ \A k \in LiveSegments(s) : Stored(s, k)
  BY <1>1, <1>2, LiveStored
<1>4. \A type, keys : /\ AudioJob(type, s, keys).ses = s
                      /\ AudioJob(type, s, keys).objs = keys
  BY DEF AudioJob
<1>5. CASE StopPublish(c) \/ EndPublish(c) \/ FinishPublish(c)
  <2>1. UNCHANGED <<segment, upload, object>> /\ Return(c)
    BY <1>5 DEF StopPublish, EndPublish, FinishPublish, sessionVars, audioVars
  <2>2. RestTypeOK'
    BY <1>1, <1>5 DEF StopPublish, EndPublish, FinishPublish, RestTypeOK, sessionVars,
                      audioVars
  <2>3. CallOK' /\ RowsNameStoredAudio'
    BY <1>1, <2>1, CallReturned, RowsSame
  <2>4. CASE UNCHANGED queueVars
    BY <2>1, <2>2, <2>3, <2>4, QuietStep
  <2>5. CASE \E type \in BatchTypes : Publish(AudioJob(type, s, LiveSegments(s)))
    <3>1. PICK type \in BatchTypes : Publish(AudioJob(type, s, LiveSegments(s)))
      BY <2>5
    <3>2. AudioJob(type, s, LiveSegments(s)) \in Jobs
      BY <1>2, <1>3, AudioJobTyped
    <3> QED
      BY <1>1, <1>3, <1>4, <2>1, <2>2, <2>3, <3>1, <3>2, PublishStep
  <2> QED
    BY <1>5, <2>4, <2>5 DEF StopPublish, EndPublish, FinishPublish, BatchTypes
<1>6. CASE SegmentPublish(c)
  <2> DEFINE k == call[c].obj
  <2>1. call[c] \in SegmentCalls /\ k \in SegmentKeys
    BY <1>1, <1>6, CallKinds DEF SegmentPublish, At, SegmentCalls
  <2>2. UNCHANGED <<segment, upload, object>> /\ Return(c)
    BY <1>6 DEF SegmentPublish, sessionVars, audioVars
  <2>3. accepted' \in SUBSET Takes
    BY <1>1, <1>6, <2>1 DEF SegmentPublish, RestTypeOK, SegmentCalls
  <2>4. RestTypeOK'
    BY <1>1, <1>6, <2>3 DEF SegmentPublish, RestTypeOK, sessionVars, audioVars
  <2>5. CallOK' /\ RowsNameStoredAudio'
    BY <1>1, <2>2, CallReturned, RowsSame
  <2>6. CASE UNCHANGED queueVars
    BY <2>2, <2>4, <2>5, <2>6, QuietStep
  <2>7. CASE k \in LiveSegments(s) /\ Publish(AudioJob("segment_ready", s, {k}))
    <3>1. AudioJob("segment_ready", s, {k}) \in Jobs
      BY <1>2, <2>1, AudioJobTyped
    <3> QED
      BY <1>1, <1>3, <1>4, <2>2, <2>4, <2>5, <2>7, <3>1, PublishStep
  <2> QED
    BY <1>6, <2>6, <2>7 DEF SegmentPublish
<1>7. CASE FilePublish(c)
  <2> DEFINE f == call[c].obj
  <2>1. call[c] \in FileCalls /\ f \in Files
    BY <1>1, <1>7, CallKinds DEF FilePublish, At, FileCalls
  <2>2. Stored(s, f)
    BY <1>1, <1>7 DEF FilePublish, At, CallsNameStoredAudio
  <2>3. /\ UNCHANGED <<segment, object>> /\ Return(c)
        /\ upload' = [upload EXCEPT ![s] = f]
        /\ Publish(AudioJob("upload_ready", s, {f}))
    BY <1>7 DEF FilePublish, AddUpload, audioVars
  <2>4. RestTypeOK'
    BY <1>1, <1>2, <1>7, <2>1, <2>3 DEF FilePublish, RestTypeOK, Statuses, audioVars
  <2>5. RowsNameStoredAudio'
    BY <1>1, <1>2, <2>2, <2>3 DEF RowsNameStoredAudio, Stored, ObjectName, RestTypeOK
  <2>6. CallOK'
    BY <1>1, <2>3, CallReturned
  <2>7. AudioJob("upload_ready", s, {f}) \in Jobs
    BY <1>2, <2>1, AudioJobTyped
  <2> QED
    BY <1>1, <1>4, <2>2, <2>3, <2>4, <2>5, <2>6, <2>7, PublishStep
<1>8. CASE PromptPublish(c)
  <2> DEFINE r == call[c].row
  <2>1. call[c] \in PromptCalls /\ r \in ResultIds
    BY <1>1, <1>8, CallKinds DEF PromptPublish, At, PromptCalls
  <2>2. /\ UNCHANGED <<segment, upload, object>> /\ Return(c)
        /\ Publish(PromptJob(s, r))
    BY <1>8 DEF PromptPublish, sessionVars, audioVars
  <2>3. promptResult' \in [ResultIds -> PromptRow]
    BY <1>1, <1>2, <1>8, <2>1, PromptOps
       DEF PromptPublish, RestTypeOK, PromptStatuses
  <2>4. RestTypeOK'
    BY <1>1, <1>8, <2>3 DEF PromptPublish, RestTypeOK, sessionVars, audioVars
  <2>5. CallOK' /\ RowsNameStoredAudio'
    BY <1>1, <2>2, CallReturned, RowsSame
  <2>6. PromptJob(s, r) \in Jobs /\ PromptJob(s, r).objs = {}
    BY <1>2, <2>1, AudioJobTyped DEF PromptJob
  <2> QED
    BY <1>1, <2>2, <2>4, <2>5, <2>6, PublishStep
<1>9. CASE RedoOneSegment(c)
  <2>1. call[c] \in RedoCalls
    BY <1>1, <1>9, CallKinds DEF RedoOneSegment, At
  <2>2. PICK k \in call[c].objs :
          /\ Publish(AudioJob("segment_ready", s, {k}))
          /\ LET left == call[c].objs \ {k}
             IN call' = [call EXCEPT ![c] = IF left = {} THEN IdleCall
                                            ELSE [@ EXCEPT !.objs = left]]
    BY <1>9 DEF RedoOneSegment
  <2> DEFINE left == call[c].objs \ {k}
             x == IF left = {} THEN IdleCall ELSE [call[c] EXCEPT !.objs = left]
  <2>3. k \in SegmentKeys /\ \A o \in call[c].objs : Stored(s, o)
    BY <1>1, <2>1, <2>2 DEF RedoCalls, CallsNameStoredAudio
  <2>4. UNCHANGED <<segment, upload, object>>
    BY <1>9 DEF RedoOneSegment, sessionVars, audioVars
  <2>5. RestTypeOK'
    BY <1>1, <1>9 DEF RedoOneSegment, RestTypeOK, sessionVars, audioVars
  <2>6. /\ x \in {IdleCall} \cup Calls
        /\ x.at \notin {"segment_upsert", "segment_publish", "file_publish"}
        /\ \A o \in x.objs : Stored(x.ses, o)
    <3>1. CASE left = {}
      BY <3>1 DEF IdleCall
    <3>2. CASE left # {}
      <4>1. call[c].at = "redo_segments"
        BY <1>9 DEF RedoOneSegment, At
      <4>2. /\ x \in RedoCalls /\ x.at = "redo_segments" /\ x.ses = s
            /\ x.objs \subseteq call[c].objs
        BY <2>1, <3>2, <4>1 DEF RedoCalls
      <4> HIDE DEF x
      <4> QED
        BY <2>3, <4>2 DEF Calls
    <3> QED
      BY <3>1, <3>2
  <2>7. CallOK' /\ RowsNameStoredAudio'
    <3>1. call' = [call EXCEPT ![c] = x]
      BY <2>2
    <3> HIDE DEF x
    <3>2. CallOK'
      BY <1>1, <2>4, <2>6, <3>1, CallMoves DEF CallOK
    <3> QED
      BY <1>1, <2>4, <3>2, RowsSame
  <2>8. AudioJob("segment_ready", s, {k}) \in Jobs
    BY <1>2, <2>3, AudioJobTyped
  <2> QED
    BY <1>1, <1>4, <2>2, <2>3, <2>4, <2>5, <2>7, <2>8, PublishStep
<1>10. CASE RedoPublish(c)
  <2>1. call[c] \in RedoCalls
    BY <1>1, <1>10, CallKinds DEF RedoPublish, At
  <2>2. /\ call[c].objs \in SUBSET SegmentKeys
        /\ \A o \in call[c].objs : Stored(s, o)
    BY <1>1, <2>1 DEF RedoCalls, CallsNameStoredAudio
  <2>3. UNCHANGED <<segment, upload, object>> /\ Return(c)
    BY <1>10 DEF RedoPublish, DeleteTranscriptLines, SaveTranscriptLines, audioVars
  <2>4. RestTypeOK'
    BY <1>1, <1>10 DEF RedoPublish, DeleteTranscriptLines, SaveTranscriptLines,
                       RestTypeOK, audioVars
  <2>5. CallOK' /\ RowsNameStoredAudio'
    BY <1>1, <2>3, CallReturned, RowsSame
  <2>6. CASE UNCHANGED queueVars
    BY <2>3, <2>4, <2>5, <2>6, QuietStep
  <2>7. CASE Publish(AudioJob("recording_ready", s, call[c].objs))
    <3>1. AudioJob("recording_ready", s, call[c].objs) \in Jobs
      BY <1>2, <2>2, AudioJobTyped DEF BatchTypes
    <3> QED
      BY <1>1, <1>4, <2>2, <2>3, <2>4, <2>5, <2>7, <3>1, PublishStep
  <2>8. CASE upload[s] # None /\ Publish(AudioJob("upload_ready", s, {upload[s]}))
    <3>1. upload[s] \in Files /\ Stored(s, upload[s])
      BY <1>1, <1>2, <2>8 DEF RestTypeOK, RowsNameStoredAudio
    <3>2. AudioJob("upload_ready", s, {upload[s]}) \in Jobs
      BY <1>2, <3>1, AudioJobTyped
    <3> QED
      BY <1>1, <1>4, <2>3, <2>4, <2>5, <2>8, <3>1, <3>2, PublishStep
  <2> QED
    BY <1>10, <2>6, <2>7, <2>8 DEF RedoPublish
<1> QED
  BY <1>5, <1>6, <1>7, <1>8, <1>9, <1>10

-----------------------------------------------------------------------------
(* The worker, the consumer and the faults.                                *)

\* A reply of the worker to its job is a typed result.
LEMMA ReplyTyped ==
  ASSUME PipelineInv, WorkerReply
  PROVE  /\ UNCHANGED queueVars \/ \E r \in Results : /\ results' = Append(results, r)
                                                      /\ UNCHANGED <<jobs, chanOpen>>
         /\ worker' = [worker EXCEPT !.at = "replied"]
<1> USE DataAssumption, WorkerAssumption
<1> DEFINE job == worker.job
<1>1. /\ DataTypeOK /\ job \in Jobs /\ job.ses \in Sessions
      /\ \A o \in job.objs : Stored(job.ses, o)
  <2>1. worker \in [at : {"busy", "replied"}, job : Jobs] /\ worker # IdleWorker
    BY DEF PipelineInv, TypeOK, WorkerTypeOK, WorkerReply, IdleWorker
  <2>2. DataTypeOK /\ JobsNameStoredAudio
    BY DEF PipelineInv, TypeOK
  <2>3. \A j \in Jobs : j.ses \in Sessions
    BY DEF Jobs, SegmentJobs, FileJobs, PromptJobs
  <2> QED
    BY <2>1, <2>2, <2>3 DEF JobsNameStoredAudio
<1>2. \A o \in job.objs : Take(job.ses, o) \in Takes
  BY <1>1 DEF Stored, Take
<1>3. \A t \in Takes : \A text \in Transcriptions(t) : text \in SUBSET Takes
  BY DEF Transcriptions
<1>4. CASE HandleSegmentReady(job)
  <2>1. job \in SegmentJobs
    BY <1>1, <1>4 DEF HandleSegmentReady, Jobs, SegmentJobs, FileJobs, PromptJobs, BatchTypes
  <2>2. CASE NoReply
    BY <2>2 DEF NoReply
  <2>3. ASSUME NEW k \in job.objs, NEW text \in Transcriptions(Take(job.ses, k))
        PROVE  [type |-> "segment_transcribed", ses |-> job.ses,
                objs |-> job.objs, text |-> text, lines |-> {},
                row |-> None, ok |-> TRUE] \in Results
    BY <1>1, <1>2, <1>3, <2>1 DEF Results, SegmentResults, SegmentJobs
  <2> QED
    BY <1>4, <2>2, <2>3 DEF HandleSegmentReady, Reply
<1>5. CASE HandleUploadReady(job)
  <2>1. CASE NoReply
    BY <2>1 DEF NoReply
  <2>2. ASSUME NEW f \in job.objs, NEW text \in Transcriptions(Take(job.ses, f)),
               NEW timed \in {text, {}}
        PROVE  [type |-> "upload_transcribed", ses |-> job.ses,
                objs |-> {}, text |-> text, lines |-> timed,
                row |-> None, ok |-> TRUE] \in Results
    BY <1>1, <1>2, <1>3 DEF Results, SessionResults, SessionResultTypes
  <2> QED
    BY <1>5, <2>1, <2>2 DEF HandleUploadReady, Reply
<1>6. CASE HandleBatch(job)
  <2> DEFINE all == {Take(job.ses, k) : k \in job.objs}
  <2>1. all \in SUBSET Takes
    BY <1>2
  <2>2. ASSUME NEW text \in SUBSET all, NEW type \in SessionResultTypes
        PROVE  [type |-> type, ses |-> job.ses, objs |-> {}, text |-> text,
                lines |-> text, row |-> None, ok |-> TRUE] \in Results
    BY <1>1, <2>1 DEF Results, SessionResults
  <2>3. PICK text \in SUBSET all :
          Reply([type |-> IF job.type = "recording_ready"
                          THEN "session_transcribed" ELSE "upload_transcribed",
                 ses |-> job.ses, objs |-> {}, text |-> text, lines |-> text,
                 row |-> None, ok |-> TRUE])
    BY <1>6 DEF HandleBatch
  <2> QED
    BY <2>2, <2>3 DEF Reply, SessionResultTypes
<1>7. CASE HandlePromptApply(job)
  <2>1. job \in PromptJobs
    BY <1>1, <1>7 DEF HandlePromptApply, Jobs, SegmentJobs, FileJobs, PromptJobs, BatchTypes
  <2>2. ASSUME NEW ok \in BOOLEAN
        PROVE  [type |-> "prompt_applied", ses |-> job.ses, objs |-> {},
                text |-> {}, lines |-> {}, row |-> job.row, ok |-> ok] \in Results
    BY <1>1, <2>1 DEF Results, PromptReplies, PromptJobs
  <2> QED
    BY <1>7, <2>2 DEF HandlePromptApply, Reply
<1>8. worker' = [worker EXCEPT !.at = "replied"]
  BY DEF WorkerReply, HandleSegmentReady, HandleUploadReady, HandleBatch,
         HandlePromptApply, Reply, NoReply
<1> QED
  BY <1>4, <1>5, <1>6, <1>7, <1>8 DEF WorkerReply

\* A step of the worker or the broker: rows and calls stay.
LEMMA WorkerSide ==
  ASSUME PipelineInv, UNCHANGED <<sessionVars, audioVars, promptResult, apiVars, consumer>>,
         faults' \in Nat, chanOpen' \in BOOLEAN, WorkerTypeOK',
         jobs' \in Seq(Jobs), results' \in Seq(Results), JobsNameStoredAudio'
  PROVE  PipelineInv'
<1>1. DataTypeOK' /\ ApiTypeOK' /\ ConsumerTypeOK'
  BY DEF PipelineInv, TypeOK, DataTypeOK, ApiTypeOK, ConsumerTypeOK,
         sessionVars, audioVars, apiVars
<1>2. RowsNameStoredAudio' /\ CallsNameStoredAudio'
  BY DEF PipelineInv, RowsNameStoredAudio, CallsNameStoredAudio, Stored, ObjectName,
         sessionVars, audioVars, apiVars
<1> QED
  BY <1>1, <1>2 DEF PipelineInv, TypeOK

\* The worker takes, answers and acknowledges a job that names stored audio.
LEMMA WorkInv ==
  ASSUME PipelineInv, Work
  PROVE  PipelineInv'
<1>1. /\ DataTypeOK /\ JobsNameStoredAudio /\ WorkerTypeOK
      /\ jobs \in Seq(Jobs) /\ results \in Seq(Results)
      /\ chanOpen \in BOOLEAN /\ faults \in Nat
  BY DEF PipelineInv, TypeOK, DataTypeOK
<1>2. /\ UNCHANGED <<sessionVars, audioVars, promptResult, apiVars, consumer, object>>
      /\ faults' \in Nat
  BY <1>1 DEF Work, audioVars
<1>3. CASE WorkerTake
  <2>1. /\ Head(jobs) \in Jobs /\ Tail(jobs) \in Seq(Jobs) /\ 1 \in DOMAIN jobs
        /\ Head(jobs) = jobs[1] /\ Len(Tail(jobs)) = Len(jobs) - 1
        /\ \A i \in DOMAIN Tail(jobs) : Tail(jobs)[i] = jobs[i + 1] /\ i + 1 \in DOMAIN jobs
    BY <1>1, <1>3 DEF WorkerTake
  <2>2. WorkerTypeOK'
    BY <1>3, <2>1 DEF WorkerTake, WorkerTypeOK
  <2>3. JobsNameStoredAudio'
    BY <1>1, <1>2, <1>3, <2>1
       DEF WorkerTake, JobsNameStoredAudio, Stored, ObjectName
  <2> QED
    BY <1>1, <1>2, <1>3, <2>1, <2>2, <2>3, WorkerSide DEF WorkerTake
<1>4. CASE WorkerReply
  <2>1. worker \in [at : {"busy", "replied"}, job : Jobs] /\ worker # IdleWorker
    BY <1>1, <1>4 DEF WorkerReply, WorkerTypeOK, IdleWorker
  <2>2. /\ worker' \in [at : {"busy", "replied"}, job : Jobs]
        /\ worker'.job = worker.job
    BY <1>4, <2>1, ReplyTyped
  <2>3. WorkerTypeOK'
    BY <2>2 DEF WorkerTypeOK
  <2>4. /\ jobs' = jobs /\ chanOpen' = chanOpen /\ results' \in Seq(Results)
    BY <1>1, <1>4, ReplyTyped DEF queueVars
  <2>5. JobsNameStoredAudio'
    BY <1>1, <1>2, <2>1, <2>2, <2>4 DEF JobsNameStoredAudio, Stored, ObjectName
  <2> QED
    BY <1>1, <1>2, <2>3, <2>4, <2>5, WorkerSide
<1>5. CASE WorkerAck
  <2>1. JobsNameStoredAudio'
    BY <1>1, <1>2, <1>5 DEF WorkerAck, queueVars, JobsNameStoredAudio, Stored, ObjectName
  <2>2. WorkerTypeOK'
    BY <1>5 DEF WorkerAck, WorkerTypeOK
  <2> QED
    BY <1>1, <1>2, <1>5, <2>1, <2>2, WorkerSide DEF WorkerAck, queueVars
<1> QED
  BY <1>3, <1>4, <1>5 DEF Work, WorkerStep

\* A lost worker connection puts back a job that was taken from the queue; the
\* broker's faults only take messages away.
LEMMA FaultInv ==
  ASSUME PipelineInv, LoseWorker \/ ChannelClose \/ BrokerRestart
  PROVE  PipelineInv'
<1>1. /\ DataTypeOK /\ JobsNameStoredAudio /\ WorkerTypeOK
      /\ jobs \in Seq(Jobs) /\ results \in Seq(Results)
      /\ chanOpen \in BOOLEAN /\ faults \in Nat
  BY DEF PipelineInv, TypeOK, DataTypeOK
<1>2. /\ UNCHANGED <<sessionVars, audioVars, promptResult, apiVars, consumer, object>>
      /\ faults' \in Nat
  BY <1>1 DEF LoseWorker, ConnectionLost, ChannelClose, BrokerRestart, Fault, audioVars
<1>3. CASE LoseWorker
  <2>1. worker.job \in Jobs /\ \A o \in worker.job.objs : Stored(worker.job.ses, o)
    BY <1>1, <1>3 DEF LoseWorker, ConnectionLost, WorkerTypeOK, JobsNameStoredAudio
  <2> DEFINE requeued == <<worker.job>> \o jobs
  <2>2. /\ requeued \in Seq(Jobs) /\ Len(requeued) = Len(jobs) + 1
        /\ requeued[1] = worker.job
        /\ \A i \in 1..Len(jobs) : requeued[i + 1] = jobs[i]
    BY <1>1, <2>1
  <2>3. ASSUME NEW i \in DOMAIN requeued
        PROVE  \A o \in requeued[i].objs : Stored(requeued[i].ses, o)
    <3>1. CASE i = 1
      BY <2>1, <2>2, <3>1
    <3>2. CASE i # 1
      <4>1. i - 1 \in DOMAIN jobs /\ requeued[i] = jobs[i - 1]
        BY <1>1, <2>2, <3>2
      <4> QED
        BY <1>1, <4>1 DEF JobsNameStoredAudio
    <3> QED
      BY <3>1, <3>2
  <2>4. /\ jobs' = requeued /\ worker' = IdleWorker
        /\ UNCHANGED <<results, chanOpen>>
    BY <1>3 DEF LoseWorker, ConnectionLost
  <2>5. JobsNameStoredAudio' /\ WorkerTypeOK'
    <3> HIDE DEF requeued
    <3> QED
      BY <1>2, <2>3, <2>4 DEF JobsNameStoredAudio, WorkerTypeOK, Stored, ObjectName
  <2> QED
    BY <1>1, <1>2, <2>2, <2>4, <2>5, WorkerSide
<1>4. CASE ChannelClose
  <2>1. results' \in Seq(Results)
    BY <1>1, <1>4 DEF ChannelClose, LoseDelivered
  <2>2. JobsNameStoredAudio' /\ WorkerTypeOK'
    BY <1>1, <1>2, <1>4 DEF ChannelClose, JobsNameStoredAudio, WorkerTypeOK, Stored,
                            ObjectName
  <2> QED
    BY <1>1, <1>2, <1>4, <2>1, <2>2, WorkerSide DEF ChannelClose
<1>5. CASE BrokerRestart
  <2>1. JobsNameStoredAudio' /\ WorkerTypeOK'
    BY <1>5 DEF BrokerRestart, JobsNameStoredAudio, WorkerTypeOK
  <2> QED
    <3>1. <<>> \in Seq(Jobs) /\ <<>> \in Seq(Results)
      OBVIOUS
    <3> QED
      BY <1>2, <1>5, <2>1, <3>1, WorkerSide DEF BrokerRestart
<1> QED
  BY <1>3, <1>4, <1>5

\* A crash of the server forgets calls, links and the message in hand.
LEMMA ServerCrashInv ==
  ASSUME PipelineInv, ServerCrash
  PROVE  PipelineInv'
<1>1. /\ DataTypeOK /\ ApiTypeOK /\ JobsNameStoredAudio /\ WorkerTypeOK
      /\ RowsNameStoredAudio /\ results \in Seq(Results) /\ faults \in Nat
  BY DEF PipelineInv, TypeOK, DataTypeOK
<1>2. results' \in Seq(Results) /\ faults' \in Nat
  BY <1>1 DEF ServerCrash, LoseDelivered, Fault
<1>3. DataTypeOK'
  BY <1>1, <1>2 DEF ServerCrash, DataTypeOK, sessionVars, audioVars
<1>4. ApiTypeOK'
  BY <1>1 DEF ServerCrash, ApiTypeOK
<1>5. WorkerTypeOK' /\ ConsumerTypeOK'
  BY <1>1 DEF ServerCrash, WorkerTypeOK, ConsumerTypeOK
<1>6. JobsNameStoredAudio' /\ RowsNameStoredAudio'
  BY <1>1 DEF ServerCrash, JobsNameStoredAudio, RowsNameStoredAudio, Stored, ObjectName,
              sessionVars, audioVars
<1>7. CallsNameStoredAudio'
  BY DEF ServerCrash, CallsNameStoredAudio, IdleCall
<1> QED
  BY <1>3, <1>4, <1>5, <1>6, <1>7 DEF PipelineInv, TypeOK

\* The type of a result says what its record holds.
LEMMA ResultKinds ==
  ASSUME NEW r \in Results
  PROVE  /\ r.type = "segment_transcribed" => r \in SegmentResults
         /\ r.type \in SessionResultTypes => r \in SessionResults
         /\ r.type = "prompt_applied" => r \in PromptReplies
<1>1. CASE r \in SegmentResults
  BY <1>1 DEF SegmentResults, SessionResultTypes
<1>2. CASE r \in SessionResults
  BY <1>2 DEF SessionResults, SessionResultTypes
<1>3. CASE r \in PromptReplies
  BY <1>3 DEF PromptReplies, SessionResultTypes
<1> QED
  BY <1>1, <1>2, <1>3 DEF Results

\* The message in the consumer's hand is a session's result.
LEMMA ConsumerKinds ==
  ASSUME ConsumerTypeOK, consumer # IdleConsumer
  PROVE  /\ consumer.res \in SessionResults /\ consumer.res.ses \in Sessions
         /\ consumer.at \in {"lines", "prompt"} => consumer.row = None
         /\ consumer.at = "publish" => consumer.row \in ResultIds
BY DEF ConsumerTypeOK, SessionResults

\* The consumer writes texts and prompt rows, and names no audio.
LEMMA ConsumeInv ==
  ASSUME PipelineInv, Consume
  PROVE  PipelineInv'
<1> USE DataAssumption
<1>1. /\ DataTypeOK /\ RestTypeOK /\ RowsNameStoredAudio /\ ConsumerTypeOK
      /\ jobs \in Seq(Jobs) /\ results \in Seq(Results)
  BY RestTyped DEF PipelineInv, TypeOK, DataTypeOK
<1>2. UNCHANGED <<upload, object, call, worker, faults, link, budget, accepted, spokenIn>>
  BY DEF Consume, ConsumerStep, HandleSegmentTranscription, HandleSessionTranscription,
         SaveLines, QueuePurposePrompt, PublishPurposePrompt, HandlePromptApplied,
         SaveTranscriptLines, UpdateTranscription, sessionVars, audioVars, apiVars
<1>3. CallOK'
  BY <1>2, CallSame
<1>4. ASSUME NEW types, Receive(types)
      PROVE  /\ Head(results) \in Results /\ Head(results).type \in types
             /\ results' \in Seq(Results) /\ UNCHANGED <<jobs, chanOpen>>
  BY <1>1, <1>4 DEF Receive
\* A consumer step that publishes nothing.
<1>5. ASSUME RestTypeOK', RowsNameStoredAudio', ConsumerTypeOK',
             results' \in Seq(Results), UNCHANGED <<jobs, chanOpen>>
      PROVE  PipelineInv'
  <2>1. DataTypeOK' /\ ApiTypeOK'
    BY <1>1, <1>2, <1>3, <1>5 DEF DataTypeOK, ApiTypeOK, RestTypeOK, CallOK
  <2>2. WorkerTypeOK' /\ JobsNameStoredAudio'
    BY <1>2, <1>5 DEF PipelineInv, TypeOK, WorkerTypeOK, JobsNameStoredAudio, Stored,
                      ObjectName
  <2> QED
    BY <1>3, <1>5, <2>1, <2>2 DEF PipelineInv, TypeOK, CallOK
<1>6. CASE HandleSegmentTranscription
  <2> DEFINE r == Head(results)
  <2>1. r \in SegmentResults /\ results' \in Seq(Results) /\ UNCHANGED <<jobs, chanOpen>>
    BY <1>4, <1>6, ResultKinds DEF HandleSegmentTranscription
  <2>2. PICK k \in SegmentKeys : UpdateSegmentResult(r.ses, k, r.text)
    BY <1>6, <2>1 DEF HandleSegmentTranscription, SegmentResults
  <2>3. r.ses \in Sessions /\ r.text \in SUBSET Takes
    BY <2>1 DEF SegmentResults
  <2>4. segment' \in [Sessions -> [SegmentKeys -> SegmentRow]]
    BY <1>1, <2>2, <2>3, SegmentOps
  <2>5. RestTypeOK' /\ ConsumerTypeOK'
    BY <1>1, <1>2, <1>6, <2>4
       DEF HandleSegmentTranscription, RestTypeOK, ConsumerTypeOK, sessionVars
  <2>6. RowsNameStoredAudio'
    BY <1>1, <1>2, <2>2, <2>3, SegmentsKept
  <2> QED
    BY <1>5, <2>1, <2>5, <2>6
<1>7. CASE HandleSessionTranscription
  <2> DEFINE r == Head(results)
  <2>1. r \in SessionResults /\ results' \in Seq(Results) /\ UNCHANGED <<jobs, chanOpen>>
    BY <1>4, <1>7, ResultKinds DEF HandleSessionTranscription
  <2>2. r.ses \in Sessions /\ r.text \in SUBSET Takes
    BY <2>1 DEF SessionResults
  <2>3. RestTypeOK'
    BY <1>1, <1>2, <1>7, <2>2 DEF HandleSessionTranscription, UpdateTranscription,
                                  RestTypeOK, Statuses, audioVars
  <2>4. ConsumerTypeOK'
    BY <1>7, <2>1 DEF HandleSessionTranscription, ConsumerTypeOK
  <2>5. RowsNameStoredAudio'
    BY <1>1, <1>2, <1>7, RowsSame DEF HandleSessionTranscription, audioVars
  <2> QED
    BY <1>5, <2>1, <2>3, <2>4, <2>5
<1>8. CASE SaveLines
  <2>1. consumer.res \in SessionResults /\ consumer.row = None
    BY <1>1, <1>8, ConsumerKinds DEF SaveLines, IdleConsumer
  <2>2. consumer.res.lines \in SUBSET Takes
    BY <2>1 DEF SessionResults
  <2>3. RestTypeOK'
    BY <1>1, <1>2, <1>8, <2>2 DEF SaveLines, SaveTranscriptLines, RestTypeOK, sessionVars,
                                  audioVars
  <2>4. ConsumerTypeOK'
    BY <1>1, <1>8, <2>1 DEF SaveLines, ConsumerTypeOK, IdleConsumer
  <2>5. RowsNameStoredAudio'
    BY <1>1, <1>2, <1>8, RowsSame DEF SaveLines, audioVars
  <2> QED
    BY <1>1, <1>5, <1>8, <2>3, <2>4, <2>5 DEF SaveLines, queueVars
<1>9. CASE QueuePurposePrompt
  <2>1. consumer.res \in SessionResults /\ consumer.res.ses \in Sessions
    <3>1. consumer # IdleConsumer
      <4>1. consumer.at = "prompt"
        BY <1>9 DEF QueuePurposePrompt
      <4> QED
        BY <4>1 DEF IdleConsumer
    <3> QED
      BY <1>1, <3>1, ConsumerKinds
  <2>2. /\ promptResult' \in [ResultIds -> PromptRow]
        /\ ConsumerTypeOK'
    <3>1. CASE UNCHANGED promptResult /\ consumer' = IdleConsumer
      BY <1>1, <3>1 DEF ConsumerTypeOK, RestTypeOK
    <3>2. CASE \E r \in ResultIds :
                 /\ CreatePromptResult(r, consumer.res.ses)
                 /\ consumer' = [consumer EXCEPT !.at = "publish", !.row = r]
      BY <1>1, <1>9, <2>1, <3>2, PromptOps
         DEF QueuePurposePrompt, ConsumerTypeOK, IdleConsumer
    <3> QED
      BY <1>9, <3>1, <3>2 DEF QueuePurposePrompt
  <2>3. RestTypeOK'
    BY <1>1, <1>2, <1>9, <2>2 DEF QueuePurposePrompt, RestTypeOK, sessionVars, audioVars
  <2>4. RowsNameStoredAudio'
    BY <1>1, <1>2, <1>9, RowsSame DEF QueuePurposePrompt, audioVars
  <2> QED
    BY <1>1, <1>5, <1>9, <2>2, <2>3, <2>4 DEF QueuePurposePrompt, queueVars
<1>10. CASE PublishPurposePrompt
  <2> DEFINE s == consumer.res.ses
             r == consumer.row
  <2>1. s \in Sessions /\ r \in ResultIds
    BY <1>1, <1>10, ConsumerKinds DEF PublishPurposePrompt, IdleConsumer
  <2>2. promptResult' \in [ResultIds -> PromptRow]
    BY <1>1, <1>10, <2>1, PromptOps DEF PublishPurposePrompt, RestTypeOK, PromptStatuses
  <2>3. RestTypeOK'
    BY <1>1, <1>2, <1>10, <2>2 DEF PublishPurposePrompt, RestTypeOK, sessionVars, audioVars
  <2>4. RowsNameStoredAudio'
    BY <1>1, <1>2, <1>10, RowsSame DEF PublishPurposePrompt, audioVars
  <2>5. ConsumerTypeOK'
    BY <1>10 DEF PublishPurposePrompt, ConsumerTypeOK
  <2>6. /\ PromptJob(s, r) \in Jobs /\ PromptJob(s, r).objs = {}
        /\ Publish(PromptJob(s, r))
    BY <1>10, <2>1, AudioJobTyped DEF PublishPurposePrompt, PromptJob
  <2> QED
    BY <1>2, <1>3, <2>3, <2>4, <2>5, <2>6, PublishStep
<1>11. CASE HandlePromptApplied
  <2> DEFINE r == Head(results)
  <2>1. r \in PromptReplies /\ results' \in Seq(Results) /\ UNCHANGED <<jobs, chanOpen>>
    BY <1>4, <1>11, ResultKinds DEF HandlePromptApplied
  <2>2. r.ses \in Sessions /\ r.row \in ResultIds
    BY <2>1 DEF PromptReplies
  <2>3. promptResult' \in [ResultIds -> PromptRow]
    BY <1>1, <1>11, <2>2, PromptOps DEF HandlePromptApplied, PromptStatuses
  <2>4. RestTypeOK' /\ ConsumerTypeOK'
    BY <1>1, <1>2, <1>11, <2>3 DEF HandlePromptApplied, RestTypeOK, ConsumerTypeOK,
                                   sessionVars, audioVars
  <2>5. RowsNameStoredAudio'
    BY <1>1, <1>2, <1>11, RowsSame DEF HandlePromptApplied, audioVars
  <2> QED
    BY <1>5, <2>1, <2>4, <2>5
<1> QED
  BY <1>6, <1>7, <1>8, <1>9, <1>10, <1>11 DEF Consume, ConsumerStep

-----------------------------------------------------------------------------
(* The theorems about PipelineInv.                                         *)

\* Every step preserves the inductive invariant.
LEMMA NextInv ==
  ASSUME PipelineInv, [Next]_vars
  PROVE  PipelineInv'
<1>1. CASE UserStep
  BY <1>1, TabRequestInv, PostRequestInv DEF UserStep
<1>2. ASSUME NEW c \in Callers, HandlerStep(c)
      PROVE  PipelineInv'
  <2>1. UNCHANGED <<faults, worker, consumer>> /\ CallStep(c)
    BY <1>2 DEF HandlerStep
  <2>2. CASE BeginWrite(c) \/ EndWrite(c) \/ FinishWrite(c) \/ RemoveLines(c)
    BY <2>1, <2>2, WriteStepInv
  <2>3. CASE SegmentPut(c) \/ FilePut(c) \/ SegmentUpsert(c)
    BY <2>1, <2>3, AudioStepInv
  <2>4. CASE \/ StopPublish(c) \/ SegmentPublish(c) \/ EndPublish(c) \/ FilePublish(c)
             \/ FinishPublish(c) \/ PromptPublish(c) \/ RedoOneSegment(c)
             \/ RedoPublish(c)
    BY <2>1, <2>4, PublishStepInv
  <2> QED
    BY <2>1, <2>2, <2>3, <2>4 DEF CallStep
<1>3. CASE Work
  BY <1>3, WorkInv
<1>4. CASE Consume
  BY <1>4, ConsumeInv
<1>5. CASE StoreFails
  BY <1>5, WriteStepInv DEF StoreFails, Callers
<1>6. CASE LoseWorker \/ ChannelClose \/ BrokerRestart
  BY <1>6, FaultInv
<1>7. CASE ServerCrash
  BY <1>7, ServerCrashInv
<1>8. CASE UNCHANGED vars
  <2>1. RestTypeOK' /\ RowsNameStoredAudio' /\ CallOK'
    BY <1>8, RestTyped, RowsSame, CallSame
       DEF PipelineInv, TypeOK, RestTypeOK, vars, sessionVars, audioVars, apiVars
  <2> QED
    BY <1>8, <2>1, QuietStep DEF vars, audioVars
<1> QED
  BY <1>1, <1>2, <1>3, <1>4, <1>5, <1>6, <1>7, <1>8 DEF Next

\* The inductive invariant holds in every reachable state of every instance.
THEOREM PipelineInvariant == Spec => []PipelineInv
BY InitInv, NextInv, PTL DEF Spec

\* Rows, messages, calls in flight, the worker's job and the consumer's hand
\* keep their types: a prompt job always names a row, a segment job segments.
THEOREM TypeCorrect == Spec => []TypeOK
BY PipelineInvariant, PTL DEF PipelineInv

\* No job, first published or requeued after a lost connection, makes the
\* worker read audio that is not in the object store.
THEOREM JobsNameStored == Spec => []JobsNameStoredAudio
BY PipelineInvariant, PTL DEF PipelineInv

-----------------------------------------------------------------------------
(* PromptAccountedFor.                                                     *)

\* A step of a handler other than the two that create or publish a prompt.
LEMMA PendingFrame ==
  ASSUME PipelineInv, NEW r \in ResultIds, PromptPending(r),
         NEW c \in Callers, NEW x,
         call' = [call EXCEPT ![c] = x], call[c].at # "prompt_publish",
         UNCHANGED queueVars \/ \E j : Publish(j),
         UNCHANGED <<worker, consumer>>
  PROVE  PromptPending(r)'
<1>1. /\ call \in [Callers -> {IdleCall} \cup Calls] /\ jobs \in Seq(Jobs)
  BY DEF PipelineInv, TypeOK, DataTypeOK, ApiTypeOK
<1>2. results' = results /\ (jobs' = jobs \/ \E j : jobs' = Append(jobs, j))
  BY DEF queueVars, Publish
<1>3. ASSUME NEW i \in DOMAIN jobs
      PROVE  i \in DOMAIN jobs' /\ jobs'[i] = jobs[i]
  BY <1>1, <1>2
<1>4. ASSUME NEW d \in Callers, PromptCall(r, d)
      PROVE  call'[d] = call[d]
  BY <1>1, <1>4 DEF PromptCall
<1>5. CASE \E d \in Callers : PromptCall(r, d)
  BY <1>4, <1>5 DEF PromptPending, PromptCall
<1>6. CASE \E i \in DOMAIN jobs : jobs[i].row = r
  BY <1>3, <1>6 DEF PromptPending
<1>7. CASE PromptInHand(r) \/ PromptAtWorker(r) \/ \E i \in DOMAIN results : results[i].row = r
  BY <1>2, <1>7 DEF PromptPending, PromptInHand, PromptAtWorker
<1> QED
  BY <1>5, <1>6, <1>7 DEF PromptPending

\* Requests: only PromptApply makes a row, and then its call holds it.
LEMMA RequestAccounted ==
  ASSUME PipelineInv, PromptAccountedFor, NEW c \in Callers,
         (c \in Tabs /\ TabRequest(c)) \/ (c \in Posts /\ PostRequest(c)),
         UNCHANGED <<faults, worker, consumer>>
  PROVE  PromptAccountedFor'
<1> USE DataAssumption
<1>1. /\ call \in [Callers -> {IdleCall} \cup Calls] /\ ApiTypeOK
      /\ promptResult \in [ResultIds -> PromptRow]
  BY DEF PipelineInv, TypeOK, DataTypeOK, ApiTypeOK
<1>2. call[c] = IdleCall /\ call[c].at # "prompt_publish"
  <2>1. CASE TabRequest(c)
    BY <2>1 DEF TabRequest, RecordingBegin, OwnerJoin, RecordingStop, Disconnect, Request,
                IdleCall
  <2>2. CASE PostRequest(c)
    <3>1. \E name : Request(c, name)
      BY <2>2 DEF PostRequest, UploadSegment, UploadAudio, SegmentResult, PromptApply,
           EndSession, FinishUpload, RedoSegments, RedoSession, RemoveSegments,
           RemoveTranscription, PromptDelete
    <3> QED
      BY <3>1 DEF Request, IdleCall
  <2> QED
    BY <2>1, <2>2
<1>3. UNCHANGED queueVars
  BY DEF TabRequest, PostRequest, RecordingBegin, OwnerJoin, RecordingStop, Disconnect,
         UploadSegment, UploadAudio, SegmentResult, PromptApply, EndSession, FinishUpload,
         RedoSegments, RedoSession, RemoveSegments, RemoveTranscription, PromptDelete
<1>4. \E x : call' = [call EXCEPT ![c] = x]
  <2>1. call = [call EXCEPT ![c] = call[c]]
    BY <1>1
  <2> QED
    BY <2>1 DEF TabRequest, PostRequest, RecordingBegin, OwnerJoin, RecordingStop, Disconnect,
         UploadSegment, UploadAudio, SegmentResult, PromptApply, EndSession, FinishUpload,
         RedoSegments, RedoSession, RemoveSegments, RemoveTranscription, PromptDelete, Goto
<1>5. ASSUME NEW r \in ResultIds, promptResult[r].state = "queued"
      PROVE  PromptPending(r)'
  BY <1>2, <1>3, <1>4, <1>5, PendingFrame DEF PromptAccountedFor
<1>6. ASSUME NEW r \in ResultIds, promptResult'[r].state = "queued",
             promptResult[r].state # "queued"
      PROVE  PromptPending(r)'
  <2>1. PICK s \in Sessions : PromptApply(c, s, r)
    BY <1>1, <1>6 DEF TabRequest, PostRequest, RecordingBegin, OwnerJoin, RecordingStop,
         Disconnect, UploadSegment, UploadAudio, SegmentResult, PromptApply, EndSession,
         FinishUpload, RedoSegments, RedoSession, RemoveSegments, RemoveTranscription,
         PromptDelete, DeletePromptResult, CreatePromptResult, PromptRow
  <2>2. call'[c].at = "prompt_publish" /\ call'[c].row = r
    BY <1>1, <2>1 DEF PromptApply, IdleCall
  <2> QED
    BY <2>2 DEF PromptPending, PromptCall
<1> QED
  BY <1>5, <1>6 DEF PromptAccountedFor

\* Handler steps: publishing hands the row to the job, or fails it.
LEMMA HandlerAccounted ==
  ASSUME PipelineInv, PromptAccountedFor, NEW c \in Callers,
         CallStep(c) \/ SegmentPutFails(c) \/ FilePutFails(c),
         UNCHANGED <<worker, consumer>>
  PROVE  PromptAccountedFor'
<1> USE DataAssumption
<1>1. /\ call \in [Callers -> {IdleCall} \cup Calls] /\ ApiTypeOK
      /\ promptResult \in [ResultIds -> PromptRow] /\ jobs \in Seq(Jobs)
  BY DEF PipelineInv, TypeOK, DataTypeOK, ApiTypeOK
<1>2. CASE PromptPublish(c)
  <2> DEFINE j == PromptJob(call[c].ses, call[c].row)
  <2>1. call[c].row \in ResultIds /\ j.row = call[c].row /\ Publish(j)
    BY <1>1, <1>2, CallKinds DEF PromptPublish, At, PromptCalls, PromptJob
  <2>2. ASSUME NEW r \in ResultIds, promptResult'[r].state = "queued",
               r = call[c].row
        PROVE  PromptPending(r)'
    <3>1. chanOpen /\ jobs' = Append(jobs, j)
      BY <1>1, <1>2, <2>1, <2>2 DEF PromptPublish, UpdatePromptResult, Publish, PromptRow,
                                     PromptStatuses
    <3>2. Len(jobs) + 1 \in DOMAIN jobs' /\ jobs'[Len(jobs) + 1] = j
      BY <1>1, <3>1
    <3> QED
      BY <2>1, <2>2, <3>2 DEF PromptPending
  <2>3. ASSUME NEW r \in ResultIds, promptResult'[r].state = "queued",
               r # call[c].row
        PROVE  PromptPending(r)'
    <3>1. PromptPending(r)
      BY <1>1, <1>2, <2>1, <2>3 DEF PromptPublish, UpdatePromptResult, PromptAccountedFor
    <3>2. UNCHANGED <<results, worker, consumer>>
      BY <2>1 DEF Publish
    <3>3. ASSUME NEW i \in DOMAIN jobs
          PROVE  i \in DOMAIN jobs' /\ jobs'[i] = jobs[i]
      BY <1>1, <2>1 DEF Publish
    <3>4. ASSUME NEW d \in Callers, PromptCall(r, d)
          PROVE  call'[d] = call[d]
      BY <1>1, <1>2, <2>3, <3>4 DEF PromptPublish, Return, PromptCall
    <3>5. CASE \E d \in Callers : PromptCall(r, d)
      BY <3>4, <3>5 DEF PromptPending, PromptCall
    <3>6. CASE \E i \in DOMAIN jobs : jobs[i].row = r
      BY <3>3, <3>6 DEF PromptPending
    <3>7. CASE \/ PromptInHand(r) \/ PromptAtWorker(r)
               \/ \E i \in DOMAIN results : results[i].row = r
      BY <3>2, <3>7 DEF PromptPending, PromptInHand, PromptAtWorker
    <3> QED
      BY <3>1, <3>5, <3>6, <3>7 DEF PromptPending
  <2> QED
    BY <2>2, <2>3 DEF PromptAccountedFor
<1>3. CASE ~PromptPublish(c)
  <2>1. call[c].at # "prompt_publish" /\ UNCHANGED promptResult
    BY <1>3 DEF CallStep, BeginWrite, StopPublish, SegmentPut, SegmentUpsert, SegmentPublish,
         EndWrite, EndPublish, FilePut, FilePublish, FinishWrite, FinishPublish,
         RedoOneSegment, RedoPublish, RemoveLines, SegmentPutFails, FilePutFails, At
  <2>2. \E x : call' = [call EXCEPT ![c] = x]
    BY <1>3 DEF CallStep, BeginWrite, StopPublish, SegmentPut, SegmentUpsert, SegmentPublish,
         EndWrite, EndPublish, FilePut, FilePublish, FinishWrite, FinishPublish,
         RedoOneSegment, RedoPublish, RemoveLines, SegmentPutFails, FilePutFails,
         Return, Continue
  <2>3. UNCHANGED queueVars \/ \E j : Publish(j)
    BY <1>3 DEF CallStep, BeginWrite, StopPublish, SegmentPut, SegmentUpsert, SegmentPublish,
         EndWrite, EndPublish, FilePut, FilePublish, FinishWrite, FinishPublish,
         RedoOneSegment, RedoPublish, RemoveLines, SegmentPutFails, FilePutFails
  <2> QED
    BY <2>1, <2>2, <2>3, PendingFrame DEF PromptAccountedFor
<1> QED
  BY <1>2, <1>3

\* The worker: a taken job is in its hand, and a prompt job's reply names its row.
LEMMA WorkAccounted ==
  ASSUME PipelineInv, PromptAccountedFor, Work \/ LoseWorker
  PROVE  PromptAccountedFor'
<1> USE DataAssumption
<1>1. /\ jobs \in Seq(Jobs) /\ results \in Seq(Results) /\ WorkerTypeOK
      /\ worker # IdleWorker => worker \in [at : {"busy", "replied"}, job : Jobs]
  BY DEF PipelineInv, TypeOK, DataTypeOK, WorkerTypeOK
<1>2. UNCHANGED <<promptResult, call, consumer>>
  BY DEF Work, LoseWorker, apiVars
<1> SUFFICES ASSUME NEW r \in ResultIds, PromptPending(r)
             PROVE  PromptPending(r)'
  BY <1>2 DEF PromptAccountedFor
<1>3. CASE (\E c \in Callers : PromptCall(r, c)) \/ PromptInHand(r)
  BY <1>2, <1>3 DEF PromptPending, PromptCall, PromptInHand
<1>4. CASE \E i \in DOMAIN jobs : jobs[i].row = r
  <2>1. PICK i \in DOMAIN jobs : jobs[i].row = r
    BY <1>4
  <2>2. CASE WorkerTake /\ i = 1
    <3>1. worker' = [at |-> "busy", job |-> jobs[1]]
      BY <1>1, <2>2 DEF WorkerTake
    <3> QED
      BY <2>1, <2>2, <3>1 DEF PromptPending, PromptAtWorker
  <2>3. CASE WorkerTake /\ i # 1
    <3>1. i - 1 \in DOMAIN jobs' /\ jobs'[i - 1] = jobs[i]
      BY <1>1, <2>1, <2>3 DEF WorkerTake
    <3> QED
      BY <2>1, <3>1 DEF PromptPending
  <2>4. CASE WorkerReply \/ WorkerAck
    <3>1. jobs' = jobs
      BY <2>4, ReplyTyped DEF WorkerAck, queueVars
    <3> QED
      BY <2>1, <3>1 DEF PromptPending
  <2>5. CASE LoseWorker
    <3>1. worker.job \in Jobs /\ jobs' = <<worker.job>> \o jobs
      BY <1>1, <2>5 DEF LoseWorker, ConnectionLost
    <3>2. i + 1 \in DOMAIN jobs' /\ jobs'[i + 1] = jobs[i]
      BY <1>1, <2>1, <3>1
    <3> QED
      BY <2>1, <3>2 DEF PromptPending
  <2> QED
    BY <2>2, <2>3, <2>4, <2>5 DEF Work, WorkerStep
<1>5. CASE PromptAtWorker(r)
  <2>1. worker.at = "busy" /\ worker.job.row = r /\ worker # IdleWorker
    BY <1>5 DEF PromptAtWorker, IdleWorker
  <2>2. worker.job \in PromptJobs
    BY <1>1, <2>1 DEF Jobs, SegmentJobs, FileJobs
  <2>3. CASE WorkerReply
    <3>1. HandlePromptApply(worker.job)
      BY <2>2, <2>3 DEF WorkerReply, HandleSegmentReady, HandleUploadReady, HandleBatch,
                        PromptJobs, BatchTypes
    <3>2. \E x : x.row = r /\ results' = Append(results, x)
      BY <2>1, <3>1 DEF HandlePromptApply, Reply
    <3>3. PICK x : x.row = r /\ results' = Append(results, x)
      BY <3>2
    <3>4. Len(results) + 1 \in DOMAIN results' /\ results'[Len(results) + 1] = x
      BY <1>1, <3>3
    <3> QED
      BY <3>3, <3>4 DEF PromptPending
  <2>4. CASE LoseWorker
    <3>1. worker.job \in Jobs /\ jobs' = <<worker.job>> \o jobs
      BY <1>1, <2>4 DEF LoseWorker, ConnectionLost
    <3>2. 1 \in DOMAIN jobs' /\ jobs'[1] = worker.job
      BY <1>1, <3>1
    <3> QED
      BY <2>1, <3>2 DEF PromptPending
  <2> QED
    BY <2>1, <2>3, <2>4 DEF Work, WorkerStep, WorkerTake, WorkerAck
<1>6. CASE \E i \in DOMAIN results : results[i].row = r
  <2>1. PICK i \in DOMAIN results : results[i].row = r
    BY <1>6
  <2>2. i \in DOMAIN results' /\ results'[i] = results[i]
    <3>1. CASE WorkerReply
      BY <1>1, <2>1, <3>1, ReplyTyped DEF queueVars
    <3>2. CASE WorkerTake \/ WorkerAck \/ LoseWorker
      BY <2>1, <3>2 DEF WorkerTake, WorkerAck, LoseWorker, ConnectionLost, queueVars
    <3> QED
      BY <3>1, <3>2 DEF Work, WorkerStep
  <2> QED
    BY <2>1, <2>2 DEF PromptPending
<1> QED
  BY <1>3, <1>4, <1>5, <1>6 DEF PromptPending

\* The consumer: an answer taken off the queue settles its row at once, and a
\* row the consumer makes goes from its hand to the job.
LEMMA ConsumeAccounted ==
  ASSUME PipelineInv, PromptAccountedFor, Consume
  PROVE  PromptAccountedFor'
<1> USE DataAssumption
<1>1. /\ jobs \in Seq(Jobs) /\ results \in Seq(Results) /\ ConsumerTypeOK
      /\ promptResult \in [ResultIds -> PromptRow]
  BY DEF PipelineInv, TypeOK, DataTypeOK
<1>2. UNCHANGED <<call, worker>>
  BY DEF Consume, apiVars
\* Whatever is not in the consumer's hand or at the head of the results stays.
<1>3. ASSUME NEW r \in ResultIds, PromptPending(r), ~PromptInHand(r),
             \A i \in DOMAIN jobs : i \in DOMAIN jobs' /\ jobs'[i] = jobs[i],
             \/ results' = results
             \/ /\ results # <<>> /\ results' = Tail(results)
                /\ Head(results).row # r
      PROVE  PromptPending(r)'
  <2>1. CASE \/ \E c \in Callers : PromptCall(r, c)
             \/ PromptAtWorker(r)
             \/ \E i \in DOMAIN jobs : jobs[i].row = r
    BY <1>2, <1>3, <2>1 DEF PromptPending, PromptCall, PromptAtWorker
  <2>2. CASE \E i \in DOMAIN results : results[i].row = r
    <3>1. PICK i \in DOMAIN results : results[i].row = r
      BY <2>2
    <3>2. CASE results' = results
      BY <3>1, <3>2 DEF PromptPending
    <3>3. CASE results # <<>> /\ results' = Tail(results) /\ Head(results).row # r
      <4>1. i - 1 \in DOMAIN results' /\ results'[i - 1] = results[i]
        BY <1>1, <3>1, <3>3
      <4> QED
        BY <3>1, <4>1 DEF PromptPending
    <3> QED
      BY <1>3, <3>2, <3>3
  <2> QED
    BY <1>3, <2>1, <2>2 DEF PromptPending
<1>4. CASE HandleSegmentTranscription \/ HandleSessionTranscription
  <2>1. /\ UNCHANGED <<promptResult, jobs>>
        /\ results # <<>> /\ results' = Tail(results)
        /\ Head(results) \in SegmentResults \cup SessionResults
        /\ consumer = IdleConsumer
    BY <1>1, <1>4, ResultKinds DEF HandleSegmentTranscription, HandleSessionTranscription, Receive
  <2>2. \A r \in ResultIds : Head(results).row # r /\ ~PromptInHand(r)
    BY <2>1 DEF SegmentResults, SessionResults, PromptInHand, IdleConsumer
  <2> QED
    BY <1>3, <2>1, <2>2 DEF PromptAccountedFor
<1>5. CASE SaveLines
  <2>1. UNCHANGED <<promptResult, jobs, results>> /\ consumer.at = "lines"
    BY <1>5 DEF SaveLines, queueVars
  <2>2. \A r \in ResultIds : ~PromptInHand(r)
    BY <2>1 DEF PromptInHand
  <2> QED
    BY <1>3, <2>1, <2>2 DEF PromptAccountedFor
<1>6. CASE QueuePurposePrompt
  <2>1. UNCHANGED <<jobs, results>> /\ consumer.at = "prompt"
    BY <1>6 DEF QueuePurposePrompt, queueVars
  <2>2. ASSUME NEW r \in ResultIds, promptResult'[r].state = "queued",
               promptResult[r].state = "queued"
        PROVE  PromptPending(r)'
    BY <1>3, <2>1, <2>2 DEF PromptAccountedFor, PromptInHand
  <2>3. ASSUME NEW r \in ResultIds, promptResult'[r].state = "queued",
               promptResult[r].state # "queued"
        PROVE  PromptPending(r)'
    <3>1. PICK u \in ResultIds : /\ CreatePromptResult(u, consumer.res.ses)
                                 /\ consumer' = [consumer EXCEPT !.at = "publish", !.row = u]
      BY <1>6, <2>3 DEF QueuePurposePrompt
    <3>2. u = r
      BY <1>1, <2>3, <3>1 DEF CreatePromptResult
    <3>3. consumer'.at = "publish" /\ consumer'.row = r
      <4>1. consumer \in [at : {"lines", "prompt"}, res : SessionResults, row : {None}]
        BY <1>1, <2>1 DEF ConsumerTypeOK, IdleConsumer
      <4> QED
        BY <3>1, <3>2, <4>1
    <3> QED
      BY <3>3 DEF PromptPending, PromptInHand
  <2> QED
    BY <2>2, <2>3 DEF PromptAccountedFor
<1>7. CASE PublishPurposePrompt
  <2> DEFINE j == PromptJob(consumer.res.ses, consumer.row)
  <2>1. Publish(j) /\ j.row = consumer.row /\ results' = results
    BY <1>7 DEF PublishPurposePrompt, PromptJob, Publish
  <2>2. ASSUME NEW r \in ResultIds, promptResult'[r].state = "queued", r = consumer.row
        PROVE  PromptPending(r)'
    <3>1. chanOpen /\ jobs' = Append(jobs, j)
      BY <1>1, <1>7, <2>1, <2>2 DEF PublishPurposePrompt, UpdatePromptResult, Publish,
                                    PromptRow, PromptStatuses
    <3>2. Len(jobs) + 1 \in DOMAIN jobs' /\ jobs'[Len(jobs) + 1] = j
      BY <1>1, <3>1
    <3> QED
      BY <2>1, <2>2, <3>2 DEF PromptPending
  <2>3. ASSUME NEW r \in ResultIds, promptResult'[r].state = "queued", r # consumer.row
        PROVE  PromptPending(r)'
    <3>1. PromptPending(r) /\ ~PromptInHand(r)
      BY <1>1, <1>7, <2>3 DEF PublishPurposePrompt, UpdatePromptResult, PromptAccountedFor,
                              PromptInHand
    <3>2. \A i \in DOMAIN jobs : i \in DOMAIN jobs' /\ jobs'[i] = jobs[i]
      BY <1>1, <2>1 DEF Publish
    <3> QED
      BY <1>3, <2>1, <3>1, <3>2
  <2> QED
    BY <2>2, <2>3 DEF PromptAccountedFor
<1>8. CASE HandlePromptApplied
  <2>1. /\ UNCHANGED jobs /\ results # <<>> /\ results' = Tail(results)
        /\ Head(results) \in PromptReplies /\ consumer = IdleConsumer
    BY <1>1, <1>8, ResultKinds DEF HandlePromptApplied, Receive
  <2>2. ASSUME NEW r \in ResultIds, promptResult'[r].state = "queued"
        PROVE  promptResult[r].state = "queued" /\ Head(results).row # r
    BY <1>1, <1>8, <2>1, <2>2 DEF HandlePromptApplied, UpdatePromptResult, PromptRow,
                                  PromptStatuses, PromptReplies
  <2>3. \A r \in ResultIds : ~PromptInHand(r)
    BY <2>1 DEF PromptInHand, IdleConsumer
  <2> QED
    BY <1>3, <2>1, <2>2, <2>3 DEF PromptAccountedFor
<1> QED
  BY <1>4, <1>5, <1>6, <1>7, <1>8 DEF Consume, ConsumerStep

\* In a deployment that meets no fault but a lost worker connection and a
\* failing object store, no row is left queued with nothing to settle it.
THEOREM PromptsAccountedFor ==
  ASSUME Faults \subseteq {"worker_loss", "store_fails"}
  PROVE  Spec => []PromptAccountedFor
<1>1. Init => PipelineInv /\ PromptAccountedFor
  <2>1. Init => PromptAccountedFor
    BY DEF Init, DataInit, PromptAccountedFor
  <2> QED
    BY <2>1, InitInv
<1>2. ASSUME PipelineInv, PromptAccountedFor, [Next]_vars
      PROVE  PipelineInv' /\ PromptAccountedFor'
  <2>1. PipelineInv'
    BY <1>2, NextInv
  <2> SUFFICES PromptAccountedFor'
    BY <2>1
  <2>2. CASE UserStep
    BY <1>2, <2>2, RequestAccounted DEF UserStep, Callers
  <2>3. ASSUME NEW c \in Callers, HandlerStep(c)
        PROVE  PromptAccountedFor'
    BY <1>2, <2>3, HandlerAccounted DEF HandlerStep
  <2>4. CASE Work \/ LoseWorker
    BY <1>2, <2>4, WorkAccounted
  <2>5. CASE Consume
    BY <1>2, <2>5, ConsumeAccounted
  <2>6. CASE StoreFails
    BY <1>2, <2>6, HandlerAccounted DEF StoreFails, Callers
  <2>7. ~(ServerCrash \/ ChannelClose \/ BrokerRestart)
    BY DEF ServerCrash, ChannelClose, BrokerRestart, Fault
  <2>8. CASE UNCHANGED vars
    BY <1>2, <2>8 DEF vars, queueVars, apiVars, PromptAccountedFor, PromptPending, PromptCall,
                      PromptInHand, PromptAtWorker
  <2> QED
    BY <1>2, <2>2, <2>3, <2>4, <2>5, <2>6, <2>7, <2>8 DEF Next
<1> QED
  BY <1>1, <1>2, PTL DEF Spec
=============================================================================
