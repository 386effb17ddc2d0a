---------------------------- MODULE PipelineData ----------------------------
(***************************************************************************)
(* The state that TINA's processes share and the operations on it: the     *)
(* Postgres rows behind internal/service/session.go, the audio objects in  *)
(* MinIO, and the two RabbitMQ queues ("session" for jobs, "transcription" *)
(* for results).  SessionApi, GpuWorker and ResultConsumer are the         *)
(* processes; TranscriptionPipeline composes them.                         *)
(*                                                                         *)
(* Audio and text are one thing here: a take is a stretch of recorded or   *)
(* uploaded audio and also the text a transcriber makes of it, and a text  *)
(* is the set of takes it contains ({} is the blank transcript).           *)
(***************************************************************************)
EXTENDS Naturals, Sequences, FiniteSets

CONSTANTS
  Sessions,       \* sessions rows, all created (status new) beforehand
  SegmentKeys,    \* (user_id, sequence) pairs of live segments
  Files,          \* names of uploaded audio files
  Takes,          \* distinct stretches of audio
  ResultIds,      \* ids of session_prompt_results rows
  PromptSessions, \* the sessions whose purpose has a prompt
  Faults,         \* the faults that may happen in this instance
  MaxFaults,      \* how many of them (bound)
  None

FaultNames == {"worker_loss", "server_crash", "channel_close",
               "broker_restart", "store_fails"}

\* A segment key is no file name and None is nothing else.
ASSUME DataAssumption ==
  /\ SegmentKeys \cap Files = {}
  /\ PromptSessions \subseteq Sessions
  /\ Faults \subseteq FaultNames
  /\ MaxFaults \in Nat
  /\ None \notin Sessions \cup SegmentKeys \cup Files \cup Takes \cup ResultIds

VARIABLES
  status,        \* sessions.status
  segment,       \* session_segments: per session and key, the row
  upload,        \* session_uploads: the newest file name of a session
  transcript,    \* sessions.transcription
  lines,         \* transcript_lines: the takes they show
  promptResult,  \* session_prompt_results, by id
  object,        \* MinIO: the take stored under an object name
  jobs,          \* the "session" queue
  results,       \* the "transcription" queue
  chanOpen,      \* the API server's AMQP channel is usable
  faults,        \* how many more faults may happen (bound)
  spokenIn       \* history: the session a take was spoken in

sessionVars == <<status, transcript, lines, upload>>
audioVars   == <<segment, object, spokenIn>>
queueVars   == <<jobs, results, chanOpen>>

Fault(name) ==
  /\ name \in Faults
  /\ faults > 0
  /\ faults' = faults - 1

Statuses       == {"new", "recording", "transcribing", "finished", "error"}
PromptStatuses == {"queued", "completed", "failed"}
Objects        == SegmentKeys \cup Files

SegmentRow   == [state : {"absent", "live", "deleted"}, text : SUBSET Takes]
PromptRow    == [state : {"absent", "deleted"} \cup PromptStatuses,
                 ses   : Sessions \cup {None}]

\* Mutation of ObjectName: the session id left out of the name.
ObjectNameShared(s, o) == <<CHOOSE x \in Sessions : TRUE, o>>

\* Object names carry the session id: "segments/session_%d/user_%d/...",
\* "uploads/session_%d/<name>".
ObjectName(s, o) == <<s, o>>

-----------------------------------------------------------------------------
(* Messages.  objs: the segments or the file a job names.                  *)

BatchTypes         == {"recording_ready", "upload_finalize"}
SessionResultTypes == {"session_transcribed", "upload_transcribed"}

SegmentJobs == [type : BatchTypes \cup {"segment_ready"}, ses : Sessions,
                objs : SUBSET SegmentKeys, row : {None}]
FileJobs    == [type : {"upload_ready"}, ses : Sessions,
                objs : SUBSET Files, row : {None}]
PromptJobs  == [type : {"prompt_apply"}, ses : Sessions, objs : {{}},
                row : ResultIds]
Jobs        == SegmentJobs \cup FileJobs \cup PromptJobs

SegmentResults == [type : {"segment_transcribed"}, ses : Sessions,
                   objs : SUBSET SegmentKeys, text : SUBSET Takes,
                   lines : {{}}, row : {None}, ok : {TRUE}]
SessionResults == [type : SessionResultTypes, ses : Sessions, objs : {{}},
                   text : SUBSET Takes, lines : SUBSET Takes,
                   row : {None}, ok : {TRUE}]
PromptReplies  == [type : {"prompt_applied"}, ses : Sessions, objs : {{}},
                   text : {{}}, lines : {{}}, row : ResultIds, ok : BOOLEAN]
Results        == SegmentResults \cup SessionResults \cup PromptReplies

AudioJob(type, s, objs) == [type |-> type, ses |-> s, objs |-> objs, row |-> None]
PromptJob(s, r) == [type |-> "prompt_apply", ses |-> s, objs |-> {}, row |-> r]

\* pkg/rabbitmq Publish: fails on a closed channel, and the client never
\* opens a new one.
Publish(job) ==
  /\ jobs' = IF chanOpen THEN Append(jobs, job) ELSE jobs
  /\ UNCHANGED <<results, chanOpen>>

-----------------------------------------------------------------------------
(* SessionService: each operation is one SQL statement or transaction.     *)

UpdateStatus(s, st) ==
  /\ status' = [status EXCEPT ![s] = st]
  /\ UNCHANGED <<transcript, lines, upload>>

UpdateTranscription(s, text) ==
  /\ transcript' = [transcript EXCEPT ![s] = text]
  /\ status' = [status EXCEPT ![s] = "finished"]
  /\ UNCHANGED <<lines, upload>>

SaveTranscriptLines(s, newLines) ==
  /\ lines' = [lines EXCEPT ![s] = newLines]
  /\ UNCHANGED <<status, transcript, upload>>

DeleteTranscriptLines(s) == SaveTranscriptLines(s, {})

AddUpload(s, f) == upload' = [upload EXCEPT ![s] = f]

LiveSegments(s) == {k \in SegmentKeys : segment[s][k].state = "live"}

\* ON CONFLICT updates neither deleted_at nor the transcript: a deleted row
\* stays deleted and an old transcript stays in place.
UpsertSegment(s, k) ==
  segment' = [segment EXCEPT ![s][k] =
                IF @.state = "absent" THEN [state |-> "live", text |-> {}] ELSE @]

UpdateSegmentResult(s, k, text) ==
  segment' = [segment EXCEPT ![s][k] =
                IF @.state = "live" THEN [@ EXCEPT !.text = text] ELSE @]

DeleteSegmentsBySession(s) ==
  segment' = [segment EXCEPT ![s] =
                [k \in SegmentKeys |->
                   IF segment[s][k].state = "live"
                   THEN [segment[s][k] EXCEPT !.state = "deleted"]
                   ELSE segment[s][k]]]

CreatePromptResult(r, s) ==
  /\ promptResult[r].state = "absent"
  /\ promptResult' = [promptResult EXCEPT ![r] = [state |-> "queued", ses |-> s]]

\* An UPDATE by id alone: whatever status the row has, but not a deleted row.
UpdatePromptResult(r, st) ==
  promptResult' = [promptResult EXCEPT ![r] =
                     IF @.state \in PromptStatuses
                     THEN [@ EXCEPT !.state = st] ELSE @]

DeletePromptResult(r) ==
  /\ promptResult[r].state \in PromptStatuses
  /\ promptResult' = [promptResult EXCEPT ![r] = [@ EXCEPT !.state = "deleted"]]

PutObject(s, o, t) ==
  object' = [object EXCEPT ![ObjectName(s, o)] = t]

-----------------------------------------------------------------------------
DataInit ==
  /\ status = [s \in Sessions |-> "new"]
  /\ segment = [s \in Sessions |-> [k \in SegmentKeys |->
                   [state |-> "absent", text |-> {}]]]
  /\ upload = [s \in Sessions |-> None]
  /\ transcript = [s \in Sessions |-> {}]
  /\ lines = [s \in Sessions |-> {}]
  /\ promptResult = [r \in ResultIds |-> [state |-> "absent", ses |-> None]]
  /\ object = [n \in Sessions \X Objects |-> None]
  /\ jobs = <<>>
  /\ results = <<>>
  /\ chanOpen = TRUE
  /\ faults = MaxFaults
  /\ spokenIn = [t \in Takes |-> None]

DataTypeOK ==
  /\ status \in [Sessions -> Statuses]
  /\ segment \in [Sessions -> [SegmentKeys -> SegmentRow]]
  /\ upload \in [Sessions -> Files \cup {None}]
  /\ transcript \in [Sessions -> SUBSET Takes]
  /\ lines \in [Sessions -> SUBSET Takes]
  /\ promptResult \in [ResultIds -> PromptRow]
  /\ object \in [Sessions \X Objects -> Takes \cup {None}]
  /\ jobs \in Seq(Jobs)
  /\ results \in Seq(Results)
  /\ chanOpen \in BOOLEAN
  /\ faults \in Nat
  /\ spokenIn \in [Takes -> Sessions \cup {None}]
=============================================================================
