------------------------ MODULE TranscriptionPipeline ------------------------
(***************************************************************************)
(* TINA's transcription and prompt pipeline: the API handlers, the Python  *)
(* worker and the result consumer over the shared database, object store    *)
(* and queues, with the faults the deployment meets.                        *)
(***************************************************************************)
EXTENDS SessionApi, GpuWorker, ResultConsumer

apiVars == <<link, call, budget, accepted>>

vars == <<sessionVars, audioVars, promptResult, queueVars, faults,
          apiVars, worker, consumer>>

Init ==
  /\ DataInit
  /\ ApiInit
  /\ WorkerInit
  /\ ConsumerInit

TypeOK ==
  /\ DataTypeOK
  /\ ApiTypeOK
  /\ WorkerTypeOK
  /\ ConsumerTypeOK

-----------------------------------------------------------------------------
(* Faults of the server process and the broker.                            *)

\* The subscription acknowledges on delivery, so any prefix of the results
\* may be in the client's buffer and is lost with it.
LoseDelivered ==
  \E n \in 0..Len(results) : results' = SubSeq(results, n + 1, Len(results))

\* The API process dies and comes back: calls, links and the message in hand
\* are gone; main.go dials the broker anew.
ServerCrash ==
  /\ Fault("server_crash")
  /\ call' = [c \in Callers |-> IdleCall]
  /\ link' = [c \in Tabs |-> None]
  /\ consumer' = IdleConsumer
  /\ chanOpen' = TRUE
  /\ LoseDelivered
  /\ UNCHANGED <<sessionVars, audioVars, promptResult, jobs, budget, accepted,
                 worker>>

\* The AMQP channel or connection of the API server closes; nothing reopens it.
ChannelClose ==
  /\ Fault("channel_close")
  /\ chanOpen
  /\ chanOpen' = FALSE
  /\ LoseDelivered
  /\ UNCHANGED <<sessionVars, audioVars, promptResult, jobs, apiVars, worker,
                 consumer>>

\* The queues are durable but no message is persistent.
BrokerRestart ==
  /\ Fault("broker_restart")
  /\ jobs' = <<>>
  /\ results' = <<>>
  /\ chanOpen' = FALSE
  /\ worker' = IdleWorker
  /\ UNCHANGED <<sessionVars, audioVars, promptResult, apiVars, consumer>>

-----------------------------------------------------------------------------
UserStep ==
  /\ (\E c \in Tabs : TabRequest(c)) \/ (\E c \in Posts : PostRequest(c))
  /\ UNCHANGED <<faults, worker, consumer>>

HandlerStep(c) ==
  /\ CallStep(c)
  /\ UNCHANGED <<faults, worker, consumer>>

Work ==
  /\ WorkerStep
  /\ UNCHANGED <<sessionVars, audioVars, promptResult, faults, apiVars, consumer>>

Consume ==
  /\ ConsumerStep
  /\ UNCHANGED <<faults, apiVars, worker>>

StoreFails ==
  /\ \E c \in Posts : SegmentPutFails(c) \/ FilePutFails(c)
  /\ UNCHANGED <<worker, consumer>>

LoseWorker ==
  /\ ConnectionLost
  /\ UNCHANGED <<sessionVars, audioVars, promptResult, apiVars, consumer>>

Next ==
  \/ UserStep
  \/ \E c \in Callers : HandlerStep(c)
  \/ Work
  \/ Consume
  \/ StoreFails
  \/ LoseWorker
  \/ ServerCrash
  \/ ChannelClose
  \/ BrokerRestart

\* The handlers are goroutines, the worker and the consumer loops that take
\* the next message when there is one; users and faults owe nothing.
Fairness ==
  /\ \A c \in Callers : WF_vars(HandlerStep(c))
  /\ WF_vars(Work)
  /\ WF_vars(Consume)

Spec == Init /\ [][Next]_vars

FairSpec == Spec /\ Fairness

-----------------------------------------------------------------------------
(* Prompt results.                                                         *)

\* Some process or queue still holds the prompt of row r: the handler or the
\* consumer that created it, a job, the worker, or a result.
PromptCall(r, c) == call[c].at = "prompt_publish" /\ call[c].row = r

PromptInHand(r) == consumer.at = "publish" /\ consumer.row = r

PromptAtWorker(r) == worker.at = "busy" /\ worker.job.row = r

PromptPending(r) ==
  \/ \E c \in Callers : PromptCall(r, c)
  \/ PromptInHand(r)
  \/ \E i \in DOMAIN jobs : jobs[i].row = r
  \/ PromptAtWorker(r)
  \/ \E i \in DOMAIN results : results[i].row = r

\* A prompt result that shows "queued" is still on its way: no interleaving
\* of requests, publishes, redeliveries and results leaves a queued row that
\* nothing will ever settle.
PromptAccountedFor ==
  \A r \in ResultIds : promptResult[r].state = "queued" => PromptPending(r)

\* The life of a row as the data model documents it, queued and then
\* completed or failed, with no way back and no second verdict.
Lifecycle == INSTANCE PromptLifecycle
               WITH state <- [r \in ResultIds |-> promptResult[r].state]

PromptsFollowLifecycle == Lifecycle!Spec

\* Every queued row is settled (or deleted) in the end.
PromptsSettle == Lifecycle!Settles

-----------------------------------------------------------------------------
(* Sessions.                                                               *)

SessionJobTypes == BatchTypes \cup {"upload_ready"}

\* Some process or queue still holds a final transcript for session s.
TranscriptPending(s) ==
  \/ \E c \in Callers :
       /\ call[c].ses = s
       /\ call[c].at \in {"stop_publish", "end_write", "end_publish",
                          "finish_publish", "redo_publish", "remove_lines"}
  \/ \E i \in DOMAIN jobs : jobs[i].ses = s /\ jobs[i].type \in SessionJobTypes
  \/ worker.at = "busy" /\ worker.job.ses = s /\ worker.job.type \in SessionJobTypes
  \/ \E i \in DOMAIN results :
       results[i].ses = s /\ results[i].type \in SessionResultTypes

\* A session shows "transcribing" only while its transcript is being made.
TranscribingIsPending ==
  \A s \in Sessions : status[s] = "transcribing" => TranscriptPending(s)

\* A session in transcription is finished in the end.
TranscribingFinishes ==
  \A s \in Sessions : status[s] = "transcribing" ~> status[s] # "transcribing"

\* A recording is ended by a stop (or an admin's retranscription), never by
\* a transcript of earlier audio that arrives late.
RecordingEndsByStop ==
  [][\A s \in Sessions :
       status[s] = "recording" /\ status'[s] # "recording"
         => status'[s] = "transcribing"]_vars

\* A message of the batch that ends a session: once a recording is stopped or
\* an upload finished, this is what its transcript comes from.
BatchJob(s, job) == job.ses = s /\ job.type \in BatchTypes

SessionAnswer(s, res) == res.ses = s /\ res.type \in SessionResultTypes

\* Inductive where uploads are finished but nobody stops a recording without
\* audio or has a session redone, and no fault loses a message: a session in
\* transcription has a batch on its way, not only an upload_ready job, to which
\* the worker may not reply.
BatchToCome(s) ==
  \/ \E c \in Callers : call[c].at = "finish_publish" /\ call[c].ses = s
  \/ \E i \in DOMAIN jobs : BatchJob(s, jobs[i])
  \/ worker.at = "busy" /\ BatchJob(s, worker.job)
  \/ \E i \in DOMAIN results : SessionAnswer(s, results[i])

TranscribingInv ==
  /\ chanOpen
  /\ \A c \in Callers : call[c].at # "redo_publish"
  /\ \A s \in Sessions : status[s] = "transcribing" => BatchToCome(s)

\* Nothing is on its way that finishes session s.
NothingFinal(s) ==
  /\ \A c \in Callers : call[c].at = "stop_publish" => call[c].ses # s
  /\ \A i \in DOMAIN jobs : ~BatchJob(s, jobs[i])
  /\ worker # IdleWorker => ~BatchJob(s, worker.job)
  /\ \A i \in DOMAIN results : ~SessionAnswer(s, results[i])

\* The handlers' steps that write a status or make a final transcript, other
\* than those of begin and stop.
OtherStatusSteps ==
  {"end_write", "end_publish", "file_put", "file_publish", "finish_write",
   "finish_publish", "redo_publish", "remove_lines"}

\* Inductive where the owner records from one tab and nobody ends, uploads,
\* redoes or removes meanwhile.
RecordingInv ==
  /\ \A c \in Callers : call[c].at \notin OtherStatusSteps
  /\ \A i \in DOMAIN jobs : jobs[i].type # "upload_ready"
  /\ worker # IdleWorker => worker.job.type # "upload_ready"
  /\ \A c \in Callers : call[c].at \in {"begin_write", "stop_publish"} => c \in Tabs
  /\ \A c \in Tabs : call[c].at = "begin_write" => status[call[c].ses] = "new"
  /\ \A s \in Sessions : status[s] \in {"new", "recording"} => NothingFinal(s)

\* A finished upload session whose audio was transcribed shows a transcript.
UploadedAudioIsTranscribed ==
  \A s \in Sessions :
    status[s] = "finished" /\ upload[s] # None /\ ~TranscriptPending(s)
      => transcript[s] # {}

-----------------------------------------------------------------------------
(* Segments.                                                               *)

\* What carries the newest audio of segment k on its way to the row: a call
\* that stores or queues it, a job, and the worker's answer.
SegmentCall(s, k, c) ==
  /\ call[c].ses = s
  /\ \/ call[c].at \in {"segment_upsert", "segment_publish"} /\ call[c].obj = k
     \/ call[c].at = "redo_segments" /\ k \in call[c].objs

SegmentJob(s, k, job) ==
  job.type = "segment_ready" /\ job.ses = s /\ k \in job.objs

SegmentAnswer(s, k, res) ==
  res.type = "segment_transcribed" /\ res.ses = s /\ k \in res.objs

SegmentToCome(s, k) ==
  \/ \E c \in Callers : SegmentCall(s, k, c)
  \/ \E i \in DOMAIN jobs : SegmentJob(s, k, jobs[i])
  \/ worker.at = "busy" /\ SegmentJob(s, k, worker.job)

SegmentPending(s, k) ==
  \/ SegmentToCome(s, k)
  \/ \E i \in DOMAIN results : SegmentAnswer(s, k, results[i])

Audio(s, k) == object[ObjectName(s, k)]

\* The live transcript of a segment is that of the audio now stored for it,
\* also when the audio was replaced while an older transcription was running.
SegmentTextIsCurrent ==
  \A s \in Sessions : \A k \in LiveSegments(s) :
    ~SegmentPending(s, k) => segment[s][k].text = {Audio(s, k)}

\* Nothing about segment k follows answer i in the queue.
LastAnswer(s, k, i) ==
  /\ SegmentAnswer(s, k, results[i])
  /\ \A j \in DOMAIN results : j > i => ~SegmentAnswer(s, k, results[j])

\* Answers of older audio may be in the queue, but the one that is handled
\* last is of the audio now stored.
LastTextIsCurrent(s, k) ==
  k \in LiveSegments(s) /\ ~SegmentToCome(s, k) =>
    /\ \A i \in DOMAIN results : LastAnswer(s, k, i) => results[i].text = {Audio(s, k)}
    /\ (\A i \in DOMAIN results : ~SegmentAnswer(s, k, results[i]))
         => segment[s][k].text = {Audio(s, k)}

\* A message about a live segment names one segment.
NamesOne(objs) == \A k, l \in objs : k = l

MessagesNameOne ==
  /\ \A i \in DOMAIN jobs : jobs[i].type = "segment_ready" => NamesOne(jobs[i].objs)
  /\ worker # IdleWorker /\ worker.job.type = "segment_ready" => NamesOne(worker.job.objs)
  /\ \A i \in DOMAIN results :
       results[i].type = "segment_transcribed" => NamesOne(results[i].objs)

\* Inductive on top of PipelineInv, where every audio gets its text, the
\* legacy callback is not used and no fault loses a message.
SegmentTextInv ==
  /\ chanOpen
  /\ MessagesNameOne
  /\ \A s \in Sessions, k \in SegmentKeys : LastTextIsCurrent(s, k)

Stored(s, o) == object[ObjectName(s, o)] \in Takes

\* The worker never asks the object store for audio that is not there: every
\* segment, upload, list and job names stored objects, whichever handler it
\* comes from and however often it is queued again.
JobsNameStoredAudio ==
  /\ \A i \in DOMAIN jobs : \A o \in jobs[i].objs : Stored(jobs[i].ses, o)
  /\ worker # IdleWorker =>
       \A o \in worker.job.objs : Stored(worker.job.ses, o)

\* The rows and the calls in flight that jobs are made from.
RowsNameStoredAudio ==
  /\ \A s \in Sessions, k \in SegmentKeys :
       segment[s][k].state # "absent" => Stored(s, k)
  /\ \A s \in Sessions : upload[s] # None => Stored(s, upload[s])

CallsNameStoredAudio ==
  \A c \in Callers :
    /\ call[c].at \in {"segment_upsert", "segment_publish", "file_publish"}
         => Stored(call[c].ses, call[c].obj)
    /\ \A o \in call[c].objs : Stored(call[c].ses, o)

\* The inductive invariant of the two theorems about jobs and types.
PipelineInv ==
  /\ TypeOK
  /\ JobsNameStoredAudio
  /\ RowsNameStoredAudio
  /\ CallsNameStoredAudio

\* Audio and text never cross from one session into another.
OwnAudioOnly ==
  \A s \in Sessions :
    /\ \A t \in transcript[s] \cup lines[s] : spokenIn[t] = s
    /\ \A k \in SegmentKeys : \A t \in segment[s][k].text : spokenIn[t] = s

\* What the texts are made of: the stored objects, the takes of the calls in
\* flight, the results on their way and the one the consumer has in hand.
StoreIsOwn ==
  \A s \in Sessions, o \in Objects :
    Stored(s, o) => spokenIn[object[ObjectName(s, o)]] = s

CallsCarryOwn ==
  \A c \in Callers : call[c].take # None => spokenIn[call[c].take] = call[c].ses

TextIsOwn(res) == \A t \in res.text \cup res.lines : spokenIn[t] = res.ses

ResultsAreOwn ==
  /\ \A i \in DOMAIN results : TextIsOwn(results[i])
  /\ consumer # IdleConsumer => TextIsOwn(consumer.res)

\* Inductive on top of PipelineInv.
OwnAudioInv ==
  /\ OwnAudioOnly
  /\ StoreIsOwn
  /\ CallsCarryOwn
  /\ ResultsAreOwn

\* A segment the server accepted (202) is in the definitive transcript.
AcceptedAudioIsTranscribed ==
  \A s \in Sessions :
    status[s] = "finished" /\ ~TranscriptPending(s)
      => {t \in accepted : spokenIn[t] = s} \subseteq transcript[s]
=============================================================================
