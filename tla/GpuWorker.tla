------------------------------ MODULE GpuWorker ------------------------------
(***************************************************************************)
(* The Python worker, gpu/main.py: one blocking consumer of the "session"  *)
(* queue with prefetch 1 and manual acknowledgement.  It takes a job, reads *)
(* the audio, replies on the "transcription" queue (or only logs an error), *)
(* and then acknowledges the job.  A connection that dies before the        *)
(* acknowledgement puts the job back at the head of the queue, also when    *)
(* the reply is already out.                                                *)
(***************************************************************************)
EXTENDS PipelineData

CONSTANTS
  Outcomes,       \* what the transcription server may answer per audio
  FallbackBucket  \* MINIO_BUCKET is set: upload_ready carries no bucket

ASSUME WorkerAssumption ==
  /\ Outcomes \subseteq {"text", "blank", "error"}
  /\ FallbackBucket \in BOOLEAN

VARIABLE worker  \* [at, job]: the unacknowledged job and how far it is

IdleWorker == [at |-> "idle", job |-> None]

WorkerInit == worker = IdleWorker

WorkerTypeOK ==
  worker \in {IdleWorker} \cup [at : {"busy", "replied"}, job : Jobs]

Take(s, o) == object[ObjectName(s, o)]

WorkerTake ==
  /\ worker = IdleWorker
  /\ jobs # <<>>
  /\ worker' = [at |-> "busy", job |-> Head(jobs)]
  /\ jobs' = Tail(jobs)
  /\ UNCHANGED <<results, chanOpen>>

\* publish(): one result on the out queue, then on_message goes on to its ack.
Reply(result) ==
  /\ worker' = [worker EXCEPT !.at = "replied"]
  /\ results' = Append(results, result)
  /\ UNCHANGED <<jobs, chanOpen>>

\* An exception in a handler, or a job that is dropped: logged and acked.
NoReply ==
  /\ worker' = [worker EXCEPT !.at = "replied"]
  /\ UNCHANGED queueVars

\* The texts the transcription server may return for one audio: the audio's
\* own take, or a blank; an error raises instead.
Transcriptions(t) ==
  (IF "text" \in Outcomes THEN {{t}} ELSE {}) \cup
  (IF "blank" \in Outcomes THEN {{}} ELSE {})

HandleSegmentReady(job) ==
  /\ job.type = "segment_ready"
  /\ \/ \E k \in job.objs : \E text \in Transcriptions(Take(job.ses, k)) :
           Reply([type |-> "segment_transcribed", ses |-> job.ses,
                  objs |-> job.objs, text |-> text, lines |-> {},
                  row |-> None, ok |-> TRUE])
     \/ "error" \in Outcomes /\ NoReply

\* A provider may return a text without timestamped segments.
HandleUploadReady(job) ==
  /\ job.type = "upload_ready"
  /\ \/ /\ FallbackBucket
        /\ \E f \in job.objs : \E text \in Transcriptions(Take(job.ses, f)) :
             \E timed \in {text, {}} :
               Reply([type |-> "upload_transcribed", ses |-> job.ses,
                      objs |-> {}, text |-> text, lines |-> timed,
                      row |-> None, ok |-> TRUE])
     \/ (~FallbackBucket \/ "error" \in Outcomes) /\ NoReply

\* Mutation of HandleBatch: nothing is replied when nothing is left.
HandleBatchSilent(job) ==
  /\ job.type \in BatchTypes
  /\ LET all == {Take(job.ses, k) : k \in job.objs}
     IN IF all = {} THEN NoReply
        ELSE \E text \in SUBSET all :
               Reply([type |-> "session_transcribed", ses |-> job.ses, objs |-> {},
                      text |-> text, lines |-> text, row |-> None, ok |-> TRUE])

\* Segments that fail or are blank are skipped; the reply always goes out,
\* also when nothing is left of it.
HandleBatch(job) ==
  /\ job.type \in BatchTypes
  /\ LET all == {Take(job.ses, k) : k \in job.objs}
     IN \E text \in (IF Outcomes = {"text"} THEN {all} ELSE SUBSET all) :
          Reply([type |-> IF job.type = "recording_ready"
                          THEN "session_transcribed" ELSE "upload_transcribed",
                 ses |-> job.ses, objs |-> {}, text |-> text, lines |-> text,
                 row |-> None, ok |-> TRUE])

\* Mutation of HandlePromptApply: a failure is logged instead of replied.
HandlePromptApplyLogged(job) ==
  /\ job.type = "prompt_apply"
  /\ \/ NoReply
     \/ Reply([type |-> "prompt_applied", ses |-> job.ses, objs |-> {},
               text |-> {}, lines |-> {}, row |-> job.row, ok |-> TRUE])

\* Every prompt job is answered, a failure with "error" set.
HandlePromptApply(job) ==
  /\ job.type = "prompt_apply"
  /\ \E ok \in BOOLEAN :
       Reply([type |-> "prompt_applied", ses |-> job.ses, objs |-> {},
              text |-> {}, lines |-> {}, row |-> job.row, ok |-> ok])

WorkerReply ==
  /\ worker.at = "busy"
  /\ \/ HandleSegmentReady(worker.job)
     \/ HandleUploadReady(worker.job)
     \/ HandleBatch(worker.job)
     \/ HandlePromptApply(worker.job)

WorkerAck ==
  /\ worker.at = "replied"
  /\ worker' = IdleWorker
  /\ UNCHANGED queueVars

WorkerStep == WorkerTake \/ WorkerReply \/ WorkerAck

\* Mutation of ConnectionLost: consuming with auto_ack, nothing is requeued.
ConnectionLostAutoAck ==
  /\ Fault("worker_loss")
  /\ worker # IdleWorker
  /\ worker' = IdleWorker
  /\ UNCHANGED queueVars

\* A dead connection (or process): the broker requeues the unacked job.
ConnectionLost ==
  /\ Fault("worker_loss")
  /\ worker # IdleWorker
  /\ worker' = IdleWorker
  /\ jobs' = <<worker.job>> \o jobs
  /\ UNCHANGED <<results, chanOpen>>
=============================================================================
