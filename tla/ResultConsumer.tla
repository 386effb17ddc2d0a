--------------------------- MODULE ResultConsumer ---------------------------
(***************************************************************************)
(* The API server's consumer of the "transcription" queue:                 *)
(* HandleTranscriptionMessage in internal/queue/handler/transcription.go.   *)
(* One goroutine handles one message at a time; the subscription            *)
(* acknowledges on delivery, so a message is off the queue before it is     *)
(* handled.  A session result is handled in four steps, each its own SQL    *)
(* statement or publish, between which requests run.                        *)
(***************************************************************************)
EXTENDS PipelineData

VARIABLE consumer  \* [at, res, row]: the message in hand and the next step

IdleConsumer == [at |-> "idle", res |-> None, row |-> None]

ConsumerInit == consumer = IdleConsumer

ConsumerTypeOK ==
  consumer \in {IdleConsumer} \cup
     [at : {"lines", "prompt"}, res : SessionResults, row : {None}] \cup
     [at : {"publish"}, res : SessionResults, row : ResultIds]

\* Deliveries stop for good when the channel closes.
Receive(types) ==
  /\ chanOpen
  /\ consumer = IdleConsumer
  /\ results # <<>>
  /\ Head(results).type \in types
  /\ results' = Tail(results)
  /\ UNCHANGED <<jobs, chanOpen>>

HandleSegmentTranscription ==
  /\ Receive({"segment_transcribed"})
  /\ \E k \in Head(results).objs :
       UpdateSegmentResult(Head(results).ses, k, Head(results).text)
  /\ UNCHANGED <<sessionVars, object, spokenIn, promptResult, consumer>>

HandleSessionTranscription ==
  /\ Receive(SessionResultTypes)
  /\ UpdateTranscription(Head(results).ses, Head(results).text)
  /\ consumer' = [at |-> "lines", res |-> Head(results), row |-> None]
  /\ UNCHANGED <<audioVars, promptResult>>

\* Lines are replaced only by a result that has any.
SaveLines ==
  /\ consumer.at = "lines"
  /\ IF consumer.res.lines # {}
     THEN SaveTranscriptLines(consumer.res.ses, consumer.res.lines)
     ELSE UNCHANGED sessionVars
  /\ consumer' = [consumer EXCEPT !.at = "prompt"]
  /\ UNCHANGED <<audioVars, promptResult, queueVars>>

\* queuePurposePrompt; a row that cannot be created is logged.
QueuePurposePrompt ==
  /\ consumer.at = "prompt"
  /\ LET s == consumer.res.ses
         wanted == s \in PromptSessions /\ consumer.res.text # {}
     IN \/ /\ wanted
           /\ \E r \in ResultIds :
                /\ CreatePromptResult(r, s)
                /\ consumer' = [consumer EXCEPT !.at = "publish", !.row = r]
        \/ /\ ~wanted \/ \A r \in ResultIds : promptResult[r].state # "absent"
           /\ consumer' = IdleConsumer
           /\ UNCHANGED promptResult
  /\ UNCHANGED <<sessionVars, audioVars, queueVars>>

PublishPurposePrompt ==
  /\ consumer.at = "publish"
  /\ Publish(PromptJob(consumer.res.ses, consumer.row))
  /\ IF chanOpen THEN UNCHANGED promptResult
                 ELSE UpdatePromptResult(consumer.row, "failed")
  /\ consumer' = IdleConsumer
  /\ UNCHANGED <<sessionVars, audioVars>>

HandlePromptApplied ==
  /\ Receive({"prompt_applied"})
  /\ UpdatePromptResult(Head(results).row,
                        IF Head(results).ok THEN "completed" ELSE "failed")
  /\ UNCHANGED <<sessionVars, audioVars, consumer>>

ConsumerStep ==
  \/ HandleSegmentTranscription
  \/ HandleSessionTranscription
  \/ SaveLines
  \/ QueuePurposePrompt
  \/ PublishPurposePrompt
  \/ HandlePromptApplied
=============================================================================
