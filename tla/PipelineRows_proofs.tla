------------------------- MODULE PipelineRows_proofs -------------------------
(***************************************************************************)
(* What the rows of the pipeline show, for every value of the constants:   *)
(*                                                                         *)
(* audio and text stay in the session they were spoken in (OwnAudioOnly),  *)
(* under every fault.  OwnAudioInv follows a take from the request that    *)
(* brings it to the rows its text ends up in;                              *)
(*                                                                         *)
(* a segment without a request, job or answer to come shows the text of    *)
(* its audio (SegmentTextIsCurrent).  SegmentTextInv follows the answers   *)
(* of a key in the queue: the last one is about the audio that is stored;  *)
(*                                                                         *)
(* a session in transcribing has something in flight that takes it out of  *)
(* it again (TranscribingIsPending), and nothing that is in flight while a *)
(* session records takes it out of recording (RecordingEndsByStop);        *)
(*                                                                         *)
(* the rows of prompt results implement PromptLifecycle.  PromptsOnce says *)
(* that one thing at a time holds a row (a call, the consumer, a job, the  *)
(* worker, an answer) and that a row that is held has no verdict yet.      *)
(*                                                                         *)
(* All are inductive on top of PipelineInv of TranscriptionPipeline_proofs.*)
(***************************************************************************)
EXTENDS TranscriptionPipeline_proofs

-----------------------------------------------------------------------------
(* What any step can do to the pieces of OwnAudioInv.                      *)

\* A take keeps the session it was spoken in.
SpokenStays ==
  \A t \in Takes, s \in Sessions : spokenIn[t] = s => spokenIn'[t] = s

\* A row shows old text, or text of its own session.
RowsStep ==
  \A s \in Sessions :
    /\ \A t \in transcript'[s] \cup lines'[s] :
         t \in transcript[s] \cup lines[s] \/ spokenIn'[t] = s
    /\ \A k \in SegmentKeys : \A t \in segment'[s][k].text :
         t \in segment[s][k].text \/ spokenIn'[t] = s

StoreStep ==
  \A s \in Sessions, o \in Objects :
    \/ object'[ObjectName(s, o)] = object[ObjectName(s, o)]
    \/ spokenIn'[object'[ObjectName(s, o)]] = s

CallStepOwn ==
  \A c \in Callers :
    \/ call'[c].take = None
    \/ call'[c].take = call[c].take /\ call'[c].ses = call[c].ses
    \/ spokenIn'[call'[c].take] = call'[c].ses

TextStaysOwn(res) == \A t \in res.text \cup res.lines : spokenIn'[t] = res.ses

ResultsStep ==
  /\ \A i \in DOMAIN results' :
       (\E j \in DOMAIN results : results'[i] = results[j]) \/ TextStaysOwn(results'[i])
  /\ \/ consumer' = IdleConsumer
     \/ consumer # IdleConsumer /\ consumer'.res = consumer.res
     \/ \E j \in DOMAIN results : consumer'.res = results[j]

\* The take of a call is audio, and its session one of the sessions.
LEMMA CallTakes ==
  ASSUME ApiTypeOK, NEW c \in Callers, call[c].take # None
  PROVE  call[c].take \in Takes /\ call[c].ses \in Sessions
BY DataAssumption DEF ApiTypeOK, Calls, SegmentCalls, FileCalls, PromptCalls, RedoCalls,
   PlainCalls, IdleCall

\* Every result names a session and carries takes.
LEMMA ResultTakes ==
  ASSUME NEW res \in Results
  PROVE  res.ses \in Sessions /\ res.text \cup res.lines \subseteq Takes
BY DEF Results, SegmentResults, SessionResults, PromptReplies

\* The result in the consumer's hand is a result.
LEMMA ConsumerTakes ==
  ASSUME ConsumerTypeOK, consumer # IdleConsumer
  PROVE  consumer.res \in Results
BY DEF ConsumerTypeOK, Results

\* A step that keeps to the four step predicates keeps the invariant.
LEMMA OwnStep ==
  ASSUME TypeOK, OwnAudioInv, SpokenStays, RowsStep, StoreStep, CallStepOwn, ResultsStep
  PROVE  OwnAudioInv'
<1>1. OwnAudioOnly'
  <2>1. /\ transcript \in [Sessions -> SUBSET Takes] /\ lines \in [Sessions -> SUBSET Takes]
        /\ segment \in [Sessions -> [SegmentKeys -> SegmentRow]]
    BY DEF TypeOK, DataTypeOK
  <2>2. ASSUME NEW s \in Sessions, NEW t \in transcript'[s] \cup lines'[s]
        PROVE  spokenIn'[t] = s
    BY <2>1, <2>2 DEF RowsStep, OwnAudioInv, OwnAudioOnly, SpokenStays
  <2>3. ASSUME NEW s \in Sessions, NEW k \in SegmentKeys, NEW t \in segment'[s][k].text
        PROVE  spokenIn'[t] = s
    <3>1. segment[s][k].text \subseteq Takes
      BY <2>1 DEF SegmentRow
    <3> QED
      BY <2>3, <3>1 DEF RowsStep, OwnAudioInv, OwnAudioOnly, SpokenStays
  <2> QED
    BY <2>2, <2>3 DEF OwnAudioOnly
<1>2. StoreIsOwn'
  <2>1. ASSUME NEW s \in Sessions, NEW o \in Objects, object'[ObjectName(s, o)] \in Takes
        PROVE  spokenIn'[object'[ObjectName(s, o)]] = s
    BY <2>1 DEF StoreStep, OwnAudioInv, StoreIsOwn, Stored, SpokenStays
  <2> QED
    BY <2>1 DEF StoreIsOwn, Stored, ObjectName
<1>3. CallsCarryOwn'
  <2>1. ASSUME NEW c \in Callers, call'[c].take # None
        PROVE  spokenIn'[call'[c].take] = call'[c].ses
    <3>1. CASE call'[c].take = call[c].take /\ call'[c].ses = call[c].ses
      <4>1. spokenIn[call[c].take] = call[c].ses
        BY <2>1, <3>1 DEF OwnAudioInv, CallsCarryOwn
      <4>2. call[c].take \in Takes /\ call[c].ses \in Sessions
        BY <2>1, <3>1, CallTakes DEF TypeOK
      <4> QED
        BY <3>1, <4>1, <4>2 DEF SpokenStays
    <3>2. CASE spokenIn'[call'[c].take] = call'[c].ses
      BY <3>2
    <3> QED
      BY <2>1, <3>1, <3>2 DEF CallStepOwn
  <2> QED
    BY <2>1 DEF CallsCarryOwn
<1>4. ResultsAreOwn'
  <2>1. ASSUME NEW res \in Results, TextIsOwn(res)
        PROVE  TextStaysOwn(res)
    BY <2>1, ResultTakes DEF TextIsOwn, TextStaysOwn, SpokenStays
  <2>2. ASSUME NEW j \in DOMAIN results
        PROVE  results[j] \in Results /\ TextIsOwn(results[j])
    <3>1. results \in Seq(Results)
      BY DEF TypeOK, DataTypeOK
    <3> QED
      BY <3>1 DEF OwnAudioInv, ResultsAreOwn
  <2>3. ASSUME consumer # IdleConsumer
        PROVE  consumer.res \in Results /\ TextIsOwn(consumer.res)
    BY <2>3, ConsumerTakes DEF TypeOK, OwnAudioInv, ResultsAreOwn
  <2>4. ASSUME NEW i \in DOMAIN results'
        PROVE  TextStaysOwn(results'[i])
    BY <2>1, <2>2, <2>4 DEF ResultsStep
  <2>5. ASSUME consumer' # IdleConsumer
        PROVE  TextStaysOwn(consumer'.res)
    BY <2>1, <2>2, <2>3, <2>5 DEF ResultsStep
  <2> QED
    BY <2>4, <2>5 DEF ResultsAreOwn, TextIsOwn, TextStaysOwn, IdleConsumer
<1> QED
  BY <1>1, <1>2, <1>3, <1>4 DEF OwnAudioInv

-----------------------------------------------------------------------------
(* The actions.                                                            *)

\* What a step leaves alone takes nothing anywhere.
LEMMA OwnFrames ==
  /\ UNCHANGED spokenIn => SpokenStays
  /\ UNCHANGED <<transcript, lines, segment>> => RowsStep
  /\ UNCHANGED object => StoreStep
  /\ UNCHANGED call => CallStepOwn
  /\ UNCHANGED <<results, consumer>> => ResultsStep
BY DEF SpokenStays, RowsStep, StoreStep, CallStepOwn, ResultsStep

\* A step that changes one call, which drops its take, keeps it, or gets its own.
LEMMA OneCallOwn ==
  ASSUME ApiTypeOK, NEW c \in Callers, NEW x, call' = [call EXCEPT ![c] = x],
         \/ x.take = None
         \/ x.take = call[c].take /\ x.ses = call[c].ses
         \/ spokenIn'[x.take] = x.ses
  PROVE  CallStepOwn
<1>1. ASSUME NEW d \in Callers
      PROVE  call'[d] = IF d = c THEN x ELSE call[d]
  BY DEF ApiTypeOK
<1> QED
  BY <1>1 DEF CallStepOwn

\* Returning and going on to a step without audio drop the take.
LEMMA CallsDrop ==
  ASSUME ApiTypeOK, NEW c \in Callers,
         Return(c) \/ \E step, s : Goto(c, step, s)
  PROVE  CallStepOwn
<1>1. IdleCall.take = None
  BY DEF IdleCall
<1>2. \A step, s : [IdleCall EXCEPT !.at = step, !.ses = s].take = None
  BY DEF IdleCall
<1> QED
  BY <1>1, <1>2, OneCallOwn DEF Return, Goto

\* Websocket calls touch no audio.
LEMMA TabOwn ==
  ASSUME TypeOK, OwnAudioInv, NEW c \in Tabs, TabRequest(c),
         UNCHANGED <<faults, worker, consumer>>
  PROVE  OwnAudioInv'
<1>1. UNCHANGED <<transcript, lines, segment, object, spokenIn, results, consumer>>
  BY DEF TabRequest, RecordingBegin, OwnerJoin, RecordingStop, Disconnect, sessionVars,
         audioVars, queueVars, UpdateStatus
<1>2. UNCHANGED call \/ \E step, s : Goto(c, step, s)
  BY DEF TabRequest, RecordingBegin, OwnerJoin, RecordingStop, Disconnect
<1>3. CallStepOwn
  BY <1>2, CallsDrop, OwnFrames DEF TypeOK, Callers
<1> QED
  BY <1>1, <1>3, OwnFrames, OwnStep

\* A take that is uploaded is new: from now on it belongs to the session of
\* the request, and the call carries it.
LEMMA UploadOwn ==
  ASSUME TypeOK, NEW c \in Callers, NEW s \in Sessions, NEW t \in Takes,
         spokenIn[t] = None, spokenIn' = [spokenIn EXCEPT ![t] = s],
         NEW x, call' = [call EXCEPT ![c] = x], x.ses = s, x.take = t
  PROVE  SpokenStays /\ CallStepOwn
<1>1. spokenIn \in [Takes -> Sessions \cup {None}] /\ ApiTypeOK
  BY DEF TypeOK, DataTypeOK
<1>2. spokenIn'[t] = s
  BY <1>1
<1>3. SpokenStays
  BY <1>1, DataAssumption DEF SpokenStays
<1> QED
  BY <1>1, <1>2, <1>3, OneCallOwn

\* HTTP requests.
LEMMA PostOwn ==
  ASSUME TypeOK, OwnAudioInv, NEW c \in Posts, PostRequest(c),
         UNCHANGED <<faults, worker, consumer>>
  PROVE  OwnAudioInv'
<1>1. /\ c \in Callers /\ ApiTypeOK
      /\ segment \in [Sessions -> [SegmentKeys -> SegmentRow]]
      /\ transcript \in [Sessions -> SUBSET Takes]
  BY DEF TypeOK, DataTypeOK, Callers
<1>2. StoreStep /\ ResultsStep
  <2>1. UNCHANGED <<object, results>>
    BY DEF PostRequest, UploadSegment, UploadAudio, SegmentResult, PromptApply, EndSession,
           FinishUpload, RedoSegments, RedoSession, RemoveSegments, RemoveTranscription,
           PromptDelete, audioVars, queueVars
  <2> QED
    BY <2>1, OwnFrames
<1>3. ASSUME NEW s \in Sessions, NEW t \in Takes,
             \/ \E k \in SegmentKeys : UploadSegment(c, s, k, t)
             \/ \E f \in Files : UploadAudio(c, s, f, t)
      PROVE  OwnAudioInv'
  <2>1. UNCHANGED <<transcript, lines, segment>>
    BY <1>3 DEF UploadSegment, UploadAudio, sessionVars
  <2>2. CASE \E k \in SegmentKeys : UploadSegment(c, s, k, t)
    <3>1. PICK k \in SegmentKeys : UploadSegment(c, s, k, t)
      BY <2>2
    <3> DEFINE x == [IdleCall EXCEPT !.at = "segment_put", !.ses = s, !.obj = k,
                                     !.take = t]
    <3>2. x.ses = s /\ x.take = t
      BY DEF IdleCall
    <3>3. /\ spokenIn[t] = None /\ spokenIn' = [spokenIn EXCEPT ![t] = s]
          /\ call' = [call EXCEPT ![c] = x]
      BY <3>1 DEF UploadSegment
    <3> HIDE DEF x
    <3>4. SpokenStays /\ CallStepOwn
      BY <1>1, <3>2, <3>3, UploadOwn
    <3> QED
      BY <1>2, <2>1, <3>4, OwnFrames, OwnStep
  <2>3. CASE \E f \in Files : UploadAudio(c, s, f, t)
    <3>1. PICK f \in Files : UploadAudio(c, s, f, t)
      BY <2>3
    <3> DEFINE x == [IdleCall EXCEPT !.at = "file_put", !.ses = s, !.obj = f,
                                     !.take = t]
    <3>2. x.ses = s /\ x.take = t
      BY DEF IdleCall
    <3>3. /\ spokenIn[t] = None /\ spokenIn' = [spokenIn EXCEPT ![t] = s]
          /\ call' = [call EXCEPT ![c] = x]
      BY <3>1 DEF UploadAudio
    <3> HIDE DEF x
    <3>4. SpokenStays /\ CallStepOwn
      BY <1>1, <3>2, <3>3, UploadOwn
    <3> QED
      BY <1>2, <2>1, <3>4, OwnFrames, OwnStep
  <2> QED
    BY <1>3, <2>2, <2>3
<1>4. ASSUME NEW s \in Sessions, NEW k \in SegmentKeys, NEW t \in Takes,
             spokenIn[t] = s, SegmentResult(c, s, k, {t})
      PROVE  OwnAudioInv'
  <2>1. UNCHANGED <<transcript, lines, spokenIn, call>>
    BY <1>4 DEF SegmentResult, sessionVars
  <2>2. RowsStep
    <3>1. ASSUME NEW z \in Sessions, NEW l \in SegmentKeys, NEW u \in segment'[z][l].text
          PROVE  u \in segment[z][l].text \/ (z = s /\ u = t)
      BY <1>1, <1>4, <3>1 DEF SegmentResult, UpdateSegmentResult, SegmentRow
    <3> QED
      BY <1>4, <2>1, <3>1 DEF RowsStep
  <2> QED
    BY <1>2, <2>1, <2>2, OwnFrames, OwnStep
<1>5. ASSUME NEW s \in Sessions, NEW r \in ResultIds, PromptApply(c, s, r)
      PROVE  OwnAudioInv'
  <2>1. UNCHANGED <<transcript, lines, segment, spokenIn>>
    BY <1>5 DEF PromptApply, sessionVars, audioVars
  <2>2. CallStepOwn
    <3> DEFINE x == [IdleCall EXCEPT !.at = "prompt_publish", !.ses = s, !.row = r]
    <3>1. x.take = None /\ call' = [call EXCEPT ![c] = x]
      BY <1>5 DEF PromptApply, IdleCall
    <3> HIDE DEF x
    <3> QED
      BY <1>1, <3>1, OneCallOwn
  <2> QED
    BY <1>2, <2>1, <2>2, OwnFrames, OwnStep
<1>6. ASSUME NEW s \in Sessions, EndSession(c, s) \/ FinishUpload(c, s)
      PROVE  OwnAudioInv'
  <2>1. UNCHANGED <<transcript, lines, segment, spokenIn>> /\ \E step : Goto(c, step, s)
    BY <1>6 DEF EndSession, FinishUpload, sessionVars, audioVars
  <2> QED
    BY <1>1, <1>2, <2>1, CallsDrop, OwnFrames, OwnStep
<1>7. ASSUME NEW s \in Sessions, RedoSegments(c, s) \/ RedoSession(c, s)
      PROVE  OwnAudioInv'
  <2>1. UNCHANGED <<transcript, lines, segment, spokenIn>>
    BY <1>7 DEF RedoSegments, RedoSession, UpdateStatus, sessionVars, audioVars
  <2>2. CallStepOwn
    <3> DEFINE x(step) == [IdleCall EXCEPT !.at = step, !.ses = s, !.objs = LiveSegments(s)]
    <3>1. \E step : call' = [call EXCEPT ![c] = x(step)]
      BY <1>7 DEF RedoSegments, RedoSession
    <3>2. \A step : x(step).take = None
      BY DEF IdleCall
    <3> HIDE DEF x
    <3> QED
      BY <1>1, <3>1, <3>2, OneCallOwn
  <2> QED
    BY <1>2, <2>1, <2>2, OwnFrames, OwnStep
<1>8. ASSUME NEW s \in Sessions, RemoveSegments(c, s)
      PROVE  OwnAudioInv'
  <2>1. UNCHANGED <<transcript, lines, spokenIn, call>>
    BY <1>8 DEF RemoveSegments, sessionVars
  <2>2. RowsStep
    <3>1. ASSUME NEW z \in Sessions, NEW l \in SegmentKeys
          PROVE  segment'[z][l].text = segment[z][l].text
      <4>1. segment[z][l] \in SegmentRow
        BY <1>1
      <4> QED
        BY <1>1, <1>8, <4>1 DEF RemoveSegments, DeleteSegmentsBySession, SegmentRow
    <3> QED
      BY <2>1, <3>1 DEF RowsStep
  <2> QED
    BY <1>2, <2>1, <2>2, OwnFrames, OwnStep
<1>9. ASSUME NEW s \in Sessions, RemoveTranscription(c, s)
      PROVE  OwnAudioInv'
  <2>1. UNCHANGED <<lines, segment, spokenIn>> /\ \E step : Goto(c, step, s)
    BY <1>9 DEF RemoveTranscription, UpdateTranscription, audioVars
  <2>2. RowsStep
    <3>1. transcript' = [transcript EXCEPT ![s] = {}]
      BY <1>9 DEF RemoveTranscription, UpdateTranscription
    <3> QED
      BY <1>1, <2>1, <3>1 DEF RowsStep
  <2> QED
    BY <1>1, <1>2, <2>1, <2>2, CallsDrop, OwnFrames, OwnStep
<1>10. ASSUME NEW r \in ResultIds, PromptDelete(c, r)
       PROVE  OwnAudioInv'
  <2>1. UNCHANGED <<transcript, lines, segment, spokenIn, call>>
    BY <1>10 DEF PromptDelete, sessionVars, audioVars
  <2> QED
    BY <1>2, <2>1, OwnFrames, OwnStep
<1> QED
  BY <1>3, <1>4, <1>5, <1>6, <1>7, <1>8, <1>9, <1>10 DEF PostRequest

\* A put stores the take of the call under the session of the call.
LEMMA PutOwn ==
  ASSUME TypeOK, OwnAudioInv, SpokenStays, NEW c \in Callers,
         call[c].at \in {"segment_put", "file_put"},
         PutObject(call[c].ses, call[c].obj, call[c].take)
  PROVE  StoreStep
<1>1. /\ call[c].ses \in Sessions /\ call[c].take \in Takes
      /\ object \in [Sessions \X Objects -> Takes \cup {None}]
  BY CallKinds DEF TypeOK, DataTypeOK, SegmentCalls, FileCalls
<1>2. spokenIn'[call[c].take] = call[c].ses
  <2>1. spokenIn[call[c].take] = call[c].ses
    BY <1>1, DataAssumption DEF OwnAudioInv, CallsCarryOwn
  <2> QED
    BY <1>1, <2>1 DEF SpokenStays
<1>3. ASSUME NEW s \in Sessions, NEW o \in Objects
      PROVE  \/ object'[ObjectName(s, o)] = object[ObjectName(s, o)]
             \/ spokenIn'[object'[ObjectName(s, o)]] = s
  <2>1. <<s, o>> \in Sessions \X Objects
    OBVIOUS
  <2>2. CASE <<s, o>> = <<call[c].ses, call[c].obj>>
    <3>1. object'[<<s, o>>] = call[c].take /\ s = call[c].ses
      BY <1>1, <2>1, <2>2 DEF PutObject, ObjectName
    <3> QED
      BY <1>2, <3>1 DEF ObjectName
  <2>3. CASE <<s, o>> # <<call[c].ses, call[c].obj>>
    BY <1>1, <2>1, <2>3 DEF PutObject, ObjectName
  <2> QED
    BY <2>2, <2>3
<1> QED
  BY <1>3 DEF StoreStep

\* Handler steps: puts store the call's own take, an upsert makes an empty row,
\* and the rest publishes or deletes.
LEMMA HandlerOwn ==
  ASSUME TypeOK, OwnAudioInv, NEW c \in Callers,
         CallStep(c) \/ SegmentPutFails(c) \/ FilePutFails(c),
         UNCHANGED <<worker, consumer>>
  PROVE  OwnAudioInv'
<1>1. /\ ApiTypeOK /\ segment \in [Sessions -> [SegmentKeys -> SegmentRow]]
      /\ lines \in [Sessions -> SUBSET Takes]
  BY DEF TypeOK, DataTypeOK
<1>2. SpokenStays /\ ResultsStep
  <2>1. UNCHANGED <<spokenIn, results>>
    BY DEF CallStep, BeginWrite, StopPublish, SegmentPut, SegmentUpsert, SegmentPublish,
           EndWrite, EndPublish, FilePut, FilePublish, FinishWrite, FinishPublish,
           PromptPublish, RedoOneSegment, RedoPublish, RemoveLines, SegmentPutFails,
           FilePutFails, audioVars, queueVars, Publish
  <2> QED
    BY <2>1, OwnFrames
<1>3. CASE SegmentPut(c) \/ FilePut(c)
  <2>1. UNCHANGED <<transcript, lines, segment>>
    BY <1>3 DEF SegmentPut, FilePut, sessionVars
  <2>2. StoreStep
    BY <1>2, <1>3, PutOwn DEF SegmentPut, FilePut, At
  <2>3. CallStepOwn
    <3>1. PICK step : Continue(c, step)
      BY <1>3 DEF SegmentPut, FilePut
    <3> DEFINE x == [call[c] EXCEPT !.at = step]
    <3>2. call' = [call EXCEPT ![c] = x]
      BY <3>1 DEF Continue
    <3>3. x.take = call[c].take /\ x.ses = call[c].ses
      BY <1>1 DEF ApiTypeOK, Calls, SegmentCalls, FileCalls, PromptCalls, RedoCalls,
         PlainCalls, IdleCall
    <3> HIDE DEF x
    <3> QED
      BY <1>1, <3>2, <3>3, OneCallOwn
  <2> QED
    BY <1>2, <2>1, <2>2, <2>3, OwnFrames, OwnStep
<1>4. CASE ~(SegmentPut(c) \/ FilePut(c))
  <2>1. UNCHANGED <<object, transcript>>
    BY <1>4
       DEF CallStep, BeginWrite, StopPublish, SegmentPut, SegmentUpsert, SegmentPublish,
           EndWrite, EndPublish, FilePut, FilePublish, FinishWrite, FinishPublish,
           PromptPublish, RedoOneSegment, RedoPublish, RemoveLines, SegmentPutFails,
           FilePutFails, audioVars, sessionVars, UpdateStatus, DeleteTranscriptLines,
           SaveTranscriptLines
  <2>2. CallStepOwn
    <3>1. CASE \E step : Continue(c, step)
      <4>1. PICK step : Continue(c, step)
        BY <3>1
      <4> DEFINE x == [call[c] EXCEPT !.at = step]
      <4>2. call' = [call EXCEPT ![c] = x]
        BY <4>1 DEF Continue
      <4>3. x.take = call[c].take /\ x.ses = call[c].ses
        BY <1>1 DEF ApiTypeOK, Calls, SegmentCalls, FileCalls, PromptCalls, RedoCalls,
           PlainCalls, IdleCall
      <4> HIDE DEF x
      <4> QED
        BY <1>1, <4>2, <4>3, OneCallOwn
    <3>2. CASE Return(c)
      BY <1>1, <3>2, CallsDrop
    <3>3. CASE RedoOneSegment(c)
      <4> DEFINE x(left) == IF left = {} THEN IdleCall ELSE [call[c] EXCEPT !.objs = left]
      <4>1. PICK left : call' = [call EXCEPT ![c] = x(left)]
        BY <3>3 DEF RedoOneSegment
      <4>2. x(left).take = None
        <5>1. call[c] \in RedoCalls
          BY <1>1, <3>3, CallKinds DEF RedoOneSegment, At
        <5> QED
          BY <5>1 DEF RedoCalls, IdleCall
      <4> HIDE DEF x
      <4> QED
        BY <1>1, <4>1, <4>2, OneCallOwn
    <3> QED
      BY <1>4, <3>1, <3>2, <3>3
         DEF CallStep, BeginWrite, StopPublish, SegmentUpsert, SegmentPublish, EndWrite,
             EndPublish, FilePublish, FinishWrite, FinishPublish, PromptPublish,
             RedoPublish, RemoveLines, SegmentPutFails, FilePutFails
  <2>3. RowsStep
    <3>1. CASE SegmentUpsert(c)
      <4>1. UNCHANGED lines
        BY <3>1 DEF SegmentUpsert, sessionVars
      <4>2. ASSUME NEW z \in Sessions, NEW l \in SegmentKeys
            PROVE  segment'[z][l].text \subseteq segment[z][l].text
        BY <1>1, <3>1 DEF SegmentUpsert, UpsertSegment, SegmentRow
      <4> QED
        BY <2>1, <4>1, <4>2 DEF RowsStep
    <3>2. CASE RedoPublish(c) \/ RemoveLines(c)
      <4>1. UNCHANGED segment /\ lines' = [lines EXCEPT ![call[c].ses] = {}]
        BY <3>2 DEF RedoPublish, RemoveLines, DeleteTranscriptLines, SaveTranscriptLines,
                    audioVars
      <4> QED
        BY <1>1, <2>1, <4>1 DEF RowsStep
    <3>3. CASE ~(SegmentUpsert(c) \/ RedoPublish(c) \/ RemoveLines(c))
      <4>1. UNCHANGED <<lines, segment>>
        BY <1>4, <3>3
           DEF CallStep, BeginWrite, StopPublish, SegmentPublish, EndWrite, EndPublish,
               FilePublish, FinishWrite, FinishPublish, PromptPublish, RedoOneSegment,
               SegmentPutFails, FilePutFails, audioVars, sessionVars, UpdateStatus
      <4> QED
        BY <2>1, <4>1, OwnFrames
    <3> QED
      BY <3>1, <3>2, <3>3
  <2> QED
    BY <1>2, <2>1, <2>2, <2>3, OwnFrames, OwnStep
<1> QED
  BY <1>3, <1>4

\* The audio that a job makes the worker read was spoken in the job's session.
LEMMA JobTakes ==
  ASSUME PipelineInv, OwnAudioInv, worker # IdleWorker, NEW o \in worker.job.objs
  PROVE  spokenIn[Take(worker.job.ses, o)] = worker.job.ses
<1>1. worker.job \in Jobs /\ Stored(worker.job.ses, o)
  BY DEF PipelineInv, TypeOK, WorkerTypeOK, JobsNameStoredAudio
<1>2. worker.job.ses \in Sessions /\ o \in Objects
  BY <1>1 DEF Jobs, SegmentJobs, FileJobs, PromptJobs, Objects
<1> QED
  BY <1>1, <1>2 DEF OwnAudioInv, StoreIsOwn, Stored, Take

\* Whatever the transcription server answers, a reply holds no other text
\* than that of the job's audio.
LEMMA ReplyText ==
  ASSUME WorkerReply
  PROVE  \/ UNCHANGED results
         \/ \E x : /\ Reply(x) /\ x.ses = worker.job.ses
                   /\ \A t \in x.text \cup x.lines :
                        \E o \in worker.job.objs : t = Take(worker.job.ses, o)
<1> DEFINE job == worker.job
           from(text) == \A t \in text : \E o \in job.objs : t = Take(job.ses, o)
           result(type, objs, text, timed, row, ok) ==
             [type |-> type, ses |-> job.ses, objs |-> objs, text |-> text,
              lines |-> timed, row |-> row, ok |-> ok]
           answer(x) == Reply(x) /\ x.ses = job.ses /\ from(x.text \cup x.lines)
<1>1. \A type, objs, text, timed, row, ok :
        LET x == result(type, objs, text, timed, row, ok)
        IN x.ses = job.ses /\ x.text = text /\ x.lines = timed
  OBVIOUS
<1>2. \A o \in job.objs : \A text \in Transcriptions(Take(job.ses, o)) : from(text)
  BY DEF Transcriptions
<1>3. CASE HandleSegmentReady(job)
  <2>1. CASE NoReply
    BY <2>1 DEF NoReply, queueVars
  <2>2. CASE ~NoReply
    <3>1. PICK k \in job.objs : \E text \in Transcriptions(Take(job.ses, k)) :
            Reply(result("segment_transcribed", job.objs, text, {}, None, TRUE))
      BY <1>3, <2>2 DEF HandleSegmentReady
    <3>2. PICK text \in Transcriptions(Take(job.ses, k)) :
            Reply(result("segment_transcribed", job.objs, text, {}, None, TRUE))
      BY <3>1
    <3>3. answer(result("segment_transcribed", job.objs, text, {}, None, TRUE))
      BY <1>1, <1>2, <3>2
    <3> HIDE DEF result
    <3> QED
      BY <3>3
  <2> QED
    BY <2>1, <2>2
<1>4. CASE HandleUploadReady(job)
  <2>1. CASE NoReply
    BY <2>1 DEF NoReply, queueVars
  <2>2. CASE ~NoReply
    <3>1. PICK f \in job.objs : \E text \in Transcriptions(Take(job.ses, f)) :
            \E timed \in {text, {}} :
              Reply(result("upload_transcribed", {}, text, timed, None, TRUE))
      BY <1>4, <2>2 DEF HandleUploadReady
    <3>2. PICK text \in Transcriptions(Take(job.ses, f)) : \E timed \in {text, {}} :
            Reply(result("upload_transcribed", {}, text, timed, None, TRUE))
      BY <3>1
    <3>3. PICK timed \in {text, {}} :
            Reply(result("upload_transcribed", {}, text, timed, None, TRUE))
      BY <3>2
    <3>4. answer(result("upload_transcribed", {}, text, timed, None, TRUE))
      BY <1>1, <1>2, <3>3
    <3> HIDE DEF result
    <3> QED
      BY <3>4
  <2> QED
    BY <2>1, <2>2
<1>5. CASE HandleBatch(job)
  <2> DEFINE all == {Take(job.ses, k) : k \in job.objs}
             kind == IF job.type = "recording_ready"
                     THEN "session_transcribed" ELSE "upload_transcribed"
  <2>1. PICK text \in SUBSET all : Reply(result(kind, {}, text, text, None, TRUE))
    BY <1>5 DEF HandleBatch
  <2>2. answer(result(kind, {}, text, text, None, TRUE))
    BY <1>1, <2>1
  <2> HIDE DEF result
  <2> QED
    BY <2>2
<1>6. CASE HandlePromptApply(job)
  <2>1. PICK ok \in BOOLEAN : Reply(result("prompt_applied", {}, {}, {}, job.row, ok))
    BY <1>6 DEF HandlePromptApply
  <2>2. answer(result("prompt_applied", {}, {}, {}, job.row, ok))
    BY <1>1, <2>1
  <2> HIDE DEF result
  <2> QED
    BY <2>2
<1> QED
  BY <1>3, <1>4, <1>5, <1>6 DEF WorkerReply

\* The worker and its lost connection.
LEMMA WorkOwn ==
  ASSUME PipelineInv, OwnAudioInv, Work \/ LoseWorker
  PROVE  OwnAudioInv'
<1>1. /\ TypeOK /\ results \in Seq(Results) /\ WorkerTypeOK
  BY DEF PipelineInv, TypeOK, DataTypeOK
<1>2. UNCHANGED <<transcript, lines, segment, object, spokenIn, call, consumer>>
  BY DEF Work, LoseWorker, sessionVars, audioVars, apiVars
<1>3. ResultsStep
  <2>1. CASE UNCHANGED results
    BY <1>2, <2>1, OwnFrames
  <2>2. CASE WorkerReply /\ ~UNCHANGED results
    <3>1. PICK x : /\ Reply(x) /\ x.ses = worker.job.ses
                   /\ \A t \in x.text \cup x.lines :
                        \E o \in worker.job.objs : t = Take(worker.job.ses, o)
      BY <2>2, ReplyText DEF WorkerReply, HandleSegmentReady, HandleUploadReady,
         HandleBatch, HandlePromptApply, NoReply
    <3>2. worker # IdleWorker
      BY <2>2 DEF WorkerReply, IdleWorker
    <3>3. TextStaysOwn(x)
      BY <1>2, <3>1, <3>2, JobTakes DEF TextStaysOwn
    <3>4. ASSUME NEW i \in DOMAIN results'
          PROVE  (i \in DOMAIN results /\ results'[i] = results[i]) \/ results'[i] = x
      BY <1>1, <3>1 DEF Reply
    <3> QED
      BY <1>2, <3>3, <3>4 DEF ResultsStep
  <2> QED
    BY <2>1, <2>2 DEF Work, WorkerStep, WorkerTake, WorkerAck, LoseWorker, ConnectionLost,
                      queueVars
<1> QED
  BY <1>1, <1>2, <1>3, OwnFrames, OwnStep

\* A received result leaves the queue: the rest and the result are old ones.
LEMMA ReceivedOld ==
  ASSUME TypeOK, OwnAudioInv, NEW types, Receive(types)
  PROVE  /\ Head(results) \in Results /\ TextIsOwn(Head(results))
         /\ \E j \in DOMAIN results : Head(results) = results[j]
         /\ \A i \in DOMAIN results' : \E j \in DOMAIN results : results'[i] = results[j]
<1>1. results \in Seq(Results) /\ results # <<>> /\ results' = Tail(results)
  BY DEF TypeOK, DataTypeOK, Receive
<1>2. 1 \in DOMAIN results /\ Head(results) = results[1] /\ Head(results) \in Results
  BY <1>1
<1>3. ASSUME NEW i \in DOMAIN results'
      PROVE  i + 1 \in DOMAIN results /\ results'[i] = results[i + 1]
  BY <1>1
<1> QED
  BY <1>2, <1>3 DEF OwnAudioInv, ResultsAreOwn

\* The consumer writes a result to the rows of the session that it names.
LEMMA ConsumeOwn ==
  ASSUME TypeOK, OwnAudioInv, Consume
  PROVE  OwnAudioInv'
<1>1. /\ segment \in [Sessions -> [SegmentKeys -> SegmentRow]] /\ ConsumerTypeOK
      /\ lines \in [Sessions -> SUBSET Takes] /\ transcript \in [Sessions -> SUBSET Takes]
  BY DEF TypeOK, DataTypeOK
<1>2. UNCHANGED <<object, spokenIn, call>>
  BY DEF Consume, ConsumerStep, HandleSegmentTranscription, HandleSessionTranscription,
         SaveLines, QueuePurposePrompt, PublishPurposePrompt, HandlePromptApplied,
         audioVars, apiVars
<1>3. CASE HandleSegmentTranscription
  <2> DEFINE res == Head(results)
  <2>1. /\ res \in Results /\ TextIsOwn(res)
        /\ \A i \in DOMAIN results' : \E j \in DOMAIN results : results'[i] = results[j]
    BY <1>3, ReceivedOld DEF HandleSegmentTranscription
  <2>2. UNCHANGED <<transcript, lines, consumer>>
    BY <1>3 DEF HandleSegmentTranscription, sessionVars
  <2>3. PICK k \in res.objs : UpdateSegmentResult(res.ses, k, res.text)
    BY <1>3 DEF HandleSegmentTranscription
  <2>4. RowsStep
    <3>1. ASSUME NEW z \in Sessions, NEW l \in SegmentKeys, NEW u \in segment'[z][l].text
          PROVE  u \in segment[z][l].text \/ (z = res.ses /\ u \in res.text)
      <4> HIDE DEF res
      <4> QED
        BY <1>1, <2>3, <3>1 DEF UpdateSegmentResult, SegmentRow
    <3>2. \A u \in res.text : spokenIn'[u] = res.ses
      BY <1>2, <2>1 DEF TextIsOwn
    <3> QED
      BY <2>2, <3>1, <3>2 DEF RowsStep
  <2>5. ResultsStep
    BY <2>1, <2>2 DEF ResultsStep
  <2> QED
    BY <1>2, <2>4, <2>5, OwnFrames, OwnStep
<1>4. CASE HandleSessionTranscription
  <2> DEFINE res == Head(results)
  <2>1. /\ res \in Results /\ TextIsOwn(res) /\ \E j \in DOMAIN results : res = results[j]
        /\ \A i \in DOMAIN results' : \E j \in DOMAIN results : results'[i] = results[j]
    BY <1>4, ReceivedOld DEF HandleSessionTranscription
  <2>2. /\ UNCHANGED <<lines, segment>> /\ consumer'.res = res
        /\ transcript' = [transcript EXCEPT ![res.ses] = res.text]
    BY <1>4 DEF HandleSessionTranscription, UpdateTranscription, audioVars
  <2> HIDE DEF res
  <2>3. RowsStep
    <3>1. \A u \in res.text : spokenIn'[u] = res.ses
      BY <1>2, <2>1 DEF TextIsOwn
    <3> QED
      BY <1>1, <2>2, <3>1 DEF RowsStep
  <2>4. ResultsStep
    BY <2>1, <2>2 DEF ResultsStep
  <2> QED
    BY <1>2, <2>3, <2>4, OwnFrames, OwnStep
<1>5. CASE SaveLines
  <2>1. consumer # IdleConsumer /\ TextIsOwn(consumer.res)
    BY <1>5 DEF SaveLines, IdleConsumer, OwnAudioInv, ResultsAreOwn
  <2>2. UNCHANGED <<transcript, segment, results>> /\ consumer'.res = consumer.res
    BY <1>1, <1>5, <2>1 DEF SaveLines, SaveTranscriptLines, ConsumerTypeOK, sessionVars,
                       audioVars, queueVars
  <2>3. lines' = lines \/ lines' = [lines EXCEPT ![consumer.res.ses] = consumer.res.lines]
    BY <1>5 DEF SaveLines, SaveTranscriptLines, sessionVars
  <2>4. RowsStep
    BY <1>1, <1>2, <2>1, <2>2, <2>3 DEF RowsStep, TextIsOwn
  <2>5. ResultsStep
    BY <2>1, <2>2 DEF ResultsStep
  <2> QED
    BY <1>2, <2>4, <2>5, OwnFrames, OwnStep
<1>6. CASE QueuePurposePrompt \/ PublishPurposePrompt
  <2>1. consumer # IdleConsumer
    <3>1. consumer.at \in {"prompt", "publish"}
      BY <1>6 DEF QueuePurposePrompt, PublishPurposePrompt
    <3> QED
      BY <3>1 DEF IdleConsumer
  <2>2. UNCHANGED <<transcript, lines, segment, results>>
    BY <1>6 DEF QueuePurposePrompt, PublishPurposePrompt, Publish, sessionVars,
                audioVars, queueVars
  <2>3. consumer' = IdleConsumer \/ consumer'.res = consumer.res
    BY <1>1, <1>6, <2>1 DEF QueuePurposePrompt, PublishPurposePrompt, ConsumerTypeOK
  <2>4. ResultsStep
    BY <2>1, <2>2, <2>3 DEF ResultsStep
  <2> QED
    BY <1>2, <2>2, <2>4, OwnFrames, OwnStep
<1>7. CASE HandlePromptApplied
  <2>1. /\ UNCHANGED <<transcript, lines, segment, consumer>>
        /\ \A i \in DOMAIN results' : \E j \in DOMAIN results : results'[i] = results[j]
    BY <1>7, ReceivedOld DEF HandlePromptApplied, sessionVars, audioVars
  <2>2. ResultsStep
    BY <2>1 DEF ResultsStep
  <2> QED
    BY <1>2, <2>1, <2>2, OwnFrames, OwnStep
<1> QED
  BY <1>3, <1>4, <1>5, <1>6, <1>7 DEF Consume, ConsumerStep

\* The faults only take messages, calls and the result in hand away.
LEMMA FaultOwn ==
  ASSUME TypeOK, OwnAudioInv, ServerCrash \/ ChannelClose \/ BrokerRestart
  PROVE  OwnAudioInv'
<1>1. results \in Seq(Results)
  BY DEF TypeOK, DataTypeOK
<1>2. UNCHANGED <<transcript, lines, segment, object, spokenIn>>
  BY DEF ServerCrash, ChannelClose, BrokerRestart, sessionVars, audioVars
<1>3. UNCHANGED call \/ \A c \in Callers : call'[c].take = None
  BY DEF ServerCrash, ChannelClose, BrokerRestart, apiVars, IdleCall
<1>4. CallStepOwn
  BY <1>3 DEF CallStepOwn
<1>5. consumer' = IdleConsumer \/ UNCHANGED consumer
  BY DEF ServerCrash, ChannelClose, BrokerRestart
<1>6. ASSUME NEW i \in DOMAIN results'
      PROVE  \E j \in DOMAIN results : results'[i] = results[j]
  <2>1. CASE LoseDelivered
    <3>1. PICK n \in 0..Len(results) : results' = SubSeq(results, n + 1, Len(results))
      BY <2>1 DEF LoseDelivered
    <3>2. i + n \in DOMAIN results /\ results'[i] = results[i + n]
      BY <1>1, <1>6, <3>1
    <3> QED
      BY <3>2
  <2>2. CASE results' = <<>>
    BY <1>6, <2>2
  <2> QED
    BY <2>1, <2>2 DEF ServerCrash, ChannelClose, BrokerRestart
<1>7. ResultsStep
  BY <1>5, <1>6 DEF ResultsStep
<1> QED
  BY <1>2, <1>4, <1>7, OwnFrames, OwnStep

\* Every step keeps the invariant.
LEMMA NextOwn ==
  ASSUME PipelineInv, OwnAudioInv, [Next]_vars
  PROVE  OwnAudioInv'
<1>1. TypeOK
  BY DEF PipelineInv
<1>2. CASE UserStep
  BY <1>1, <1>2, TabOwn, PostOwn DEF UserStep
<1>3. CASE \E c \in Callers : HandlerStep(c)
  BY <1>1, <1>3, HandlerOwn DEF HandlerStep
<1>4. CASE Work \/ LoseWorker
  BY <1>4, WorkOwn
<1>5. CASE Consume
  BY <1>1, <1>5, ConsumeOwn
<1>6. CASE StoreFails
  BY <1>1, <1>6, HandlerOwn DEF StoreFails, Callers
<1>7. CASE ServerCrash \/ ChannelClose \/ BrokerRestart
  BY <1>1, <1>7, FaultOwn
<1>8. CASE UNCHANGED vars
  BY <1>1, <1>8, OwnFrames, OwnStep DEF vars, sessionVars, audioVars, queueVars, apiVars
<1> QED
  BY <1>2, <1>3, <1>4, <1>5, <1>6, <1>7, <1>8 DEF Next

-----------------------------------------------------------------------------
\* The transcript, the transcript lines and the live text of a session hold
\* nothing that was spoken in another session: not through an object name, a
\* job put back after a lost connection, a result that comes late, or a
\* request that is still running when the session has moved on.
THEOREM AudioStaysInSession == Spec => []OwnAudioOnly
<1>1. Init => OwnAudioInv
  BY DataAssumption DEF Init, DataInit, ApiInit, WorkerInit, ConsumerInit, OwnAudioInv,
     OwnAudioOnly, StoreIsOwn, Stored, ObjectName, CallsCarryOwn, ResultsAreOwn, IdleCall,
     Objects
<1>2. PipelineInv /\ OwnAudioInv /\ [Next]_vars => OwnAudioInv'
  BY NextOwn
<1>3. OwnAudioInv => OwnAudioOnly
  BY DEF OwnAudioInv
<1> QED
  BY <1>1, <1>2, <1>3, PipelineInvariant, PTL DEF Spec

-----------------------------------------------------------------------------
(* SegmentTextIsCurrent.                                                   *)

\* The deployments of the property: every audio gets its text, the legacy
\* callback is not used, and no fault loses a message.
TextOnlyDeployment ==
  /\ Outcomes = {"text"}
  /\ "segment_result" \notin Requests
  /\ Faults \subseteq {"worker_loss", "store_fails"}

\* A step that keeps the answers, the audio and the text of a segment, or
\* leaves the segment with something to come.
LEMMA TextFrame ==
  ASSUME NEW s \in Sessions, NEW k \in SegmentKeys, LastTextIsCurrent(s, k),
         UNCHANGED results,
         k \in LiveSegments(s)' /\ ~SegmentToCome(s, k)'
           => /\ k \in LiveSegments(s) /\ ~SegmentToCome(s, k)
              /\ Audio(s, k)' = Audio(s, k)
              /\ segment'[s][k].text = segment[s][k].text
  PROVE  LastTextIsCurrent(s, k)'
BY DEF LastTextIsCurrent, LastAnswer, SegmentAnswer

\* A handler's step keeps what is to come, if the handler itself hands over
\* what it held to its next step or to a job.
LEMMA ToComeFrame ==
  ASSUME PipelineInv, NEW s \in Sessions, NEW k \in SegmentKeys, SegmentToCome(s, k),
         NEW c \in Callers, NEW x, call' = [call EXCEPT ![c] = x],
         jobs' = jobs \/ \E j : jobs' = Append(jobs, j),
         UNCHANGED worker,
         SegmentCall(s, k, c) => SegmentToCome(s, k)'
  PROVE  SegmentToCome(s, k)'
<1>1. /\ call \in [Callers -> {IdleCall} \cup Calls] /\ jobs \in Seq(Jobs)
  BY DEF PipelineInv, TypeOK, DataTypeOK, ApiTypeOK
<1>2. ASSUME NEW i \in DOMAIN jobs
      PROVE  i \in DOMAIN jobs' /\ jobs'[i] = jobs[i]
  BY <1>1, <1>2
<1>3. ASSUME NEW d \in Callers, d # c, SegmentCall(s, k, d)
      PROVE  SegmentToCome(s, k)'
  <2>1. call'[d] = call[d]
    BY <1>1, <1>3
  <2> QED
    BY <1>3, <2>1 DEF SegmentCall, SegmentToCome
<1>4. CASE \E d \in Callers : SegmentCall(s, k, d)
  BY <1>3, <1>4
<1>5. CASE \E i \in DOMAIN jobs : SegmentJob(s, k, jobs[i])
  BY <1>2, <1>5 DEF SegmentToCome, SegmentJob
<1>6. CASE worker.at = "busy" /\ SegmentJob(s, k, worker.job)
  BY <1>6 DEF SegmentToCome, SegmentJob
<1> QED
  BY <1>4, <1>5, <1>6 DEF SegmentToCome

\* A call that is idle, or at a step of another kind, holds no segment.
LEMMA OtherCalls ==
  ASSUME NEW c \in Callers,
         call[c].at \notin {"segment_upsert", "segment_publish", "redo_segments"}
  PROVE  \A s, k : ~SegmentCall(s, k, c)
BY DEF SegmentCall

\* Messages keep naming one segment when a job is published.
LEMMA PublishNamesOne ==
  ASSUME jobs \in Seq(Jobs), MessagesNameOne, NEW j, Publish(j),
         j.type = "segment_ready" => NamesOne(j.objs), UNCHANGED worker
  PROVE  MessagesNameOne'
<1>1. ASSUME NEW i \in DOMAIN jobs', jobs'[i].type = "segment_ready"
      PROVE  NamesOne(jobs'[i].objs)
  <2>1. (i \in DOMAIN jobs /\ jobs'[i] = jobs[i]) \/ jobs'[i] = j
    BY <1>1 DEF Publish
  <2> QED
    BY <1>1, <2>1 DEF MessagesNameOne
<1> QED
  BY <1>1 DEF MessagesNameOne, Publish, NamesOne

\* A deletion makes no segment live and leaves the texts.
LEMMA DeletedRows ==
  ASSUME segment \in [Sessions -> [SegmentKeys -> SegmentRow]],
         NEW z \in Sessions, DeleteSegmentsBySession(z),
         NEW s \in Sessions, NEW k \in SegmentKeys
  PROVE  /\ segment'[s][k].text = segment[s][k].text
         /\ segment'[s][k].state = "live" => segment[s][k].state = "live"
<1> DEFINE deleted == [segment[s][k] EXCEPT !.state = "deleted"]
<1>1. segment'[s][k] = segment[s][k] \/ segment'[s][k] = deleted
  BY DEF DeleteSegmentsBySession
<1>2. deleted.text = segment[s][k].text /\ deleted.state = "deleted"
  <2>1. segment[s][k] \in SegmentRow
    OBVIOUS
  <2> QED
    BY <2>1 DEF SegmentRow
<1> HIDE DEF deleted
<1> QED
  BY <1>1, <1>2

\* Requests hold no segment and store no text.
LEMMA RequestText ==
  ASSUME TextOnlyDeployment, PipelineInv, SegmentTextInv, NEW c \in Callers,
         (c \in Tabs /\ TabRequest(c)) \/ (c \in Posts /\ PostRequest(c)),
         UNCHANGED <<faults, worker, consumer>>
  PROVE  SegmentTextInv'
<1>1. /\ segment \in [Sessions -> [SegmentKeys -> SegmentRow]] /\ ApiTypeOK
  BY DEF PipelineInv, TypeOK, DataTypeOK
<1>2. /\ call[c] = IdleCall /\ UNCHANGED <<queueVars, object>>
      /\ \E x : call' = [call EXCEPT ![c] = x]
  <2>1. call[c] = IdleCall
    BY DEF TabRequest, RecordingBegin, OwnerJoin, RecordingStop, Disconnect, Request,
           PostRequest, UploadSegment, UploadAudio, SegmentResult, PromptApply,
           EndSession, FinishUpload, RedoSegments, RedoSession, RemoveSegments,
           RemoveTranscription, PromptDelete
  <2>2. UNCHANGED <<queueVars, object>>
    BY DEF TabRequest, PostRequest, RecordingBegin, OwnerJoin, RecordingStop, Disconnect,
         UploadSegment, UploadAudio, SegmentResult, PromptApply, EndSession, FinishUpload,
         RedoSegments, RedoSession, RemoveSegments, RemoveTranscription, PromptDelete,
         audioVars
  <2>3. call = [call EXCEPT ![c] = call[c]]
    BY <1>1 DEF ApiTypeOK
  <2>4. \E x : call' = [call EXCEPT ![c] = x]
    BY <2>3 DEF TabRequest, PostRequest, RecordingBegin, OwnerJoin, RecordingStop, Disconnect,
         UploadSegment, UploadAudio, SegmentResult, PromptApply, EndSession, FinishUpload,
         RedoSegments, RedoSession, RemoveSegments, RemoveTranscription, PromptDelete, Goto
  <2> QED
    BY <2>1, <2>2, <2>4
<1>3. UNCHANGED segment \/ \E s \in Sessions : DeleteSegmentsBySession(s)
  BY DEF TabRequest, PostRequest, RecordingBegin, OwnerJoin, RecordingStop, Disconnect,
         UploadSegment, UploadAudio, SegmentResult, PromptApply, EndSession, FinishUpload,
         RedoSegments, RedoSession, RemoveSegments, RemoveTranscription, PromptDelete,
         audioVars, Request, TextOnlyDeployment
<1>4. ASSUME NEW s \in Sessions, NEW k \in SegmentKeys
      PROVE  LastTextIsCurrent(s, k)'
  <2>1. SegmentToCome(s, k) => SegmentToCome(s, k)'
    <3>1. ~SegmentCall(s, k, c)
      BY <1>2, OtherCalls DEF IdleCall
    <3> QED
      BY <1>2, <3>1, ToComeFrame DEF queueVars
  <2>2. /\ k \in LiveSegments(s)' => k \in LiveSegments(s)
        /\ segment'[s][k].text = segment[s][k].text
    BY <1>1, <1>3, DeletedRows DEF LiveSegments
  <2>3. LastTextIsCurrent(s, k) /\ UNCHANGED results /\ Audio(s, k)' = Audio(s, k)
    BY <1>2 DEF SegmentTextInv, queueVars, Audio, ObjectName
  <2> QED
    BY <2>1, <2>2, <2>3, TextFrame
<1>5. chanOpen' /\ MessagesNameOne'
  BY <1>2 DEF SegmentTextInv, queueVars, MessagesNameOne, NamesOne
<1> QED
  BY <1>4, <1>5 DEF SegmentTextInv

\* A handler publishes at most one job; a segment job names one segment.
LEMMA HandlerPublishes ==
  ASSUME NEW c \in Callers, CallStep(c) \/ SegmentPutFails(c) \/ FilePutFails(c)
  PROVE  \/ UNCHANGED queueVars
         \/ \E j : Publish(j) /\ (j.type = "segment_ready" => NamesOne(j.objs))
<1> DEFINE one == \E j : Publish(j) /\ (j.type = "segment_ready" => NamesOne(j.objs))
<1>1. ASSUME NEW s, NEW objs, NEW type, type # "segment_ready" \/ NamesOne(objs),
             Publish(AudioJob(type, s, objs))
      PROVE  one
  <2> DEFINE j == AudioJob(type, s, objs)
  <2>1. Publish(j) /\ j.type = type /\ j.objs = objs
    BY <1>1 DEF AudioJob
  <2> HIDE DEF j
  <2> QED
    BY <1>1, <2>1
<1>2. \A s, r : PromptJob(s, r).type = "prompt_apply"
  BY DEF PromptJob
<1>3. \A k : NamesOne({k})
  BY DEF NamesOne
<1>4. CASE SegmentPublish(c) \/ RedoOneSegment(c)
  <2>1. UNCHANGED queueVars \/ \E s, k : Publish(AudioJob("segment_ready", s, {k}))
    BY <1>4 DEF SegmentPublish, RedoOneSegment
  <2> QED
    BY <1>1, <1>3, <2>1
<1> HIDE DEF one
<1>5. CASE PromptPublish(c)
  BY <1>2, <1>5 DEF PromptPublish, one
<1>6. CASE StopPublish(c) \/ EndPublish(c) \/ FilePublish(c) \/ FinishPublish(c) \/ RedoPublish(c)
  <2> DEFINE other == \E s, objs, type : /\ type # "segment_ready"
                                        /\ Publish(AudioJob(type, s, objs))
  <2>1. \A s, objs : Publish(AudioJob("recording_ready", s, objs)) => other
    OBVIOUS
  <2>2. \A s, objs : Publish(AudioJob("upload_ready", s, objs)) => other
    OBVIOUS
  <2>3. \A s, objs : Publish(AudioJob("upload_finalize", s, objs)) => other
    OBVIOUS
  <2>4. other => one
    BY <1>1
  <2> HIDE DEF other
  <2>5. UNCHANGED queueVars \/ other
    BY <1>6, <2>1, <2>2, <2>3
       DEF StopPublish, EndPublish, FilePublish, FinishPublish, RedoPublish
  <2> QED
    BY <2>4, <2>5 DEF one
<1> QED
  BY <1>4, <1>5, <1>6
     DEF CallStep, BeginWrite, SegmentPut, SegmentUpsert, EndWrite, FilePut, FinishWrite,
         RemoveLines, SegmentPutFails, FilePutFails, one

\* What the steps that hold a segment do with it: the put and the upsert go on
\* holding it, and the publish turns it into a job as long as its row is live.
LEMMA HolderHandsOver ==
  ASSUME PipelineInv, chanOpen, NEW c \in Callers,
         SegmentPut(c) \/ SegmentUpsert(c) \/ SegmentPublish(c) \/ RedoOneSegment(c),
         NEW s \in Sessions, NEW k \in SegmentKeys,
         \/ SegmentCall(s, k, c)
         \/ call[c].at = "segment_put" /\ call[c].ses = s /\ call[c].obj = k
  PROVE  SegmentToCome(s, k)' \/ k \notin LiveSegments(s)'
<1>1. /\ ApiTypeOK /\ jobs \in Seq(Jobs) /\ call \in [Callers -> {IdleCall} \cup Calls]
  BY DEF PipelineInv, TypeOK, DataTypeOK, ApiTypeOK
<1>2. ASSUME NEW type, NEW l, Publish(AudioJob(type, s, {l})), type = "segment_ready"
      PROVE  \E i \in DOMAIN jobs' : SegmentJob(s, l, jobs'[i])
  <2> DEFINE j == AudioJob(type, s, {l})
  <2>1. SegmentJob(s, l, j)
    BY <1>2 DEF AudioJob, SegmentJob
  <2>2. jobs' = Append(jobs, j)
    BY <1>2 DEF Publish
  <2> HIDE DEF j
  <2>3. Len(jobs) + 1 \in DOMAIN jobs' /\ jobs'[Len(jobs) + 1] = j
    BY <1>1, <2>2
  <2> QED
    BY <2>1, <2>3
<1>3. CASE SegmentPut(c) \/ SegmentUpsert(c)
  <2>1. PICK step \in {"segment_upsert", "segment_publish"} : Continue(c, step)
    BY <1>3 DEF SegmentPut, SegmentUpsert
  <2>2. call[c].ses = s /\ call[c].obj = k /\ call[c] \in SegmentCalls
    BY <1>1, <1>3, CallKinds DEF SegmentPut, SegmentUpsert, At, SegmentCall
  <2>3. call'[c].at = step /\ call'[c].ses = s /\ call'[c].obj = k
    BY <1>1, <2>1, <2>2 DEF Continue, SegmentCalls
  <2>4. SegmentCall(s, k, c)'
    BY <2>3 DEF SegmentCall
  <2> QED
    BY <2>4 DEF SegmentToCome
<1>4. CASE SegmentPublish(c)
  <2>1. call[c].ses = s /\ call[c].obj = k /\ UNCHANGED segment
    BY <1>4 DEF SegmentPublish, At, SegmentCall, audioVars
  <2>2. CASE k \in LiveSegments(s)
    <3>1. Publish(AudioJob("segment_ready", s, {k}))
      BY <1>4, <2>1, <2>2 DEF SegmentPublish
    <3> QED
      BY <1>2, <3>1 DEF SegmentToCome, SegmentJob
  <2>3. CASE k \notin LiveSegments(s)
    BY <2>1, <2>3 DEF LiveSegments
  <2> QED
    BY <2>2, <2>3
<1>5. CASE RedoOneSegment(c)
  <2>1. /\ call[c].ses = s /\ k \in call[c].objs /\ call[c].at = "redo_segments"
        /\ call[c] \in RedoCalls
    BY <1>1, <1>5, CallKinds DEF RedoOneSegment, At, SegmentCall
  <2>2. PICK l \in call[c].objs :
          /\ Publish(AudioJob("segment_ready", s, {l}))
          /\ call' = [call EXCEPT ![c] = IF call[c].objs \ {l} = {} THEN IdleCall
                                         ELSE [call[c] EXCEPT !.objs = call[c].objs \ {l}]]
    BY <1>1, <1>5, <2>1 DEF RedoOneSegment
  <2>3. CASE k = l
    BY <1>2, <2>2, <2>3 DEF SegmentToCome, SegmentJob
  <2>4. CASE k # l
    <3> DEFINE left == call[c].objs \ {l}
               x == [call[c] EXCEPT !.objs = left]
    <3>1. k \in left /\ x.at = "redo_segments" /\ x.ses = s /\ x.objs = left
      BY <2>1, <2>4 DEF RedoCalls
    <3>2. call'[c] = x
      BY <1>1, <2>2, <3>1
    <3>3. SegmentCall(s, k, c)'
      BY <3>1, <3>2 DEF SegmentCall
    <3> QED
      BY <3>3 DEF SegmentToCome
  <2> QED
    BY <2>3, <2>4
<1> QED
  BY <1>3, <1>4, <1>5

\* Handler steps.
LEMMA HandlerText ==
  ASSUME PipelineInv, SegmentTextInv, NEW c \in Callers,
         CallStep(c) \/ SegmentPutFails(c) \/ FilePutFails(c),
         UNCHANGED <<worker, consumer>>
  PROVE  SegmentTextInv'
<1>1. /\ segment \in [Sessions -> [SegmentKeys -> SegmentRow]] /\ ApiTypeOK
      /\ object \in [Sessions \X Objects -> Takes \cup {None}]
      /\ jobs \in Seq(Jobs) /\ chanOpen /\ MessagesNameOne
  BY DEF PipelineInv, TypeOK, DataTypeOK, SegmentTextInv
<1>2. /\ UNCHANGED <<results, chanOpen>>
      /\ jobs' = jobs \/ \E j : jobs' = Append(jobs, j)
      /\ MessagesNameOne'
  <2>1. CASE UNCHANGED queueVars
    BY <1>1, <2>1 DEF queueVars, MessagesNameOne, NamesOne
  <2>2. CASE \E j : Publish(j) /\ (j.type = "segment_ready" => NamesOne(j.objs))
    BY <1>1, <2>2, PublishNamesOne DEF Publish
  <2> QED
    BY <2>1, <2>2, HandlerPublishes
<1>3. \E x : call' = [call EXCEPT ![c] = x]
  BY DEF CallStep, BeginWrite, StopPublish, SegmentPut, SegmentUpsert, SegmentPublish,
         EndWrite, EndPublish, FilePut, FilePublish, FinishWrite, FinishPublish,
         PromptPublish, RedoOneSegment, RedoPublish, RemoveLines, SegmentPutFails,
         FilePutFails, Return, Continue
<1>4. ASSUME NEW s \in Sessions, NEW k \in SegmentKeys
      PROVE  LastTextIsCurrent(s, k)'
  <2>1. LastTextIsCurrent(s, k)
    BY DEF SegmentTextInv
  <2>2. CASE /\ SegmentPut(c) \/ SegmentUpsert(c) \/ SegmentPublish(c) \/ RedoOneSegment(c)
             /\ \/ SegmentCall(s, k, c)
                \/ call[c].at = "segment_put" /\ call[c].ses = s /\ call[c].obj = k
    BY <1>1, <1>2, <2>1, <2>2, HolderHandsOver, TextFrame
  <2>3. CASE ~SegmentCall(s, k, c) /\ ~(call[c].at = "segment_put" /\ call[c].ses = s
                                         /\ call[c].obj = k)
    <3>1. SegmentToCome(s, k) => SegmentToCome(s, k)'
      BY <1>2, <1>3, <2>3, ToComeFrame
    <3>2. Audio(s, k)' = Audio(s, k)
      <4>1. CASE SegmentPut(c) \/ FilePut(c)
        <5>1. /\ PutObject(call[c].ses, call[c].obj, call[c].take)
              /\ <<call[c].ses, call[c].obj>> # <<s, k>>
          <6>1. CASE SegmentPut(c)
            BY <2>3, <6>1 DEF SegmentPut, At
          <6>2. CASE FilePut(c)
            <7>1. call[c].obj \in Files
              BY <1>1, <6>2, CallKinds DEF FilePut, At, FileCalls
            <7> QED
              BY <6>2, <7>1, DataAssumption DEF FilePut
          <6> QED
            BY <4>1, <6>1, <6>2
        <5>2. <<s, k>> \in Sessions \X Objects
          BY DEF Objects
        <5> QED
          BY <1>1, <5>1, <5>2 DEF PutObject, Audio, ObjectName
      <4>2. CASE ~(SegmentPut(c) \/ FilePut(c))
        BY <4>2 DEF CallStep, BeginWrite, StopPublish, SegmentUpsert, SegmentPublish,
         EndWrite, EndPublish, FilePublish, FinishWrite, FinishPublish,
         PromptPublish, RedoOneSegment, RedoPublish, RemoveLines, SegmentPutFails,
         FilePutFails, audioVars, Audio, ObjectName
      <4> QED
        BY <4>1, <4>2
    <3>3. segment'[s][k] = segment[s][k]
      <4>1. CASE SegmentUpsert(c)
        <5>1. call[c].at = "segment_upsert" /\ ~(call[c].ses = s /\ call[c].obj = k)
          BY <2>3, <4>1 DEF SegmentUpsert, At, SegmentCall
        <5> QED
          BY <1>1, <4>1, <5>1 DEF SegmentUpsert, UpsertSegment
      <4>2. CASE ~SegmentUpsert(c)
        BY <4>2 DEF CallStep, BeginWrite, StopPublish, SegmentPut, SegmentPublish,
         EndWrite, EndPublish, FilePut, FilePublish, FinishWrite, FinishPublish,
         PromptPublish, RedoOneSegment, RedoPublish, RemoveLines, SegmentPutFails,
         FilePutFails, audioVars
      <4> QED
        BY <4>1, <4>2
    <3>4. k \in LiveSegments(s)' => k \in LiveSegments(s)
      BY <3>3 DEF LiveSegments
    <3> QED
      BY <1>2, <2>1, <3>1, <3>2, <3>3, <3>4, TextFrame
  <2>4. CASE /\ ~(SegmentPut(c) \/ SegmentUpsert(c) \/ SegmentPublish(c) \/ RedoOneSegment(c))
             /\ \/ SegmentCall(s, k, c)
                \/ call[c].at = "segment_put" /\ call[c].ses = s /\ call[c].obj = k
    <3>1. SegmentPutFails(c) /\ call[c].at = "segment_put"
      BY <2>4 DEF CallStep, BeginWrite, StopPublish, EndWrite, EndPublish, FilePut,
         FilePublish, FinishWrite, FinishPublish, PromptPublish, RedoPublish, RemoveLines,
         SegmentPutFails, FilePutFails, At, SegmentCall
    <3>2. ~SegmentCall(s, k, c)
      BY <3>1 DEF SegmentCall
    <3>3. SegmentToCome(s, k) => SegmentToCome(s, k)'
      BY <1>2, <1>3, <3>2, ToComeFrame
    <3>4. UNCHANGED <<segment, object>>
      BY <3>1 DEF SegmentPutFails, audioVars
    <3> QED
      BY <1>2, <2>1, <3>3, <3>4, TextFrame DEF Audio, LiveSegments, ObjectName
  <2> QED
    BY <2>2, <2>3, <2>4
<1> QED
  BY <1>1, <1>2, <1>4 DEF SegmentTextInv

\* The worker's answer to a job about a live segment: one result for the same
\* segments, with the text of the audio that is stored now.
LEMMA SegmentReply ==
  ASSUME TextOnlyDeployment, WorkerReply, worker.job.type = "segment_ready"
  PROVE  \E k \in worker.job.objs :
           \E x : /\ Reply(x) /\ x.type = "segment_transcribed"
                  /\ x.ses = worker.job.ses /\ x.objs = worker.job.objs
                  /\ x.text = {Audio(worker.job.ses, k)}
<1> DEFINE job == worker.job
           x(k) == [type |-> "segment_transcribed", ses |-> job.ses, objs |-> job.objs,
                    text |-> {Take(job.ses, k)}, lines |-> {}, row |-> None, ok |-> TRUE]
<1>1. HandleSegmentReady(job)
  BY DEF WorkerReply, HandleUploadReady, HandleBatch, HandlePromptApply, BatchTypes
<1>2. \A t : Transcriptions(t) = {{t}}
  BY DEF Transcriptions, TextOnlyDeployment
<1>3. PICK k \in job.objs : Reply(x(k))
  BY <1>1, <1>2 DEF HandleSegmentReady, TextOnlyDeployment
<1>4. /\ x(k).type = "segment_transcribed" /\ x(k).ses = job.ses /\ x(k).objs = job.objs
      /\ x(k).text = {Audio(job.ses, k)}
  BY DEF Take, Audio
<1> HIDE DEF x
<1> QED
  BY <1>3, <1>4

\* Its answer to another job says nothing about a live segment.
LEMMA OtherReply ==
  ASSUME WorkerReply, worker.job.type # "segment_ready"
  PROVE  UNCHANGED results \/ \E x : Reply(x) /\ x.type # "segment_transcribed"
<1> DEFINE job == worker.job
           other == \E x : Reply(x) /\ x.type # "segment_transcribed"
           result(type, text, timed, row, ok) ==
             [type |-> type, ses |-> job.ses, objs |-> {}, text |-> text,
              lines |-> timed, row |-> row, ok |-> ok]
<1>1. ASSUME NEW type, NEW text, NEW timed, NEW row, NEW ok,
             Reply(result(type, text, timed, row, ok)), type # "segment_transcribed"
      PROVE  other
  <2>1. result(type, text, timed, row, ok).type # "segment_transcribed"
    BY <1>1
  <2> HIDE DEF result
  <2> QED
    BY <1>1, <2>1
<1> HIDE DEF other
<1>2. CASE HandleUploadReady(job)
  <2>1. \/ UNCHANGED results
        \/ \E text, timed : Reply(result("upload_transcribed", text, timed, None, TRUE))
    BY <1>2 DEF HandleUploadReady, NoReply, queueVars
  <2> HIDE DEF result
  <2> QED
    BY <1>1, <2>1 DEF other
<1>3. CASE HandleBatch(job)
  <2> DEFINE kind == IF job.type = "recording_ready"
                     THEN "session_transcribed" ELSE "upload_transcribed"
  <2>1. kind # "segment_transcribed"
    OBVIOUS
  <2>2. \E text : Reply(result(kind, text, text, None, TRUE))
    BY <1>3 DEF HandleBatch
  <2> HIDE DEF result, kind
  <2> QED
    BY <1>1, <2>1, <2>2 DEF other
<1>4. CASE HandlePromptApply(job)
  <2>1. \E ok : Reply(result("prompt_applied", {}, {}, job.row, ok))
    BY <1>4 DEF HandlePromptApply
  <2> HIDE DEF result
  <2> QED
    BY <1>1, <2>1 DEF other
<1>5. ~HandleSegmentReady(job)
  BY DEF HandleSegmentReady
<1> QED
  BY <1>2, <1>3, <1>4, <1>5 DEF WorkerReply, other

\* A result at the end of the queue.
LEMMA Appended ==
  ASSUME results \in Seq(Results), NEW x, results' = Append(results, x)
  PROVE  /\ \A i \in DOMAIN results :
              i \in DOMAIN results' /\ results'[i] = results[i] /\ i < Len(results) + 1
         /\ Len(results) + 1 \in DOMAIN results' /\ results'[Len(results) + 1] = x
         /\ \A i \in DOMAIN results' : i \in DOMAIN results \/ i = Len(results) + 1
OBVIOUS

\* A result about something else, at the end of the queue.
LEMMA AppendFrame ==
  ASSUME results \in Seq(Results), NEW x, results' = Append(results, x),
         NEW s \in Sessions, NEW k \in SegmentKeys, LastTextIsCurrent(s, k),
         ~SegmentAnswer(s, k, x), SegmentToCome(s, k) => SegmentToCome(s, k)',
         UNCHANGED <<segment, object>>
  PROVE  LastTextIsCurrent(s, k)'
<1> DEFINE n == Len(results) + 1
<1>1. /\ \A i \in DOMAIN results : i \in DOMAIN results' /\ results'[i] = results[i]
      /\ \A i \in DOMAIN results' : i \in DOMAIN results \/ i = n
      /\ results'[n] = x
  BY Appended
<1> HIDE DEF n
<1>2. ASSUME NEW i \in DOMAIN results', LastAnswer(s, k, i)'
      PROVE  i \in DOMAIN results /\ LastAnswer(s, k, i)
  <2>1. i \in DOMAIN results
    BY <1>1, <1>2 DEF LastAnswer, SegmentAnswer
  <2>2. ASSUME NEW j \in DOMAIN results, j > i
        PROVE  ~SegmentAnswer(s, k, results[j])
    BY <1>1, <1>2, <2>2 DEF LastAnswer, SegmentAnswer
  <2>3. SegmentAnswer(s, k, results[i])
    BY <1>1, <1>2, <2>1 DEF LastAnswer, SegmentAnswer
  <2> QED
    BY <2>1, <2>2, <2>3 DEF LastAnswer
<1>3. (\A i \in DOMAIN results' : ~SegmentAnswer(s, k, results[i])')
        => \A i \in DOMAIN results : ~SegmentAnswer(s, k, results[i])
  BY <1>1 DEF SegmentAnswer
<1>4. UNCHANGED <<segment, object>> /\ LiveSegments(s)' = LiveSegments(s)
      /\ Audio(s, k)' = Audio(s, k)
  BY DEF LiveSegments, Audio, ObjectName
<1> QED
  BY <1>1, <1>2, <1>3, <1>4 DEF LastTextIsCurrent

\* The worker takes a job and answers it, or loses its connection and the job
\* is back in the queue.
LEMMA WorkText ==
  ASSUME TextOnlyDeployment, PipelineInv, SegmentTextInv, Work \/ LoseWorker
  PROVE  SegmentTextInv'
<1>1. /\ jobs \in Seq(Jobs) /\ results \in Seq(Results) /\ WorkerTypeOK
      /\ chanOpen /\ MessagesNameOne
  BY DEF PipelineInv, TypeOK, DataTypeOK, SegmentTextInv
<1>2. UNCHANGED <<segment, object, call, chanOpen>>
  BY DEF Work, WorkerStep, WorkerTake, WorkerReply, HandleSegmentReady, HandleUploadReady,
         HandleBatch, HandlePromptApply, NoReply, Reply, WorkerAck, LoseWorker,
         ConnectionLost, audioVars, apiVars, queueVars
<1>3. \A s \in Sessions, k \in SegmentKeys : LastTextIsCurrent(s, k)
  BY DEF SegmentTextInv
<1>4. CASE ~WorkerReply
  <2>1. UNCHANGED results
    BY <1>4 DEF Work, WorkerStep, WorkerTake, WorkerAck, LoseWorker, ConnectionLost, queueVars
  <2>2. CASE WorkerTake
    <3>1. /\ worker = IdleWorker /\ worker' = [at |-> "busy", job |-> Head(jobs)]
          /\ jobs' = Tail(jobs) /\ jobs # <<>>
      BY <2>2 DEF WorkerTake
    <3>2. /\ worker'.at = "busy" /\ worker'.job = Head(jobs) /\ worker.at # "busy"
          /\ 1 \in DOMAIN jobs /\ Head(jobs) = jobs[1]
      BY <1>1, <3>1 DEF IdleWorker
    <3>3. ASSUME NEW i \in DOMAIN jobs'
          PROVE  i + 1 \in DOMAIN jobs /\ jobs'[i] = jobs[i + 1]
      BY <1>1, <3>1
    <3>4. ASSUME NEW i \in DOMAIN jobs, i # 1
          PROVE  i - 1 \in DOMAIN jobs' /\ jobs'[i - 1] = jobs[i]
      BY <1>1, <3>1, <3>4
    <3>5. ASSUME NEW s \in Sessions, NEW k \in SegmentKeys, SegmentToCome(s, k)
          PROVE  SegmentToCome(s, k)'
      <4>1. CASE \E c \in Callers : SegmentCall(s, k, c)
        BY <1>2, <4>1 DEF SegmentToCome, SegmentCall
      <4>2. ASSUME NEW i \in DOMAIN jobs, SegmentJob(s, k, jobs[i])
            PROVE  SegmentToCome(s, k)'
        <5>1. CASE i = 1
          BY <3>2, <4>2, <5>1 DEF SegmentToCome, SegmentJob
        <5>2. CASE i # 1
          BY <3>4, <4>2, <5>2 DEF SegmentToCome, SegmentJob
        <5> QED
          BY <5>1, <5>2
      <4> QED
        BY <3>2, <3>5, <4>1, <4>2 DEF SegmentToCome
    <3>6. MessagesNameOne'
      <4>1. \A i \in DOMAIN jobs' :
              jobs'[i].type = "segment_ready" => NamesOne(jobs'[i].objs)
        BY <1>1, <3>3 DEF MessagesNameOne
      <4>2. worker'.job.type = "segment_ready" => NamesOne(worker'.job.objs)
        BY <1>1, <3>2 DEF MessagesNameOne
      <4> QED
        BY <1>1, <2>1, <4>1, <4>2 DEF MessagesNameOne, NamesOne
    <3> QED
      BY <1>1, <1>2, <1>3, <2>1, <3>5, <3>6, TextFrame
         DEF SegmentTextInv, LiveSegments, Audio, ObjectName
  <2>3. CASE WorkerAck
    <3>1. worker.at = "replied" /\ worker' = IdleWorker /\ UNCHANGED jobs
      BY <2>3 DEF WorkerAck, queueVars
    <3>2. ASSUME NEW s \in Sessions, NEW k \in SegmentKeys, SegmentToCome(s, k)
          PROVE  SegmentToCome(s, k)'
      BY <1>2, <3>1, <3>2 DEF SegmentToCome, SegmentCall, SegmentJob
    <3>3. MessagesNameOne'
      BY <1>1, <2>1, <3>1 DEF MessagesNameOne, NamesOne
    <3> QED
      BY <1>1, <1>2, <1>3, <2>1, <3>2, <3>3, TextFrame
         DEF SegmentTextInv, LiveSegments, Audio, ObjectName
  <2>4. CASE LoseWorker
    <3>1. worker # IdleWorker /\ worker' = IdleWorker /\ jobs' = <<worker.job>> \o jobs
      BY <2>4 DEF LoseWorker, ConnectionLost
    <3>2. worker.job \in Jobs
      BY <1>1, <3>1 DEF WorkerTypeOK
    <3>3. /\ 1 \in DOMAIN jobs' /\ jobs'[1] = worker.job
          /\ \A i \in DOMAIN jobs : i + 1 \in DOMAIN jobs' /\ jobs'[i + 1] = jobs[i]
          /\ \A i \in DOMAIN jobs' : i = 1 \/ (i - 1 \in DOMAIN jobs /\ jobs'[i] = jobs[i - 1])
      BY <1>1, <3>1, <3>2
    <3>4. ASSUME NEW s \in Sessions, NEW k \in SegmentKeys, SegmentToCome(s, k)
          PROVE  SegmentToCome(s, k)'
      BY <1>2, <3>3, <3>4 DEF SegmentToCome, SegmentCall, SegmentJob
    <3>5. MessagesNameOne'
      BY <1>1, <2>1, <3>1, <3>3 DEF MessagesNameOne, NamesOne
    <3> QED
      BY <1>1, <1>2, <1>3, <2>1, <3>4, <3>5, TextFrame
         DEF SegmentTextInv, LiveSegments, Audio, ObjectName
  <2> QED
    BY <1>4, <2>2, <2>3, <2>4 DEF Work, WorkerStep
<1>5. CASE WorkerReply
  <2>1. /\ worker.at = "busy" /\ worker # IdleWorker /\ worker.job \in Jobs
        /\ worker'.at = "replied" /\ worker'.job = worker.job /\ UNCHANGED jobs
    <3>1. worker.at = "busy" /\ worker # IdleWorker
      BY <1>5 DEF WorkerReply, IdleWorker
    <3>2. worker \in [at : {"busy", "replied"}, job : Jobs]
      BY <1>1, <3>1 DEF WorkerTypeOK
    <3>3. worker' = [worker EXCEPT !.at = "replied"] /\ UNCHANGED jobs
      BY <1>5 DEF WorkerReply, HandleSegmentReady, HandleUploadReady, HandleBatch,
                  HandlePromptApply, NoReply, Reply, queueVars
    <3> QED
      BY <3>1, <3>2, <3>3
  <2>2. ASSUME NEW s \in Sessions, NEW k \in SegmentKeys, SegmentToCome(s, k),
               ~SegmentJob(s, k, worker.job)
        PROVE  SegmentToCome(s, k)'
    BY <1>2, <2>1, <2>2 DEF SegmentToCome, SegmentCall, SegmentJob
  <2>3. CASE worker.job.type = "segment_ready"
    <3> DEFINE n == Len(results) + 1
    <3>0. PICK l \in worker.job.objs : \E x :
            /\ Reply(x) /\ x.type = "segment_transcribed"
            /\ x.ses = worker.job.ses /\ x.objs = worker.job.objs
            /\ x.text = {Audio(worker.job.ses, l)}
      BY <1>5, <2>3, SegmentReply
    <3>1. PICK x :
            /\ Reply(x) /\ x.type = "segment_transcribed"
            /\ x.ses = worker.job.ses /\ x.objs = worker.job.objs
            /\ x.text = {Audio(worker.job.ses, l)}
      BY <3>0
    <3>2. NamesOne(worker.job.objs)
      BY <1>1, <2>1, <2>3 DEF MessagesNameOne
    <3>3. results' = Append(results, x)
      BY <3>1 DEF Reply
    <3>4. MessagesNameOne'
      <4>1. \A i \in DOMAIN results' :
              results'[i].type = "segment_transcribed" => NamesOne(results'[i].objs)
        BY <1>1, <3>1, <3>2, <3>3, Appended DEF MessagesNameOne
      <4>2. \A i \in DOMAIN jobs' :
              jobs'[i].type = "segment_ready" => NamesOne(jobs'[i].objs)
        BY <1>1, <2>1 DEF MessagesNameOne
      <4> QED
        BY <2>1, <3>2, <4>1, <4>2 DEF MessagesNameOne, NamesOne
    <3>5. ASSUME NEW s \in Sessions, NEW k \in SegmentKeys, SegmentJob(s, k, worker.job)
          PROVE  LastTextIsCurrent(s, k)'
      <4>1. s = worker.job.ses /\ k = l /\ SegmentAnswer(s, k, x) /\ x.text = {Audio(s, k)}
        BY <3>1, <3>2, <3>5 DEF SegmentJob, NamesOne, SegmentAnswer
      <4>2. n \in DOMAIN results' /\ results'[n] = x
        BY <1>1, <3>3, Appended
      <4>3. ASSUME NEW i \in DOMAIN results', i # n
            PROVE  n > i
        BY <1>1, <3>3, <4>3, Appended
      <4>4. Audio(s, k)' = Audio(s, k)
        BY <1>2 DEF Audio, ObjectName
      <4> HIDE DEF n
      <4>5. ASSUME NEW i \in DOMAIN results', LastAnswer(s, k, i)'
            PROVE  i = n
        BY <4>1, <4>2, <4>3, <4>5 DEF LastAnswer
      <4> QED
        BY <4>1, <4>2, <4>4, <4>5 DEF LastTextIsCurrent, SegmentAnswer
    <3>6. ASSUME NEW s \in Sessions, NEW k \in SegmentKeys, ~SegmentJob(s, k, worker.job)
          PROVE  LastTextIsCurrent(s, k)'
      <4>1. ~SegmentAnswer(s, k, x)
        BY <2>3, <3>1, <3>6 DEF SegmentJob, SegmentAnswer
      <4> QED
        BY <1>1, <1>2, <1>3, <2>2, <3>3, <3>6, <4>1, AppendFrame
    <3> QED
      BY <1>1, <1>2, <3>4, <3>5, <3>6 DEF SegmentTextInv
  <2>4. CASE worker.job.type # "segment_ready"
    <3>1. \A s \in Sessions, k \in SegmentKeys : ~SegmentJob(s, k, worker.job)
      BY <2>4 DEF SegmentJob
    <3>2. CASE UNCHANGED results
      <4>1. MessagesNameOne'
        BY <1>1, <2>1, <2>4, <3>2 DEF MessagesNameOne, NamesOne
      <4> QED
        BY <1>1, <1>2, <1>3, <2>2, <3>1, <3>2, <4>1, TextFrame
           DEF SegmentTextInv, LiveSegments, Audio, ObjectName
    <3>3. ASSUME NEW x, Reply(x), x.type # "segment_transcribed"
          PROVE  SegmentTextInv'
      <4>1. results' = Append(results, x) /\ \A s, k : ~SegmentAnswer(s, k, x)
        BY <3>3 DEF Reply, SegmentAnswer
      <4>2. MessagesNameOne'
        <5>1. \A i \in DOMAIN results' :
                results'[i].type = "segment_transcribed" => NamesOne(results'[i].objs)
          BY <1>1, <3>3, <4>1, Appended DEF MessagesNameOne
        <5> QED
          BY <1>1, <2>1, <2>4, <5>1 DEF MessagesNameOne, NamesOne
      <4>3. ASSUME NEW s \in Sessions, NEW k \in SegmentKeys
            PROVE  LastTextIsCurrent(s, k)'
        BY <1>1, <1>2, <1>3, <2>2, <3>1, <4>1, AppendFrame
      <4> QED
        BY <1>1, <1>2, <4>2, <4>3 DEF SegmentTextInv
    <3> QED
      BY <1>5, <2>4, <3>2, <3>3, OtherReply
  <2> QED
    BY <2>3, <2>4
<1> QED
  BY <1>4, <1>5

\* What is left of the queue when its first result is taken.
LEMMA Dropped ==
  ASSUME results \in Seq(Results), results # <<>>, results' = Tail(results)
  PROVE  /\ 1 \in DOMAIN results /\ Head(results) = results[1]
         /\ \A i \in DOMAIN results' :
              i + 1 \in DOMAIN results /\ results'[i] = results[i + 1] /\ i + 1 > 1
         /\ \A i \in DOMAIN results :
              i = 1 \/ (i - 1 \in DOMAIN results' /\ results'[i - 1] = results[i])
         /\ \A i \in DOMAIN results', j \in DOMAIN results :
              j > i + 1 => j # 1 /\ j - 1 > i
OBVIOUS

\* The answer that is handled last stays the last one.
LEMMA LastDropped ==
  ASSUME results \in Seq(Results), results # <<>>, results' = Tail(results),
         NEW s, NEW k, NEW i \in DOMAIN results', LastAnswer(s, k, i)'
  PROVE  /\ i + 1 \in DOMAIN results /\ results'[i] = results[i + 1]
         /\ LastAnswer(s, k, i + 1)
<1>1. i + 1 \in DOMAIN results /\ results'[i] = results[i + 1]
  BY Dropped
<1>2. ASSUME NEW j \in DOMAIN results, j > i + 1
      PROVE  ~SegmentAnswer(s, k, results[j])
  <2>1. j - 1 \in DOMAIN results' /\ results'[j - 1] = results[j] /\ j - 1 > i
    BY <1>2, Dropped
  <2> QED
    BY <2>1 DEF LastAnswer, SegmentAnswer
<1> QED
  BY <1>1, <1>2 DEF LastAnswer, SegmentAnswer

\* A result about something else is taken from the queue.
LEMMA DropFrame ==
  ASSUME results \in Seq(Results), results # <<>>, results' = Tail(results),
         NEW s \in Sessions, NEW k \in SegmentKeys, LastTextIsCurrent(s, k),
         ~SegmentAnswer(s, k, Head(results)), SegmentToCome(s, k) => SegmentToCome(s, k)',
         UNCHANGED object, segment'[s][k] = segment[s][k]
  PROVE  LastTextIsCurrent(s, k)'
<1>1. ASSUME NEW i \in DOMAIN results', LastAnswer(s, k, i)'
      PROVE  i + 1 \in DOMAIN results /\ results'[i] = results[i + 1]
             /\ LastAnswer(s, k, i + 1)
  BY <1>1, LastDropped
<1>2. (\A i \in DOMAIN results' : ~SegmentAnswer(s, k, results[i])')
        => \A i \in DOMAIN results : ~SegmentAnswer(s, k, results[i])
  BY Dropped DEF SegmentAnswer
<1>3. /\ k \in LiveSegments(s)' => k \in LiveSegments(s)
      /\ Audio(s, k)' = Audio(s, k)
  BY DEF LiveSegments, Audio, ObjectName
<1> QED
  BY <1>1, <1>2, <1>3 DEF LastTextIsCurrent

\* The consumer writes the text of an answer to its row; the last one to be
\* written is that of the audio now stored.
LEMMA ConsumeText ==
  ASSUME PipelineInv, SegmentTextInv, Consume
  PROVE  SegmentTextInv'
<1>1. /\ jobs \in Seq(Jobs) /\ results \in Seq(Results)
      /\ segment \in [Sessions -> [SegmentKeys -> SegmentRow]]
      /\ chanOpen /\ MessagesNameOne
      /\ \A s \in Sessions, k \in SegmentKeys : LastTextIsCurrent(s, k)
  BY DEF PipelineInv, TypeOK, DataTypeOK, SegmentTextInv
<1>2. UNCHANGED <<object, call, chanOpen, worker>>
  BY DEF Consume, ConsumerStep, HandleSegmentTranscription, HandleSessionTranscription,
         SaveLines, QueuePurposePrompt, PublishPurposePrompt, HandlePromptApplied, Receive,
         Publish, audioVars, apiVars, queueVars
<1>3. ASSUME NEW types, Receive(types)
      PROVE  /\ results # <<>> /\ results' = Tail(results) /\ Head(results).type \in types
             /\ UNCHANGED jobs /\ MessagesNameOne'
             /\ \A s \in Sessions, k \in SegmentKeys :
                  SegmentToCome(s, k) => SegmentToCome(s, k)'
  <2>1. results # <<>> /\ results' = Tail(results) /\ UNCHANGED jobs
        /\ Head(results).type \in types
    BY <1>3 DEF Receive
  <2>2. \A i \in DOMAIN results' :
          results'[i].type = "segment_transcribed" => NamesOne(results'[i].objs)
    BY <1>1, <2>1, Dropped DEF MessagesNameOne
  <2>3. MessagesNameOne'
    BY <1>1, <1>2, <2>1, <2>2 DEF MessagesNameOne, NamesOne
  <2> QED
    BY <1>2, <2>1, <2>3 DEF SegmentToCome, SegmentCall, SegmentJob
<1>4. CASE HandleSegmentTranscription
  <2> DEFINE res == Head(results)
  <2>1. Receive({"segment_transcribed"})
    BY <1>4 DEF HandleSegmentTranscription
  <2>2. PICK l \in res.objs : UpdateSegmentResult(res.ses, l, res.text)
    BY <1>4 DEF HandleSegmentTranscription
  <2>3. res.type = "segment_transcribed"
    BY <1>3, <2>1
  <2>4. NamesOne(res.objs)
    BY <1>1, <1>3, <2>1, <2>3, Dropped DEF MessagesNameOne
  <2>5. ASSUME NEW s \in Sessions, NEW k \in SegmentKeys, ~SegmentAnswer(s, k, res)
        PROVE  LastTextIsCurrent(s, k)'
    <3>1. ~(s = res.ses /\ k = l)
      BY <2>2, <2>3, <2>5 DEF SegmentAnswer
    <3>2. segment'[s][k] = segment[s][k]
      <4> HIDE DEF res
      <4> QED
        BY <1>1, <2>2, <3>1 DEF UpdateSegmentResult
    <3> QED
      BY <1>1, <1>2, <1>3, <2>1, <2>5, <3>2, DropFrame
  <2>6. ASSUME NEW s \in Sessions, NEW k \in SegmentKeys, SegmentAnswer(s, k, res)
        PROVE  LastTextIsCurrent(s, k)'
    <3>1. s = res.ses /\ k = l
      BY <2>2, <2>4, <2>6 DEF SegmentAnswer, NamesOne
    <3>2. /\ k \in LiveSegments(s)' => k \in LiveSegments(s)
          /\ k \in LiveSegments(s) => segment'[s][k].text = res.text
      <4> HIDE DEF res
      <4>1. UpdateSegmentResult(s, k, res.text) /\ segment[s][k] \in SegmentRow
        BY <1>1, <2>2, <3>1
      <4> QED
        BY <1>1, <4>1 DEF UpdateSegmentResult, LiveSegments, SegmentRow
    <3>3. results # <<>> /\ results' = Tail(results)
          /\ (SegmentToCome(s, k) => SegmentToCome(s, k)')
      BY <1>3, <2>1
    <3>4. ASSUME NEW i \in DOMAIN results', LastAnswer(s, k, i)'
          PROVE  i + 1 \in DOMAIN results /\ results'[i] = results[i + 1]
                 /\ LastAnswer(s, k, i + 1)
      BY <1>1, <3>3, <3>4, LastDropped
    <3>5. ASSUME \A i \in DOMAIN results' : ~SegmentAnswer(s, k, results[i])'
          PROVE  1 \in DOMAIN results /\ res = results[1] /\ LastAnswer(s, k, 1)
      <4>1. 1 \in DOMAIN results /\ res = results[1]
        BY <1>1, <3>3, Dropped
      <4>2. ASSUME NEW j \in DOMAIN results, j > 1
            PROVE  ~SegmentAnswer(s, k, results[j])
        <5>1. j - 1 \in DOMAIN results' /\ results'[j - 1] = results[j]
          BY <1>1, <3>3, <4>2, Dropped
        <5> QED
          BY <3>5, <5>1 DEF SegmentAnswer
      <4> QED
        BY <2>6, <4>1, <4>2 DEF LastAnswer
    <3>6. Audio(s, k)' = Audio(s, k) /\ LastTextIsCurrent(s, k)
      BY <1>1, <1>2 DEF Audio, ObjectName
    <3> HIDE DEF res
    <3> QED
      BY <3>2, <3>3, <3>4, <3>5, <3>6 DEF LastTextIsCurrent
  <2> QED
    BY <1>1, <1>2, <1>3, <2>1, <2>5, <2>6 DEF SegmentTextInv
<1>5. CASE HandleSessionTranscription \/ HandlePromptApplied
  <2>1. PICK types : Receive(types) /\ "segment_transcribed" \notin types
    BY <1>5 DEF HandleSessionTranscription, HandlePromptApplied, SessionResultTypes
  <2>2. UNCHANGED segment
    BY <1>5 DEF HandleSessionTranscription, HandlePromptApplied, audioVars
  <2>3. \A s, k : ~SegmentAnswer(s, k, Head(results))
    BY <1>3, <2>1 DEF SegmentAnswer
  <2>4. ASSUME NEW s \in Sessions, NEW k \in SegmentKeys
        PROVE  LastTextIsCurrent(s, k)'
    BY <1>1, <1>2, <1>3, <2>1, <2>2, <2>3, DropFrame
  <2> QED
    BY <1>1, <1>2, <1>3, <2>1, <2>4 DEF SegmentTextInv
<1>6. CASE SaveLines \/ QueuePurposePrompt \/ PublishPurposePrompt
  <2>1. UNCHANGED <<segment, results>>
    BY <1>6 DEF SaveLines, QueuePurposePrompt, PublishPurposePrompt, Publish, audioVars,
                queueVars
  <2>2. jobs' = jobs \/ \E j : Publish(j) /\ j.type # "segment_ready"
    <3>1. \A s, r : PromptJob(s, r).type = "prompt_apply"
      BY DEF PromptJob
    <3> QED
      BY <1>6, <3>1 DEF SaveLines, QueuePurposePrompt, PublishPurposePrompt, queueVars
  <2>3. MessagesNameOne'
    <3>1. CASE jobs' = jobs
      BY <1>1, <1>2, <2>1, <3>1 DEF MessagesNameOne, NamesOne
    <3> QED
      BY <1>1, <1>2, <2>2, <3>1, PublishNamesOne
  <2>4. ASSUME NEW i \in DOMAIN jobs
        PROVE  i \in DOMAIN jobs' /\ jobs'[i] = jobs[i]
    <3>1. jobs' = jobs \/ \E j : jobs' = Append(jobs, j)
      BY <2>2 DEF Publish
    <3> QED
      BY <1>1, <2>4, <3>1
  <2>5. ASSUME NEW s \in Sessions, NEW k \in SegmentKeys, SegmentToCome(s, k)
        PROVE  SegmentToCome(s, k)'
    BY <1>2, <2>4, <2>5 DEF SegmentToCome, SegmentCall, SegmentJob
  <2> QED
    BY <1>1, <1>2, <2>1, <2>3, <2>5, TextFrame
       DEF SegmentTextInv, LiveSegments, Audio, ObjectName
<1> QED
  BY <1>4, <1>5, <1>6 DEF Consume, ConsumerStep

\* The live text of a segment is that of the audio now stored for it, however
\* often the audio was replaced, its jobs were queued again and old answers
\* came in, as soon as nothing newer is on its way.
THEOREM SegmentTextStaysCurrent ==
  ASSUME TextOnlyDeployment
  PROVE  Spec => []SegmentTextIsCurrent
<1>1. Init => SegmentTextInv
  BY DEF Init, DataInit, WorkerInit, SegmentTextInv, MessagesNameOne, LastTextIsCurrent,
         LiveSegments
<1>2. ASSUME PipelineInv, SegmentTextInv, [Next]_vars
      PROVE  SegmentTextInv'
  <2>1. CASE UserStep
    BY <1>2, <2>1, RequestText DEF UserStep, Callers
  <2>2. CASE \E c \in Callers : HandlerStep(c)
    BY <1>2, <2>2, HandlerText DEF HandlerStep
  <2>3. CASE Work \/ LoseWorker
    BY <1>2, <2>3, WorkText
  <2>4. CASE Consume
    BY <1>2, <2>4, ConsumeText
  <2>5. CASE StoreFails
    BY <1>2, <2>5, HandlerText DEF StoreFails, Callers
  <2>6. ~(ServerCrash \/ ChannelClose \/ BrokerRestart)
    BY DEF ServerCrash, ChannelClose, BrokerRestart, Fault, TextOnlyDeployment
  <2>7. CASE UNCHANGED vars
    BY <1>2, <2>7 DEF vars, audioVars, queueVars, apiVars, SegmentTextInv, MessagesNameOne,
       NamesOne, LastTextIsCurrent, LastAnswer, SegmentAnswer, SegmentToCome, SegmentCall,
       SegmentJob, LiveSegments, Audio, ObjectName
  <2> QED
    BY <1>2, <2>1, <2>2, <2>3, <2>4, <2>5, <2>6, <2>7 DEF Next
<1>3. SegmentTextInv => SegmentTextIsCurrent
  BY DEF SegmentTextInv, SegmentTextIsCurrent, LastTextIsCurrent, SegmentPending, LiveSegments
<1> QED
  BY <1>1, <1>2, <1>3, PipelineInvariant, PTL DEF Spec

-----------------------------------------------------------------------------
(* TranscribingIsPending.                                                  *)

\* The deployments of the property: nobody stops a recording, which may be
\* without audio, or has a session redone, and no fault loses a message.
FinishOnlyDeployment ==
  /\ {"stop", "redo_session"} \cap Requests = {}
  /\ Faults \subseteq {"worker_loss", "store_fails"}

\* What a request leaves in flight: nothing new, or a call at the first step of
\* its handler.
LEMMA RequestCall ==
  ASSUME ApiTypeOK, NEW c \in Callers,
         (c \in Tabs /\ TabRequest(c)) \/ (c \in Posts /\ PostRequest(c))
  PROVE  /\ call[c] = IdleCall
         /\ \E x :
              /\ call' = [call EXCEPT ![c] = x] /\ call'[c] = x
              /\ \/ x = IdleCall
                 \/ x.at = "begin_write" /\ c \in Tabs /\ status[x.ses] = "new"
                      /\ UNCHANGED status
                 \/ x.at = "stop_publish" /\ c \in Tabs /\ x.ses = link[c]
                      /\ RecordingStop(c)
                 \/ x.at \in {"segment_put", "prompt_publish", "redo_segments"}
                 \/ x.at = "end_write" /\ "end" \in Requests
                 \/ x.at = "finish_write" /\ "finish" \in Requests
                 \/ x.at = "file_put" /\ "file" \in Requests
                 \/ x.at = "redo_publish" /\ "redo_session" \in Requests
                 \/ x.at = "remove_lines" /\ "remove_transcription" \in Requests
<1> DEFINE started(x) ==
      \/ x = IdleCall
      \/ x.at = "begin_write" /\ c \in Tabs /\ status[x.ses] = "new" /\ UNCHANGED status
      \/ x.at = "stop_publish" /\ c \in Tabs /\ x.ses = link[c] /\ RecordingStop(c)
      \/ x.at \in {"segment_put", "prompt_publish", "redo_segments"}
      \/ x.at = "end_write" /\ "end" \in Requests
      \/ x.at = "finish_write" /\ "finish" \in Requests
      \/ x.at = "file_put" /\ "file" \in Requests
      \/ x.at = "redo_publish" /\ "redo_session" \in Requests
      \/ x.at = "remove_lines" /\ "remove_transcription" \in Requests
      goal == \E x : call' = [call EXCEPT ![c] = x] /\ call'[c] = x /\ started(x)
<1>1. /\ call[c] = IdleCall /\ call = [call EXCEPT ![c] = call[c]]
      /\ \A x : [call EXCEPT ![c] = x][c] = x
  BY DEF TabRequest, PostRequest, RecordingBegin, OwnerJoin, RecordingStop, Disconnect,
         UploadSegment, UploadAudio, SegmentResult, PromptApply, EndSession, FinishUpload,
         RedoSegments, RedoSession, RemoveSegments, RemoveTranscription, PromptDelete,
         Request, ApiTypeOK
<1> SUFFICES goal
  BY <1>1
<1>2. ASSUME UNCHANGED call PROVE goal
  BY <1>1, <1>2
<1>3. ASSUME NEW x, call' = [call EXCEPT ![c] = x], started(x) PROVE goal
  BY <1>1, <1>3
<1>4. ASSUME NEW step, NEW s, Goto(c, step, s),
             \A x : x.at = step /\ x.ses = s => started(x)
      PROVE  goal
  <2> DEFINE x == [IdleCall EXCEPT !.at = step, !.ses = s]
  <2>1. x.at = step /\ x.ses = s /\ call' = [call EXCEPT ![c] = x]
    BY <1>4 DEF Goto, IdleCall
  <2> HIDE DEF x, started, goal
  <2> QED
    BY <1>3, <1>4, <2>1
<1>5. CASE c \in Tabs /\ TabRequest(c)
  <2>1. CASE (\E s \in Sessions : OwnerJoin(c, s)) \/ Disconnect(c)
    BY <1>2, <2>1 DEF OwnerJoin, Disconnect
  <2>2. CASE \E s \in Sessions : RecordingBegin(c, s)
    <3>1. PICK s \in Sessions : RecordingBegin(c, s)
      BY <2>2
    <3>2. Goto(c, "begin_write", s) /\ status[s] = "new" /\ UNCHANGED status
      BY <3>1 DEF RecordingBegin, sessionVars
    <3>3. \A x : x.at = "begin_write" /\ x.ses = s => started(x)
      BY <1>5, <3>2
    <3> HIDE DEF started, goal
    <3> QED
      BY <1>4, <3>2, <3>3
  <2>3. CASE RecordingStop(c)
    <3>1. Goto(c, "stop_publish", link[c])
      BY <2>3 DEF RecordingStop
    <3>2. \A x : x.at = "stop_publish" /\ x.ses = link[c] => started(x)
      BY <1>5, <2>3
    <3> HIDE DEF started, goal
    <3> QED
      BY <1>4, <3>1, <3>2
  <2> HIDE DEF goal
  <2> QED
    BY <1>5, <2>1, <2>2, <2>3 DEF TabRequest
<1>6. CASE c \in Posts /\ PostRequest(c)
  <2>1. CASE \/ \E s \in Sessions : \/ RemoveSegments(c, s)
                                    \/ \E k \in SegmentKeys, t \in Takes :
                                         SegmentResult(c, s, k, {t})
             \/ \E r \in ResultIds : PromptDelete(c, r)
    <3>1. UNCHANGED call
      BY <2>1 DEF RemoveSegments, SegmentResult, PromptDelete
    <3> QED
      BY <1>2, <3>1
  <2>2. CASE \E s \in Sessions : \/ EndSession(c, s) \/ FinishUpload(c, s)
                                 \/ RemoveTranscription(c, s)
    <3> DEFINE steps == {st \in {"end_write", "finish_write", "remove_lines"} :
                           \A x : x.at = st => started(x)}
    <3>1. /\ "end" \in Requests => "end_write" \in steps
          /\ "finish" \in Requests => "finish_write" \in steps
          /\ "remove_transcription" \in Requests => "remove_lines" \in steps
      OBVIOUS
    <3>2. \A st \in steps : \A s, x : x.at = st /\ x.ses = s => started(x)
      OBVIOUS
    <3> HIDE DEF steps, started, goal
    <3>3. PICK s \in Sessions, st \in steps : Goto(c, st, s)
      BY <2>2, <3>1 DEF EndSession, FinishUpload, RemoveTranscription, Request
    <3> QED
      BY <1>4, <3>2, <3>3
  <2>3. CASE \E s \in Sessions, k \in SegmentKeys, t \in Takes : UploadSegment(c, s, k, t)
    <3>1. PICK s \in Sessions, k \in SegmentKeys, t \in Takes : UploadSegment(c, s, k, t)
      BY <2>3
    <3> DEFINE x == [IdleCall EXCEPT !.at = "segment_put", !.ses = s, !.obj = k, !.take = t]
    <3>2. started(x)
      <4>1. x.at = "segment_put"
        BY DEF IdleCall
      <4> HIDE DEF x
      <4> QED
        BY <4>1
    <3>3. call' = [call EXCEPT ![c] = x]
      BY <3>1 DEF UploadSegment
    <3> HIDE DEF x, started, goal
    <3> QED
      BY <1>3, <3>2, <3>3
  <2>4. CASE \E s \in Sessions, f \in Files, t \in Takes : UploadAudio(c, s, f, t)
    <3>1. PICK s \in Sessions, f \in Files, t \in Takes : UploadAudio(c, s, f, t)
      BY <2>4
    <3> DEFINE x == [IdleCall EXCEPT !.at = "file_put", !.ses = s, !.obj = f, !.take = t]
    <3>2. started(x)
      <4>1. x.at = "file_put" /\ "file" \in Requests
        BY <3>1 DEF IdleCall, UploadAudio, Request
      <4> HIDE DEF x
      <4> QED
        BY <4>1
    <3>3. call' = [call EXCEPT ![c] = x]
      BY <3>1 DEF UploadAudio
    <3> HIDE DEF x, started, goal
    <3> QED
      BY <1>3, <3>2, <3>3
  <2>5. CASE \E s \in Sessions, r \in ResultIds : PromptApply(c, s, r)
    <3>1. PICK s \in Sessions, r \in ResultIds : PromptApply(c, s, r)
      BY <2>5
    <3> DEFINE x == [IdleCall EXCEPT !.at = "prompt_publish", !.ses = s, !.row = r]
    <3>2. started(x)
      <4>1. x.at = "prompt_publish"
        BY DEF IdleCall
      <4> HIDE DEF x
      <4> QED
        BY <4>1
    <3>3. call' = [call EXCEPT ![c] = x]
      BY <3>1 DEF PromptApply
    <3> HIDE DEF x, started, goal
    <3> QED
      BY <1>3, <3>2, <3>3
  <2>6. CASE \E s \in Sessions : RedoSegments(c, s) \/ RedoSession(c, s)
    <3>1. PICK s \in Sessions : RedoSegments(c, s) \/ RedoSession(c, s)
      BY <2>6
    <3> DEFINE x(step) == [IdleCall EXCEPT !.at = step, !.ses = s,
                                           !.objs = LiveSegments(s)]
    <3>2. /\ started(x("redo_segments"))
          /\ "redo_session" \in Requests => started(x("redo_publish"))
      <4>1. x("redo_segments").at = "redo_segments" /\ x("redo_publish").at = "redo_publish"
        BY DEF IdleCall
      <4> HIDE DEF x
      <4> QED
        BY <4>1
    <3>3. \/ call' = [call EXCEPT ![c] = x("redo_segments")]
          \/ call' = [call EXCEPT ![c] = x("redo_publish")] /\ "redo_session" \in Requests
      BY <3>1 DEF RedoSegments, RedoSession, Request
    <3> HIDE DEF x, started, goal
    <3> QED
      BY <1>3, <3>2, <3>3
  <2> HIDE DEF goal
  <2> QED
    BY <1>6, <2>1, <2>2, <2>3, <2>4, <2>5, <2>6 DEF PostRequest
<1> HIDE DEF goal
<1> QED
  BY <1>5, <1>6

\* What a handler's step leaves in flight: nothing, or its next step.
LEMMA HandlerCall ==
  ASSUME ApiTypeOK, NEW c \in Callers,
         CallStep(c) \/ SegmentPutFails(c) \/ FilePutFails(c)
  PROVE  \E x :
           /\ call' = [call EXCEPT ![c] = x] /\ call'[c] = x
           /\ \/ x = IdleCall
              \/ x.at \in {"segment_upsert", "segment_publish", "redo_segments"}
              \/ x.at = "end_publish" /\ EndWrite(c)
              \/ x.at = "file_publish" /\ FilePut(c)
              \/ x.at = "finish_publish" /\ FinishWrite(c) /\ x.ses = call[c].ses
<1> DEFINE left(x) ==
      \/ x = IdleCall
      \/ x.at \in {"segment_upsert", "segment_publish", "redo_segments"}
      \/ x.at = "end_publish" /\ EndWrite(c)
      \/ x.at = "file_publish" /\ FilePut(c)
      \/ x.at = "finish_publish" /\ FinishWrite(c) /\ x.ses = call[c].ses
      goal == \E x : call' = [call EXCEPT ![c] = x] /\ call'[c] = x /\ left(x)
<1>1. /\ \A x : [call EXCEPT ![c] = x][c] = x
      /\ call \in [Callers -> {IdleCall} \cup Calls]
  BY DEF ApiTypeOK
<1> SUFFICES goal
  OBVIOUS
<1>2. CASE Return(c)
  BY <1>1, <1>2 DEF Return
<1>3. CASE RedoOneSegment(c)
  <2>1. call[c] \in RedoCalls /\ call[c].at = "redo_segments"
    BY <1>3, CallKinds DEF RedoOneSegment, At
  <2>2. PICK objs :
          call' = [call EXCEPT ![c] = IF objs = {} THEN IdleCall
                                      ELSE [call[c] EXCEPT !.objs = objs]]
    BY <1>1, <1>3 DEF RedoOneSegment
  <2> DEFINE x == [call[c] EXCEPT !.objs = objs]
  <2>3. x.at = "redo_segments"
    BY <2>1 DEF RedoCalls
  <2>4. call' = [call EXCEPT ![c] = IF objs = {} THEN IdleCall ELSE x]
    BY <2>2
  <2> HIDE DEF x
  <2> QED
    BY <1>1, <2>3, <2>4
<1>4. ASSUME NEW step, Continue(c, step),
             \A x : x.at = step /\ x.ses = call[c].ses => left(x)
      PROVE  goal
  <2> DEFINE x == [call[c] EXCEPT !.at = step]
  <2>1. x.at = step /\ x.ses = call[c].ses
    BY <1>1 DEF Calls, SegmentCalls, FileCalls, PromptCalls, RedoCalls, PlainCalls, IdleCall
  <2>2. call' = [call EXCEPT ![c] = x]
    BY <1>4 DEF Continue
  <2> HIDE DEF x
  <2> QED
    BY <1>1, <1>4, <2>1, <2>2
<1>5. CASE SegmentPut(c) \/ SegmentUpsert(c) \/ EndWrite(c) \/ FilePut(c) \/ FinishWrite(c)
  <2> DEFINE steps == {st \in {"segment_upsert", "segment_publish", "end_publish",
                               "file_publish", "finish_publish"} :
                         \A x : x.at = st /\ x.ses = call[c].ses => left(x)}
  <2>1. /\ {"segment_upsert", "segment_publish"} \subseteq steps
        /\ EndWrite(c) => "end_publish" \in steps
        /\ FilePut(c) => "file_publish" \in steps
        /\ FinishWrite(c) => "finish_publish" \in steps
    OBVIOUS
  <2>2. \A st \in steps : \A x : x.at = st /\ x.ses = call[c].ses => left(x)
    OBVIOUS
  <2> HIDE DEF steps, left, goal
  <2>3. PICK st \in steps : Continue(c, st)
    BY <1>5, <2>1 DEF SegmentPut, SegmentUpsert, EndWrite, FilePut, FinishWrite
  <2> QED
    BY <1>4, <2>2, <2>3
<1> HIDE DEF left, goal
<1> QED
  BY <1>2, <1>3, <1>5
     DEF CallStep, BeginWrite, StopPublish, SegmentPublish, EndPublish, FilePublish,
         FinishPublish, PromptPublish, RedoPublish, RemoveLines, SegmentPutFails, FilePutFails

\* A handler's step keeps a batch on its way, if the handler itself hands over
\* what it held.
LEMMA BatchFrame ==
  ASSUME PipelineInv, NEW s \in Sessions, BatchToCome(s),
         NEW c \in Callers, NEW x, call' = [call EXCEPT ![c] = x],
         jobs' = jobs \/ \E j : jobs' = Append(jobs, j),
         UNCHANGED <<worker, results>>,
         call[c].at # "finish_publish"
  PROVE  BatchToCome(s)'
<1>1. /\ call \in [Callers -> {IdleCall} \cup Calls] /\ jobs \in Seq(Jobs)
  BY DEF PipelineInv, TypeOK, DataTypeOK, ApiTypeOK
<1>2. ASSUME NEW i \in DOMAIN jobs
      PROVE  i \in DOMAIN jobs' /\ jobs'[i] = jobs[i]
  BY <1>1, <1>2
<1>3. ASSUME NEW d \in Callers, call[d].at = "finish_publish", call[d].ses = s
      PROVE  BatchToCome(s)'
  <2>1. call'[d] = call[d]
    BY <1>1, <1>3
  <2> QED
    BY <1>3, <2>1 DEF BatchToCome
<1>4. CASE \E i \in DOMAIN jobs : BatchJob(s, jobs[i])
  BY <1>2, <1>4 DEF BatchToCome, BatchJob
<1>5. CASE \/ worker.at = "busy" /\ BatchJob(s, worker.job)
           \/ \E i \in DOMAIN results : SessionAnswer(s, results[i])
  BY <1>5 DEF BatchToCome, BatchJob, SessionAnswer
<1> QED
  BY <1>3, <1>4, <1>5 DEF BatchToCome

\* Requests start no transcription here.
LEMMA RequestTranscribing ==
  ASSUME FinishOnlyDeployment, PipelineInv, TranscribingInv, NEW c \in Callers,
         (c \in Tabs /\ TabRequest(c)) \/ (c \in Posts /\ PostRequest(c)),
         UNCHANGED <<faults, worker, consumer>>
  PROVE  TranscribingInv'
<1>1. ApiTypeOK /\ status \in [Sessions -> Statuses]
  BY DEF PipelineInv, TypeOK, DataTypeOK
<1>2. call[c] = IdleCall /\ call[c].at # "finish_publish" /\ UNCHANGED queueVars
  <2>1. call[c] = IdleCall
    BY <1>1, RequestCall
  <2>2. UNCHANGED queueVars
    BY DEF TabRequest, PostRequest, RecordingBegin, OwnerJoin, RecordingStop, Disconnect,
         UploadSegment, UploadAudio, SegmentResult, PromptApply, EndSession, FinishUpload,
         RedoSegments, RedoSession, RemoveSegments, RemoveTranscription, PromptDelete
  <2> QED
    BY <2>1, <2>2 DEF IdleCall
<1>3. PICK x : /\ call' = [call EXCEPT ![c] = x]
               /\ call'[c] = x /\ x.at # "redo_publish"
  BY <1>1, RequestCall DEF FinishOnlyDeployment, IdleCall
<1>4. ASSUME NEW s \in Sessions, status'[s] = "transcribing"
      PROVE  status[s] = "transcribing"
  BY <1>1, <1>4
     DEF TabRequest, PostRequest, RecordingBegin, OwnerJoin, RecordingStop, Disconnect,
         UploadSegment, UploadAudio, SegmentResult, PromptApply, EndSession, FinishUpload,
         RedoSegments, RedoSession, RemoveSegments, RemoveTranscription, PromptDelete,
         sessionVars, UpdateTranscription, Request, FinishOnlyDeployment
<1>5. ASSUME NEW s \in Sessions, status'[s] = "transcribing"
      PROVE  BatchToCome(s)'
  <2>1. BatchToCome(s)
    BY <1>4, <1>5 DEF TranscribingInv
  <2> QED
    BY <1>2, <1>3, <2>1, BatchFrame DEF queueVars
<1>6. \A d \in Callers : call'[d].at # "redo_publish"
  <2>1. ASSUME NEW d \in Callers, d # c
        PROVE  call'[d] = call[d]
    BY <1>1, <1>3, <2>1 DEF ApiTypeOK
  <2> QED
    BY <1>3, <2>1 DEF TranscribingInv
<1> QED
  BY <1>2, <1>5, <1>6 DEF TranscribingInv, queueVars

\* A published job is the last of the queue.
LEMMA Published ==
  ASSUME jobs \in Seq(Jobs), chanOpen, NEW j, Publish(j)
  PROVE  \E i \in DOMAIN jobs' : jobs'[i] = j
<1>1. jobs' = Append(jobs, j)
  BY DEF Publish
<1>2. Len(jobs) + 1 \in DOMAIN jobs' /\ jobs'[Len(jobs) + 1] = j
  BY <1>1
<1> QED
  BY <1>2

\* A handler writes transcribing and then queues the batch.
LEMMA HandlerTranscribing ==
  ASSUME PipelineInv, TranscribingInv, NEW c \in Callers,
         CallStep(c) \/ SegmentPutFails(c) \/ FilePutFails(c),
         UNCHANGED <<worker, consumer>>
  PROVE  TranscribingInv'
<1>1. /\ ApiTypeOK /\ status \in [Sessions -> Statuses] /\ chanOpen /\ jobs \in Seq(Jobs)
      /\ call \in [Callers -> {IdleCall} \cup Calls]
  BY DEF PipelineInv, TypeOK, DataTypeOK, ApiTypeOK, TranscribingInv
<1>2. /\ UNCHANGED <<results, chanOpen>>
      /\ jobs' = jobs \/ \E j : jobs' = Append(jobs, j)
  <2>1. UNCHANGED queueVars \/ \E j : Publish(j)
    BY DEF CallStep, BeginWrite, StopPublish, SegmentPut, SegmentUpsert, SegmentPublish,
         EndWrite, EndPublish, FilePut, FilePublish, FinishWrite, FinishPublish,
         PromptPublish, RedoOneSegment, RedoPublish, RemoveLines, SegmentPutFails,
         FilePutFails
  <2> QED
    BY <2>1 DEF Publish, queueVars
<1>3. PICK x : /\ call' = [call EXCEPT ![c] = x]
               /\ call'[c] = x /\ x.at # "redo_publish"
               /\ FinishWrite(c) => x.at = "finish_publish" /\ x.ses = call[c].ses
  <2>1. PICK x : /\ call' = [call EXCEPT ![c] = x] /\ call'[c] = x
                 /\ x.at # "redo_publish"
    BY <1>1, HandlerCall DEF IdleCall
  <2>2. ASSUME FinishWrite(c)
        PROVE  x.at = "finish_publish" /\ x.ses = call[c].ses
    <3>1. call[c] \in PlainCalls /\ Continue(c, "finish_publish")
      BY <1>1, <2>2, CallKinds DEF FinishWrite, At
    <3> QED
      BY <1>1, <2>1, <3>1 DEF Continue, PlainCalls
  <2> QED
    BY <2>1, <2>2
<1>4. \A d \in Callers : call'[d].at # "redo_publish"
  <2>1. ASSUME NEW d \in Callers, d # c
        PROVE  call'[d] = call[d]
    BY <1>1, <1>3, <2>1
  <2> QED
    BY <1>3, <2>1 DEF TranscribingInv
<1>5. ASSUME NEW s \in Sessions, status'[s] = "transcribing"
      PROVE  BatchToCome(s)'
  <2>1. CASE FinishWrite(c) /\ s = call[c].ses
    BY <1>3, <2>1 DEF BatchToCome
  <2>2. CASE ~(FinishWrite(c) /\ s = call[c].ses)
    <3>1. status[s] = "transcribing"
      <4>1. \/ UNCHANGED status
            \/ \E st \in {"recording", "finished", "error"} :
                 status' = [status EXCEPT ![call[c].ses] = st]
            \/ FinishWrite(c) /\ status' = [status EXCEPT ![call[c].ses] = "transcribing"]
        BY <1>1 DEF CallStep, BeginWrite, StopPublish, SegmentPut, SegmentUpsert,
           SegmentPublish, EndWrite, EndPublish, FilePut, FilePublish, FinishWrite,
           FinishPublish, PromptPublish, RedoOneSegment, RedoPublish, RemoveLines,
           SegmentPutFails, FilePutFails, sessionVars, UpdateStatus, DeleteTranscriptLines,
           SaveTranscriptLines
      <4> QED
        BY <1>1, <1>5, <2>2, <4>1
    <3>2. BatchToCome(s)
      BY <3>1 DEF TranscribingInv
    <3>3. CASE call[c].at # "finish_publish"
      BY <1>2, <1>3, <3>2, <3>3, BatchFrame
    <3>4. CASE call[c].at = "finish_publish"
      <4> DEFINE j == AudioJob("upload_finalize", call[c].ses, LiveSegments(call[c].ses))
      <4>1. /\ FinishPublish(c) /\ Publish(j) /\ BatchJob(call[c].ses, j)
            /\ call' = [call EXCEPT ![c] = IdleCall]
        <5>1. FinishPublish(c)
          BY <3>4 DEF CallStep, BeginWrite, StopPublish, SegmentPut, SegmentUpsert,
             SegmentPublish, EndWrite, EndPublish, FilePut, FilePublish, FinishWrite,
             PromptPublish, RedoOneSegment, RedoPublish, RemoveLines,
             SegmentPutFails, FilePutFails, At
        <5> QED
          BY <5>1 DEF FinishPublish, Return, BatchJob, BatchTypes, AudioJob
      <4> HIDE DEF j
      <4>2. \E i \in DOMAIN jobs' : jobs'[i] = j
        BY <1>1, <4>1, Published
      <4>3. CASE s = call[c].ses
        BY <4>1, <4>2, <4>3 DEF BatchToCome, BatchJob
      <4>4. CASE s # call[c].ses
        <5>1. CASE \E d \in Callers : call[d].at = "finish_publish" /\ call[d].ses = s
          <6>1. PICK d \in Callers : call[d].at = "finish_publish" /\ call[d].ses = s
            BY <5>1
          <6>2. call'[d] = call[d]
            BY <1>1, <4>1, <4>4, <6>1
          <6> QED
            BY <6>1, <6>2 DEF BatchToCome
        <5>2. CASE \E i \in DOMAIN jobs : BatchJob(s, jobs[i])
          <6>1. ASSUME NEW i \in DOMAIN jobs
                PROVE  i \in DOMAIN jobs' /\ jobs'[i] = jobs[i]
            BY <1>1, <1>2
          <6> QED
            BY <5>2, <6>1 DEF BatchToCome, BatchJob
        <5>3. CASE \/ worker.at = "busy" /\ BatchJob(s, worker.job)
                   \/ \E i \in DOMAIN results : SessionAnswer(s, results[i])
          BY <1>2, <5>3 DEF BatchToCome, BatchJob, SessionAnswer
        <5> QED
          BY <3>2, <5>1, <5>2, <5>3 DEF BatchToCome
      <4> QED
        BY <4>3, <4>4
    <3> QED
      BY <3>3, <3>4
  <2> QED
    BY <2>1, <2>2
<1> QED
  BY <1>1, <1>2, <1>4, <1>5 DEF TranscribingInv

\* The worker always answers a batch, also with nothing.
LEMMA BatchAnswered ==
  ASSUME WorkerReply, worker.job.type \in BatchTypes
  PROVE  \E x : Reply(x) /\ SessionAnswer(worker.job.ses, x)
<1> DEFINE job == worker.job
           kind == IF job.type = "recording_ready"
                   THEN "session_transcribed" ELSE "upload_transcribed"
           x(text) == [type |-> kind, ses |-> job.ses, objs |-> {}, text |-> text,
                       lines |-> text, row |-> None, ok |-> TRUE]
<1>1. HandleBatch(job)
  BY DEF WorkerReply, HandleSegmentReady, HandleUploadReady, HandlePromptApply, BatchTypes
<1>2. \E text : Reply(x(text))
  BY <1>1 DEF HandleBatch
<1>3. \A text : SessionAnswer(job.ses, x(text))
  BY DEF SessionAnswer, SessionResultTypes
<1> HIDE DEF x
<1> QED
  BY <1>2, <1>3

\* The worker's steps hand a batch on from the queue to the answer, and back to
\* the queue when the connection is lost.
LEMMA WorkTranscribing ==
  ASSUME PipelineInv, TranscribingInv, Work \/ LoseWorker
  PROVE  TranscribingInv'
<1>1. /\ jobs \in Seq(Jobs) /\ results \in Seq(Results) /\ WorkerTypeOK
      /\ UNCHANGED <<status, call, chanOpen>>
  <2>1. UNCHANGED chanOpen
    BY DEF Work, WorkerStep, WorkerTake, WorkerReply, HandleSegmentReady,
         HandleUploadReady, HandleBatch, HandlePromptApply, NoReply, Reply, WorkerAck,
         LoseWorker, ConnectionLost, queueVars
  <2> QED
    BY <2>1 DEF PipelineInv, TypeOK, DataTypeOK, Work, LoseWorker, sessionVars, apiVars
<1> SUFFICES ASSUME NEW s \in Sessions, BatchToCome(s)
             PROVE  BatchToCome(s)'
  BY <1>1 DEF TranscribingInv
<1>2. CASE WorkerTake
  <2>1. /\ worker = IdleWorker /\ worker' = [at |-> "busy", job |-> Head(jobs)]
        /\ jobs' = Tail(jobs) /\ jobs # <<>> /\ UNCHANGED results
    BY <1>2 DEF WorkerTake
  <2>2. /\ worker'.at = "busy" /\ worker'.job = jobs[1] /\ worker.at # "busy"
    BY <1>1, <2>1 DEF IdleWorker
  <2>3. ASSUME NEW i \in DOMAIN jobs, i # 1
        PROVE  i - 1 \in DOMAIN jobs' /\ jobs'[i - 1] = jobs[i]
    BY <1>1, <2>1, <2>3
  <2> QED
    BY <1>1, <2>1, <2>2, <2>3 DEF BatchToCome, BatchJob, SessionAnswer
<1>3. CASE WorkerAck
  BY <1>1, <1>3 DEF WorkerAck, queueVars, BatchToCome, BatchJob, SessionAnswer
<1>4. CASE LoseWorker
  <2>1. worker # IdleWorker /\ jobs' = <<worker.job>> \o jobs /\ UNCHANGED results
    BY <1>4 DEF LoseWorker, ConnectionLost
  <2>2. worker.job \in Jobs
    BY <1>1, <2>1 DEF WorkerTypeOK
  <2>3. /\ 1 \in DOMAIN jobs' /\ jobs'[1] = worker.job
        /\ \A i \in DOMAIN jobs : i + 1 \in DOMAIN jobs' /\ jobs'[i + 1] = jobs[i]
    BY <1>1, <2>1, <2>2
  <2> QED
    BY <1>1, <2>1, <2>3 DEF BatchToCome, BatchJob, SessionAnswer
<1>5. CASE WorkerReply
  <2>1. /\ UNCHANGED jobs
        /\ UNCHANGED results \/ \E x : results' = Append(results, x)
    BY <1>5 DEF WorkerReply, HandleSegmentReady, HandleUploadReady, HandleBatch,
                HandlePromptApply, NoReply, Reply, queueVars
  <2>2. ASSUME NEW i \in DOMAIN results
        PROVE  i \in DOMAIN results' /\ results'[i] = results[i]
    BY <1>1, <2>1, <2>2
  <2>3. CASE BatchJob(s, worker.job)
    <3>1. PICK x : results' = Append(results, x) /\ SessionAnswer(s, x)
      BY <1>5, <2>3, BatchAnswered DEF BatchJob, Reply
    <3>2. Len(results) + 1 \in DOMAIN results' /\ results'[Len(results) + 1] = x
      BY <1>1, <3>1
    <3> QED
      BY <3>1, <3>2 DEF BatchToCome, SessionAnswer
  <2>4. CASE ~BatchJob(s, worker.job)
    BY <1>1, <2>1, <2>2, <2>4 DEF BatchToCome, BatchJob, SessionAnswer
  <2> QED
    BY <2>3, <2>4
<1> QED
  BY <1>2, <1>3, <1>4, <1>5 DEF Work, WorkerStep

\* The consumer finishes the session of the answer it takes, and no other.
LEMMA ConsumeTranscribing ==
  ASSUME PipelineInv, TranscribingInv, Consume
  PROVE  TranscribingInv'
<1>1. /\ jobs \in Seq(Jobs) /\ results \in Seq(Results)
      /\ status \in [Sessions -> Statuses] /\ UNCHANGED <<call, worker, chanOpen>>
  <2>1. UNCHANGED chanOpen
    BY DEF Consume, ConsumerStep, HandleSegmentTranscription, HandleSessionTranscription,
         SaveLines, QueuePurposePrompt, PublishPurposePrompt, HandlePromptApplied, Receive,
         Publish, queueVars
  <2> QED
    BY <2>1 DEF PipelineInv, TypeOK, DataTypeOK, Consume, apiVars
<1> SUFFICES ASSUME NEW s \in Sessions, status'[s] = "transcribing"
             PROVE  BatchToCome(s)'
  BY <1>1 DEF TranscribingInv
<1>2. status'[s] = status[s] /\ BatchToCome(s)
  <2>1. UNCHANGED status \/ \E z : status' = [status EXCEPT ![z] = "finished"]
    BY DEF Consume, ConsumerStep, HandleSegmentTranscription, HandleSessionTranscription,
         SaveLines, QueuePurposePrompt, PublishPurposePrompt, HandlePromptApplied,
         UpdateTranscription, SaveTranscriptLines, sessionVars
  <2>2. status'[s] = status[s]
    BY <1>1, <2>1
  <2> QED
    BY <2>2 DEF TranscribingInv
<1>3. ASSUME NEW types, Receive(types), ~SessionAnswer(s, Head(results))
      PROVE  BatchToCome(s)'
  <2>1. results # <<>> /\ results' = Tail(results) /\ UNCHANGED jobs
    BY <1>3 DEF Receive
  <2>2. ASSUME NEW i \in DOMAIN results, SessionAnswer(s, results[i])
        PROVE  i - 1 \in DOMAIN results' /\ results'[i - 1] = results[i]
    <3>1. i # 1
      BY <1>1, <1>3, <2>1, <2>2
    <3> QED
      BY <1>1, <2>1, <3>1
  <2> QED
    BY <1>1, <1>2, <2>1, <2>2 DEF BatchToCome, BatchJob, SessionAnswer
<1>4. CASE HandleSegmentTranscription \/ HandlePromptApplied
  <2>1. PICK types \in {{"segment_transcribed"}, {"prompt_applied"}} : Receive(types)
    BY <1>4 DEF HandleSegmentTranscription, HandlePromptApplied
  <2>2. ~SessionAnswer(s, Head(results))
    BY <2>1 DEF Receive, SessionAnswer, SessionResultTypes
  <2> QED
    BY <1>3, <2>1, <2>2
<1>5. CASE HandleSessionTranscription
  <2>1. Receive(SessionResultTypes) /\ status' = [status EXCEPT ![Head(results).ses] = "finished"]
    BY <1>5 DEF HandleSessionTranscription, UpdateTranscription
  <2>2. ~SessionAnswer(s, Head(results))
    BY <1>1, <2>1 DEF SessionAnswer
  <2> QED
    BY <1>3, <2>1, <2>2
<1>6. CASE SaveLines \/ QueuePurposePrompt \/ PublishPurposePrompt
  <2>1. UNCHANGED results /\ (UNCHANGED jobs \/ \E j : jobs' = Append(jobs, j))
    BY <1>6 DEF SaveLines, QueuePurposePrompt, PublishPurposePrompt, Publish, queueVars
  <2>2. ASSUME NEW i \in DOMAIN jobs
        PROVE  i \in DOMAIN jobs' /\ jobs'[i] = jobs[i]
    BY <1>1, <2>1, <2>2
  <2> QED
    BY <1>1, <1>2, <2>1, <2>2 DEF BatchToCome, BatchJob, SessionAnswer
<1> QED
  BY <1>4, <1>5, <1>6 DEF Consume, ConsumerStep

\* A session shows "transcribing" only while its transcript is being made:
\* whatever the order of finishing, publishing, redelivery and answers.
THEOREM TranscribingStaysPending ==
  ASSUME FinishOnlyDeployment
  PROVE  Spec => []TranscribingIsPending
<1>1. Init => TranscribingInv
  BY DEF Init, DataInit, ApiInit, IdleCall, TranscribingInv
<1>2. ASSUME PipelineInv, TranscribingInv, [Next]_vars
      PROVE  TranscribingInv'
  <2>1. CASE UserStep
    BY <1>2, <2>1, RequestTranscribing DEF UserStep, Callers
  <2>2. CASE \E c \in Callers : HandlerStep(c)
    BY <1>2, <2>2, HandlerTranscribing DEF HandlerStep
  <2>3. CASE Work \/ LoseWorker
    BY <1>2, <2>3, WorkTranscribing
  <2>4. CASE Consume
    BY <1>2, <2>4, ConsumeTranscribing
  <2>5. CASE StoreFails
    BY <1>2, <2>5, HandlerTranscribing DEF StoreFails, Callers
  <2>6. ~(ServerCrash \/ ChannelClose \/ BrokerRestart)
    BY DEF ServerCrash, ChannelClose, BrokerRestart, Fault, FinishOnlyDeployment
  <2>7. CASE UNCHANGED vars
    BY <1>2, <2>7 DEF vars, sessionVars, queueVars, apiVars, TranscribingInv, BatchToCome,
       BatchJob, SessionAnswer
  <2> QED
    BY <1>2, <2>1, <2>2, <2>3, <2>4, <2>5, <2>6, <2>7 DEF Next
<1>3. TranscribingInv => TranscribingIsPending
  BY DEF TranscribingInv, TranscribingIsPending, BatchToCome, BatchJob, SessionAnswer,
         TranscriptPending, SessionJobTypes
<1> QED
  BY <1>1, <1>2, <1>3, PipelineInvariant, PTL DEF Spec

-----------------------------------------------------------------------------
(* RecordingEndsByStop.  A session is open while it is new or recorded; what *)
(* is on its way finishes no open session.                                  *)

\* The deployments of the property: the owner records from one tab, and nobody
\* ends, uploads, finishes, redoes or removes meanwhile.  Every fault may happen.
RecordingDeployment ==
  /\ \A c, d \in Tabs : c = d
  /\ {"end", "file", "finish", "redo_session", "remove_transcription"} \cap Requests = {}

Open(st, s) == st[s] \in {"new", "recording"}

\* With the statuses st, a job that leaves the open sessions alone; a result.
HarmlessJob(st, job) ==
  /\ job.type # "upload_ready"
  /\ \A s \in Sessions : Open(st, s) => ~BatchJob(s, job)

HarmlessResult(st, res) == \A s \in Sessions : Open(st, s) => ~SessionAnswer(s, res)

HarmlessCalls ==
  \A c \in Callers :
    /\ call[c].at \notin OtherStatusSteps
    /\ call[c].at \in {"begin_write", "stop_publish"} => c \in Tabs
    /\ call[c].at = "begin_write" => status[call[c].ses] = "new"
    /\ call[c].at = "stop_publish" => ~Open(status, call[c].ses)

HarmlessMessages ==
  /\ \A i \in DOMAIN jobs : HarmlessJob(status, jobs[i])
  /\ worker # IdleWorker => HarmlessJob(status, worker.job)
  /\ \A i \in DOMAIN results : HarmlessResult(status, results[i])

LEMMA RecordingParts ==
  ASSUME PipelineInv
  PROVE  RecordingInv <=> HarmlessCalls /\ HarmlessMessages
<1>1. \A c \in Callers : call[c].at = "stop_publish" => call[c].ses \in Sessions
  BY CallKinds DEF PipelineInv, TypeOK, PlainCalls
<1>2. HarmlessCalls /\ HarmlessMessages => RecordingInv
  BY DEF RecordingInv, NothingFinal, HarmlessCalls, HarmlessMessages, HarmlessJob,
         HarmlessResult, Open, Callers
<1>3. RecordingInv => HarmlessCalls
  BY <1>1 DEF RecordingInv, NothingFinal, HarmlessCalls, Open
<1>4. RecordingInv => HarmlessMessages
  BY DEF RecordingInv, NothingFinal, HarmlessMessages, HarmlessJob, HarmlessResult, Open
<1> QED
  BY <1>2, <1>3, <1>4

\* What a step does to the statuses when it opens no session again.
NoneReopens == \A s \in Sessions : Open(status', s) => Open(status, s)

LEMMA HarmlessKept ==
  ASSUME NoneReopens
  PROVE  /\ \A job : HarmlessJob(status, job) => HarmlessJob(status', job)
         /\ \A res : HarmlessResult(status, res) => HarmlessResult(status', res)
BY DEF NoneReopens, HarmlessJob, HarmlessResult

\* A step that passes old messages on and adds harmless ones.
LEMMA MessagesStep ==
  ASSUME HarmlessMessages, NoneReopens,
         \A i \in DOMAIN jobs' : \/ \E j \in DOMAIN jobs : jobs'[i] = jobs[j]
                                 \/ HarmlessJob(status, jobs'[i]),
         worker' # IdleWorker => HarmlessJob(status, worker'.job),
         \A i \in DOMAIN results' : \/ \E j \in DOMAIN results : results'[i] = results[j]
                                    \/ HarmlessResult(status, results'[i])
  PROVE  HarmlessMessages'
<1>1. ASSUME NEW i \in DOMAIN jobs'
      PROVE  HarmlessJob(status', jobs'[i])
  <2>1. HarmlessJob(status, jobs'[i])
    BY DEF HarmlessMessages
  <2> QED
    BY <2>1, HarmlessKept
<1>2. ASSUME NEW i \in DOMAIN results'
      PROVE  HarmlessResult(status', results'[i])
  <2>1. HarmlessResult(status, results'[i])
    BY DEF HarmlessMessages
  <2> QED
    BY <2>1, HarmlessKept
<1>3. worker' # IdleWorker => HarmlessJob(status', worker'.job)
  BY HarmlessKept
<1> QED
  BY <1>1, <1>2, <1>3 DEF HarmlessMessages

\* A job is published that is harmless.
LEMMA PublishHarmless ==
  ASSUME HarmlessMessages, NoneReopens, jobs \in Seq(Jobs),
         UNCHANGED queueVars \/ \E j : Publish(j) /\ HarmlessJob(status, j),
         UNCHANGED worker
  PROVE  HarmlessMessages'
<1>1. ASSUME NEW i \in DOMAIN jobs'
      PROVE  \/ \E j \in DOMAIN jobs : jobs'[i] = jobs[j]
             \/ HarmlessJob(status, jobs'[i])
  <2>1. CASE UNCHANGED queueVars
    BY <2>1 DEF queueVars
  <2>2. CASE \E j : Publish(j) /\ HarmlessJob(status, j)
    <3>1. PICK j : Publish(j) /\ HarmlessJob(status, j)
      BY <2>2
    <3>2. (i \in DOMAIN jobs /\ jobs'[i] = jobs[i]) \/ jobs'[i] = j
      BY <3>1 DEF Publish
    <3> QED
      BY <3>1, <3>2
  <2> QED
    BY <2>1, <2>2
<1>2. UNCHANGED results
  BY DEF queueVars, Publish
<1> QED
  BY <1>1, <1>2, MessagesStep DEF HarmlessMessages

\* What the requests do to the statuses here.
LEMMA RequestStatus ==
  ASSUME RecordingDeployment, ApiTypeOK, NEW c \in Callers,
         (c \in Tabs /\ TabRequest(c)) \/ (c \in Posts /\ PostRequest(c))
  PROVE  \/ UNCHANGED status
         \/ /\ c \in Tabs /\ RecordingStop(c) /\ link[c] \in Sessions
            /\ status' = [status EXCEPT ![link[c]] = "transcribing"]
<1>1. CASE c \in Tabs /\ TabRequest(c)
  BY <1>1 DEF TabRequest, RecordingBegin, OwnerJoin, RecordingStop, Disconnect,
              sessionVars, UpdateStatus, ApiTypeOK
<1>2. CASE c \in Posts /\ PostRequest(c)
  BY <1>2 DEF PostRequest, UploadSegment, UploadAudio, SegmentResult, PromptApply,
         EndSession, FinishUpload, RedoSegments, RedoSession, RemoveSegments,
         RemoveTranscription, PromptDelete, sessionVars, Request, RecordingDeployment
<1> QED
  BY <1>1, <1>2

LEMMA RequestRecording ==
  ASSUME RecordingDeployment, PipelineInv, HarmlessCalls, HarmlessMessages,
         NEW c \in Callers,
         (c \in Tabs /\ TabRequest(c)) \/ (c \in Posts /\ PostRequest(c)),
         UNCHANGED worker
  PROVE  HarmlessCalls' /\ HarmlessMessages'
<1>1. ApiTypeOK /\ status \in [Sessions -> Statuses] /\ jobs \in Seq(Jobs)
  BY DEF PipelineInv, TypeOK, DataTypeOK
<1>2. UNCHANGED queueVars
  BY DEF TabRequest, PostRequest, RecordingBegin, OwnerJoin, RecordingStop, Disconnect,
         UploadSegment, UploadAudio, SegmentResult, PromptApply, EndSession, FinishUpload,
         RedoSegments, RedoSession, RemoveSegments, RemoveTranscription, PromptDelete
<1>3. PICK x :
        /\ call' = [call EXCEPT ![c] = x] /\ call'[c] = x
        /\ x.at \notin OtherStatusSteps
        /\ x.at \in {"begin_write", "stop_publish"} => c \in Tabs
        /\ x.at = "begin_write" => status[x.ses] = "new" /\ UNCHANGED status
        /\ x.at = "stop_publish" => x.ses = link[c] /\ RecordingStop(c)
  BY <1>1, RequestCall DEF RecordingDeployment, OtherStatusSteps, IdleCall
<1>4. \/ UNCHANGED status
      \/ /\ c \in Tabs /\ link[c] \in Sessions
         /\ status' = [status EXCEPT ![link[c]] = "transcribing"]
  BY <1>1, RequestStatus
<1>5. NoneReopens
  BY <1>1, <1>4 DEF NoneReopens, Open
<1>6. HarmlessMessages'
  BY <1>1, <1>2, <1>5, PublishHarmless
<1>7. ASSUME NEW d \in Callers
      PROVE  /\ call'[d].at \notin OtherStatusSteps
             /\ call'[d].at \in {"begin_write", "stop_publish"} => d \in Tabs
             /\ call'[d].at = "begin_write" => status'[call'[d].ses] = "new"
             /\ call'[d].at = "stop_publish" => ~Open(status', call'[d].ses)
  <2>1. CASE d = c
    <3>1. x.at = "stop_publish" => status'[x.ses] = "transcribing"
      <4>1. c \in Tabs /\ RecordingStop(c)
              => status' = [status EXCEPT ![link[c]] = "transcribing"] /\ link[c] \in Sessions
        BY <1>1, <1>3, <1>4 DEF RecordingStop, UpdateStatus, ApiTypeOK
      <4> QED
        BY <1>1, <1>3, <4>1
    <3> QED
      BY <1>3, <2>1, <3>1 DEF Open
  <2>2. CASE d # c
    <3>1. call'[d] = call[d]
      BY <1>1, <1>3, <2>2 DEF ApiTypeOK
    <3>2. call[d].at \in {"begin_write", "stop_publish"} => UNCHANGED status
      BY <1>4, <2>2 DEF HarmlessCalls, RecordingDeployment
    <3> QED
      BY <3>1, <3>2 DEF HarmlessCalls
  <2> QED
    BY <2>1, <2>2
<1> QED
  BY <1>6, <1>7 DEF HarmlessCalls

\* What a handler's step does to the statuses here.
LEMMA HandlerStatus ==
  ASSUME HarmlessCalls, NEW c \in Callers,
         CallStep(c) \/ SegmentPutFails(c) \/ FilePutFails(c)
  PROVE  \/ UNCHANGED status
         \/ BeginWrite(c) /\ status' = [status EXCEPT ![call[c].ses] = "recording"]
<1>1. call[c].at \notin OtherStatusSteps
  BY DEF HarmlessCalls
<1> QED
  BY <1>1 DEF CallStep, BeginWrite, StopPublish, SegmentPut, SegmentUpsert,
     SegmentPublish, EndWrite, EndPublish, FilePut, FilePublish, FinishWrite,
     FinishPublish, PromptPublish, RedoOneSegment, RedoPublish, RemoveLines,
     SegmentPutFails, FilePutFails, sessionVars, UpdateStatus, At, OtherStatusSteps

\* What it publishes here.
LEMMA HandlerHarmless ==
  ASSUME HarmlessCalls, NEW c \in Callers,
         CallStep(c) \/ SegmentPutFails(c) \/ FilePutFails(c)
  PROVE  UNCHANGED queueVars \/ \E j : Publish(j) /\ HarmlessJob(status, j)
<1> DEFINE goal == UNCHANGED queueVars \/ \E j : Publish(j) /\ HarmlessJob(status, j)
<1>1. call[c].at \notin OtherStatusSteps
  BY DEF HarmlessCalls
<1>2. ASSUME NEW s, NEW objs, Publish(AudioJob("segment_ready", s, objs))
      PROVE  goal
  <2>1. HarmlessJob(status, AudioJob("segment_ready", s, objs))
    BY DEF HarmlessJob, BatchJob, BatchTypes, AudioJob
  <2> QED
    BY <1>2, <2>1
<1>3. ASSUME NEW s, NEW r, Publish(PromptJob(s, r))
      PROVE  goal
  <2>1. HarmlessJob(status, PromptJob(s, r))
    BY DEF HarmlessJob, BatchJob, BatchTypes, PromptJob
  <2> QED
    BY <1>3, <2>1
<1>4. ASSUME NEW objs, At(c, "stop_publish"),
             Publish(AudioJob("recording_ready", call[c].ses, objs))
      PROVE  goal
  <2>1. HarmlessJob(status, AudioJob("recording_ready", call[c].ses, objs))
    BY <1>4 DEF HarmlessJob, BatchJob, AudioJob, HarmlessCalls, At
  <2> QED
    BY <1>4, <2>1
<1>5. CASE StopPublish(c)
  BY <1>4, <1>5 DEF StopPublish
<1> HIDE DEF goal
<1>6. CASE SegmentPublish(c) \/ RedoOneSegment(c) \/ PromptPublish(c)
  <2>1. \/ UNCHANGED queueVars
        \/ \E s, objs : Publish(AudioJob("segment_ready", s, objs))
        \/ \E s, r : Publish(PromptJob(s, r))
    BY <1>6 DEF SegmentPublish, RedoOneSegment, PromptPublish
  <2> QED
    BY <1>2, <1>3, <2>1 DEF goal
<1>7. CASE ~(\/ StopPublish(c) \/ SegmentPublish(c) \/ RedoOneSegment(c)
             \/ PromptPublish(c))
  BY <1>1, <1>7 DEF CallStep, BeginWrite, SegmentPut, SegmentUpsert, EndWrite, EndPublish,
     FilePut, FilePublish, FinishWrite, FinishPublish, RedoPublish, RemoveLines,
     SegmentPutFails, FilePutFails, At, OtherStatusSteps
<1> QED
  BY <1>5, <1>6, <1>7 DEF goal

LEMMA HandlerRecording ==
  ASSUME RecordingDeployment, PipelineInv, HarmlessCalls, HarmlessMessages,
         NEW c \in Callers, CallStep(c) \/ SegmentPutFails(c) \/ FilePutFails(c),
         UNCHANGED worker
  PROVE  HarmlessCalls' /\ HarmlessMessages'
<1>1. /\ ApiTypeOK /\ status \in [Sessions -> Statuses] /\ jobs \in Seq(Jobs)
      /\ call[c].at \notin OtherStatusSteps
  BY DEF PipelineInv, TypeOK, DataTypeOK, HarmlessCalls
<1>2. PICK x : /\ call' = [call EXCEPT ![c] = x] /\ call'[c] = x
               /\ x.at \notin OtherStatusSteps \cup {"begin_write", "stop_publish"}
  BY <1>1, HandlerCall
     DEF OtherStatusSteps, IdleCall, EndWrite, FilePut, FinishWrite, At
<1>3. \/ UNCHANGED status
      \/ c \in Tabs /\ Open(status, call[c].ses)
         /\ status' = [status EXCEPT ![call[c].ses] = "recording"]
  <2>1. BeginWrite(c) => c \in Tabs /\ Open(status, call[c].ses)
    BY DEF BeginWrite, At, HarmlessCalls, Open
  <2> QED
    BY <2>1, HandlerStatus
<1>4. NoneReopens
  BY <1>1, <1>3 DEF NoneReopens, Open
<1>5. HarmlessMessages'
  BY <1>1, <1>4, HandlerHarmless, PublishHarmless
<1>6. ASSUME NEW d \in Callers
      PROVE  /\ call'[d].at \notin OtherStatusSteps
             /\ call'[d].at \in {"begin_write", "stop_publish"} => d \in Tabs
             /\ call'[d].at = "begin_write" => status'[call'[d].ses] = "new"
             /\ call'[d].at = "stop_publish" => ~Open(status', call'[d].ses)
  <2>1. CASE d = c
    BY <1>2, <2>1
  <2>2. CASE d # c
    <3>1. call'[d] = call[d]
      BY <1>1, <1>2, <2>2 DEF ApiTypeOK
    <3>2. call[d].at \in {"begin_write", "stop_publish"} => UNCHANGED status
      BY <1>3, <2>2 DEF HarmlessCalls, RecordingDeployment
    <3> QED
      BY <3>1, <3>2 DEF HarmlessCalls
  <2> QED
    BY <2>1, <2>2
<1> QED
  BY <1>5, <1>6 DEF HarmlessCalls

\* Calls are as harmless as before when neither they nor the statuses change,
\* and when they are dropped.
LEMMA CallsHarmless ==
  ASSUME HarmlessCalls, UNCHANGED status,
         UNCHANGED call \/ call' = [c \in Callers |-> IdleCall]
  PROVE  HarmlessCalls'
<1>1. IdleCall.at \notin OtherStatusSteps \cup {"begin_write", "stop_publish"}
  BY DEF IdleCall, OtherStatusSteps
<1> QED
  BY <1>1 DEF HarmlessCalls

\* The worker answers a harmless job with a harmless result.
LEMMA WorkRecording ==
  ASSUME PipelineInv, HarmlessMessages, Work \/ LoseWorker
  PROVE  HarmlessMessages'
<1>1. /\ jobs \in Seq(Jobs) /\ results \in Seq(Results) /\ WorkerTypeOK
      /\ UNCHANGED status /\ NoneReopens
  BY DEF PipelineInv, TypeOK, DataTypeOK, Work, LoseWorker, sessionVars, NoneReopens
<1>2. CASE WorkerTake
  <2>1. /\ worker' = [at |-> "busy", job |-> Head(jobs)] /\ worker'.job = jobs[1]
        /\ jobs' = Tail(jobs) /\ jobs # <<>> /\ UNCHANGED results
    BY <1>1, <1>2 DEF WorkerTake
  <2>2. /\ 1 \in DOMAIN jobs
        /\ \A i \in DOMAIN jobs' : i + 1 \in DOMAIN jobs /\ jobs'[i] = jobs[i + 1]
    BY <1>1, <2>1
  <2>3. HarmlessJob(status, worker'.job)
    BY <2>1, <2>2 DEF HarmlessMessages
  <2> QED
    BY <1>1, <2>1, <2>2, <2>3, MessagesStep
<1>3. CASE WorkerAck
  BY <1>1, <1>3, MessagesStep DEF WorkerAck, queueVars
<1>4. CASE LoseWorker
  <2>1. /\ worker # IdleWorker /\ jobs' = <<worker.job>> \o jobs /\ UNCHANGED results
        /\ worker' = IdleWorker
    BY <1>4 DEF LoseWorker, ConnectionLost
  <2>2. worker.job \in Jobs
    BY <1>1, <2>1 DEF WorkerTypeOK
  <2>3. \A i \in DOMAIN jobs' : \/ jobs'[i] = worker.job
                                \/ i - 1 \in DOMAIN jobs /\ jobs'[i] = jobs[i - 1]
    BY <1>1, <2>1, <2>2
  <2>4. HarmlessJob(status, worker.job)
    BY <2>1 DEF HarmlessMessages
  <2> QED
    BY <1>1, <2>1, <2>3, <2>4, MessagesStep
<1>5. CASE WorkerReply
  <2>1. worker # IdleWorker /\ HarmlessJob(status, worker.job)
    BY <1>5 DEF WorkerReply, IdleWorker, HarmlessMessages
  <2>2. /\ UNCHANGED jobs /\ worker' = [worker EXCEPT !.at = "replied"]
    BY <1>5 DEF WorkerReply, HandleSegmentReady, HandleUploadReady, HandleBatch,
                HandlePromptApply, NoReply, Reply, queueVars
  <2>3. worker'.job = worker.job
    BY <1>1, <2>1, <2>2 DEF WorkerTypeOK
  <2>4. UNCHANGED results \/ \E x : Reply(x) /\ HarmlessResult(status, x)
    <3> DEFINE job == worker.job
               result(type, objs, text, timed, row, ok) ==
                 [type |-> type, ses |-> job.ses, objs |-> objs, text |-> text,
                  lines |-> timed, row |-> row, ok |-> ok]
    <3>1. \A type, objs, text, timed, row, ok :
            LET x == result(type, objs, text, timed, row, ok)
            IN x.type = type /\ x.ses = job.ses
      OBVIOUS
    <3>2. job.type \in BatchTypes \/ job.type \in {"segment_ready", "prompt_apply"}
      BY <1>5, <2>1 DEF WorkerReply, HandleSegmentReady, HandleUploadReady, HandleBatch,
                  HandlePromptApply, HarmlessJob
    <3>3. CASE job.type \in BatchTypes
      <4>1. \A x : SessionAnswer(job.ses, x) => HarmlessResult(status, x)
        BY <2>1, <3>3 DEF SessionAnswer, HarmlessResult, HarmlessJob, BatchJob
      <4> QED
        BY <1>5, <3>3, <4>1, BatchAnswered
    <3>4. CASE job.type \in {"segment_ready", "prompt_apply"}
      <4>1. \/ UNCHANGED results
            \/ \E type \in {"segment_transcribed", "prompt_applied"} :
               \E objs, text, timed, row, ok :
                 Reply(result(type, objs, text, timed, row, ok))
        BY <1>5, <3>4 DEF WorkerReply, HandleSegmentReady, HandleUploadReady, HandleBatch,
           HandlePromptApply, NoReply, queueVars, BatchTypes
      <4> HIDE DEF result
      <4>2. \A x : x.type \in {"segment_transcribed", "prompt_applied"}
                     => HarmlessResult(status, x)
        BY DEF HarmlessResult, SessionAnswer, SessionResultTypes
      <4> QED
        BY <3>1, <4>1, <4>2
    <3> QED
      BY <3>2, <3>3, <3>4
  <2>5. \A i \in DOMAIN results' : \/ \E j \in DOMAIN results : results'[i] = results[j]
                                   \/ HarmlessResult(status, results'[i])
    <3>1. CASE UNCHANGED results
      BY <3>1
    <3>2. ASSUME NEW x, Reply(x), HarmlessResult(status, x), NEW i \in DOMAIN results'
          PROVE  \/ \E j \in DOMAIN results : results'[i] = results[j]
                 \/ HarmlessResult(status, results'[i])
      <4>1. (i \in DOMAIN results /\ results'[i] = results[i]) \/ results'[i] = x
        BY <1>1, <3>2 DEF Reply
      <4> QED
        BY <3>2, <4>1
    <3> QED
      BY <2>4, <3>1, <3>2
  <2> QED
    BY <1>1, <2>1, <2>2, <2>3, <2>5, MessagesStep
<1> QED
  BY <1>2, <1>3, <1>4, <1>5 DEF Work, WorkerStep

\* The consumer finishes a session that is not open.
LEMMA ConsumeRecording ==
  ASSUME PipelineInv, HarmlessCalls, HarmlessMessages, Consume
  PROVE  /\ HarmlessCalls' /\ HarmlessMessages'
         /\ \A s \in Sessions : Open(status, s) => status'[s] = status[s]
<1>1. /\ jobs \in Seq(Jobs) /\ results \in Seq(Results) /\ ApiTypeOK
      /\ status \in [Sessions -> Statuses] /\ UNCHANGED <<call, worker>>
  BY DEF PipelineInv, TypeOK, DataTypeOK, Consume, apiVars
<1>2. ASSUME NEW types, Receive(types), NoneReopens
      PROVE  HarmlessMessages'
  <2>1. results # <<>> /\ results' = Tail(results) /\ UNCHANGED jobs
    BY <1>2 DEF Receive
  <2>2. \A i \in DOMAIN results' : i + 1 \in DOMAIN results /\ results'[i] = results[i + 1]
    BY <1>1, <2>1
  <2>3. worker # IdleWorker => HarmlessJob(status, worker.job)
    BY DEF HarmlessMessages
  <2> QED
    BY <1>1, <1>2, <2>1, <2>2, <2>3, MessagesStep
<1>3. CASE HandleSegmentTranscription \/ HandlePromptApplied
  <2>1. PICK types : Receive(types)
    BY <1>3 DEF HandleSegmentTranscription, HandlePromptApplied
  <2>2. UNCHANGED status
    BY <1>3 DEF HandleSegmentTranscription, HandlePromptApplied, sessionVars
  <2> QED
    BY <1>1, <1>2, <2>1, <2>2, CallsHarmless DEF NoneReopens
<1>4. CASE HandleSessionTranscription
  <2> DEFINE z == Head(results).ses
  <2>1. /\ Receive(SessionResultTypes) /\ status' = [status EXCEPT ![z] = "finished"]
        /\ results # <<>> /\ Head(results).type \in SessionResultTypes
    BY <1>4 DEF HandleSessionTranscription, UpdateTranscription, Receive
  <2>2. Head(results) = results[1] /\ 1 \in DOMAIN results
    BY <1>1, <2>1
  <2>3. HarmlessResult(status, Head(results))
    BY <2>2 DEF HarmlessMessages
  <2>4. SessionAnswer(z, Head(results))
    BY <2>1 DEF SessionAnswer
  <2>5. z \in Sessions => ~Open(status, z)
    BY <2>3, <2>4 DEF HarmlessResult
  <2> HIDE DEF z
  <2>6. NoneReopens /\ \A s \in Sessions : Open(status, s) => status'[s] = status[s]
    BY <1>1, <2>1, <2>5 DEF NoneReopens, Open
  <2>7. ASSUME NEW c \in Callers
        PROVE  /\ call'[c].at = "begin_write" => status'[call'[c].ses] = "new"
               /\ call'[c].at = "stop_publish" => ~Open(status', call'[c].ses)
    <3>1. call[c].at \in {"begin_write", "stop_publish"} => call[c].ses \in Sessions
      BY <1>1, CallKinds DEF PlainCalls
    <3> QED
      BY <1>1, <2>6, <3>1 DEF HarmlessCalls, NoneReopens, Open
  <2>8. HarmlessCalls'
    BY <1>1, <2>7 DEF HarmlessCalls
  <2> QED
    BY <1>2, <2>1, <2>6, <2>8
<1>5. CASE SaveLines \/ QueuePurposePrompt \/ PublishPurposePrompt
  <2>1. UNCHANGED status
    BY <1>5 DEF SaveLines, QueuePurposePrompt, PublishPurposePrompt, SaveTranscriptLines,
                sessionVars
  <2>2. UNCHANGED queueVars \/ \E j : Publish(j) /\ HarmlessJob(status, j)
    <3>1. \A s, r : HarmlessJob(status, PromptJob(s, r))
      BY DEF HarmlessJob, BatchJob, BatchTypes, PromptJob
    <3> QED
      BY <1>5, <3>1 DEF SaveLines, QueuePurposePrompt, PublishPurposePrompt
  <2>3. NoneReopens
    BY <2>1 DEF NoneReopens
  <2> QED
    BY <1>1, <2>1, <2>2, <2>3, CallsHarmless, PublishHarmless
<1> QED
  BY <1>3, <1>4, <1>5 DEF Consume, ConsumerStep

\* A fault of the server or the broker loses messages and calls, and adds none.
LEMMA FaultRecording ==
  ASSUME PipelineInv, HarmlessCalls, HarmlessMessages,
         ServerCrash \/ ChannelClose \/ BrokerRestart
  PROVE  HarmlessCalls' /\ HarmlessMessages' /\ UNCHANGED status
<1>1. jobs \in Seq(Jobs) /\ results \in Seq(Results)
  BY DEF PipelineInv, TypeOK, DataTypeOK
<1>2. UNCHANGED status /\ NoneReopens /\ HarmlessCalls'
  <2>1. UNCHANGED status /\ (UNCHANGED call \/ call' = [c \in Callers |-> IdleCall])
    BY DEF ServerCrash, ChannelClose, BrokerRestart, sessionVars, apiVars
  <2> QED
    BY <2>1, CallsHarmless DEF NoneReopens
<1>3. worker' # IdleWorker => HarmlessJob(status, worker'.job)
  BY DEF ServerCrash, ChannelClose, BrokerRestart, HarmlessMessages
<1>4. \A i \in DOMAIN jobs' : \E j \in DOMAIN jobs : jobs'[i] = jobs[j]
  BY DEF ServerCrash, ChannelClose, BrokerRestart
<1>5. ASSUME NEW i \in DOMAIN results'
      PROVE  \E j \in DOMAIN results : results'[i] = results[j]
  <2>1. CASE LoseDelivered
    <3>1. PICK n \in 0..Len(results) : results' = SubSeq(results, n + 1, Len(results))
      BY <2>1 DEF LoseDelivered
    <3>2. i + n \in DOMAIN results /\ results'[i] = results[i + n]
      BY <1>1, <1>5, <3>1
    <3> QED
      BY <3>2
  <2>2. CASE results' = <<>>
    BY <1>5, <2>2
  <2> QED
    BY <2>1, <2>2 DEF ServerCrash, ChannelClose, BrokerRestart
<1> QED
  BY <1>2, <1>3, <1>4, <1>5, MessagesStep

\* A recording is ended by its owner's stop and never by a transcript of
\* earlier audio that comes late, also when the server, the broker or the worker
\* fails in between.
THEOREM RecordingEnds ==
  ASSUME RecordingDeployment
  PROVE  Spec => RecordingEndsByStop
<1> DEFINE ended(s) == status[s] = "recording" /\ status'[s] # "recording"
                         => status'[s] = "transcribing"
<1>1. Init => RecordingInv
  BY DEF Init, DataInit, ApiInit, WorkerInit, IdleCall, RecordingInv, NothingFinal,
         OtherStatusSteps, Callers
<1>2. ASSUME PipelineInv, RecordingInv, [Next]_vars
      PROVE  HarmlessCalls' /\ HarmlessMessages' /\ \A s \in Sessions : ended(s)
  <2>1. /\ HarmlessCalls /\ HarmlessMessages
        /\ ApiTypeOK /\ status \in [Sessions -> Statuses]
    BY <1>2, RecordingParts DEF PipelineInv, TypeOK, DataTypeOK
  <2>2. CASE UserStep
    <3>1. PICK c \in Callers : (c \in Tabs /\ TabRequest(c)) \/ (c \in Posts /\ PostRequest(c))
      BY <2>2 DEF UserStep, Callers
    <3>2. HarmlessCalls' /\ HarmlessMessages'
      BY <1>2, <2>1, <2>2, <3>1, RequestRecording DEF UserStep
    <3>3. \A s \in Sessions : ended(s)
      BY <2>1, <3>1, RequestStatus
    <3> QED
      BY <3>2, <3>3
  <2>3. CASE StoreFails \/ \E c \in Callers : HandlerStep(c)
    <3>1. PICK c \in Callers : /\ CallStep(c) \/ SegmentPutFails(c) \/ FilePutFails(c)
                               /\ UNCHANGED worker
      BY <2>3 DEF StoreFails, HandlerStep, Callers
    <3>2. HarmlessCalls' /\ HarmlessMessages'
      BY <1>2, <2>1, <3>1, HandlerRecording
    <3>3. \A s \in Sessions : ended(s)
      BY <2>1, <3>1, HandlerStatus
    <3> QED
      BY <3>2, <3>3
  <2>4. CASE Work \/ LoseWorker
    <3>1. UNCHANGED <<status, call>>
      BY <2>4 DEF Work, LoseWorker, sessionVars, apiVars
    <3> QED
      BY <1>2, <2>1, <2>4, <3>1, WorkRecording, CallsHarmless
  <2>5. CASE Consume
    <3>1. /\ HarmlessCalls' /\ HarmlessMessages'
          /\ \A s \in Sessions : Open(status, s) => status'[s] = status[s]
      BY <1>2, <2>1, <2>5, ConsumeRecording
    <3> QED
      BY <3>1 DEF Open
  <2>6. CASE ServerCrash \/ ChannelClose \/ BrokerRestart
    BY <1>2, <2>1, <2>6, FaultRecording
  <2>7. CASE UNCHANGED vars
    <3>1. UNCHANGED <<status, jobs, results, worker, call>>
      BY <2>7 DEF vars, sessionVars, queueVars, apiVars
    <3> QED
      BY <2>1, <3>1, CallsHarmless DEF HarmlessMessages
  <2> QED
    BY <1>2, <2>2, <2>3, <2>4, <2>5, <2>6, <2>7 DEF Next
<1>3. ASSUME PipelineInv, RecordingInv, [Next]_vars, PipelineInv'
      PROVE  RecordingInv' /\ \A s \in Sessions : ended(s)
  <2>1. (RecordingInv <=> HarmlessCalls /\ HarmlessMessages)'
    BY <1>3, RecordingParts, PTL
  <2> QED
    BY <1>2, <1>3, <2>1
<1>4. PipelineInv /\ RecordingInv /\ [Next]_vars /\ PipelineInv' => RecordingInv'
  BY <1>3
<1>5. PipelineInv /\ RecordingInv /\ [Next]_vars /\ PipelineInv'
        => [\A s \in Sessions :
              status[s] = "recording" /\ status'[s] # "recording"
                => status'[s] = "transcribing"]_vars
  BY <1>3
<1> QED
  BY <1>1, <1>4, <1>5, PipelineInvariant, PTL DEF Spec, RecordingEndsByStop

-----------------------------------------------------------------------------
(* PromptsFollowLifecycle: the rows implement PromptLifecycle.             *)

\* Some message of queue q is about row r, and at most one is.
Held(q, r) == \E i \in DOMAIN q : q[i].row = r

HeldOnce(q, r) == \A i, j \in DOMAIN q : q[i].row = r /\ q[j].row = r => i = j

Places == {"call", "hand", "job", "worker", "result"}

\* What makes up PromptPending(r), by where it is.
HeldIn(r, p) ==
  \/ p = "call" /\ \E c \in Callers : PromptCall(r, c)
  \/ p = "hand" /\ PromptInHand(r)
  \/ p = "job" /\ Held(jobs, r)
  \/ p = "worker" /\ PromptAtWorker(r)
  \/ p = "result" /\ Held(results, r)

OneHolder(r) ==
  /\ \A p, q \in Places : HeldIn(r, p) /\ HeldIn(r, q) => p = q
  /\ \A c, d \in Callers : PromptCall(r, c) /\ PromptCall(r, d) => c = d
  /\ HeldOnce(jobs, r)
  /\ HeldOnce(results, r)

\* Inductive on top of PipelineInv where no worker connection is lost: the one
\* thing that still holds a row holds it before its verdict.
PromptOnce(r) ==
  /\ OneHolder(r)
  /\ PromptPending(r) => promptResult[r].state \in {"queued", "deleted"}

PromptsOnce == \A r \in ResultIds : PromptOnce(r)

\* What the data model lets a step do to the state of one row.
MayMove(from, to) ==
  \/ from = to
  \/ from = "absent" /\ to = "queued"
  \/ from = "queued" /\ to \in {"completed", "failed"}
  \/ from \in PromptStatuses /\ to = "deleted"

RowMoves ==
  \/ UNCHANGED promptResult
  \/ \E r \in ResultIds, x \in PromptRow :
       /\ promptResult' = [promptResult EXCEPT ![r] = x]
       /\ MayMove(promptResult[r].state, x.state)

States == [r \in ResultIds |-> promptResult[r].state]

\* Such a step is one of PromptLifecycle, or none.
LEMMA MovesRefine ==
  ASSUME promptResult \in [ResultIds -> PromptRow], RowMoves
  PROVE  Lifecycle!Next \/ States' = States
<1>1. CASE UNCHANGED promptResult
  BY <1>1 DEF States
<1>2. CASE ~UNCHANGED promptResult
  <2>1. PICK r \in ResultIds, x \in PromptRow :
          /\ promptResult' = [promptResult EXCEPT ![r] = x]
          /\ MayMove(promptResult[r].state, x.state)
    BY <1>2 DEF RowMoves
  <2>2. States' = [States EXCEPT ![r] = x.state]
    BY <2>1 DEF States
  <2>3. States[r] = promptResult[r].state
    BY DEF States
  <2>4. CASE promptResult[r].state = x.state
    BY <2>2, <2>3, <2>4 DEF States
  <2>5. CASE promptResult[r].state # x.state
    <3>1. Lifecycle!Create(r) \/ Lifecycle!Settle(r) \/ Lifecycle!Delete(r)
      BY <2>1, <2>2, <2>3, <2>5
         DEF MayMove, PromptStatuses, States, Lifecycle!Create, Lifecycle!Settle,
             Lifecycle!Delete, Lifecycle!Move
    <3> QED
      BY <3>1 DEF Lifecycle!Next
  <2> QED
    BY <2>4, <2>5
<1> QED
  BY <1>1, <1>2

\* What the queue operations do to the messages about a row.
LEMMA HeldAppended ==
  ASSUME NEW S, NEW q \in Seq(S), NEW x, NEW r, HeldOnce(q, r)
  PROVE  /\ Held(Append(q, x), r) => Held(q, r) \/ x.row = r
         /\ (x.row = r => ~Held(q, r)) => HeldOnce(Append(q, x), r)
<1> DEFINE a == Append(q, x)
<1>1. \A i \in DOMAIN a : \/ i \in DOMAIN q /\ a[i] = q[i]
                          \/ i = Len(q) + 1 /\ a[i] = x
  OBVIOUS
<1> HIDE DEF a
<1> QED
  BY <1>1 DEF Held, HeldOnce

LEMMA HeldInTail ==
  ASSUME NEW S, NEW q \in Seq(S), q # <<>>, NEW r, HeldOnce(q, r)
  PROVE  /\ Held(Tail(q), r) => Held(q, r) /\ Head(q).row # r
         /\ Head(q).row = r => Held(q, r)
         /\ HeldOnce(Tail(q), r)
<1> DEFINE t == Tail(q)
<1>1. /\ \A i \in DOMAIN t : /\ i + 1 \in DOMAIN q /\ t[i] = q[i + 1]
                             /\ i + 1 # 1 /\ i \in Nat
      /\ 1 \in DOMAIN q /\ Head(q) = q[1]
  OBVIOUS
<1> HIDE DEF t
<1>2. \A i, j \in DOMAIN t : i + 1 = j + 1 => i = j
  BY <1>1
<1> QED
  BY <1>1, <1>2 DEF Held, HeldOnce

LEMMA HeldInRest ==
  ASSUME NEW S, NEW q \in Seq(S), NEW n \in 0..Len(q), NEW r, HeldOnce(q, r)
  PROVE  /\ Held(SubSeq(q, n + 1, Len(q)), r) => Held(q, r)
         /\ HeldOnce(SubSeq(q, n + 1, Len(q)), r)
<1> DEFINE t == SubSeq(q, n + 1, Len(q))
<1>1. \A i \in DOMAIN t : i + n \in DOMAIN q /\ t[i] = q[i + n] /\ i \in Nat
  OBVIOUS
<1> HIDE DEF t
<1>2. \A i, j \in DOMAIN t : i + n = j + n => i = j
  BY <1>1
<1> QED
  BY <1>1, <1>2 DEF Held, HeldOnce

LEMMA PendingIsHeld ==
  ASSUME NEW r
  PROVE  PromptPending(r) <=> \E p \in Places : HeldIn(r, p)
BY DEF PromptPending, HeldIn, Places, Held

\* A step that brings row r no new holder.
KeepsHolders(r) ==
  /\ \A c \in Callers : PromptCall(r, c)' => PromptCall(r, c)
  /\ PromptInHand(r)' => PromptInHand(r)
  /\ PromptAtWorker(r)' => PromptAtWorker(r)
  /\ Held(jobs', r) => Held(jobs, r)
  /\ Held(results', r) => Held(results, r)
  /\ HeldOnce(jobs', r) /\ HeldOnce(results', r)

LEMMA HoldersKept ==
  ASSUME NEW r \in ResultIds, PromptOnce(r), KeepsHolders(r),
         promptResult'[r].state \in {promptResult[r].state, "deleted"}
  PROVE  PromptOnce(r)'
<1>1. \A p \in Places : HeldIn(r, p)' => HeldIn(r, p)
  BY DEF KeepsHolders, HeldIn
<1>2. OneHolder(r)'
  BY <1>1 DEF PromptOnce, OneHolder, KeepsHolders
<1>3. PromptPending(r)' => PromptPending(r)
  BY <1>1, PendingIsHeld DEF PromptPending, HeldIn, Places, Held
<1> QED
  BY <1>2, <1>3 DEF PromptOnce

\* A step after which only one place holds row r.
HoldsOnlyIn(r, p) ==
  /\ \A c, d \in Callers : PromptCall(r, c)' /\ PromptCall(r, d)' => c = d
  /\ p # "call" => \A c \in Callers : ~PromptCall(r, c)'
  /\ p # "hand" => ~PromptInHand(r)'
  /\ p # "worker" => ~PromptAtWorker(r)'
  /\ p # "job" => ~Held(jobs', r)
  /\ p # "result" => ~Held(results', r)
  /\ HeldOnce(jobs', r) /\ HeldOnce(results', r)

LEMMA OnlyHolder ==
  ASSUME NEW r \in ResultIds, NEW p \in Places, HoldsOnlyIn(r, p),
         promptResult'[r].state \in {"queued", "deleted"}
  PROVE  PromptOnce(r)'
<1>1. \A q \in Places : HeldIn(r, q)' => q = p
  BY DEF HoldsOnlyIn, HeldIn, Places
<1> QED
  BY <1>1 DEF PromptOnce, OneHolder, HoldsOnlyIn

\* The place that holds row r is the only one.
LEMMA HeldHere ==
  ASSUME NEW r \in ResultIds, PromptOnce(r), NEW p \in Places, HeldIn(r, p)
  PROVE  /\ promptResult[r].state \in {"queued", "deleted"}
         /\ p # "call" => \A c \in Callers : ~PromptCall(r, c)
         /\ p # "hand" => ~PromptInHand(r)
         /\ p # "worker" => ~PromptAtWorker(r)
         /\ p # "job" => ~Held(jobs, r)
         /\ p # "result" => ~Held(results, r)
         /\ \A c, d \in Callers : PromptCall(r, c) /\ PromptCall(r, d) => c = d
         /\ HeldOnce(jobs, r) /\ HeldOnce(results, r)
<1>1. PromptPending(r)
  BY PendingIsHeld
<1>2. \A q \in Places : HeldIn(r, q) => q = p
  BY DEF PromptOnce, OneHolder
<1>3. /\ p # "call" => ~HeldIn(r, "call")
      /\ p # "hand" => ~HeldIn(r, "hand")
      /\ p # "worker" => ~HeldIn(r, "worker")
      /\ p # "job" => ~HeldIn(r, "job")
      /\ p # "result" => ~HeldIn(r, "result")
  BY <1>2 DEF Places
<1> QED
  BY <1>1, <1>3 DEF PromptOnce, OneHolder, HeldIn

\* A handler's call that is not about to publish a prompt holds no row.
LEMMA CallsKept ==
  ASSUME ApiTypeOK, NEW c \in Callers, call' = [call EXCEPT ![c] = call'[c]],
         call'[c].at # "prompt_publish", NEW r
  PROVE  \A d \in Callers : PromptCall(r, d)' => PromptCall(r, d) /\ d # c
BY DEF ApiTypeOK, PromptCall

\* Requests create a row with its call, or delete one.
LEMMA RequestOnce ==
  ASSUME PipelineInv, PromptsOnce, NEW c \in Callers,
         (c \in Tabs /\ TabRequest(c)) \/ (c \in Posts /\ PostRequest(c)),
         UNCHANGED <<faults, worker, consumer>>
  PROVE  PromptsOnce' /\ RowMoves
<1>1. /\ call \in [Callers -> {IdleCall} \cup Calls] /\ ApiTypeOK
      /\ promptResult \in [ResultIds -> PromptRow]
  BY DEF PipelineInv, TypeOK, DataTypeOK, ApiTypeOK
<1>2. call[c] = IdleCall /\ call[c].at # "prompt_publish"
  <2>1. call[c] = IdleCall
    BY <1>1, RequestCall
  <2> QED
    BY <2>1 DEF IdleCall
<1>3. UNCHANGED queueVars
  BY DEF TabRequest, PostRequest, RecordingBegin, OwnerJoin, RecordingStop, Disconnect,
         UploadSegment, UploadAudio, SegmentResult, PromptApply, EndSession, FinishUpload,
         RedoSegments, RedoSession, RemoveSegments, RemoveTranscription, PromptDelete
<1>4. call' = [call EXCEPT ![c] = call'[c]]
  <2>1. PICK x : call' = [call EXCEPT ![c] = x] /\ call'[c] = x
    BY <1>1, RequestCall
  <2> QED
    BY <2>1
<1>5. ASSUME NEW r \in ResultIds, \A d \in Callers : PromptCall(r, d)' => PromptCall(r, d)
      PROVE  KeepsHolders(r)
  BY <1>3, <1>5 DEF KeepsHolders, PromptInHand, PromptAtWorker, queueVars, PromptsOnce,
                    PromptOnce, OneHolder
<1>6. CASE \E s \in Sessions, r \in ResultIds : PromptApply(c, s, r)
  <2>1. PICK s \in Sessions, r \in ResultIds : PromptApply(c, s, r)
    BY <1>6
  <2> DEFINE row == [state |-> "queued", ses |-> s]
  <2>2. /\ promptResult[r].state = "absent" /\ row \in PromptRow /\ row.state = "queued"
        /\ promptResult' = [promptResult EXCEPT ![r] = row]
        /\ call'[c].at = "prompt_publish" /\ call'[c].row = r
    BY <1>1, <2>1 DEF PromptApply, CreatePromptResult, PromptRow, PromptStatuses, IdleCall
  <2> HIDE DEF row
  <2>3. ASSUME NEW u \in ResultIds, u # r
        PROVE  PromptOnce(u)'
    <3>1. \A d \in Callers : PromptCall(u, d)' => PromptCall(u, d)
      BY <1>1, <1>4, <2>2, <2>3 DEF PromptCall
    <3>2. promptResult'[u].state = promptResult[u].state
      BY <1>1, <2>2, <2>3
    <3> QED
      BY <1>5, <3>1, <3>2, HoldersKept DEF PromptsOnce
  <2>4. PromptOnce(r)'
    <3>1. /\ \A d \in Callers : ~PromptCall(r, d)
          /\ ~PromptInHand(r) /\ ~PromptAtWorker(r) /\ ~Held(jobs, r) /\ ~Held(results, r)
          /\ HeldOnce(jobs, r) /\ HeldOnce(results, r)
      BY <2>2 DEF PromptsOnce, PromptOnce, OneHolder, PromptPending, Held
    <3>2. \A d \in Callers : PromptCall(r, d)' => d = c
      BY <1>1, <1>4, <3>1 DEF PromptCall
    <3>3. HoldsOnlyIn(r, "call")
      BY <1>3, <3>1, <3>2 DEF HoldsOnlyIn, PromptInHand, PromptAtWorker, queueVars
    <3> QED
      BY <1>1, <2>2, <3>3, OnlyHolder DEF Places
  <2>5. RowMoves
    BY <2>2 DEF RowMoves, MayMove
  <2> QED
    BY <2>3, <2>4, <2>5 DEF PromptsOnce
<1>7. CASE \E r \in ResultIds : PromptDelete(c, r)
  <2>1. PICK r \in ResultIds : PromptDelete(c, r)
    BY <1>7
  <2> DEFINE row == [promptResult[r] EXCEPT !.state = "deleted"]
  <2>2. /\ promptResult[r].state \in PromptStatuses /\ row \in PromptRow
        /\ row.state = "deleted"
        /\ promptResult' = [promptResult EXCEPT ![r] = row] /\ UNCHANGED call
    BY <1>1, <2>1 DEF PromptDelete, DeletePromptResult, PromptRow
  <2> HIDE DEF row
  <2>3. ASSUME NEW u \in ResultIds
        PROVE  PromptOnce(u)'
    <3>1. promptResult'[u].state \in {promptResult[u].state, "deleted"}
      BY <1>1, <2>2
    <3> QED
      BY <1>5, <2>2, <3>1, HoldersKept DEF PromptsOnce, PromptCall
  <2> QED
    BY <2>2, <2>3 DEF PromptsOnce, RowMoves, MayMove
<1>8. CASE /\ ~\E s \in Sessions, r \in ResultIds : PromptApply(c, s, r)
           /\ ~\E r \in ResultIds : PromptDelete(c, r)
  <2>1. UNCHANGED promptResult
    BY <1>8 DEF TabRequest, PostRequest, RecordingBegin, OwnerJoin, RecordingStop,
         Disconnect, UploadSegment, UploadAudio, SegmentResult, EndSession, FinishUpload,
         RedoSegments, RedoSession, RemoveSegments, RemoveTranscription
  <2>2. call'[c].at # "prompt_publish"
    <3>1. \A step, s : Goto(c, step, s) => call'[c].at = step
      BY <1>1 DEF Goto, IdleCall
    <3>2. CASE \/ UNCHANGED call
               \/ \E s \in Sessions : \/ RecordingBegin(c, s) \/ EndSession(c, s)
                                      \/ FinishUpload(c, s) \/ RemoveTranscription(c, s)
               \/ RecordingStop(c)
      BY <1>2, <3>1, <3>2 DEF RecordingBegin, RecordingStop, EndSession, FinishUpload,
                              RemoveTranscription
    <3>3. ASSUME NEW s \in Sessions, RedoSegments(c, s) \/ RedoSession(c, s)
          PROVE  call'[c].at # "prompt_publish"
      BY <1>1, <3>3 DEF RedoSegments, RedoSession, IdleCall
    <3>4. ASSUME NEW s \in Sessions, NEW k, NEW t,
                 UploadSegment(c, s, k, t) \/ UploadAudio(c, s, k, t)
          PROVE  call'[c].at # "prompt_publish"
      BY <1>1, <3>4 DEF UploadSegment, UploadAudio, IdleCall
    <3> QED
      BY <1>8, <3>2, <3>3, <3>4 DEF TabRequest, PostRequest, OwnerJoin, Disconnect, SegmentResult,
                              RemoveSegments
  <2>3. ASSUME NEW r \in ResultIds
        PROVE  PromptOnce(r)'
    BY <1>1, <1>4, <1>5, <2>1, <2>2, CallsKept, HoldersKept DEF PromptsOnce
  <2> QED
    BY <2>1, <2>3 DEF PromptsOnce, RowMoves
<1> QED
  BY <1>6, <1>7, <1>8

\* A failed publish fails its row, unless that is deleted already.
LEMMA PublishFails ==
  ASSUME promptResult \in [ResultIds -> PromptRow], NEW r \in ResultIds,
         promptResult[r].state \in {"queued", "deleted"},
         NEW st \in {"completed", "failed"}, UpdatePromptResult(r, st)
  PROVE  /\ RowMoves
         /\ \A u \in ResultIds : u # r => promptResult'[u] = promptResult[u]
<1> DEFINE row == IF promptResult[r].state \in PromptStatuses
                  THEN [promptResult[r] EXCEPT !.state = st] ELSE promptResult[r]
<1>1. /\ row \in PromptRow /\ promptResult' = [promptResult EXCEPT ![r] = row]
      /\ MayMove(promptResult[r].state, row.state)
  BY DEF UpdatePromptResult, PromptRow, PromptStatuses, MayMove
<1> HIDE DEF row
<1> QED
  BY <1>1 DEF RowMoves

\* The publish of a prompt, by its handler or by the consumer: the row goes
\* into the queue, or fails and is held no more.
LEMMA PublishOnce ==
  ASSUME PipelineInv, PromptsOnce, NEW r \in ResultIds,
         promptResult[r].state \in {"queued", "deleted"},
         ~Held(jobs, r), ~Held(results, r), ~PromptAtWorker(r),
         \A c \in Callers : ~PromptCall(r, c)', ~PromptInHand(r)',
         NEW j, j.row = r, Publish(j), UNCHANGED worker,
         IF chanOpen THEN UNCHANGED promptResult ELSE UpdatePromptResult(r, "failed"),
         \A u \in ResultIds : u # r =>
            /\ \A c \in Callers : PromptCall(u, c)' => PromptCall(u, c)
            /\ PromptInHand(u)' => PromptInHand(u)
  PROVE  PromptsOnce' /\ RowMoves
<1>1. /\ jobs \in Seq(Jobs) /\ promptResult \in [ResultIds -> PromptRow]
  BY DEF PipelineInv, TypeOK, DataTypeOK
<1>2. \A u \in ResultIds : HeldOnce(jobs, u) /\ HeldOnce(results, u)
  BY DEF PromptsOnce, PromptOnce, OneHolder
<1>3. /\ RowMoves
      /\ \A u \in ResultIds : u # r => promptResult'[u] = promptResult[u]
  BY <1>1, PublishFails DEF RowMoves
<1>4. ASSUME NEW u \in ResultIds, u # r
      PROVE  PromptOnce(u)'
  <2>1. (Held(jobs', u) => Held(jobs, u)) /\ HeldOnce(jobs', u)
    BY <1>1, <1>2, <1>4, HeldAppended DEF Publish
  <2>2. KeepsHolders(u)
    BY <1>2, <1>4, <2>1 DEF KeepsHolders, PromptAtWorker, Publish
  <2> QED
    BY <1>3, <1>4, <2>2, HoldersKept DEF PromptsOnce
<1>5. PromptOnce(r)'
  <2>1. CASE chanOpen
    <3>1. HeldOnce(jobs', r)
      BY <1>1, <1>2, <2>1, HeldAppended DEF Publish
    <3>2. HoldsOnlyIn(r, "job")
      BY <1>2, <3>1 DEF HoldsOnlyIn, PromptAtWorker, Publish
    <3> QED
      BY <2>1, <3>2, OnlyHolder DEF Places
  <2>2. CASE ~chanOpen
    <3>1. \A p \in Places : ~HeldIn(r, p)'
      BY <2>2 DEF HeldIn, Publish, PromptAtWorker
    <3>2. ~PromptPending(r)'
      BY <3>1 DEF PromptPending, HeldIn, Places, Held
    <3> QED
      BY <1>2, <2>2, <3>1, <3>2 DEF PromptOnce, OneHolder, Publish
  <2> QED
    BY <2>1, <2>2
<1> QED
  BY <1>3, <1>4, <1>5 DEF PromptsOnce

\* Handler steps publish the row of their call, and hold no other.
LEMMA HandlerOnce ==
  ASSUME PipelineInv, PromptsOnce, NEW c \in Callers,
         CallStep(c) \/ SegmentPutFails(c) \/ FilePutFails(c),
         UNCHANGED <<worker, consumer>>
  PROVE  PromptsOnce' /\ RowMoves
<1> USE DataAssumption
<1>1. /\ ApiTypeOK /\ call \in [Callers -> {IdleCall} \cup Calls]
      /\ jobs \in Seq(Jobs)
  BY DEF PipelineInv, TypeOK, DataTypeOK, ApiTypeOK
<1>2. call' = [call EXCEPT ![c] = call'[c]] /\ call'[c].at # "prompt_publish"
  <2>1. PICK x : /\ call' = [call EXCEPT ![c] = x] /\ call'[c] = x
                 /\ x.at # "prompt_publish"
    BY <1>1, HandlerCall DEF IdleCall
  <2> QED
    BY <2>1
<1>3. \A r \in ResultIds : \A d \in Callers : PromptCall(r, d)' => PromptCall(r, d) /\ d # c
  BY <1>1, <1>2, CallsKept
<1>4. CASE PromptPublish(c)
  <2>1. PICK r \in ResultIds, j \in {PromptJob(call[c].ses, call[c].row)} :
          r = call[c].row /\ j.row = r /\ Publish(j) /\ PromptCall(r, c)
    BY <1>1, <1>4, CallKinds DEF PromptPublish, At, PromptCalls, PromptJob, PromptCall
  <2>2. IF chanOpen THEN UNCHANGED promptResult ELSE UpdatePromptResult(r, "failed")
    BY <1>4, <2>1 DEF PromptPublish
  <2>3. HeldIn(r, "call") /\ PromptOnce(r)
    BY <2>1 DEF HeldIn, PromptsOnce
  <2>4. /\ promptResult[r].state \in {"queued", "deleted"}
        /\ ~PromptInHand(r) /\ ~PromptAtWorker(r) /\ ~Held(jobs, r) /\ ~Held(results, r)
        /\ \A d \in Callers : PromptCall(r, d) => d = c
    BY <2>1, <2>3, HeldHere DEF Places
  <2>5. /\ \A d \in Callers : ~PromptCall(r, d)'
        /\ \A u \in ResultIds : PromptInHand(u)' => PromptInHand(u)
    BY <1>3, <2>1, <2>4 DEF PromptInHand
  <2> QED
    BY <1>3, <2>1, <2>2, <2>4, <2>5, PublishOnce
<1>5. CASE ~PromptPublish(c)
  <2>1. UNCHANGED promptResult
    BY <1>5 DEF CallStep, BeginWrite, StopPublish, SegmentPut, SegmentUpsert, SegmentPublish,
         EndWrite, EndPublish, FilePut, FilePublish, FinishWrite, FinishPublish,
         RedoOneSegment, RedoPublish, RemoveLines, SegmentPutFails, FilePutFails
  <2>2. UNCHANGED queueVars \/ \E type, s, objs : Publish(AudioJob(type, s, objs))
    BY <1>5 DEF CallStep, BeginWrite, StopPublish, SegmentPut, SegmentUpsert, SegmentPublish,
         EndWrite, EndPublish, FilePut, FilePublish, FinishWrite, FinishPublish,
         RedoOneSegment, RedoPublish, RemoveLines, SegmentPutFails, FilePutFails
  <2>3. /\ results' = results
        /\ jobs' = jobs \/ \E j : jobs' = Append(jobs, j) /\ j.row = None
    <3>1. CASE UNCHANGED queueVars
      BY <3>1 DEF queueVars
    <3>2. CASE \E type, s, objs : Publish(AudioJob(type, s, objs))
      <4>1. PICK j : Publish(j) /\ j.row = None
        BY <3>2 DEF AudioJob
      <4> QED
        BY <4>1 DEF Publish
    <3> QED
      BY <2>2, <3>1, <3>2
  <2>4. ASSUME NEW r \in ResultIds
        PROVE  PromptOnce(r)'
    <3>1. HeldOnce(jobs, r) /\ HeldOnce(results, r) /\ PromptOnce(r)
      BY DEF PromptsOnce, PromptOnce, OneHolder
    <3>2. (Held(jobs', r) => Held(jobs, r)) /\ HeldOnce(jobs', r)
      <4>1. CASE jobs' = jobs
        BY <3>1, <4>1
      <4>2. ASSUME NEW j, jobs' = Append(jobs, j), j.row = None
            PROVE  (Held(jobs', r) => Held(jobs, r)) /\ HeldOnce(jobs', r)
        BY <1>1, <3>1, <4>2, HeldAppended
      <4> QED
        BY <2>3, <4>1, <4>2
    <3>3. KeepsHolders(r)
      BY <1>3, <2>3, <3>1, <3>2 DEF KeepsHolders, PromptInHand, PromptAtWorker
    <3> QED
      BY <2>1, <3>1, <3>3, HoldersKept
  <2> QED
    BY <2>1, <2>4 DEF PromptsOnce, RowMoves
<1> QED
  BY <1>4, <1>5

\* The worker takes a job off the queue, answers it once and forgets it.
LEMMA WorkOnce ==
  ASSUME PipelineInv, PromptsOnce, Work
  PROVE  PromptsOnce' /\ RowMoves
<1> USE DataAssumption
<1>1. /\ jobs \in Seq(Jobs) /\ results \in Seq(Results)
      /\ worker # IdleWorker => worker \in [at : {"busy", "replied"}, job : Jobs]
  BY DEF PipelineInv, TypeOK, DataTypeOK, WorkerTypeOK
<1>2. UNCHANGED <<promptResult, call, consumer>>
  BY DEF Work, apiVars
<1> SUFFICES ASSUME NEW r \in ResultIds
             PROVE  PromptOnce(r)'
  BY <1>2 DEF PromptsOnce, RowMoves
<1>3. PromptOnce(r) /\ HeldOnce(jobs, r) /\ HeldOnce(results, r)
  BY DEF PromptsOnce, PromptOnce, OneHolder
<1>4. CASE WorkerTake
  <2>1. /\ jobs # <<>> /\ jobs' = Tail(jobs) /\ results' = results
        /\ worker = IdleWorker
        /\ worker'.at = "busy" /\ worker'.job = Head(jobs)
    BY <1>4 DEF WorkerTake
  <2>2. /\ Held(jobs', r) => Held(jobs, r) /\ Head(jobs).row # r
        /\ Head(jobs).row = r => Held(jobs, r)
        /\ HeldOnce(jobs', r)
    BY <1>1, <1>3, <2>1, HeldInTail
  <2>3. CASE Head(jobs).row = r
    <3>1. HeldIn(r, "job")
      BY <2>2, <2>3 DEF HeldIn
    <3>2. HoldsOnlyIn(r, "worker")
      BY <1>2, <1>3, <2>1, <2>2, <2>3, <3>1, HeldHere
         DEF HoldsOnlyIn, Places, PromptCall, PromptInHand
    <3> QED
      BY <1>2, <1>3, <3>1, <3>2, HeldHere, OnlyHolder DEF Places
  <2>4. CASE Head(jobs).row # r
    <3>1. KeepsHolders(r)
      BY <1>2, <1>3, <2>1, <2>2, <2>4
         DEF KeepsHolders, PromptCall, PromptInHand, PromptAtWorker
    <3> QED
      BY <1>2, <1>3, <3>1, HoldersKept
  <2> QED
    BY <2>3, <2>4
<1>5. CASE WorkerReply
  <2>1. /\ worker # IdleWorker /\ worker.job \in Jobs /\ worker.at = "busy"
        /\ worker'.at = "replied" /\ jobs' = jobs
    BY <1>1, <1>5, ReplyTyped DEF WorkerReply, IdleWorker, queueVars
  <2>2. results' = results \/ \E x : results' = Append(results, x) /\ x.row \in {None, worker.job.row}
    <3> DEFINE answered == \/ results' = results
                           \/ \E x : results' = Append(results, x) /\ x.row \in {None, worker.job.row}
    <3>1. \A x : Reply(x) /\ x.row \in {None, worker.job.row} => answered
      BY DEF Reply
    <3>2. NoReply => answered
      BY DEF NoReply, queueVars
    <3> HIDE DEF answered
    <3>3. ASSUME HandleSegmentReady(worker.job) PROVE answered
      BY <3>1, <3>2, <3>3 DEF HandleSegmentReady
    <3>4. ASSUME HandleUploadReady(worker.job) PROVE answered
      BY <3>1, <3>2, <3>4 DEF HandleUploadReady
    <3>5. ASSUME HandleBatch(worker.job) PROVE answered
      BY <3>1, <3>5 DEF HandleBatch
    <3>6. ASSUME HandlePromptApply(worker.job) PROVE answered
      BY <3>1, <3>6 DEF HandlePromptApply
    <3>7. answered
      BY <1>5, <3>3, <3>4, <3>5, <3>6 DEF WorkerReply
    <3> QED
      BY <3>7 DEF answered
  <2>3. CASE worker.job.row = r
    <3>1. HeldIn(r, "worker")
      BY <2>1, <2>3 DEF HeldIn, PromptAtWorker
    <3>2. HeldOnce(results', r)
      <4>1. ~Held(results, r)
        BY <1>3, <3>1, HeldHere DEF Places
      <4>2. ASSUME NEW x, results' = Append(results, x)
            PROVE  HeldOnce(results', r)
        BY <1>1, <1>3, <4>1, <4>2, HeldAppended
      <4> QED
        BY <1>3, <2>2, <4>2
    <3>3. HoldsOnlyIn(r, "result")
      BY <1>2, <1>3, <2>1, <3>1, <3>2, HeldHere
         DEF HoldsOnlyIn, Places, PromptCall, PromptInHand, PromptAtWorker
    <3>4. promptResult'[r].state \in {"queued", "deleted"}
      BY <1>2, <1>3, <3>1, HeldHere DEF Places
    <3> QED
      BY <3>3, <3>4, OnlyHolder DEF Places
  <2>4. CASE worker.job.row # r
    <3>1. (Held(results', r) => Held(results, r)) /\ HeldOnce(results', r)
      <4>1. ASSUME NEW x, results' = Append(results, x), x.row # r
            PROVE  (Held(results', r) => Held(results, r)) /\ HeldOnce(results', r)
        BY <1>1, <1>3, <4>1, HeldAppended
      <4> QED
        BY <1>3, <2>2, <2>4, <4>1
    <3>2. KeepsHolders(r)
      BY <1>2, <1>3, <2>1, <3>1 DEF KeepsHolders, PromptCall, PromptInHand, PromptAtWorker
    <3> QED
      BY <1>2, <1>3, <3>2, HoldersKept
  <2> QED
    BY <2>3, <2>4
<1>6. CASE WorkerAck
  <2>1. KeepsHolders(r)
    BY <1>2, <1>3, <1>6 DEF KeepsHolders, WorkerAck, queueVars, PromptCall, PromptInHand,
                            PromptAtWorker, IdleWorker
  <2> QED
    BY <1>2, <1>3, <2>1, HoldersKept
<1> QED
  BY <1>4, <1>5, <1>6 DEF Work, WorkerStep

\* The consumer gives a row its verdict when it takes the answer about it off
\* the queue, and publishes the rows it makes.
LEMMA ConsumeOnce ==
  ASSUME PipelineInv, PromptsOnce, Consume
  PROVE  PromptsOnce' /\ RowMoves
<1> USE DataAssumption
<1>1. /\ jobs \in Seq(Jobs) /\ results \in Seq(Results) /\ ConsumerTypeOK
      /\ promptResult \in [ResultIds -> PromptRow]
  BY DEF PipelineInv, TypeOK, DataTypeOK
<1>2. UNCHANGED <<call, worker>>
  BY DEF Consume, apiVars
<1>3. \A r \in ResultIds : PromptOnce(r) /\ HeldOnce(jobs, r) /\ HeldOnce(results, r)
  BY DEF PromptsOnce, PromptOnce, OneHolder
<1>4. ASSUME NEW r \in ResultIds, jobs' = jobs, PromptInHand(r)' => PromptInHand(r),
             \/ results' = results
             \/ results # <<>> /\ results' = Tail(results)
      PROVE  KeepsHolders(r)
  <2>1. (Held(results', r) => Held(results, r)) /\ HeldOnce(results', r)
    <3>1. HeldOnce(results, r)
      BY <1>3
    <3>2. CASE results' = results
      BY <3>1, <3>2
    <3>3. CASE results # <<>> /\ results' = Tail(results)
      BY <1>1, <3>1, <3>3, HeldInTail
    <3> QED
      BY <1>4, <3>2, <3>3
  <2> QED
    BY <1>2, <1>3, <1>4, <2>1 DEF KeepsHolders, PromptCall, PromptAtWorker
<1>5. CASE HandleSegmentTranscription \/ HandleSessionTranscription \/ SaveLines
  <2>1. /\ UNCHANGED <<promptResult, jobs>>
        /\ results' = results \/ (results # <<>> /\ results' = Tail(results))
    BY <1>5 DEF HandleSegmentTranscription, HandleSessionTranscription, SaveLines, Receive,
                queueVars
  <2>2. \A r \in ResultIds : PromptInHand(r)' => PromptInHand(r)
    <3>1. CASE HandleSegmentTranscription \/ HandleSessionTranscription
      BY <3>1 DEF HandleSegmentTranscription, HandleSessionTranscription, PromptInHand
    <3>2. CASE SaveLines
      <4>1. consumer \in [at : {"lines", "prompt"}, res : SessionResults, row : {None}]
        BY <1>1, <3>2 DEF SaveLines, ConsumerTypeOK, IdleConsumer
      <4>2. consumer'.at = "prompt"
        BY <3>2, <4>1 DEF SaveLines
      <4> QED
        BY <4>2 DEF PromptInHand
    <3> QED
      BY <1>5, <3>1, <3>2
  <2> QED
    BY <1>3, <1>4, <2>1, <2>2, HoldersKept DEF PromptsOnce, RowMoves
<1>6. CASE QueuePurposePrompt
  <2>1. jobs' = jobs /\ results' = results /\ consumer.at = "prompt"
    BY <1>6 DEF QueuePurposePrompt, queueVars
  <2>2. CASE UNCHANGED promptResult /\ consumer' = IdleConsumer
    BY <1>3, <1>4, <2>1, <2>2, HoldersKept
       DEF PromptsOnce, RowMoves, PromptInHand, IdleConsumer
  <2>3. CASE \E r \in ResultIds : /\ CreatePromptResult(r, consumer.res.ses)
                                  /\ consumer' = [consumer EXCEPT !.at = "publish", !.row = r]
    <3>1. PICK r \in ResultIds : /\ CreatePromptResult(r, consumer.res.ses)
                                 /\ consumer' = [consumer EXCEPT !.at = "publish", !.row = r]
      BY <2>3
    <3> DEFINE row == [state |-> "queued", ses |-> consumer.res.ses]
    <3>2. /\ consumer \in [at : {"lines", "prompt"}, res : SessionResults, row : {None}]
          /\ consumer'.at = "publish" /\ consumer'.row = r
      <4>1. consumer \in [at : {"lines", "prompt"}, res : SessionResults, row : {None}]
        BY <1>1, <2>1 DEF ConsumerTypeOK, IdleConsumer
      <4> QED
        BY <3>1, <4>1
    <3>3. consumer.res.ses \in Sessions
      BY <3>2 DEF SessionResults
    <3>4. /\ promptResult[r].state = "absent" /\ row \in PromptRow /\ row.state = "queued"
          /\ promptResult' = [promptResult EXCEPT ![r] = row]
      BY <3>1, <3>3 DEF CreatePromptResult, PromptRow, PromptStatuses
    <3> HIDE DEF row
    <3>5. ASSUME NEW u \in ResultIds, u # r
          PROVE  PromptOnce(u)'
      <4>1. KeepsHolders(u)
        BY <1>4, <2>1, <3>2, <3>5 DEF PromptInHand
      <4>2. promptResult'[u].state = promptResult[u].state
        BY <1>1, <3>4, <3>5
      <4> QED
        BY <1>3, <4>1, <4>2, HoldersKept
    <3>6. PromptOnce(r)'
      <4>1. /\ \A c \in Callers : ~PromptCall(r, c)
            /\ ~PromptAtWorker(r) /\ ~Held(jobs, r) /\ ~Held(results, r)
        BY <1>3, <3>4 DEF PromptOnce, PromptPending, Held
      <4>2. HoldsOnlyIn(r, "hand")
        BY <1>2, <1>3, <2>1, <4>1 DEF HoldsOnlyIn, PromptCall, PromptAtWorker
      <4> QED
        BY <1>1, <3>4, <4>2, OnlyHolder DEF Places
    <3> QED
      BY <3>4, <3>5, <3>6 DEF PromptsOnce, RowMoves, MayMove
  <2> QED
    BY <1>6, <2>2, <2>3 DEF QueuePurposePrompt
<1>7. CASE PublishPurposePrompt
  <2>1. PICK r \in ResultIds, j \in {PromptJob(consumer.res.ses, consumer.row)} :
          r = consumer.row /\ j.row = r /\ Publish(j) /\ PromptInHand(r)
    <3>1. consumer.at = "publish" /\ consumer.row \in ResultIds
      BY <1>1, <1>7 DEF PublishPurposePrompt, ConsumerTypeOK, IdleConsumer
    <3> QED
      BY <1>7, <3>1 DEF PublishPurposePrompt, PromptJob, PromptInHand
  <2>2. /\ IF chanOpen THEN UNCHANGED promptResult ELSE UpdatePromptResult(r, "failed")
        /\ consumer' = IdleConsumer
    BY <1>7, <2>1 DEF PublishPurposePrompt
  <2>3. HeldIn(r, "hand")
    BY <2>1 DEF HeldIn
  <2>4. /\ promptResult[r].state \in {"queued", "deleted"}
        /\ \A c \in Callers : ~PromptCall(r, c)
        /\ ~PromptAtWorker(r) /\ ~Held(jobs, r) /\ ~Held(results, r)
    BY <1>3, <2>3, HeldHere DEF Places
  <2>5. /\ \A u \in ResultIds : ~PromptInHand(u)'
        /\ \A u \in ResultIds, c \in Callers : PromptCall(u, c)' <=> PromptCall(u, c)
    BY <1>2, <2>2 DEF PromptInHand, PromptCall, IdleConsumer
  <2> QED
    BY <1>2, <2>1, <2>2, <2>4, <2>5, PublishOnce
<1>8. CASE HandlePromptApplied
  <2>1. PICK r \in ResultIds, st \in {"completed", "failed"} :
          /\ r = Head(results).row /\ UpdatePromptResult(r, st)
    <3>1. Head(results) \in PromptReplies
      BY <1>1, <1>8, ResultKinds DEF HandlePromptApplied, Receive
    <3> QED
      BY <1>8, <3>1 DEF HandlePromptApplied, PromptReplies
  <2>2. /\ results # <<>> /\ results' = Tail(results) /\ jobs' = jobs
        /\ UNCHANGED consumer
    BY <1>8 DEF HandlePromptApplied, Receive
  <2>3. /\ HeldIn(r, "result") /\ ~Held(results', r) /\ HeldOnce(results', r)
    BY <1>1, <1>3, <2>1, <2>2, HeldInTail DEF HeldIn
  <2>4. /\ promptResult[r].state \in {"queued", "deleted"}
        /\ \A c \in Callers : ~PromptCall(r, c)
        /\ ~PromptInHand(r) /\ ~PromptAtWorker(r) /\ ~Held(jobs, r)
    BY <1>3, <2>3, HeldHere DEF Places
  <2>5. RowMoves /\ \A u \in ResultIds : u # r => promptResult'[u] = promptResult[u]
    BY <1>1, <2>1, <2>4, PublishFails
  <2>6. ASSUME NEW u \in ResultIds, u # r
        PROVE  PromptOnce(u)'
    <3>1. KeepsHolders(u)
      BY <1>4, <2>2 DEF PromptInHand
    <3> QED
      BY <1>3, <2>5, <2>6, <3>1, HoldersKept
  <2>7. PromptOnce(r)'
    <3>1. \A p \in Places : ~HeldIn(r, p)'
      BY <1>2, <2>2, <2>3, <2>4 DEF HeldIn, PromptCall, PromptInHand, PromptAtWorker
    <3>2. ~PromptPending(r)'
      BY <3>1 DEF PromptPending, HeldIn, Places, Held
    <3>3. \A c \in Callers : ~PromptCall(r, c)'
      BY <1>2, <2>4 DEF PromptCall
    <3> QED
      BY <1>3, <2>2, <2>3, <3>1, <3>2, <3>3 DEF PromptOnce, OneHolder
  <2> QED
    BY <2>5, <2>6, <2>7 DEF PromptsOnce
<1> QED
  BY <1>5, <1>6, <1>7, <1>8 DEF Consume, ConsumerStep

\* The server's and the broker's faults only lose what holds a row.
LEMMA FaultOnce ==
  ASSUME PipelineInv, PromptsOnce, ServerCrash \/ ChannelClose \/ BrokerRestart
  PROVE  PromptsOnce' /\ RowMoves
<1>1. jobs \in Seq(Jobs) /\ results \in Seq(Results)
  BY DEF PipelineInv, TypeOK, DataTypeOK
<1>2. UNCHANGED promptResult
  BY DEF ServerCrash, ChannelClose, BrokerRestart
<1>3. ASSUME NEW r \in ResultIds
      PROVE  PromptOnce(r)'
  <2>1. PromptOnce(r) /\ HeldOnce(jobs, r) /\ HeldOnce(results, r)
    BY DEF PromptsOnce, PromptOnce, OneHolder
  <2>3. ~Held(<<>>, r) /\ HeldOnce(<<>>, r)
    BY DEF Held, HeldOnce
  <2>4. LoseDelivered => (Held(results', r) => Held(results, r)) /\ HeldOnce(results', r)
    BY <1>1, <2>1, HeldInRest DEF LoseDelivered
  <2>5. /\ (Held(jobs', r) => Held(jobs, r)) /\ HeldOnce(jobs', r)
        /\ (Held(results', r) => Held(results, r)) /\ HeldOnce(results', r)
    BY <2>1, <2>3, <2>4 DEF ServerCrash, ChannelClose, BrokerRestart
  <2>6. /\ \A c \in Callers : PromptCall(r, c)' => PromptCall(r, c)
        /\ PromptInHand(r)' => PromptInHand(r)
        /\ PromptAtWorker(r)' => PromptAtWorker(r)
    BY DEF ServerCrash, ChannelClose, BrokerRestart, apiVars, PromptCall, PromptInHand,
           PromptAtWorker, IdleCall, IdleConsumer, IdleWorker
  <2> QED
    BY <1>2, <2>1, <2>5, <2>6, HoldersKept DEF KeepsHolders
<1> QED
  BY <1>2, <1>3 DEF PromptsOnce, RowMoves

LEMMA NextOnce ==
  ASSUME "worker_loss" \notin Faults, PipelineInv, PromptsOnce, [Next]_vars
  PROVE  PromptsOnce' /\ RowMoves
<1>1. CASE UserStep
  BY <1>1, RequestOnce DEF UserStep, Callers
<1>2. CASE StoreFails \/ \E c \in Callers : HandlerStep(c)
  BY <1>2, HandlerOnce DEF StoreFails, HandlerStep, Callers
<1>3. CASE Work
  BY <1>3, WorkOnce
<1>4. CASE Consume
  BY <1>4, ConsumeOnce
<1>5. ~LoseWorker
  BY DEF LoseWorker, ConnectionLost, Fault
<1>6. CASE ServerCrash \/ ChannelClose \/ BrokerRestart
  BY <1>6, FaultOnce
<1>7. CASE UNCHANGED vars
  <2>1. UNCHANGED <<promptResult, jobs, results, call, worker, consumer>>
    BY <1>7 DEF vars, queueVars, apiVars
  <2>2. ASSUME NEW r \in ResultIds
        PROVE  KeepsHolders(r) /\ PromptOnce(r)
    BY <2>1 DEF KeepsHolders, PromptsOnce, PromptOnce, OneHolder, PromptCall, PromptInHand,
                PromptAtWorker
  <2> QED
    BY <2>1, <2>2, HoldersKept DEF PromptsOnce, RowMoves
<1> QED
  BY <1>1, <1>2, <1>3, <1>4, <1>5, <1>6, <1>7 DEF Next

\* Every row of a prompt result is queued once and settled at most once, before
\* or without its deletion, whatever the server, the broker and the object store
\* do: the pipeline implements PromptLifecycle as long as no worker connection
\* is lost between an answer and its acknowledgement.
THEOREM PromptsFollow ==
  ASSUME "worker_loss" \notin Faults
  PROVE  Spec => PromptsFollowLifecycle
<1>1. Init => PromptsOnce /\ Lifecycle!Init
  <2> SUFFICES ASSUME Init
               PROVE  PromptsOnce /\ Lifecycle!Init
    OBVIOUS
  <2>1. /\ jobs = <<>> /\ results = <<>> /\ worker = IdleWorker /\ consumer = IdleConsumer
        /\ call = [c \in Callers |-> IdleCall]
        /\ promptResult = [r \in ResultIds |-> [state |-> "absent", ses |-> None]]
    BY DEF Init, DataInit, ApiInit, WorkerInit, ConsumerInit
  <2>2. ASSUME NEW r \in ResultIds
        PROVE  PromptOnce(r)
    <3>1. \A p \in Places : ~HeldIn(r, p)
      BY <2>1 DEF HeldIn, Held, PromptCall, PromptInHand, PromptAtWorker, IdleCall,
                  IdleConsumer, IdleWorker
    <3> QED
      BY <2>1, <3>1, PendingIsHeld DEF PromptOnce, OneHolder, HeldOnce, PromptCall, IdleCall
  <2>3. Lifecycle!Init
    BY <2>1 DEF Lifecycle!Init
  <2> QED
    BY <2>2, <2>3 DEF PromptsOnce
<1>2. PipelineInv /\ PromptsOnce /\ [Next]_vars
        => PromptsOnce' /\ [Lifecycle!Next]_States
  <2> SUFFICES ASSUME PipelineInv, PromptsOnce, [Next]_vars
               PROVE  PromptsOnce' /\ [Lifecycle!Next]_States
    OBVIOUS
  <2>1. promptResult \in [ResultIds -> PromptRow]
    BY DEF PipelineInv, TypeOK, DataTypeOK
  <2> QED
    BY <2>1, NextOnce, MovesRefine
<1> QED
  BY <1>1, <1>2, PipelineInvariant, PTL
     DEF Spec, PromptsFollowLifecycle, Lifecycle!Spec, States
==============================================================================
