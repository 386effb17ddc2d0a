--------------------------- MODULE TranscriptLines ---------------------------
(***************************************************************************)
(* From the audio of a session to the lines of its transcript: the loop of *)
(* the worker over a batch (handle_batch of gpu/main.py), in which any     *)
(* segment may fail or be silent, and the loop of the server over the      *)
(* answer (buildTranscriptLines), which gives the speakers their labels.   *)
(* TranscriptionPipeline shows how such passes interleave; this module     *)
(* follows one pass, and keeps what that one abstracts: order, stamps and  *)
(* labels.  What an answer does besides (the status, prompts) is there.    *)
(*                                                                         *)
(* A text is the number of the segment it was heard in, a label its        *)
(* number, and no label is 0.                                              *)
(***************************************************************************)
EXTENDS Integers, Sequences

CONSTANTS
  Users,        \* participants
  Times,        \* started_at_ms and ended_at_ms, by the clocks of the browsers
  MaxSegments,  \* bound: segments in a batch, and of an uploaded file
  None

ASSUME LinesAssumption ==
  /\ Times \subseteq Nat
  /\ MaxSegments \in Nat
  /\ None \notin Users

VARIABLES
  at,            \* "queued", "batch", "answered", "building" or "saved"
  job,           \* the message: its type and its segments, as the rows are listed
  order,         \* segment_infos: the segments sorted by started_at_ms
  base,
  next,          \* how far the loop over segment_infos is
  segments,      \* of the answer
  parts,         \* transcript_parts
  speakerOrder,  \* the label given to a speaker
  nextLabel,
  built,         \* the lines made so far
  transcription, \* sessions.transcription
  lines          \* transcript_lines of the session

workerVars == <<job, order, base, next, segments, parts>>
serverVars == <<speakerOrder, nextLabel, built, transcription, lines>>
vars == <<at, workerVars, serverVars>>

\* The server takes no segment that starts at zero or ends before it starts.
Infos ==
  {info \in [user : Users, started : Times, ended : Times] :
     0 < info.started /\ info.started < info.ended}

Speakers == Users \cup {None}
Entries  == [start_ms : Nat, end_ms : Nat, text : Nat, speaker : Speakers]
Lines    == [sequence : Nat, start_ms : Nat, end_ms : Nat, text : Nat,
             speaker : Nat]
UpTo(S)  == UNION {[1 .. n -> S] : n \in 0 .. MaxSegments}

TypeOK ==
  /\ at \in {"queued", "batch", "answered", "building", "saved"}
  /\ job \in [type : {"recording_ready", "upload_finalize", "upload_ready"},
              segments : Seq(Infos)]
  /\ order \in [DOMAIN job.segments -> DOMAIN job.segments]
  /\ base \in Nat
  /\ next \in 1 .. Len(job.segments) + 1
  /\ segments \in Seq(Entries)
  /\ parts \in Seq(Nat)
  /\ speakerOrder \in [Users -> Nat]
  /\ nextLabel \in Nat
  /\ built \in Seq(Lines)
  /\ transcription \in Seq(Nat)
  /\ lines \in Seq(Lines)

Init ==
  /\ at = "queued"
  /\ job \in [type : {"recording_ready", "upload_finalize"},
              segments : UpTo(Infos)]
        \cup [type : {"upload_ready"}, segments : {<<>>}]
  /\ order = [k \in DOMAIN job.segments |-> k]
  /\ base = 0 /\ next = 1 /\ segments = <<>> /\ parts = <<>>
  /\ speakerOrder = [u \in Users |-> 0] /\ nextLabel = 1 /\ built = <<>>
  /\ transcription = <<>> /\ lines = <<>>

-----------------------------------------------------------------------------
\* The worker.
Larger(a, b) == IF a >= b THEN a ELSE b

\* sorted() keeps segments that start together in the order they came in.
Before(batch, i, j) ==
  \/ batch[i].started < batch[j].started
  \/ batch[i].started = batch[j].started /\ i < j

Sorted(batch) ==
  {o \in [DOMAIN batch -> DOMAIN batch] :
     \A a, b \in DOMAIN batch : a < b => Before(batch, o[a], o[b])}

\* The first stamp above zero, and zero without one.
Starts(batch) == {batch[k].started : k \in DOMAIN batch} \ {0}
Bases(batch) ==
  IF Starts(batch) = {} THEN {0}
  ELSE {b \in Starts(batch) : \A s \in Starts(batch) : b <= s}

\* Mutation of TakeBatch: the segments are worked on as they are listed.
TakeBatchUnsorted ==
  /\ at = "queued" /\ job.type # "upload_ready" /\ at' = "batch"
  /\ IF job.type = "recording_ready" THEN base' \in Bases(job.segments)
                                     ELSE base' = base
  /\ UNCHANGED <<order, job, next, segments, parts, serverVars>>

TakeBatch ==
  /\ at = "queued" /\ job.type # "upload_ready" /\ at' = "batch"
  /\ order' \in Sorted(job.segments)
  /\ IF job.type = "recording_ready" THEN base' \in Bases(job.segments)
                                     ELSE base' = base
  /\ UNCHANGED <<job, next, segments, parts, serverVars>>

StartMs(info) ==
  IF job.type = "recording_ready" THEN Larger(0, info.started - base)
                                  ELSE info.started
EndMs(info) ==
  IF job.type = "recording_ready" THEN Larger(StartMs(info), info.ended - base)
                                  ELSE info.ended

Entry(k) == [start_ms |-> StartMs(job.segments[k]),
             end_ms   |-> EndMs(job.segments[k]),
             text     |-> k,
             speaker  |-> job.segments[k].user]

\* Mutation of Heard: the text is kept before it is seen to be blank.
HeardBlank(outcome) ==
  /\ segments' = IF outcome = "text" THEN Append(segments, Entry(order[next]))
                                     ELSE segments
  /\ parts' = IF outcome # "failed" THEN Append(parts, order[next]) ELSE parts

Heard(outcome) ==
  IF outcome = "text"
  THEN /\ segments' = Append(segments, Entry(order[next]))
       /\ parts' = Append(parts, order[next])
  ELSE UNCHANGED <<segments, parts>>

\* One turn of the loop: the segment fails, is blank, or says something.
Transcribe ==
  /\ at = "batch" /\ next <= Len(job.segments)
  /\ next' = next + 1
  /\ \E outcome \in {"failed", "blank", "text"} : Heard(outcome)
  /\ UNCHANGED <<at, job, order, base, serverVars>>

Publish ==
  /\ at = "batch" /\ next > Len(job.segments) /\ at' = "answered"
  /\ UNCHANGED <<workerVars, serverVars>>

\* What a transcriber makes of a file: its text, with or without segments.
FileSegments ==
  UNION {{[k \in 1 .. n |-> [start_ms |-> t[k], end_ms |-> t[k], text |-> k,
                             speaker |-> None]] : t \in [1 .. n -> Times]} :
           n \in 0 .. MaxSegments}

\* handle_upload_ready; one that raises is acknowledged without an answer.
TranscribeUpload ==
  /\ at = "queued" /\ job.type = "upload_ready" /\ at' = "answered"
  /\ segments' \in FileSegments
  /\ parts' \in {<<>>, <<1>>}
  /\ UNCHANGED <<job, order, base, next, serverVars>>

-----------------------------------------------------------------------------
\* The consumer of the server.
\* The text is stored first, and without segments the lines stay.
SaveTranscription ==
  /\ at = "answered"
  /\ transcription' = parts
  /\ at' = IF segments = <<>> THEN "saved" ELSE "building"
  /\ UNCHANGED <<workerVars, speakerOrder, nextLabel, built, lines>>

\* Mutation of Labelled: a label for every line, not for every speaker.
LabelledAnew(raw) ==
  /\ speakerOrder' = [speakerOrder EXCEPT ![raw] = nextLabel]
  /\ nextLabel' = nextLabel + 1

\* A speaker not met before gets the next label.
Labelled(raw) ==
  IF speakerOrder[raw] # 0
  THEN UNCHANGED <<speakerOrder, nextLabel>>
  ELSE /\ speakerOrder' = [speakerOrder EXCEPT ![raw] = nextLabel]
       /\ nextLabel' = nextLabel + 1

\* The line of one entry of the answer.
Line(seg, number, label) ==
  [sequence |-> number, start_ms |-> seg.start_ms, end_ms |-> seg.end_ms,
   text |-> seg.text, speaker |-> label]

\* One turn of the loop of buildTranscriptLines.
BuildLine ==
  /\ at = "building" /\ Len(built) < Len(segments)
  /\ LET number == Len(built) + 1
         seg    == segments[number]
     IN  IF seg.speaker = None
         THEN /\ built' = Append(built, Line(seg, number, 0))
              /\ UNCHANGED <<speakerOrder, nextLabel>>
         ELSE /\ Labelled(seg.speaker)
              /\ built' = Append(built, Line(seg, number,
                                             speakerOrder'[seg.speaker]))
  /\ UNCHANGED <<at, workerVars, transcription, lines>>

SaveTranscriptLines ==
  /\ at = "building" /\ Len(built) = Len(segments) /\ at' = "saved"
  /\ lines' = built
  /\ UNCHANGED <<workerVars, speakerOrder, nextLabel, built, transcription>>

Next ==
  \/ TakeBatch \/ Transcribe \/ Publish \/ TranscribeUpload
  \/ SaveTranscription \/ BuildLine \/ SaveTranscriptLines

Spec == Init /\ [][Next]_vars

-----------------------------------------------------------------------------
IsBatch == job.type # "upload_ready"

\* handle_batch: lines follow each other in time, although the segments of
\* several participants are listed one after another; they last as long as their
\* segments and lie as far apart, whichever segment before or between them failed.
LinesKeepTime ==
  IsBatch =>
    \A a, b \in DOMAIN lines :
      LET first == job.segments[lines[a].text]
          last  == job.segments[lines[b].text]
      IN  /\ a < b => lines[a].start_ms <= lines[b].start_ms
          /\ lines[a].end_ms - lines[a].start_ms = first.ended - first.started
          /\ lines[b].start_ms - lines[a].start_ms = last.started - first.started

\* buildTranscriptLines: each line of a session has the label of the participant
\* whose microphone it came from; two lines have one label exactly when they
\* came from one participant.
LabelsAreSpeakers ==
  IsBatch =>
    \A a, b \in DOMAIN lines :
      /\ lines[a].speaker # 0
      /\ lines[a].speaker = lines[b].speaker <=>
           job.segments[lines[a].text].user = job.segments[lines[b].text].user

\* handle_batch, handleSessionTranscription: the lines, which the page shows, say
\* what the text says that prompts are given: the same texts in the same order.
LinesTellTranscript ==
  at = "saved" /\ IsBatch =>
    transcription = [k \in DOMAIN lines |-> lines[k].text]
=============================================================================
