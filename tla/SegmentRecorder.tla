--------------------------- MODULE SegmentRecorder ---------------------------
(***************************************************************************)
(* The audio side of one browser tab: captures that produce chunks, the    *)
(* buffer they are collected in, and the uploads of that buffer as         *)
(* numbered segments.  SessionTab moves the tab between sessions and uses  *)
(* the operations of this module on the recorder.                          *)
(*                                                                         *)
(* A chunk stands for the audio of a moment; a segment is the set of its   *)
(* chunks, since nothing reorders them.                                    *)
(***************************************************************************)
EXTENDS Naturals, FiniteSets

CONSTANTS Sessions,  \* session ids
          Chunks,    \* the audio the tab may capture, a bound
          Captures,  \* audio captures the tab may start, a bound
          MaxSeq,    \* highest segment number, a bound
          None

ASSUME RecorderAssumption ==
  /\ MaxSeq \in Nat \ {0}
  /\ None \notin Sessions \cup Captures \cup {"unspoken"}
  /\ "unspoken" \notin Sessions

VARIABLES
  rec,      \* the segment refs: buffer, seq, flushing, timer
  cap,      \* ref: captureRef; live: running captures; paused: of those
  uploads,  \* POST segments in flight
  stored,   \* the server's segments of this user, by session and number
  spokenIn  \* history: the session of the tab when a chunk was captured

recVars == <<rec, cap, uploads, stored, spokenIn>>

Seqs == 1 .. MaxSeq

\* A segment at the server; current: its numbering has not been restarted.
NoSegment == [chunks |-> {}, current |-> FALSE]

Uploads == [session : Sessions, seq : Seqs, chunks : SUBSET Chunks,
            current : BOOLEAN, awaited : BOOLEAN,
            step : {"sent", "accepted", "refused"}]

RecorderTypeOK ==
  /\ rec \in [buffer : SUBSET Chunks, seq : 1 .. MaxSeq + 1,
              flushing : BOOLEAN, timer : BOOLEAN]
  /\ cap \in [ref : Captures \cup {None}, live : SUBSET Captures,
              paused : SUBSET Captures, used : SUBSET Captures]
  /\ uploads \subseteq Uploads
  /\ stored \in [Sessions -> [Seqs -> [chunks : SUBSET Chunks,
                                       current : BOOLEAN]]]
  /\ spokenIn \in [Chunks -> Sessions \cup {None, "unspoken"}]

EmptyRecorder == [buffer |-> {}, seq |-> 1, flushing |-> FALSE, timer |-> FALSE]

NoCapture == [ref |-> None, live |-> {}, paused |-> {}, used |-> {}]

RecorderInit ==
  /\ rec = EmptyRecorder
  /\ cap = NoCapture
  /\ uploads = {}
  /\ stored = [s \in Sessions |-> [q \in Seqs |-> NoSegment]]
  /\ spokenIn = [c \in Chunks |-> "unspoken"]

-----------------------------------------------------------------------------
\* flushSegment, on a recorder r in session sid: whether it uploads, the
\* recorder after it, and the upload it adds.

Flushes(r, sid) ==
  ~r.flushing /\ sid # None /\ r.buffer # {} /\ r.seq \in Seqs

Flushed(r, sid) == IF Flushes(r, sid) THEN [r EXCEPT !.flushing = TRUE] ELSE r

FlushUpload(r, sid, awaited) ==
  IF Flushes(r, sid)
  THEN {[session |-> sid, seq |-> r.seq, chunks |-> r.buffer,
         current |-> TRUE, awaited |-> awaited, step |-> "sent"]}
  ELSE {}

\* Mutation of Answered: a failed upload gives up its audio too.
AnsweredClears(r, accepted) ==
  [r EXCEPT !.seq = IF accepted /\ @ <= MaxSeq THEN @ + 1 ELSE @,
            !.buffer = {}, !.flushing = FALSE]

\* The continuation of flushSegment: what an answer does to the recorder,
\* whatever happened to the recorder since the upload was sent.
Answered(r, accepted) ==
  IF accepted
  THEN [r EXCEPT !.seq = IF @ > MaxSeq THEN @ ELSE @ + 1,
                 !.buffer = {}, !.flushing = FALSE]
  ELSE [r EXCEPT !.flushing = FALSE]

\* Mutation of ResetSegmentState: the buffer is kept.
ResetKeepsBuffer(r) == [EmptyRecorder EXCEPT !.buffer = r.buffer]

\* resetSegmentState: a new numbering begins, uploads in flight are not
\* recalled.
ResetSegmentState(r) == EmptyRecorder

Restarted(us) == {[u EXCEPT !.current = FALSE] : u \in us}

RestartedStore ==
  [s \in Sessions |-> [q \in Seqs |-> [stored[s][q] EXCEPT !.current = FALSE]]]

\* AudioCaptureController.stop, where it is not stopped already: its onStop
\* flushes and clears captureRef, whichever capture that refers to.
StopsCapture == cap.ref \in cap.live

Silenced(c) == [cap EXCEPT !.live = @ \ {c}, !.paused = @ \ {c}, !.ref = None]

CaptureStopped == IF StopsCapture THEN Silenced(cap.ref)
                                  ELSE [cap EXCEPT !.ref = None]

\* captureRef.current?.stop() and then resetSegmentState(), in session sid,
\* from a recorder r with the uploads us.
StopAndReset(r, us, sid) ==
  /\ cap' = CaptureStopped
  /\ rec' = ResetSegmentState(r)
  /\ uploads' = Restarted(us \cup (IF StopsCapture
                                   THEN FlushUpload(r, sid, FALSE) ELSE {}))
  /\ stored' = RestartedStore

-----------------------------------------------------------------------------
\* Steps that leave the tab's session alone.

\* processor.onaudioprocess: one more chunk, in the buffer of the tab.
Chunk(c, sid) ==
  /\ cap.live \ cap.paused # {}
  /\ spokenIn[c] = "unspoken"
  /\ spokenIn' = [spokenIn EXCEPT ![c] = sid]
  /\ rec' = [rec EXCEPT !.buffer = @ \cup {c}]
  /\ UNCHANGED <<cap, uploads, stored>>

\* The interval of startMic.
TimerFlush(sid) ==
  /\ rec.timer /\ Flushes(rec, sid)
  /\ rec' = Flushed(rec, sid)
  /\ uploads' = uploads \cup FlushUpload(rec, sid, FALSE)
  /\ UNCHANGED <<cap, stored, spokenIn>>

\* POST segments at the server: accepted while the session records, and
\* stored by its number over what was there; or it never gets there.
UploadArrives(u, accepting) ==
  /\ u \in uploads /\ u.step = "sent"
  /\ \/ /\ u.session \in accepting
        /\ stored' = [stored EXCEPT ![u.session][u.seq] =
                        [chunks |-> u.chunks, current |-> u.current]]
        /\ uploads' = (uploads \ {u}) \cup {[u EXCEPT !.step = "accepted"]}
     \/ /\ uploads' = (uploads \ {u}) \cup {[u EXCEPT !.step = "refused"]}
        /\ UNCHANGED stored
  /\ UNCHANGED <<rec, cap, spokenIn>>

\* The answer arrives, or an accepted upload's answer is lost on its way.
UploadAnswered(u) ==
  /\ u \in uploads /\ u.step # "sent" /\ ~u.awaited
  /\ \/ rec' = Answered(rec, u.step = "accepted")
     \/ rec' = Answered(rec, FALSE)
  /\ uploads' = uploads \ {u}
  /\ UNCHANGED <<cap, stored, spokenIn>>
=============================================================================
