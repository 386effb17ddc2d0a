----------------------- MODULE TranscriptLines_proofs -----------------------
(***************************************************************************)
(* The lines of a transcript, for batches of any length, any participants  *)
(* and any stamps.  The invariant follows a segment from the batch to its  *)
(* entry in the answer and on to its line.                                 *)
(***************************************************************************)
EXTENDS TranscriptLines, SequenceTheorems, TLAPS

\* From "batch" on, the worker's order and base are those of the batch.
BatchSorted ==
  at # "queued" /\ IsBatch =>
    /\ order \in Sorted(job.segments)
    /\ job.type = "recording_ready" => base \in Bases(job.segments)

\* Nothing is in the answer before the loop, nor at the server before it.
NothingEarly ==
  /\ at = "queued" => segments = <<>> /\ parts = <<>> /\ next = 1
  /\ at \in {"queued", "batch", "answered"} =>
       /\ built = <<>> /\ nextLabel = 1
       /\ \A u \in Users : speakerOrder[u] = 0
  /\ at # "saved" => lines = <<>>

\* An entry is that of a segment of the batch.
EntriesAreSegments ==
  IsBatch =>
    \A k \in DOMAIN segments :
      /\ segments[k].text \in DOMAIN job.segments
      /\ segments[k] = Entry(segments[k].text)

\* Entries follow each other, and what is still to come follows them.
EntriesInOrder ==
  IsBatch =>
    /\ \A a, b \in DOMAIN segments :
         a < b => segments[a].start_ms <= segments[b].start_ms
    /\ at = "batch" =>
         \A a \in DOMAIN segments : \A j \in DOMAIN job.segments :
           next <= j =>
             segments[a].start_ms <= StartMs(job.segments[order[j]])

\* The parts are the texts of the entries, and are stored first.
PartsAreTexts ==
  IsBatch =>
    /\ Len(parts) = Len(segments)
    /\ \A k \in DOMAIN segments : parts[k] = segments[k].text
    /\ at \in {"building", "saved"} => transcription = parts

\* Labels are given once, and each to one speaker.
LabelsApart ==
  /\ nextLabel > 0
  /\ \A u \in Users : speakerOrder[u] < nextLabel
  /\ \A u, v \in Users :
       speakerOrder[u] = speakerOrder[v] /\ speakerOrder[u] # 0 => u = v

\* A line is that of the entry in its place, under the label of its speaker.
LinesAreEntries ==
  /\ Len(built) <= Len(segments)
  /\ \A k \in DOMAIN built :
       /\ built[k].start_ms = segments[k].start_ms
       /\ built[k].end_ms = segments[k].end_ms
       /\ built[k].text = segments[k].text
       /\ segments[k].speaker \in Users =>
            /\ built[k].speaker = speakerOrder[segments[k].speaker]
            /\ built[k].speaker # 0
  /\ at = "saved" => lines = built /\ Len(built) = Len(segments)

LinesInv ==
  /\ TypeOK
  /\ BatchSorted
  /\ NothingEarly
  /\ EntriesAreSegments
  /\ EntriesInOrder
  /\ PartsAreTexts
  /\ LabelsApart
  /\ LinesAreEntries
-----------------------------------------------------------------------------
\* What is known of a segment and of its entry.
LEMMA InfoType ==
  ASSUME TypeOK, NEW k \in DOMAIN job.segments
  PROVE  /\ k \in Nat
         /\ job.segments[k].user \in Users
         /\ job.segments[k].started \in Nat /\ job.segments[k].ended \in Nat
         /\ 0 < job.segments[k].started
         /\ job.segments[k].started < job.segments[k].ended
<1>1. job.segments \in Seq(Infos)
  BY DEF TypeOK
<1>2. job.segments[k] \in Infos /\ k \in Nat
  BY <1>1
<1> QED BY <1>2, LinesAssumption DEF Infos

LEMMA EntryType ==
  ASSUME TypeOK, NEW k \in DOMAIN job.segments
  PROVE  /\ Entry(k) \in Entries
         /\ Entry(k).text = k
         /\ Entry(k).speaker = job.segments[k].user
         /\ Entry(k).start_ms = StartMs(job.segments[k])
         /\ Entry(k).end_ms = EndMs(job.segments[k])
         /\ StartMs(job.segments[k]) \in Nat
<1> DEFINE info == job.segments[k]
<1>1. /\ info.started \in Nat /\ info.ended \in Nat /\ base \in Nat
      /\ info.user \in Users /\ k \in Nat
  BY InfoType DEF TypeOK
<1> HIDE DEF info
<1>2. StartMs(info) \in Nat
  BY <1>1 DEF StartMs, Larger
<1>3. EndMs(info) \in Nat
  BY <1>1, <1>2 DEF EndMs, Larger
<1>4. Entry(k) = [start_ms |-> StartMs(info), end_ms |-> EndMs(info),
                  text |-> k, speaker |-> info.user]
  BY DEF Entry, info
<1>5. Entry(k) \in Entries
  BY <1>1, <1>2, <1>3, <1>4 DEF Entries, Speakers
<1>6. /\ Entry(k).text = k /\ Entry(k).speaker = info.user
      /\ Entry(k).start_ms = StartMs(info) /\ Entry(k).end_ms = EndMs(info)
  BY <1>4
<1> QED BY <1>2, <1>5, <1>6 DEF info

\* In a recording all stamps are rebased by the same amount.
LEMMA Rebased ==
  ASSUME TypeOK, BatchSorted, IsBatch, at # "queued",
         NEW k \in DOMAIN job.segments
  PROVE  /\ job.type = "recording_ready" =>
              /\ StartMs(job.segments[k]) = job.segments[k].started - base
              /\ EndMs(job.segments[k]) = job.segments[k].ended - base
         /\ job.type # "recording_ready" =>
              /\ StartMs(job.segments[k]) = job.segments[k].started
              /\ EndMs(job.segments[k]) = job.segments[k].ended
<1> DEFINE info == job.segments[k]
<1>1. /\ info.started \in Nat /\ info.ended \in Nat /\ base \in Nat
      /\ 0 < info.started /\ info.started < info.ended
  BY InfoType DEF TypeOK
<1>2. ASSUME job.type = "recording_ready" PROVE base <= info.started
  <2>1. base \in Bases(job.segments)
    BY <1>2 DEF BatchSorted
  <2>2. info.started \in Starts(job.segments)
    BY <1>1 DEF Starts
  <2> QED BY <2>1, <2>2 DEF Bases
<1> HIDE DEF info
<1>3. ASSUME job.type = "recording_ready"
      PROVE  /\ StartMs(info) = info.started - base
             /\ EndMs(info) = info.ended - base
  <2>1. StartMs(info) = info.started - base
    BY <1>1, <1>2, <1>3 DEF StartMs, Larger
  <2> QED BY <1>1, <1>2, <1>3, <2>1 DEF EndMs, Larger
<1>4. ASSUME job.type # "recording_ready"
      PROVE  StartMs(info) = info.started /\ EndMs(info) = info.ended
  BY <1>4 DEF StartMs, EndMs
<1> QED BY <1>3, <1>4 DEF info

-----------------------------------------------------------------------------
LEMMA InitLines == Init => LinesInv
<1> SUFFICES ASSUME Init PROVE LinesInv
  OBVIOUS
<1>1. /\ job \in [type : {"recording_ready", "upload_finalize", "upload_ready"},
                  segments : Seq(Infos)]
  <2>1. \A n \in Nat : [1 .. n -> Infos] \subseteq Seq(Infos)
    OBVIOUS
  <2>2. UpTo(Infos) \subseteq Seq(Infos)
    BY <2>1, LinesAssumption DEF UpTo
  <2>3. <<>> \in Seq(Infos)
    OBVIOUS
  <2>4. CASE job \in [type : {"recording_ready", "upload_finalize"},
                      segments : UpTo(Infos)]
    BY <2>2, <2>4
  <2>5. CASE job \in [type : {"upload_ready"}, segments : {<<>>}]
    BY <2>3, <2>5
  <2> QED BY <2>4, <2>5 DEF Init
<1>2. order \in [DOMAIN job.segments -> DOMAIN job.segments]
  BY DEF Init
<1>3. Len(job.segments) \in Nat /\ next \in 1 .. Len(job.segments) + 1
  BY <1>1 DEF Init
<1>4. speakerOrder \in [Users -> Nat] /\ \A u \in Users : speakerOrder[u] = 0
  BY DEF Init
<1>5. /\ segments \in Seq(Entries) /\ parts \in Seq(Nat) /\ built \in Seq(Lines)
      /\ transcription \in Seq(Nat) /\ lines \in Seq(Lines)
  BY DEF Init
<1>6. TypeOK
  BY <1>1, <1>2, <1>3, <1>4, <1>5 DEF Init, TypeOK
<1>7. BatchSorted /\ NothingEarly
  BY <1>4 DEF Init, BatchSorted, NothingEarly
<1>8. /\ EntriesAreSegments /\ EntriesInOrder /\ PartsAreTexts
      /\ LinesAreEntries
  BY DEF Init, EntriesAreSegments, EntriesInOrder, PartsAreTexts,
         LinesAreEntries
<1>9. LabelsApart
  <2>1. nextLabel = 1
    BY DEF Init
  <2> QED BY <1>4, <2>1 DEF LabelsApart
<1> QED BY <1>6, <1>7, <1>8, <1>9 DEF LinesInv

LEMMA TakeBatchInv ==
  ASSUME LinesInv, TakeBatch
  PROVE  LinesInv'
<1> USE DEF LinesInv
<1>1. /\ at = "queued" /\ at' = "batch" /\ IsBatch /\ IsBatch'
      /\ order' \in Sorted(job.segments)
      /\ UNCHANGED <<job, next, segments, parts, serverVars>>
      /\ segments = <<>> /\ parts = <<>> /\ lines = <<>>
  BY DEF TakeBatch, IsBatch, NothingEarly
<1>2. /\ base' \in Nat
      /\ job.type = "recording_ready" => base' \in Bases(job.segments)
  <2>1. CASE job.type = "recording_ready"
    <3>1. Starts(job.segments) \subseteq Nat
      BY InfoType DEF Starts
    <3>2. base' \in Bases(job.segments)
      BY <2>1 DEF TakeBatch
    <3> QED BY <3>1, <3>2 DEF Bases
  <2>2. CASE job.type # "recording_ready"
    BY <2>2 DEF TakeBatch, TypeOK
  <2> QED BY <2>1, <2>2
<1>3. TypeOK'
  BY <1>1, <1>2 DEF TypeOK, Sorted, serverVars
<1>4. BatchSorted' /\ NothingEarly'
  BY <1>1, <1>2 DEF BatchSorted, NothingEarly, serverVars
<1>5. EntriesAreSegments' /\ EntriesInOrder' /\ PartsAreTexts'
  BY <1>1 DEF EntriesAreSegments, EntriesInOrder, PartsAreTexts
<1>6. LabelsApart' /\ LinesAreEntries'
  BY <1>1 DEF LabelsApart, LinesAreEntries, serverVars
<1> QED BY <1>3, <1>4, <1>5, <1>6

\* A step that changes neither the batch nor the answer keeps what is known of
\* their entries.
LEMMA EntriesKept ==
  ASSUME EntriesAreSegments, EntriesInOrder,
         UNCHANGED <<job, order, base, next, segments>>,
         at' = "batch" => at = "batch"
  PROVE  EntriesAreSegments' /\ EntriesInOrder'
<1>1. IsBatch' = IsBatch
  BY DEF IsBatch
<1>2. EntriesAreSegments'
  BY <1>1 DEF EntriesAreSegments, Entry, StartMs, EndMs
<1>3. EntriesInOrder'
  BY <1>1 DEF EntriesInOrder, StartMs
<1> QED BY <1>2, <1>3

LEMMA TranscribeInv ==
  ASSUME LinesInv, Transcribe
  PROVE  LinesInv'
<1> USE DEF LinesInv
<1> DEFINE k == order[next]
           all == job.segments
<1>1. /\ at = "batch" /\ at' = "batch" /\ next' = next + 1
      /\ next <= Len(all) /\ next \in Nat /\ Len(all) \in Nat
      /\ UNCHANGED <<job, order, base, serverVars>>
      /\ IsBatch' = IsBatch
  BY DEF Transcribe, TypeOK, IsBatch
<1>2. next \in DOMAIN all /\ k \in DOMAIN all /\ next' \in 1 .. Len(all) + 1
  <2>1. next \in DOMAIN all
    BY <1>1 DEF TypeOK
  <2> QED BY <1>1, <2>1 DEF TypeOK
<1>3. /\ segments' = segments /\ parts' = parts
      \/ /\ segments' = Append(segments, Entry(k))
         /\ parts' = Append(parts, k)
  BY DEF Transcribe, Heard
<1>4. /\ Entry(k) \in Entries /\ k \in Nat
      /\ Entry(k).text = k /\ Entry(k).start_ms = StartMs(all[k])
  BY <1>2, EntryType, InfoType
<1>5. /\ segments' \in Seq(Entries) /\ parts' \in Seq(Nat)
  <2> HIDE DEF k, all
  <2>1. segments \in Seq(Entries) /\ parts \in Seq(Nat)
    BY DEF TypeOK
  <2>2. Append(segments, Entry(k)) \in Seq(Entries)
    BY <1>4, <2>1, AppendProperties
  <2>3. Append(parts, k) \in Seq(Nat)
    BY <1>4, <2>1, AppendProperties
  <2> QED BY <1>3, <2>1, <2>2, <2>3
<1>6. TypeOK'
  BY <1>1, <1>2, <1>5 DEF TypeOK, serverVars
<1>7. BatchSorted' /\ NothingEarly' /\ LabelsApart'
  BY <1>1 DEF BatchSorted, NothingEarly, LabelsApart, serverVars
<1>8. LinesAreEntries'
  <2>1. built' = <<>> /\ lines' = lines
    BY <1>1 DEF NothingEarly, serverVars
  <2>2. Len(segments') \in Nat
    BY <1>5
  <2>3. Len(built') = 0 /\ DOMAIN built' = {}
    BY <2>1
  <2>4. Len(built') <= Len(segments')
    BY <2>2, <2>3
  <2> QED BY <1>1, <2>3, <2>4 DEF LinesAreEntries
<1>9. ASSUME IsBatch
      PROVE  \A i \in DOMAIN all, j \in DOMAIN all :
               i <= j => StartMs(all[order[i]]) <= StartMs(all[order[j]])
  <2> SUFFICES ASSUME NEW i \in DOMAIN all, NEW j \in DOMAIN all, i <= j
               PROVE  StartMs(all[order[i]]) <= StartMs(all[order[j]])
    OBVIOUS
  <2>1. order[i] \in DOMAIN all /\ order[j] \in DOMAIN all
    BY DEF TypeOK
  <2>2. /\ all[order[i]].started \in Nat /\ all[order[j]].started \in Nat
        /\ base \in Nat
    BY <2>1, InfoType DEF TypeOK
  <2>3. all[order[i]].started <= all[order[j]].started
    <3>1. CASE i = j
      BY <2>2, <3>1
    <3>2. CASE i < j
      <4>1. order \in Sorted(all)
        BY <1>1, <1>9 DEF BatchSorted
      <4>2. Before(all, order[i], order[j])
        BY <3>2, <4>1 DEF Sorted
      <4> QED BY <2>2, <4>2 DEF Before
    <3>3. i \in Nat /\ j \in Nat
      BY <1>1 DEF TypeOK
    <3> QED BY <3>1, <3>2, <3>3
  <2>4. /\ job.type = "recording_ready" =>
             /\ StartMs(all[order[i]]) = all[order[i]].started - base
             /\ StartMs(all[order[j]]) = all[order[j]].started - base
        /\ job.type # "recording_ready" =>
             /\ StartMs(all[order[i]]) = all[order[i]].started
             /\ StartMs(all[order[j]]) = all[order[j]].started
    BY <1>1, <1>9, <2>1, Rebased
  <2> QED BY <2>2, <2>3, <2>4
<1>10. ASSUME IsBatch
       PROVE  EntriesAreSegments' /\ EntriesInOrder' /\ PartsAreTexts'
  <2>2. \A x : Entry(x)' = Entry(x)
    BY <1>1 DEF Entry, StartMs, EndMs
  <2>3. \A x : StartMs(x)' = StartMs(x)
    BY <1>1 DEF StartMs
  <2>4. /\ \A a \in DOMAIN segments : segments[a].text \in DOMAIN all
        /\ \A a \in DOMAIN segments : segments[a] = Entry(segments[a].text)
    BY <1>10 DEF EntriesAreSegments
  <2>5. CASE segments' = segments /\ parts' = parts
    <3>1. EntriesAreSegments'
      BY <1>1, <1>10, <2>5 DEF EntriesAreSegments, Entry, StartMs, EndMs
    <3>2. EntriesInOrder'
      <4>1. \A j \in DOMAIN all : next' <= j => next <= j
        BY <1>1 DEF TypeOK
      <4> QED BY <1>1, <1>10, <2>3, <2>5, <4>1 DEF EntriesInOrder
    <3>3. PartsAreTexts'
      BY <1>1, <1>10, <2>5 DEF PartsAreTexts
    <3> QED BY <3>1, <3>2, <3>3
  <2>6. CASE /\ segments' = Append(segments, Entry(k))
             /\ parts' = Append(parts, k)
    <3> DEFINE n == Len(segments)
    <3>1. /\ n \in Nat /\ DOMAIN segments = 1 .. n
          /\ DOMAIN segments' = 1 .. n + 1 /\ Len(segments') = n + 1
          /\ \A a \in 1 .. n : segments'[a] = segments[a]
          /\ segments'[n + 1] = Entry(k)
      <4> HIDE DEF k, all
      <4>1. segments \in Seq(Entries)
        BY DEF TypeOK
      <4> QED BY <1>4, <2>6, <4>1, AppendProperties
    <3>2. /\ Len(parts) = n /\ Len(parts') = n + 1
          /\ \A a \in 1 .. n : parts'[a] = parts[a]
          /\ parts'[n + 1] = k
      <4> HIDE DEF k, all
      <4>1. parts \in Seq(Nat) /\ Len(parts) = n
        BY <1>10 DEF TypeOK, PartsAreTexts
      <4> QED BY <1>4, <2>6, <4>1, AppendProperties
    <3>3. EntriesAreSegments'
      <4>1. ASSUME NEW a \in 1 .. n + 1
            PROVE  /\ segments'[a].text \in DOMAIN all
                   /\ segments'[a] = Entry(segments'[a].text)
        <5>1. CASE a \in 1 .. n
          BY <2>4, <3>1, <5>1
        <5>2. CASE a = n + 1
          <6> HIDE DEF k, all
          <6> QED BY <1>2, <1>4, <3>1, <5>2
        <5> QED BY <3>1, <5>1, <5>2
      <4>2. \A a \in DOMAIN segments' :
              /\ segments'[a].text \in DOMAIN job'.segments
              /\ segments'[a] = Entry(segments'[a].text)
        BY <1>1, <3>1, <4>1
      <4> QED BY <1>1, <4>2 DEF EntriesAreSegments, Entry, StartMs, EndMs
    <3>4. \A a \in 1 .. n :
            /\ segments[a].start_ms \in Nat
            /\ \A j \in DOMAIN all :
                 next <= j => segments[a].start_ms <= StartMs(all[order[j]])
      <4> SUFFICES ASSUME NEW a \in 1 .. n
                   PROVE  /\ segments[a].start_ms \in Nat
                          /\ \A j \in DOMAIN all :
                               next <= j =>
                                 segments[a].start_ms <= StartMs(all[order[j]])
        OBVIOUS
      <4>1. segments[a] \in Entries
        BY <3>1 DEF TypeOK
      <4>2. segments[a].start_ms \in Nat
        BY <4>1 DEF Entries
      <4> QED BY <1>1, <1>10, <3>1, <4>2 DEF EntriesInOrder
    <3>5. StartMs(all[k]) \in Nat
      BY <1>2, EntryType
    <3>6. ASSUME NEW a \in 1 .. n + 1, NEW b \in 1 .. n + 1, a < b
          PROVE  segments'[a].start_ms <= segments'[b].start_ms
      <4>1. CASE b \in 1 .. n
        <5>1. a \in 1 .. n /\ segments'[a] = segments[a] /\ segments'[b] = segments[b]
          BY <3>1, <3>6, <4>1
        <5>2. segments[a].start_ms <= segments[b].start_ms
          BY <1>10, <3>1, <3>6, <4>1, <5>1 DEF EntriesInOrder
        <5> QED BY <5>1, <5>2
      <4>2. CASE b = n + 1
        <5>1. a \in 1 .. n
          BY <3>1, <3>6, <4>2
        <5>2. /\ segments'[a] = segments[a] /\ segments'[b] = Entry(k)
              /\ Entry(k).start_ms = StartMs(all[k])
          BY <1>4, <3>1, <4>2, <5>1
        <5>3. segments[a].start_ms <= StartMs(all[k])
          BY <1>1, <1>2, <3>4, <5>1
        <5> HIDE DEF k, all
        <5> QED BY <5>2, <5>3
      <4> QED BY <3>1, <4>1, <4>2
    <3>7. ASSUME NEW a \in 1 .. n + 1, NEW j \in DOMAIN all, next' <= j
          PROVE  segments'[a].start_ms <= StartMs(all[order[j]])
      <4>1. next <= j
        BY <1>1, <3>7 DEF TypeOK
      <4>2. CASE a \in 1 .. n
        BY <3>1, <3>4, <4>1, <4>2
      <4>3. CASE a = n + 1
        <5>1. segments'[a].start_ms = StartMs(all[k])
          <6> HIDE DEF k, all
          <6> QED BY <1>4, <3>1, <4>3
        <5>2. StartMs(all[k]) <= StartMs(all[order[j]])
          BY <1>2, <1>9, <1>10, <4>1
        <5> HIDE DEF k, all
        <5> QED BY <5>1, <5>2
      <4> QED BY <3>1, <4>2, <4>3
    <3>8. EntriesInOrder'
      BY <1>1, <2>3, <3>1, <3>6, <3>7 DEF EntriesInOrder
    <3>9. PartsAreTexts'
      <4>1. \A a \in 1 .. n + 1 : parts'[a] = segments'[a].text
        BY <1>4, <1>10, <3>1, <3>2 DEF PartsAreTexts
      <4> QED BY <1>1, <3>1, <3>2, <4>1 DEF PartsAreTexts
    <3> QED BY <3>3, <3>8, <3>9
  <2> QED BY <1>3, <2>5, <2>6
<1>11. ASSUME ~IsBatch
       PROVE  EntriesAreSegments' /\ EntriesInOrder' /\ PartsAreTexts'
  BY <1>1, <1>11 DEF EntriesAreSegments, EntriesInOrder, PartsAreTexts
<1> QED BY <1>6, <1>7, <1>8, <1>10, <1>11
LEMMA PublishInv ==
  ASSUME LinesInv, Publish
  PROVE  LinesInv'
<1> USE DEF LinesInv
<1>1. /\ at = "batch" /\ at' = "answered"
      /\ UNCHANGED <<job, order, base, next, segments, parts, serverVars>>
      /\ IsBatch' = IsBatch
  BY DEF Publish, workerVars, IsBatch
<1>2. TypeOK'
  BY <1>1 DEF TypeOK, serverVars
<1>3. BatchSorted' /\ NothingEarly' /\ LabelsApart' /\ LinesAreEntries'
  BY <1>1 DEF BatchSorted, NothingEarly, LabelsApart, LinesAreEntries, serverVars
<1>4. EntriesAreSegments' /\ EntriesInOrder'
  BY <1>1, EntriesKept
<1>5. PartsAreTexts'
  BY <1>1 DEF PartsAreTexts
<1> QED BY <1>2, <1>3, <1>4, <1>5

\* Most of the invariant is about batches.
LEMMA TranscribeUploadInv ==
  ASSUME LinesInv, TranscribeUpload
  PROVE  LinesInv'
<1> USE DEF LinesInv
<1>1. /\ at = "queued" /\ at' = "answered" /\ ~IsBatch /\ ~IsBatch'
      /\ UNCHANGED <<job, order, base, next, serverVars>>
  BY DEF TranscribeUpload, IsBatch
<1>2. segments' \in Seq(Entries)
  <2>1. PICK n \in 0 .. MaxSegments :
          \E t \in [1 .. n -> Times] :
            segments' = [k \in 1 .. n |-> [start_ms |-> t[k], end_ms |-> t[k],
                                           text |-> k, speaker |-> None]]
    BY DEF TranscribeUpload, FileSegments
  <2>2. PICK t \in [1 .. n -> Times] :
          segments' = [k \in 1 .. n |-> [start_ms |-> t[k], end_ms |-> t[k],
                                         text |-> k, speaker |-> None]]
    BY <2>1
  <2>3. \A k \in 1 .. n : [start_ms |-> t[k], end_ms |-> t[k], text |-> k,
                           speaker |-> None] \in Entries
    <3> SUFFICES ASSUME NEW k \in 1 .. n
                 PROVE  [start_ms |-> t[k], end_ms |-> t[k], text |-> k,
                         speaker |-> None] \in Entries
      OBVIOUS
    <3>1. t[k] \in Times
      BY <2>2
    <3>2. t[k] \in Nat
      BY <3>1, LinesAssumption
    <3>3. k \in Nat
      OBVIOUS
    <3> QED BY <3>2, <3>3 DEF Entries, Speakers
  <2>4. segments' \in [1 .. n -> Entries]
    BY <2>2, <2>3
  <2>5. n \in Nat
    BY LinesAssumption
  <2> QED BY <2>4, <2>5
<1>3. parts' \in Seq(Nat)
  <2>1. parts' = <<>> \/ parts' = <<1>>
    BY DEF TranscribeUpload
  <2>2. <<>> \in Seq(Nat) /\ <<1>> \in Seq(Nat)
    OBVIOUS
  <2> QED BY <2>1, <2>2
<1>4. TypeOK'
  BY <1>1, <1>2, <1>3 DEF TypeOK, serverVars
<1>5. BatchSorted' /\ NothingEarly' /\ LabelsApart'
  BY <1>1 DEF BatchSorted, NothingEarly, LabelsApart, serverVars
<1>6. EntriesAreSegments' /\ EntriesInOrder' /\ PartsAreTexts'
  BY <1>1 DEF EntriesAreSegments, EntriesInOrder, PartsAreTexts
<1>7. LinesAreEntries'
  <2>1. Len(built') = 0 /\ DOMAIN built' = {}
    BY <1>1 DEF NothingEarly, serverVars
  <2>2. Len(built') <= Len(segments')
    BY <1>2, <2>1
  <2> QED BY <1>1, <2>1, <2>2 DEF LinesAreEntries
<1> QED BY <1>4, <1>5, <1>6, <1>7

LEMMA SaveTranscriptionInv ==
  ASSUME LinesInv, SaveTranscription
  PROVE  LinesInv'
<1> USE DEF LinesInv
<1>1. /\ at = "answered" /\ at' \in {"building", "saved"}
      /\ at' = "saved" => segments = <<>>
      /\ transcription' = parts
      /\ UNCHANGED <<job, order, base, next, segments, parts, speakerOrder,
                     nextLabel, built, lines>>
      /\ IsBatch' = IsBatch
  BY DEF SaveTranscription, workerVars, IsBatch
<1>2. TypeOK'
  BY <1>1 DEF TypeOK
<1>3. BatchSorted' /\ NothingEarly' /\ LabelsApart'
  BY <1>1 DEF BatchSorted, NothingEarly, LabelsApart
<1>4. EntriesAreSegments' /\ EntriesInOrder'
  BY <1>1, EntriesKept
<1>5. PartsAreTexts'
  BY <1>1 DEF PartsAreTexts
<1>6. LinesAreEntries'
  BY <1>1 DEF LinesAreEntries, NothingEarly
<1> QED BY <1>2, <1>3, <1>4, <1>5, <1>6

LEMMA SaveTranscriptLinesInv ==
  ASSUME LinesInv, SaveTranscriptLines
  PROVE  LinesInv'
<1> USE DEF LinesInv
<1>1. /\ at = "building" /\ at' = "saved" /\ Len(built) = Len(segments)
      /\ lines' = built
      /\ UNCHANGED <<job, order, base, next, segments, parts, speakerOrder,
                     nextLabel, built, transcription>>
      /\ IsBatch' = IsBatch
  BY DEF SaveTranscriptLines, workerVars, IsBatch
<1>2. TypeOK'
  BY <1>1 DEF TypeOK
<1>3. BatchSorted' /\ NothingEarly' /\ LabelsApart'
  BY <1>1 DEF BatchSorted, NothingEarly, LabelsApart
<1>4. EntriesAreSegments' /\ EntriesInOrder'
  BY <1>1, EntriesKept
<1>5. PartsAreTexts' /\ LinesAreEntries'
  BY <1>1 DEF PartsAreTexts, LinesAreEntries
<1> QED BY <1>2, <1>3, <1>4, <1>5

\* A label once given stays, and a new one is nobody else's.
LEMMA LabelGiven ==
  ASSUME TypeOK, LabelsApart, NEW raw \in Users, Labelled(raw)
  PROVE  /\ speakerOrder' \in [Users -> Nat] /\ nextLabel' \in Nat
         /\ LabelsApart'
         /\ speakerOrder'[raw] # 0
         /\ \A u \in Users : speakerOrder[u] # 0 =>
              speakerOrder'[u] = speakerOrder[u]
<1>1. speakerOrder \in [Users -> Nat] /\ nextLabel \in Nat /\ nextLabel > 0
  BY DEF TypeOK, LabelsApart
<1>2. CASE speakerOrder[raw] # 0
  BY <1>1, <1>2 DEF Labelled, LabelsApart
<1>3. CASE speakerOrder[raw] = 0
  <2>1. /\ speakerOrder' = [speakerOrder EXCEPT ![raw] = nextLabel]
        /\ nextLabel' = nextLabel + 1
    BY <1>3 DEF Labelled
  <2>2. /\ speakerOrder' \in [Users -> Nat] /\ nextLabel' \in Nat
        /\ speakerOrder'[raw] = nextLabel
        /\ \A u \in Users : u # raw => speakerOrder'[u] = speakerOrder[u]
    BY <1>1, <2>1
  <2>3. LabelsApart'
    <3>1. /\ nextLabel' > 0 /\ \A u \in Users : speakerOrder'[u] < nextLabel'
      BY <1>1, <2>1, <2>2 DEF LabelsApart
    <3>2. ASSUME NEW u \in Users, NEW v \in Users,
                 speakerOrder'[u] = speakerOrder'[v], speakerOrder'[u] # 0
          PROVE  u = v
      <4>1. speakerOrder[u] < nextLabel /\ speakerOrder[v] < nextLabel
        BY DEF LabelsApart
      <4> QED BY <1>1, <2>2, <3>2, <4>1 DEF LabelsApart
    <3> QED BY <3>1, <3>2 DEF LabelsApart
  <2> QED BY <1>1, <1>3, <2>2, <2>3
<1> QED BY <1>2, <1>3

LEMMA BuildLineInv ==
  ASSUME LinesInv, BuildLine
  PROVE  LinesInv'
<1> USE DEF LinesInv
<1> DEFINE n   == Len(built)
           seg == segments[n + 1]
<1>1. /\ at = "building" /\ at' = "building" /\ n < Len(segments)
      /\ UNCHANGED <<job, order, base, next, segments, parts, transcription,
                     lines>>
      /\ IsBatch' = IsBatch
  BY DEF BuildLine, workerVars, IsBatch
<1>2. n \in Nat /\ seg \in Entries /\ built \in Seq(Lines)
      /\ DOMAIN segments = 1 .. Len(segments) /\ Len(segments) \in Nat
  BY <1>1 DEF TypeOK
<1>3. PICK label \in Nat :
        /\ built' = Append(built, Line(seg, n + 1, label))
        /\ seg.speaker \in Users =>
             label = speakerOrder'[seg.speaker] /\ label # 0
        /\ speakerOrder' \in [Users -> Nat] /\ nextLabel' \in Nat
        /\ LabelsApart'
        /\ \A u \in Users : speakerOrder[u] # 0 =>
             speakerOrder'[u] = speakerOrder[u]
  <2>1. CASE seg.speaker = None
    <3>1. /\ built' = Append(built, Line(seg, n + 1, 0))
          /\ UNCHANGED <<speakerOrder, nextLabel>>
      BY <2>1 DEF BuildLine
    <3>2. LabelsApart'
      BY <3>1 DEF LabelsApart
    <3>3. seg.speaker \notin Users
      BY <2>1, LinesAssumption
    <3> QED BY <3>1, <3>2, <3>3 DEF TypeOK
  <2>2. CASE seg.speaker # None
    <3>1. seg.speaker \in Users
      BY <1>2, <2>2 DEF Entries, Speakers
    <3>2. /\ Labelled(seg.speaker)
          /\ built' = Append(built, Line(seg, n + 1, speakerOrder'[seg.speaker]))
      BY <2>2 DEF BuildLine
    <3>3. /\ speakerOrder' \in [Users -> Nat] /\ nextLabel' \in Nat
          /\ LabelsApart' /\ speakerOrder'[seg.speaker] # 0
          /\ \A u \in Users : speakerOrder[u] # 0 =>
               speakerOrder'[u] = speakerOrder[u]
      BY <3>1, <3>2, LabelGiven
    <3>4. speakerOrder'[seg.speaker] \in Nat
      BY <3>1, <3>3
    <3> QED BY <3>2, <3>3, <3>4
  <2> QED BY <2>1, <2>2
<1> DEFINE line == Line(seg, n + 1, label)
<1>4. /\ line \in Lines
      /\ line.start_ms = seg.start_ms /\ line.end_ms = seg.end_ms
      /\ line.text = seg.text /\ line.speaker = label
  BY <1>2, <1>3 DEF Line, Lines, Entries
<1>5. /\ built' \in Seq(Lines) /\ Len(built') = n + 1
      /\ DOMAIN built' = 1 .. n + 1
      /\ \A k \in 1 .. n : built'[k] = built[k]
      /\ built'[n + 1] = line
  <2>1. built' = Append(built, line)
    BY <1>3
  <2> HIDE DEF line
  <2> QED BY <1>2, <1>4, <2>1, AppendProperties
<1>6. TypeOK'
  BY <1>1, <1>3, <1>5 DEF TypeOK
<1>7. BatchSorted' /\ NothingEarly' /\ LabelsApart'
  BY <1>1, <1>3 DEF BatchSorted, NothingEarly
<1>8. EntriesAreSegments' /\ EntriesInOrder'
  BY <1>1, EntriesKept
<1>9. PartsAreTexts'
  BY <1>1 DEF PartsAreTexts
<1>10. LinesAreEntries'
  <2>1. ASSUME NEW k \in 1 .. n + 1
        PROVE  /\ built'[k].start_ms = segments[k].start_ms
               /\ built'[k].end_ms = segments[k].end_ms
               /\ built'[k].text = segments[k].text
               /\ segments[k].speaker \in Users =>
                    /\ built'[k].speaker = speakerOrder'[segments[k].speaker]
                    /\ built'[k].speaker # 0
    <3>1. CASE k \in 1 .. n
      <4>1. k \in DOMAIN built /\ built'[k] = built[k]
        BY <1>2, <1>5, <3>1
      <4> QED BY <1>3, <4>1 DEF LinesAreEntries
    <3>2. CASE k = n + 1
      <4> HIDE DEF line
      <4> QED BY <1>3, <1>4, <1>5, <3>2
    <3> QED BY <1>2, <3>1, <3>2
  <2>2. n + 1 <= Len(segments)
    BY <1>1, <1>2
  <2> QED BY <1>1, <1>5, <2>1, <2>2 DEF LinesAreEntries
<1> QED BY <1>6, <1>7, <1>8, <1>9, <1>10

LEMMA StutterLines ==
  ASSUME LinesInv, UNCHANGED vars
  PROVE  LinesInv'
<1> USE DEF LinesInv
<1>1. /\ UNCHANGED <<at, job, order, base, next, segments, parts, speakerOrder,
                     nextLabel, built, transcription, lines>>
      /\ IsBatch' = IsBatch
  BY DEF vars, workerVars, serverVars, IsBatch
<1>2. TypeOK' /\ BatchSorted' /\ NothingEarly' /\ LabelsApart'
  BY <1>1 DEF TypeOK, BatchSorted, NothingEarly, LabelsApart
<1>3. EntriesAreSegments' /\ EntriesInOrder'
  BY <1>1, EntriesKept
<1>4. PartsAreTexts' /\ LinesAreEntries'
  BY <1>1 DEF PartsAreTexts, LinesAreEntries
<1> QED BY <1>2, <1>3, <1>4

\* The invariant holds in every reachable state.
THEOREM LinesCorrect == Spec => []LinesInv
<1>1. LinesInv /\ [Next]_vars => LinesInv'
  <2> SUFFICES ASSUME LinesInv, [Next]_vars PROVE LinesInv'
    OBVIOUS
  <2> QED BY TakeBatchInv, TranscribeInv, PublishInv, TranscribeUploadInv,
             SaveTranscriptionInv, BuildLineInv, SaveTranscriptLinesInv,
             StutterLines DEF Next
<1> QED BY InitLines, <1>1, PTL DEF Spec

-----------------------------------------------------------------------------
\* A line of a batch is that of a segment, by its label and its stamps.
LEMMA LineOfSegment ==
  ASSUME LinesInv, IsBatch, NEW k \in DOMAIN lines
  PROVE  /\ at = "saved" /\ k \in DOMAIN segments
         /\ lines[k].text = segments[k].text
         /\ lines[k].text \in DOMAIN job.segments
         /\ lines[k].start_ms = segments[k].start_ms
         /\ lines[k].start_ms = StartMs(job.segments[lines[k].text])
         /\ lines[k].end_ms = EndMs(job.segments[lines[k].text])
         /\ lines[k].speaker # 0
         /\ lines[k].speaker = speakerOrder[job.segments[lines[k].text].user]
<1> USE DEF LinesInv
<1>1. at = "saved"
  BY DEF NothingEarly
<1>2. /\ lines = built /\ Len(built) = Len(segments)
      /\ DOMAIN built = DOMAIN segments
  BY <1>1 DEF LinesAreEntries, TypeOK
<1>3. k \in DOMAIN segments /\ k \in DOMAIN built
  BY <1>2
<1>4. /\ segments[k].text \in DOMAIN job.segments
      /\ segments[k] = Entry(segments[k].text)
  BY <1>3 DEF EntriesAreSegments
<1> DEFINE s == segments[k]
           t == segments[k].text
<1>5. /\ Entry(t).speaker = job.segments[t].user
      /\ Entry(t).start_ms = StartMs(job.segments[t])
      /\ Entry(t).end_ms = EndMs(job.segments[t])
  BY <1>4, EntryType
<1>6. s.speaker \in Users
  BY <1>4, <1>5, InfoType
<1>7. /\ built[k].text = t /\ built[k].start_ms = s.start_ms
      /\ built[k].end_ms = s.end_ms /\ built[k].speaker = speakerOrder[s.speaker]
      /\ built[k].speaker # 0
  BY <1>3, <1>6 DEF LinesAreEntries
<1> QED BY <1>1, <1>2, <1>3, <1>4, <1>5, <1>7

\* handle_batch: whatever segments fail, the lines are in the order of the clock
\* and as far apart and as long as what was recorded.
THEOREM TimeIsKept == Spec => []LinesKeepTime
<1>1. LinesInv => LinesKeepTime
  <2> SUFFICES ASSUME LinesInv, IsBatch,
                      NEW a \in DOMAIN lines, NEW b \in DOMAIN lines
               PROVE  LET first == job.segments[lines[a].text]
                          last  == job.segments[lines[b].text]
                      IN  /\ a < b => lines[a].start_ms <= lines[b].start_ms
                          /\ lines[a].end_ms - lines[a].start_ms
                               = first.ended - first.started
                          /\ lines[b].start_ms - lines[a].start_ms
                               = last.started - first.started
    BY DEF LinesKeepTime
  <2> DEFINE first == job.segments[lines[a].text]
             last  == job.segments[lines[b].text]
  <2>1. /\ at # "queued"
        /\ lines[a].text \in DOMAIN job.segments
        /\ lines[b].text \in DOMAIN job.segments
        /\ lines[a].start_ms = StartMs(first) /\ lines[b].start_ms = StartMs(last)
        /\ lines[a].end_ms = EndMs(first)
    BY LineOfSegment
  <2>2. a < b => lines[a].start_ms <= lines[b].start_ms
    BY LineOfSegment DEF LinesInv, EntriesInOrder
  <2>3. /\ first.started \in Nat /\ first.ended \in Nat /\ last.started \in Nat
        /\ base \in Nat
    BY <2>1, InfoType DEF LinesInv, TypeOK
  <2>4. /\ job.type = "recording_ready" =>
             /\ StartMs(first) = first.started - base
             /\ EndMs(first) = first.ended - base
             /\ StartMs(last) = last.started - base
        /\ job.type # "recording_ready" =>
             /\ StartMs(first) = first.started /\ EndMs(first) = first.ended
             /\ StartMs(last) = last.started
    BY <2>1, Rebased DEF LinesInv
  <2> HIDE DEF first, last
  <2>5. /\ lines[a].end_ms - lines[a].start_ms = first.ended - first.started
        /\ lines[b].start_ms - lines[a].start_ms = last.started - first.started
    BY <2>1, <2>3, <2>4
  <2> QED BY <2>2, <2>5 DEF first, last
<1> QED BY LinesCorrect, <1>1, PTL

\* buildTranscriptLines: labels tell the participants apart.
THEOREM LabelsTellSpeakers == Spec => []LabelsAreSpeakers
<1>1. LinesInv => LabelsAreSpeakers
  <2> SUFFICES ASSUME LinesInv, IsBatch,
                      NEW a \in DOMAIN lines, NEW b \in DOMAIN lines
               PROVE  /\ lines[a].speaker # 0
                      /\ lines[a].speaker = lines[b].speaker <=>
                           job.segments[lines[a].text].user
                             = job.segments[lines[b].text].user
    BY DEF LabelsAreSpeakers
  <2> DEFINE u == job.segments[lines[a].text].user
             v == job.segments[lines[b].text].user
  <2>1. /\ lines[a].speaker = speakerOrder[u] /\ lines[b].speaker = speakerOrder[v]
        /\ lines[a].speaker # 0
    BY LineOfSegment
  <2>2. u \in Users /\ v \in Users
    BY LineOfSegment, InfoType DEF LinesInv
  <2> HIDE DEF u, v
  <2>3. lines[a].speaker = lines[b].speaker <=> u = v
    BY <2>1, <2>2 DEF LinesInv, LabelsApart
  <2> QED BY <2>1, <2>3 DEF u, v
<1> QED BY LinesCorrect, <1>1, PTL

\* handleSessionTranscription: once both are stored, the lines of a batch say what
\* its text says.
THEOREM LinesAndTextAgree == Spec => []LinesTellTranscript
<1>1. LinesInv => LinesTellTranscript
  <2> SUFFICES ASSUME LinesInv, at = "saved", IsBatch
               PROVE  transcription = [k \in DOMAIN lines |-> lines[k].text]
    BY DEF LinesTellTranscript
  <2>1. /\ transcription = parts /\ Len(parts) = Len(segments)
        /\ lines = built /\ Len(built) = Len(segments)
        /\ \A k \in DOMAIN segments : parts[k] = segments[k].text
    BY DEF LinesInv, PartsAreTexts, LinesAreEntries
  <2>2. DOMAIN transcription = DOMAIN lines /\ DOMAIN lines = DOMAIN segments
    BY <2>1 DEF LinesInv, TypeOK
  <2>3. \A k \in DOMAIN lines : transcription[k] = lines[k].text
    BY <2>1, <2>2, LineOfSegment
  <2>4. transcription = [k \in DOMAIN transcription |-> transcription[k]]
    <3>1. transcription \in Seq(Nat)
      BY DEF LinesInv, TypeOK
    <3> QED BY <3>1
  <2> QED BY <2>2, <2>3, <2>4
<1> QED BY LinesCorrect, <1>1, PTL
=============================================================================
