-------------------------- MODULE SessionUploadPage --------------------------
(***************************************************************************)
(* The page for uploading files: a session is made for a purpose, files    *)
(* are chosen and sent one after another, and the session is finished.     *)
(***************************************************************************)
EXTENDS Page, FiniteSetsExt

CONSTANTS Files,
          MaxItems  \* files in the list, a bound

ItemStatus == {"pending", "uploading", "queued", "error"}
Statuses == {None, "new", "transcribing"}

UploadTypeOK ==
  /\ ui \in [purposes : {"loading", "loaded", "failed"}, chosen : BOOLEAN,
             created : BOOLEAN, status : Statuses,
             items : Seq([file : Files, status : ItemStatus]),
             loop : SUBSET (1 .. MaxItems),
             creating : BOOLEAN, uploading : BOOLEAN, finishing : BOOLEAN,
             twice : BOOLEAN]  \* history: a file was chosen twice, or the
                               \* answer to an upload that was stored was lost
  /\ db \in [status : Statuses, stored : [Files -> Nat]]

UploadInit ==
  /\ ui = [purposes |-> "loading", chosen |-> FALSE, created |-> FALSE,
           status |-> None, items |-> <<>>, loop |-> {}, creating |-> FALSE,
           uploading |-> FALSE, finishing |-> FALSE, twice |-> FALSE]
  /\ net = {Request("purposes", None, None)}
  /\ db = [status |-> None, stored |-> [f \in Files |-> 0]]
  /\ acts = 0

-----------------------------------------------------------------------------
\* The server.  Finishing needs a file; then no more are taken.

UploadServed(r) ==
  /\ Sent(r)
  /\ \/ r.kind = "purposes" /\ Answer(r, None) /\ UNCHANGED <<db, ui>>
     \/ /\ r.kind = "create"
        /\ db' = [db EXCEPT !.status = "new"]
        /\ Answer(r, None) /\ UNCHANGED ui
     \/ /\ r.kind = "upload" /\ db.status = "new"
        /\ db' = [db EXCEPT !.stored[r.on] = @ + 1]
        /\ \/ Answer(r, None) /\ UNCHANGED ui
           \/ Refuse(r) /\ ui' = [ui EXCEPT !.twice = TRUE]
     \/ /\ r.kind = "finish" /\ db.status = "new"
        /\ \E f \in Files : db.stored[f] > 0
        /\ db' = [db EXCEPT !.status = "transcribing"]
        /\ Answer(r, None) /\ UNCHANGED ui
     \/ Refuse(r) /\ UNCHANGED <<db, ui>>
  /\ UNCHANGED acts

-----------------------------------------------------------------------------
\* The user.

ChoosePurpose ==
  /\ ui.purposes = "loaded" /\ ~ui.creating /\ ~ui.created /\ ~ui.chosen
  /\ ui' = [ui EXCEPT !.chosen = TRUE]
  /\ UNCHANGED <<net, db, acts>>

HandleCreateSession ==
  /\ ~ui.created /\ ~ui.creating /\ ui.chosen /\ Act
  /\ ui' = [ui EXCEPT !.creating = TRUE]
  /\ net' = net \cup {Request("create", None, None)}
  /\ UNCHANGED db

HandleFileChange(f) ==
  /\ ui.created /\ ~ui.uploading /\ ui.status # "transcribing"
  /\ Len(ui.items) < MaxItems
  /\ ui' = [ui EXCEPT !.items = Append(@, [file |-> f, status |-> "pending"]),
                      !.twice = @ \/ \E i \in DOMAIN ui.items : ui.items[i].file = f]
  /\ UNCHANGED <<net, db, acts>>

\* The items of one file have the same id and are updated together.
SetStatus(items, f, status) ==
  [i \in DOMAIN items |-> IF items[i].file = f
                          THEN [items[i] EXCEPT !.status = status] ELSE items[i]]

\* Mutation of ToSend: what was taken is sent again.
ToSendAll(items) == DOMAIN items

\* The places in the list that the loop does not skip.
ToSend(items) == {i \in DOMAIN items : items[i].status # "queued"}

\* The loop goes on with the items as they were at the press, the list being as
\* long as then: uploadSingle of the next one, or the end.
NextUpload(u, rest, others) ==
  IF rest = {}
  THEN /\ ui' = [u EXCEPT !.uploading = FALSE, !.loop = {}]
       /\ net' = others
  ELSE LET i == Min(rest) IN
       /\ ui' = [u EXCEPT !.uploading = TRUE, !.loop = rest \ {i},
                          !.items = SetStatus(@, u.items[i].file, "uploading")]
       /\ net' = others \cup {Request("upload", u.items[i].file, None)}

HandleUpload ==
  /\ ui.created /\ ~ui.uploading /\ ui.items # <<>>
  /\ ui.status # "transcribing" /\ Act
  /\ NextUpload(ui, ToSend(ui.items), net)
  /\ UNCHANGED db

\* Possible while files are being sent.
HandleFinishSession ==
  /\ ui.created /\ ~ui.finishing /\ ui.status # "transcribing" /\ Act
  /\ ui' = [ui EXCEPT !.finishing = TRUE]
  /\ net' = net \cup {Request("finish", None, None)}
  /\ UNCHANGED db

-----------------------------------------------------------------------------
Ready(r) == net' = Others(r) /\ UNCHANGED <<db, acts>>

PurposesLoaded(r) ==
  \/ /\ Answered(r, "purposes") /\ Ready(r)
     /\ ui' = [ui EXCEPT !.purposes = "loaded"]
  \/ /\ Refused(r, "purposes") /\ Ready(r)
     /\ ui' = [ui EXCEPT !.purposes = "failed"]

SessionMade(r) ==
  \/ /\ Answered(r, "create") /\ Ready(r)
     /\ ui' = [ui EXCEPT !.created = TRUE, !.status = "new", !.creating = FALSE]
  \/ /\ Refused(r, "create") /\ Ready(r)
     /\ ui' = [ui EXCEPT !.creating = FALSE]

\* onload and onerror, and the loop.
UploadEnded(r) ==
  /\ Answered(r, "upload") \/ Refused(r, "upload")
  /\ NextUpload([ui EXCEPT !.items =
                   SetStatus(@, r.on, IF r.step = "ok" THEN "queued" ELSE "error")],
                ui.loop, Others(r))
  /\ UNCHANGED <<db, acts>>

SessionFinished(r) ==
  \/ /\ Answered(r, "finish") /\ Ready(r)
     /\ ui' = [ui EXCEPT !.status = "transcribing", !.finishing = FALSE]
  \/ /\ Refused(r, "finish") /\ Ready(r)
     /\ ui' = [ui EXCEPT !.finishing = FALSE]

UploadNext ==
  \/ \E r \in net : \/ UploadServed(r) \/ PurposesLoaded(r) \/ SessionMade(r)
                    \/ UploadEnded(r) \/ SessionFinished(r)
  \/ ChoosePurpose \/ HandleCreateSession \/ HandleUpload \/ HandleFinishSession
  \/ \E f \in Files : HandleFileChange(f)

-----------------------------------------------------------------------------

\* A file is stored once, however often the button is pressed after failures
\* of others, unless it was chosen twice or a good answer was lost.
StoredOnce == ~ui.twice => \A f \in Files : db.stored[f] <= 1
=============================================================================
