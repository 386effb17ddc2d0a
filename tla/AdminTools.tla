----------------------------- MODULE AdminTools -----------------------------
(***************************************************************************)
(* Three more tabs of the administration: the overview of all prompts, the *)
(* queues, from which a message can be dropped, and the actions on a       *)
(* session.                                                                *)
(***************************************************************************)
EXTENDS Page

CONSTANTS Queues, Ids, MaxPages

SessionActions == {"retranscribe-segments", "retranscribe-session",
                   "segments", "transcription"}

ToolsTypeOK ==
  /\ ui \in [tab : {"prompts", "queues", "sessions"},
             page : 1 .. MaxPages, total : 0 .. MaxPages,
             shown : {None} \cup (1 .. MaxPages),
             loading : BOOLEAN, error : BOOLEAN,
             known : SUBSET Queues, viewed : [Queues -> BOOLEAN],
             busy : [Queues -> BOOLEAN], acting : BOOLEAN]
  /\ db \in [pages : 1 .. MaxPages]

GetPromptPage(page) == Request("prompts", None, page)
GetQueues == Request("queues", None, None)
PeekMessages(q) == Request("peek", q, None)
DropMessage(q) == Request("drop", q, None)
PostSessionAction(id, action) == Request("session", id, action)

ToolsInit ==
  /\ \E tab \in {"prompts", "queues", "sessions"} :
       /\ ui = [tab |-> tab, page |-> 1, total |-> 0, shown |-> None,
                loading |-> tab # "sessions", error |-> FALSE, known |-> {},
                viewed |-> [q \in Queues |-> FALSE],
                busy |-> [q \in Queues |-> FALSE], acting |-> FALSE]
       /\ net = CASE tab = "prompts"  -> {GetPromptPage(1)}
                  [] tab = "queues"   -> {GetQueues}
                  [] tab = "sessions" -> {}
  /\ acts = 0
  /\ db \in [pages : 1 .. MaxPages]

ToolsServed(r) ==
  /\ Sent(r)
  /\ \/ r.kind = "prompts" /\ Answer(r, db.pages)
     \/ r.kind = "queues" /\ \E qs \in {{}, Queues} : Answer(r, qs)
     \/ r.kind \in {"peek", "drop", "session"} /\ Answer(r, None)
     \/ Refuse(r)
  /\ UNCHANGED <<ui, db, acts>>

-----------------------------------------------------------------------------
\* The overview of prompts.

\* Mutation of MayTurn: also while a page is loading.
MayTurnAnyway == ui.tab = "prompts" /\ ui.shown # None

\* The pager is there when prompts are.
MayTurn == ui.tab = "prompts" /\ ui.shown # None /\ ~ui.loading

SetPromptPage(page) ==
  /\ MayTurn /\ page # ui.page /\ (page = ui.page - 1 \/ page <= ui.total)
  /\ Act
  /\ ui' = [ui EXCEPT !.page = page, !.loading = TRUE, !.error = FALSE]
  /\ net' = net \cup {GetPromptPage(page)}
  /\ UNCHANGED db

\* The button Vernieuwen of the prompts and of the queues.
RefreshTool ==
  /\ ui.tab # "sessions" /\ ~ui.loading /\ Act
  /\ ui' = [ui EXCEPT !.loading = TRUE, !.error = FALSE]
  /\ net' = net \cup {IF ui.tab = "prompts" THEN GetPromptPage(ui.page)
                      ELSE GetQueues}
  /\ UNCHANGED db

\* The page that is shown becomes the page; if that is another than the one
\* named by now, the effect fetches it again.
PromptPageShown(r) ==
  /\ UNCHANGED <<db, acts>>
  /\ \/ /\ Answered(r, "prompts")
        /\ ui' = [ui EXCEPT !.shown = r.arg, !.page = r.arg, !.total = r.answer,
                            !.loading = ui.page # r.arg]
        /\ net' = Others(r) \cup
             (IF ui.page # r.arg THEN {GetPromptPage(r.arg)} ELSE {})
     \/ /\ Refused(r, "prompts")
        /\ ui' = [ui EXCEPT !.loading = FALSE, !.error = TRUE]
        /\ net' = Others(r)

-----------------------------------------------------------------------------
\* The queues.

QueueShown(q) == ui.tab = "queues" /\ ~ui.loading /\ q \in ui.known

ViewQueue(q) ==
  /\ QueueShown(q) /\ ~ui.busy[q]
  /\ \/ /\ ui.viewed[q]
        /\ ui' = [ui EXCEPT !.viewed[q] = FALSE]
        /\ UNCHANGED <<net, acts>>
     \/ /\ ~ui.viewed[q] /\ Act
        /\ ui' = [ui EXCEPT !.viewed[q] = TRUE, !.busy[q] = TRUE]
        /\ net' = net \cup {PeekMessages(q)}
  /\ UNCHANGED db

DropQueueMessage(q) ==
  /\ QueueShown(q) /\ ~ui.busy[q] /\ Act
  /\ ui' = [ui EXCEPT !.viewed[q] = TRUE, !.busy[q] = TRUE]
  /\ net' = net \cup {DropMessage(q)}
  /\ UNCHANGED db

QueuesShown(r) ==
  /\ net' = Others(r) /\ UNCHANGED <<db, acts>>
  /\ \/ /\ Answered(r, "queues")
        /\ ui' = [ui EXCEPT !.known = r.answer, !.loading = FALSE]
     \/ /\ Refused(r, "queues")
        /\ ui' = [ui EXCEPT !.loading = FALSE, !.error = TRUE]

MessagesShown(r) ==
  /\ Answered(r, "peek") \/ Refused(r, "peek")
  /\ ui' = [ui EXCEPT !.busy[r.on] = FALSE]
  /\ net' = Others(r) /\ UNCHANGED <<db, acts>>

\* Then the messages that are left are fetched, before the next drop.
MessageDropped(r) ==
  /\ UNCHANGED <<db, acts>>
  /\ \/ /\ Answered(r, "drop")
        /\ ui' = [ui EXCEPT !.viewed[r.on] = TRUE]
        /\ net' = Others(r) \cup {PeekMessages(r.on)}
     \/ /\ Refused(r, "drop")
        /\ ui' = [ui EXCEPT !.busy[r.on] = FALSE]
        /\ net' = Others(r)

-----------------------------------------------------------------------------
\* The actions on a session.

ExecuteSessionAction(id, action) ==
  /\ ui.tab = "sessions" /\ ~ui.acting /\ Act
  /\ ui' = [ui EXCEPT !.acting = TRUE, !.error = FALSE]
  /\ net' = net \cup {PostSessionAction(id, action)}
  /\ UNCHANGED db

SessionActionDone(r) ==
  /\ Answered(r, "session") \/ Refused(r, "session")
  /\ ui' = [ui EXCEPT !.acting = FALSE, !.error = r.step = "failed"]
  /\ net' = Others(r) /\ UNCHANGED <<db, acts>>

ToolsNext ==
  \/ \E r \in net : \/ ToolsServed(r) \/ PromptPageShown(r) \/ QueuesShown(r)
                    \/ MessagesShown(r) \/ MessageDropped(r)
                    \/ SessionActionDone(r)
  \/ RefreshTool
  \/ \E page \in 1 .. MaxPages : SetPromptPage(page)
  \/ \E q \in Queues : ViewQueue(q) \/ DropQueueMessage(q)
  \/ \E id \in Ids, action \in SessionActions : ExecuteSessionAction(id, action)

-----------------------------------------------------------------------------
\* One page of prompts is asked for at a time: an answer makes its page the page
\* to fetch, so that two of them would go on changing it for each other.
PagesDoNotChase == \A q, r \in InFlight({"prompts"}) : q = r
=============================================================================
