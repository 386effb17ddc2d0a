------------------------------ MODULE HomePage ------------------------------
(***************************************************************************)
(* The home page around the session context: the sources of audio, the     *)
(* purpose that says whether a tab's sound may be recorded, and the        *)
(* buttons of the recording card.  SessionTab has the session context in   *)
(* detail; here its operations are requests, of which one is in flight at  *)
(* a time.                                                                 *)
(***************************************************************************)
EXTENDS Page

CONSTANT Ids

\* A purpose, by what it says of recording an app.
HomePurposes == {"open", "closed"}

Sources == {"mic", "display", "mix"}

HomeTypeOK ==
  /\ ui \in [mic : BOOLEAN, app : BOOLEAN, loading : BOOLEAN, known : BOOLEAN,
             selected : HomePurposes \cup {None},
             sess : Ids \cup {None}, purpose : HomePurposes \cup {None},
             owner : BOOLEAN, begun : BOOLEAN, active : BOOLEAN,
             capture : {None} \cup [source : Sources, of : Ids],
             starting : BOOLEAN, stopping : BOOLEAN, joining : BOOLEAN]
  /\ db \in [purpose : [Ids -> HomePurposes \cup {None}],
             mine : SUBSET Ids, begun : SUBSET Ids]

NoSession(u) == [u EXCEPT !.sess = None, !.purpose = None, !.owner = FALSE,
                          !.begun = FALSE, !.active = FALSE, !.capture = None]

\* useHomePurposes fetches once.
HomeInit ==
  /\ \E mic, app \in BOOLEAN :
       ui = [mic |-> mic, app |-> app, loading |-> TRUE, known |-> FALSE,
             selected |-> None, sess |-> None, purpose |-> None,
             owner |-> FALSE, begun |-> FALSE, active |-> FALSE,
             capture |-> None, starting |-> FALSE, stopping |-> FALSE,
             joining |-> FALSE]
  /\ net = {Request("purposes", None, None)}
  /\ acts = 0
  /\ db \in [purpose : [Ids -> HomePurposes \cup {None}],
             mine : {{}}, begun : SUBSET Ids]
  /\ \A id \in db.begun : db.purpose[id] # None

-----------------------------------------------------------------------------
\* What may be recorded.

\* Mutation of PurposeForPermissions: the one chosen, also in a session.
ChosenPurpose(u) == u.selected

PurposeForPermissions(u) == IF u.sess # None THEN u.purpose ELSE u.selected

AppRecordingAllowed(u) == PurposeForPermissions(u) # "closed"

CaptureSource(u) ==
  LET app == u.app /\ AppRecordingAllowed(u)
  IN CASE u.mic /\ app  -> "mix"
       [] u.mic /\ ~app -> "mic"
       [] ~u.mic /\ app -> "display"
       [] OTHER         -> None

\* The effect that turns the app off where it is not allowed.  What is chosen
\* is also in localStorage.
Rendered(u) == [u EXCEPT !.app = @ /\ AppRecordingAllowed(u)]

-----------------------------------------------------------------------------
\* The server.

HomeServed(r) ==
  /\ Sent(r)
  /\ \/ r.kind = "purposes" /\ Answer(r, None) /\ UNCHANGED db
     \/ /\ r.kind = "create"
        /\ \E id \in Ids :
             /\ db.purpose[id] = None
             /\ db' = [db EXCEPT !.purpose[id] = r.arg,
                                 !.mine = @ \cup {id}]
             /\ Answer(r, id)
     \/ /\ r.kind = "join" /\ db.purpose[r.on] # None
        /\ Answer(r, r.on) /\ UNCHANGED db
     \/ /\ r.kind = "mic"   \* the owner begins; the user gives permission
        /\ db' = [db EXCEPT !.begun = @ \cup {r.on}]
        /\ Answer(r, r.on)
     \/ /\ r.kind \in {"stop", "leave"}
        /\ db' = IF r.kind = "stop"
                 THEN [db EXCEPT !.mine = @ \ {r.on}] ELSE db
        /\ Answer(r, r.on)
     \/ Refuse(r) /\ UNCHANGED db
  /\ UNCHANGED <<ui, acts>>

-----------------------------------------------------------------------------
\* The recording card before a session.

SessionKinds == {"create", "join", "mic", "stop", "leave"}
HomeFree == InFlight(SessionKinds) = {}

MaySetSources ==
  ui.sess = None /\ ui.capture = None /\ ~ui.starting /\ ~ui.stopping

SetMicEnabled ==
  /\ MaySetSources
  /\ ui' = [ui EXCEPT !.mic = ~@]
  /\ UNCHANGED <<net, db, acts>>

SetAppEnabled ==
  /\ MaySetSources /\ AppRecordingAllowed(ui)
  /\ ui' = [ui EXCEPT !.app = ~@]
  /\ UNCHANGED <<net, db, acts>>

SetSelectedPurpose(p) ==
  /\ ui.sess = None /\ ui.known /\ ~ui.loading /\ ~ui.starting /\ ~ui.stopping
  /\ ui.selected # p
  /\ ui' = Rendered([ui EXCEPT !.selected = p])
  /\ UNCHANGED <<net, db, acts>>

HandleStart ==
  /\ ui.sess = None /\ ~ui.starting
  /\ CaptureSource(ui) # None /\ ui.selected # None
  /\ HomeFree /\ Act
  /\ ui' = [ui EXCEPT !.starting = TRUE]
  /\ net' = net \cup {Request("create", None, ui.selected)}
  /\ UNCHANGED db

\* By the form, or by a list, an invitation or a link.
HandleJoin(id) ==
  /\ ui.sess = None /\ ~ui.joining /\ HomeFree /\ Act
  /\ \E form \in BOOLEAN : ui' = [ui EXCEPT !.joining = form]
  /\ net' = net \cup {Request("join", id, None)}
  /\ UNCHANGED db

-----------------------------------------------------------------------------
\* The recording card in a session.

\* Also the button of the banner after a reload.
HandleStartMic ==
  /\ ui.sess # None /\ ~ui.active /\ CaptureSource(ui) # None
  /\ ui.owner \/ ui.begun
  /\ HomeFree /\ Act
  /\ IF ui.capture # None   \* paused
     THEN ui' = [ui EXCEPT !.active = TRUE] /\ UNCHANGED net
     ELSE /\ net' = net \cup {Request("mic", ui.sess, CaptureSource(ui))}
          /\ UNCHANGED ui
  /\ UNCHANGED db

HandleStopMic ==
  /\ ui.active /\ ui' = [ui EXCEPT !.active = FALSE]
  /\ UNCHANGED <<net, db, acts>>

HandleStop ==
  /\ ui.sess # None /\ ui.owner /\ ~ui.stopping /\ HomeFree /\ Act
  /\ ui' = [ui EXCEPT !.stopping = TRUE, !.capture = None, !.active = FALSE]
  /\ net' = net \cup {Request("stop", ui.sess, None)}
  /\ UNCHANGED db

HandleLeave ==
  /\ ui.sess # None /\ ~ui.owner /\ HomeFree /\ Act
  /\ ui' = [ui EXCEPT !.capture = None, !.active = FALSE]
  /\ net' = net \cup {Request("leave", ui.sess, None)}
  /\ UNCHANGED db

-----------------------------------------------------------------------------
\* Answers and events.

Home(r) == net' = Others(r) /\ UNCHANGED <<db, acts>>

HomePurposesLoaded(r) ==
  /\ Answered(r, "purposes") \/ Refused(r, "purposes")
  /\ Home(r)
  /\ ui' = [ui EXCEPT !.loading = FALSE, !.known = r.step = "ok"]

\* A join stops a capture, a new session does not; either way the handler goes
\* on, since the context has caught the error.
SessionEntered(r) ==
  LET done == [ui EXCEPT !.starting = FALSE, !.joining = FALSE]
  IN \/ /\ Answered(r, "create") \/ Answered(r, "join")
        /\ Home(r)
        /\ ui' = Rendered([done EXCEPT !.sess = r.answer,
                                       !.purpose = db.purpose[r.answer],
                                       !.owner = r.answer \in db.mine,
                                       !.begun = r.answer \in db.begun,
                                       !.active = FALSE,
                                       !.capture = IF r.kind = "join"
                                                   THEN None ELSE @])
     \/ /\ Refused(r, "create") \/ Refused(r, "join")
        /\ Home(r) /\ ui' = done

\* Mutation of MicStarted: for the session the tab is in when it starts.
MicStartedHere(r) ==
  \/ /\ Answered(r, "mic") /\ Home(r)
     /\ ui' = [ui EXCEPT !.capture = [source |-> r.arg, of |-> ui.sess],
                         !.active = ui.sess # None,
                         !.begun = @ \/ ui.sess = r.on]
  \/ Refused(r, "mic") /\ Home(r) /\ UNCHANGED ui

\* The capture starts, in whatever session the tab is by then.
MicStarted(r) ==
  \/ /\ Answered(r, "mic") /\ Home(r)
     /\ ui' = [ui EXCEPT !.capture = [source |-> r.arg, of |-> r.on],
                         !.active = ui.sess # None,
                         !.begun = @ \/ ui.sess = r.on]
  \/ Refused(r, "mic") /\ Home(r) /\ UNCHANGED ui

\* A refusal leaves the tab in the session it has stopped recording in.
SessionQuit(r) ==
  \/ /\ Answered(r, "stop") \/ Answered(r, "leave")
     /\ Home(r)
     /\ ui' = Rendered([NoSession(ui) EXCEPT !.stopping = FALSE])
  \/ /\ Refused(r, "stop") \/ Refused(r, "leave")
     /\ Home(r)
     /\ ui' = [ui EXCEPT !.stopping = FALSE]

SessionOver ==
  /\ ui.sess # None /\ Act
  /\ ui' = Rendered(NoSession(ui))
  /\ UNCHANGED <<net, db>>

CaptureEnds ==
  /\ ui.capture # None
  /\ ui' = [ui EXCEPT !.capture = None, !.active = FALSE]
  /\ UNCHANGED <<net, db, acts>>

\* The page is loaded again: the sources come back from localStorage.
HomeReload ==
  /\ Act
  /\ ui' = [NoSession(ui) EXCEPT !.loading = TRUE, !.known = FALSE,
                                 !.selected = None, !.starting = FALSE,
                                 !.stopping = FALSE, !.joining = FALSE]
  /\ net' = {Request("purposes", None, None)}
  /\ UNCHANGED db

HomeNext ==
  \/ \E r \in net : \/ HomeServed(r) \/ HomePurposesLoaded(r)
                    \/ SessionEntered(r) \/ MicStarted(r) \/ SessionQuit(r)
  \/ SetMicEnabled \/ SetAppEnabled
  \/ \E p \in HomePurposes : SetSelectedPurpose(p)
  \/ \E id \in Ids : HandleJoin(id)
  \/ HandleStart \/ HandleStartMic \/ HandleStopMic \/ HandleStop \/ HandleLeave
  \/ SessionOver \/ CaptureEnds \/ HomeReload

-----------------------------------------------------------------------------
\* A tab's sound is recorded only in a session whose purpose allows it: what the
\* user chose before, and kept over a reload, does not count in the session of
\* somebody else.  (The capture was asked for in the session the tab is in.)
AppOnlyWhereAllowed ==
  ui.capture # None /\ ui.capture.of = ui.sess
    /\ db.purpose[ui.sess] = "closed"
  => ui.capture.source = "mic"
=============================================================================
