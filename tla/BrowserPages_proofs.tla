------------------------- MODULE BrowserPages_proofs -------------------------
(***************************************************************************)
(* Proofs that what the pages show is a LatestView of what was selected,   *)
(* for any sessions, members, names and pages, and any number of requests  *)
(* in flight: the panel of the overview, its two lists, and the page of a  *)
(* session.                                                                *)
(*                                                                         *)
(* What makes it true is that a selection cancels the load before it: the  *)
(* one load in flight is for the session selected, so that whichever       *)
(* answer comes is the one that is wanted.  PanelInv and DetailInv say     *)
(* this, with the types they need.  A list whose fetch is in flight is     *)
(* loading, so that its pager is not there to ask for another page         *)
(* (ListsAsked).  Renames may write the names of another session into      *)
(* what is shown, but not make it another session's page.                  *)
(*                                                                         *)
(* On top of these: the members listed, on the page of a session and in    *)
(* the panel, and the names on the page are the stored ones when nothing   *)
(* is in flight, unless requests overlapped or the last fetch failed.      *)
(***************************************************************************)
EXTENDS BrowserPages, TLAPS

-----------------------------------------------------------------------------
(* The panel of the overview.                                              *)

Kinds == {"list", "panel", "members", "invite", "remove"}

Values == {None} \cup (1 .. MaxPages) \cup Users \cup SUBSET Users

RequestType == [kind : Kinds, on : Ids \cup Overview!Sides, arg : Values,
                step : {"sent", "ok", "failed"}, answer : Values]

\* What a request of each kind is about and answered with.
WellMade(r) ==
  /\ r.kind = "list" => r.on \in Overview!Sides /\ r.arg \in 1 .. MaxPages
  /\ r.kind # "list" => r.on \in Ids
  /\ r.kind \in {"invite", "remove"} => r.arg \in Users
  /\ r.step = "ok" /\ r.kind = "list" => r.answer \in 1 .. MaxPages
  /\ r.step = "ok" /\ r.kind \in {"panel", "members"} => r.answer \subseteq Users

NetOK == net \subseteq RequestType /\ \A r \in net : WellMade(r)

\* The one load in flight is for the session selected.
PanelAsked ==
  \A r \in net : r.kind = "panel" =>
    /\ r.on = ui.selected /\ ui.selected # None
    /\ ui.loading /\ ~ui.error
    /\ \A q \in net : q.kind = "panel" => q = r

PanelInv == Overview!OverviewTypeOK /\ NetOK /\ PanelAsked

\* What LatestView sees of the panel.
PanelSame == UNCHANGED <<ui.selected, ui.detail, ui.loading, ui.error>>

USE DEF Overview!Request, Overview!Sent, Overview!Answered, Overview!Refused,
        Overview!Others, Overview!Without,
        Overview!Taken, Overview!Act

-----------------------------------------------------------------------------
\* An answered request is the same request.
LEMMA Answering ==
  ASSUME NEW r \in RequestType, NEW s \in {"ok", "failed"}, NEW a \in Values
  PROVE  /\ [r EXCEPT !.step = s] \in RequestType
         /\ [r EXCEPT !.step = s, !.answer = a] \in RequestType
         /\ [r EXCEPT !.step = s].kind = r.kind
         /\ [r EXCEPT !.step = s].on = r.on
         /\ [r EXCEPT !.step = s].arg = r.arg
         /\ [r EXCEPT !.step = s].step = s
         /\ [r EXCEPT !.step = s, !.answer = a].kind = r.kind
         /\ [r EXCEPT !.step = s, !.answer = a].on = r.on
         /\ [r EXCEPT !.step = s, !.answer = a].arg = r.arg
         /\ [r EXCEPT !.step = s, !.answer = a].step = s
         /\ [r EXCEPT !.step = s, !.answer = a].answer = a
BY DEF RequestType

\* Replacing a request by another of its kind for the same thing disturbs
\* nothing.
LEMMA PanelReplaced ==
  ASSUME PanelAsked, NEW r \in net, NEW q, q.kind = r.kind, q.on = r.on,
         net' = (net \ {r}) \cup {q}, UNCHANGED ui
  PROVE  PanelAsked'
<1> SUFFICES ASSUME NEW p \in net', p.kind = "panel"
             PROVE  /\ p.on = ui.selected /\ ui.selected # None
                    /\ ui.loading /\ ~ui.error
                    /\ \A o \in net' : o.kind = "panel" => o = p
  BY DEF PanelAsked
<1>1. CASE p = q
  BY <1>1 DEF PanelAsked
<1>2. CASE p # q
  BY <1>2 DEF PanelAsked
<1> QED BY <1>1, <1>2

\* The server answers, and nothing is on the page of it yet.
LEMMA PanelServed ==
  ASSUME PanelInv, NEW r \in net, Overview!OverviewServed(r)
  PROVE  PanelInv' /\ UNCHANGED ui
<1>1. UNCHANGED ui
  BY DEF Overview!OverviewServed
<1>2. r \in RequestType /\ WellMade(r) /\ r.kind \in Kinds
  BY DEF PanelInv, NetOK, RequestType
<1>3. db' \in Overview!StoreType
  <2>1. CASE r.kind = "invite" /\ db' = [db EXCEPT !.members[r.on] = @ \cup {r.arg}]
    BY <1>2, <2>1 DEF PanelInv, Overview!OverviewTypeOK, Overview!StoreType, WellMade
  <2>2. CASE r.kind = "remove" /\ db' = [db EXCEPT !.members[r.on] = @ \ {r.arg}]
    BY <1>2, <2>2 DEF PanelInv, Overview!OverviewTypeOK, Overview!StoreType, WellMade
  <2>3. CASE UNCHANGED db
    BY <2>3 DEF PanelInv, Overview!OverviewTypeOK
  <2> QED BY <2>1, <2>2, <2>3 DEF Overview!OverviewServed
<1>4. CASE Overview!Refuse(r)
  <2> DEFINE q == [r EXCEPT !.step = "failed"]
  <2>1. /\ q \in RequestType /\ q.kind = r.kind /\ q.on = r.on
        /\ q.arg = r.arg /\ q.step = "failed"
    BY <1>2, Answering DEF Values
  <2>2. net' = (net \ {r}) \cup {q}
    BY <1>4 DEF Overview!Refuse
  <2> HIDE DEF q
  <2>3. WellMade(q)
    BY <1>2, <2>1 DEF WellMade
  <2>4. NetOK'
    BY <2>1, <2>2, <2>3 DEF PanelInv, NetOK
  <2>5. PanelAsked'
    BY <1>1, <2>1, <2>2, PanelReplaced DEF PanelInv
  <2> QED BY <1>1, <1>3, <2>4, <2>5 DEF PanelInv, Overview!OverviewTypeOK
<1>5. ASSUME NEW a \in Values, Overview!Answer(r, a),
             r.kind = "list" => a \in 1 .. MaxPages,
             r.kind \in {"panel", "members"} => a \subseteq Users
      PROVE  PanelInv'
  <2> DEFINE q == [r EXCEPT !.step = "ok", !.answer = a]
  <2>1. /\ q \in RequestType /\ q.kind = r.kind /\ q.on = r.on
        /\ q.arg = r.arg /\ q.step = "ok" /\ q.answer = a
    BY <1>2, <1>5 DEF RequestType
  <2>2. net' = (net \ {r}) \cup {q}
    BY <1>5 DEF Overview!Answer
  <2> HIDE DEF q
  <2>3. WellMade(q)
    BY <1>2, <1>5, <2>1 DEF WellMade
  <2>4. NetOK'
    BY <2>1, <2>2, <2>3 DEF PanelInv, NetOK
  <2>5. PanelAsked'
    BY <1>1, <2>1, <2>2, PanelReplaced DEF PanelInv
  <2> QED BY <1>1, <1>3, <2>4, <2>5 DEF PanelInv, Overview!OverviewTypeOK
<1>6. r.kind = "list" => db.total[r.on] \in 1 .. MaxPages
  BY <1>2 DEF PanelInv, Overview!OverviewTypeOK, Overview!StoreType, WellMade
<1>7. r.kind \in {"panel", "members"} => db.members[r.on] \in SUBSET Users
  BY <1>2 DEF PanelInv, Overview!OverviewTypeOK, Overview!StoreType, WellMade
<1>8. CASE r.kind = "list" /\ Overview!Answer(r, db.total[r.on])
  <2>1. db.total[r.on] \in Values
    BY <1>6, <1>8 DEF Values
  <2>2. r.kind \notin {"panel", "members"}
    BY <1>8
  <2> QED BY <1>1, <1>5, <1>6, <1>8, <2>1, <2>2
<1>9. CASE r.kind \in {"panel", "members"} /\ Overview!Answer(r, db.members[r.on])
  <2>1. db.members[r.on] \in Values
    BY <1>7, <1>9 DEF Values
  <2>2. r.kind # "list"
    BY <1>9
  <2> QED BY <1>1, <1>5, <1>7, <1>9, <2>1, <2>2
<1>10. CASE r.kind \in {"invite", "remove"} /\ Overview!Answer(r, None)
  <2>1. None \in Values
    BY DEF Values
  <2>2. r.kind \notin {"list", "panel", "members"}
    BY <1>10
  <2> QED BY <1>1, <1>5, <1>10, <2>1, <2>2
<1> QED BY <1>1, <1>4, <1>8, <1>9, <1>10 DEF Overview!OverviewServed

-----------------------------------------------------------------------------
\* The steps of the page.

\* An answer that is taken is no longer in flight.
LEMMA NetLess ==
  ASSUME NetOK, net' \subseteq net
  PROVE  NetOK'
BY DEF NetOK

\* A request that is made is well made.
LEMMA NetMore ==
  ASSUME NetOK, NEW kind \in Kinds, NEW on, NEW arg \in Values,
         kind = "list" => on \in Overview!Sides /\ arg \in 1 .. MaxPages,
         kind # "list" => on \in Ids,
         kind \in {"invite", "remove"} => arg \in Users,
         NEW rest \in SUBSET net,
         net' = rest \cup {Overview!Request(kind, on, arg)}
  PROVE  NetOK'
<1>1. Overview!Request(kind, on, arg) \in RequestType
  BY DEF RequestType, Values
<1>2. WellMade(Overview!Request(kind, on, arg))
  BY DEF WellMade
<1> QED BY <1>1, <1>2 DEF NetOK

\* As long as the panel's own state stays and no load of it is added, its load
\* is still the one.
LEMMA PanelKept ==
  ASSUME PanelAsked, PanelSame,
         \A r \in net' : r.kind = "panel" => r \in net
  PROVE  PanelAsked'
BY DEF PanelAsked, PanelSame

\* A list of another state is all that changes.
LEMMA BucketSet ==
  ASSUME PanelInv, NEW s \in Overview!Sides, NEW b \in Overview!BucketType,
         ui' = [ui EXCEPT !.buckets[s] = b]
  PROVE  ui' \in Overview!PageType /\ PanelSame
<1>1. [ui.buckets EXCEPT ![s] = b] \in [Overview!Sides -> Overview!BucketType]
  BY DEF PanelInv, Overview!OverviewTypeOK, Overview!PageType
<1> QED BY <1>1 DEF PanelInv, Overview!OverviewTypeOK, Overview!PageType, PanelSame

LEMMA ListStep ==
  ASSUME PanelInv,
         \/ \E s \in Overview!Sides, n \in 1 .. MaxPages : Overview!SetPage(s, n)
         \/ \E r \in net : Overview!BucketLoaded(r)
  PROVE  PanelInv' /\ PanelSame
<1>1. ASSUME NEW s \in Overview!Sides, NEW n \in 1 .. MaxPages,
             Overview!SetPage(s, n)
      PROVE  PanelInv' /\ PanelSame
  <2>1. ui' \in Overview!PageType /\ PanelSame
    <3> DEFINE b == [ui.buckets[s] EXCEPT !.page = n, !.loading = TRUE,
                                          !.error = FALSE]
    <3>1. ui.buckets[s] \in Overview!BucketType
      BY DEF PanelInv, Overview!OverviewTypeOK, Overview!PageType
    <3>2. b \in Overview!BucketType
      BY <3>1 DEF Overview!BucketType
    <3>3. ui' = [ui EXCEPT !.buckets[s] = b]
      BY <1>1 DEF Overview!SetPage
    <3> HIDE DEF b
    <3> QED BY <3>2, <3>3, BucketSet
  <2>2. NetOK'
    <3>1. net' = net \cup {Overview!Request("list", s, n)}
      BY <1>1 DEF Overview!SetPage
    <3> QED BY <1>1, <3>1, NetMore DEF PanelInv, Kinds, Values
  <2>3. PanelAsked'
    <3>1. net' = net \cup {Overview!Request("list", s, n)}
      BY <1>1 DEF Overview!SetPage
    <3>2. \A r \in net' : r.kind = "panel" => r \in net
      BY <3>1
    <3> HIDE DEF Overview!Request
    <3> QED BY <2>1, <3>2, PanelKept DEF PanelInv
  <2>4. UNCHANGED db
    BY <1>1 DEF Overview!SetPage
  <2> QED BY <2>1, <2>2, <2>3, <2>4 DEF PanelInv, Overview!OverviewTypeOK
<1>2. ASSUME NEW r \in net, Overview!BucketLoaded(r)
      PROVE  PanelInv' /\ PanelSame
  <2>1. UNCHANGED db /\ net' = net \ {r}
    BY <1>2 DEF Overview!BucketLoaded
  <2>2. r.kind = "list" /\ r.on \in Overview!Sides /\ r.arg \in 1 .. MaxPages
    BY <1>2 DEF Overview!BucketLoaded, PanelInv, NetOK, WellMade
  <2>3. ui' \in Overview!PageType /\ PanelSame
    <3> DEFINE b == [ui.buckets[r.on] EXCEPT !.shown = r.arg,
                                             !.total = r.answer,
                                             !.loading = FALSE]
               e == [ui.buckets[r.on] EXCEPT !.error = TRUE, !.loading = FALSE]
    <3>1. ui.buckets[r.on] \in Overview!BucketType
      BY <2>2 DEF PanelInv, Overview!OverviewTypeOK, Overview!PageType
    <3>2. CASE r.step = "ok" /\ ui' = [ui EXCEPT !.buckets[r.on] = b]
      <4>1. r.answer \in 1 .. MaxPages
        BY <2>2, <3>2 DEF PanelInv, NetOK, WellMade
      <4>2. b \in Overview!BucketType
        BY <2>2, <3>1, <4>1 DEF Overview!BucketType
      <4> HIDE DEF b
      <4> QED BY <2>2, <3>2, <4>2, BucketSet
    <3>3. CASE ui' = [ui EXCEPT !.buckets[r.on] = e]
      <4>1. e \in Overview!BucketType
        BY <3>1 DEF Overview!BucketType
      <4> HIDE DEF e
      <4> QED BY <2>2, <3>3, <4>1, BucketSet
    <3> QED BY <1>2, <3>2, <3>3 DEF Overview!BucketLoaded
  <2>4. NetOK' /\ PanelAsked'
    BY <2>1, <2>3, NetLess, PanelKept DEF PanelInv
  <2> QED BY <2>1, <2>3, <2>4 DEF PanelInv, Overview!OverviewTypeOK
<1> QED BY <1>1, <1>2

-----------------------------------------------------------------------------
\* What may happen to the panel, as LatestView has it.
PanelSelects == /\ ui'.selected \in Ids /\ ui'.loading
                /\ UNCHANGED ui.detail
PanelCloses == ui'.selected = None /\ ui'.detail = None
PanelShows == /\ ui.selected # None /\ ui.loading
              /\ UNCHANGED ui.selected /\ ui'.detail = ui.selected
              /\ ~ui'.loading /\ ~ui'.error
PanelFails == /\ ui.selected # None /\ ui.loading
              /\ UNCHANGED <<ui.selected, ui.detail>>
              /\ ~ui'.loading /\ ui'.error

LEMMA SelectStep ==
  ASSUME PanelInv, NEW id \in Ids, Overview!SelectSession(id)
  PROVE  PanelInv' /\ PanelSelects
<1>1. /\ ui' \in Overview!PageType /\ UNCHANGED ui.detail
      /\ ui'.selected = id /\ ui'.loading /\ ~ui'.error
  <2> DEFINE m == ui.mixed \/ Overview!Without({"list", "panel"}) # {}
  <2>1. m \in BOOLEAN
    BY DEF PanelInv, Overview!OverviewTypeOK, Overview!PageType
  <2>2. ui' = [ui EXCEPT !.selected = id, !.loading = TRUE, !.error = FALSE,
                         !.mixed = m]
    BY DEF Overview!SelectSession
  <2> HIDE DEF m
  <2> QED BY <2>1, <2>2 DEF PanelInv, Overview!OverviewTypeOK, Overview!PageType
<1>2. /\ net' = Overview!Without({"panel"}) \cup
                  {Overview!Request("panel", id, None)}
      /\ UNCHANGED db
  BY DEF Overview!SelectSession
<1>3. NetOK'
  <2> DEFINE rest == Overview!Without({"panel"})
  <2>1. rest \in SUBSET net
    OBVIOUS
  <2>2. net' = rest \cup {Overview!Request("panel", id, None)}
    BY <1>2
  <2>3. "panel" \in Kinds /\ None \in Values
    BY DEF Kinds, Values
  <2> HIDE DEF rest, Overview!Request
  <2> QED BY <2>1, <2>2, <2>3, NetMore DEF PanelInv
<1>4. PanelAsked'
  <2>1. \A r \in net' : r.kind = "panel" => r = Overview!Request("panel", id, None)
    BY <1>2
  <2>2. id # None
    BY PagesAssumption
  <2> QED BY <1>1, <2>1, <2>2 DEF PanelAsked
<1> QED BY <1>1, <1>2, <1>3, <1>4 DEF PanelInv, Overview!OverviewTypeOK, PanelSelects

LEMMA CloseStep ==
  ASSUME PanelInv, Overview!ClosePanel
  PROVE  PanelInv' /\ PanelCloses
<1>1. /\ ui' \in Overview!PageType
      /\ ui'.selected = None /\ ui'.detail = None
  <2> DEFINE m == ui.mixed \/ Overview!Without({"list", "panel"}) # {}
  <2>1. m \in BOOLEAN
    BY DEF PanelInv, Overview!OverviewTypeOK, Overview!PageType
  <2>2. ui' = [ui EXCEPT !.selected = None, !.detail = None, !.members = {},
                         !.mixed = m]
    BY DEF Overview!ClosePanel
  <2> HIDE DEF m
  <2> QED BY <2>1, <2>2 DEF PanelInv, Overview!OverviewTypeOK, Overview!PageType
<1>2. net' = Overview!Without({"panel"}) /\ UNCHANGED db
  BY DEF Overview!ClosePanel
<1>3. NetOK' /\ PanelAsked'
  BY <1>2, NetLess DEF PanelInv, PanelAsked
<1> QED BY <1>1, <1>2, <1>3 DEF PanelInv, Overview!OverviewTypeOK, PanelCloses

LEMMA LoadedStep ==
  ASSUME PanelInv, NEW r \in net, Overview!PanelLoaded(r)
  PROVE  PanelInv' /\ (PanelShows \/ PanelFails)
<1>1. r.kind = "panel" /\ net' = net \ {r} /\ UNCHANGED db
  BY DEF Overview!PanelLoaded
<1>2. /\ r.on = ui.selected /\ ui.selected # None /\ ui.loading /\ ~ui.error
      /\ r.on \in Ids
  BY <1>1 DEF PanelInv, PanelAsked, NetOK, WellMade
<1>3. NetOK' /\ PanelAsked'
  BY <1>1, NetLess DEF PanelInv, PanelAsked
<1>4. CASE r.step = "ok" /\ ui' = [ui EXCEPT !.detail = r.on, !.members = r.answer,
                                              !.loading = FALSE]
  <2>1. r.answer \in SUBSET Users
    BY <1>1, <1>4 DEF PanelInv, NetOK, WellMade
  <2>2. ui' \in Overview!PageType /\ PanelShows
    BY <1>2, <1>4, <2>1 DEF PanelInv, Overview!OverviewTypeOK, Overview!PageType,
                            PanelShows
  <2> QED BY <1>1, <1>3, <2>2 DEF PanelInv, Overview!OverviewTypeOK
<1>5. CASE ui' = [ui EXCEPT !.error = TRUE, !.loading = FALSE]
  <2>1. ui' \in Overview!PageType /\ PanelFails
    BY <1>2, <1>5 DEF PanelInv, Overview!OverviewTypeOK, Overview!PageType,
                      PanelFails
  <2> QED BY <1>1, <1>3, <2>1 DEF PanelInv, Overview!OverviewTypeOK
<1> QED BY <1>4, <1>5 DEF Overview!PanelLoaded

\* A request about the members is made and leaves the panel's load alone.
LEMMA MemberAsked ==
  ASSUME PanelInv, UNCHANGED db, ui' \in Overview!PageType, PanelSame,
         NEW kind \in {"invite", "remove", "members"},
         NEW on \in Ids, NEW arg \in Values,
         kind \in {"invite", "remove"} => arg \in Users,
         NEW rest \in SUBSET net,
         net' = rest \cup {Overview!Request(kind, on, arg)}
  PROVE  PanelInv'
<1>1. kind \in Kinds /\ kind # "list"
  BY DEF Kinds
<1>2. \A r \in net' : r.kind = "panel" => r \in net
  OBVIOUS
<1> HIDE DEF Overview!Request
<1>3. NetOK'
  BY <1>1, NetMore DEF PanelInv
<1>4. PanelAsked'
  BY <1>2, PanelKept DEF PanelInv
<1> QED BY <1>3, <1>4 DEF PanelInv, Overview!OverviewTypeOK

\* An answer about the members is taken.
LEMMA MemberTaken ==
  ASSUME PanelInv, NEW r \in net, net' = net \ {r}, UNCHANGED db,
         ui' \in Overview!PageType, PanelSame
  PROVE  PanelInv'
<1>1. NetOK' /\ PanelAsked'
  BY NetLess, PanelKept DEF PanelInv
<1> QED BY <1>1 DEF PanelInv, Overview!OverviewTypeOK

LEMMA AskStep ==
  ASSUME PanelInv, NEW u \in Users, Overview!Invite(u) \/ Overview!Remove(u)
  PROVE  PanelInv' /\ PanelSame
<1> DEFINE m == ui.mixed \/ ui.loading \/ Overview!Without({"list"}) # {}
<1>1. ui.detail \in Ids /\ UNCHANGED db /\ m \in BOOLEAN
  BY DEF Overview!Invite, Overview!Remove, PanelInv, Overview!OverviewTypeOK,
         Overview!PageType
<1>2. ui' \in Overview!PageType /\ PanelSame
  <2>1. \/ ui' = [ui EXCEPT !.inviting = TRUE, !.mixed = m]
        \/ ui' = [ui EXCEPT !.removeBusy = u, !.mixed = m]
    BY DEF Overview!Invite, Overview!Remove
  <2> HIDE DEF m
  <2>2. CASE ui' = [ui EXCEPT !.inviting = TRUE, !.mixed = m]
    BY <1>1, <2>2 DEF PanelInv, Overview!OverviewTypeOK, Overview!PageType, PanelSame
  <2>3. CASE ui' = [ui EXCEPT !.removeBusy = u, !.mixed = m]
    BY <1>1, <2>3 DEF PanelInv, Overview!OverviewTypeOK, Overview!PageType, PanelSame
  <2> QED BY <2>1, <2>2, <2>3
<1>3. PICK kind \in {"invite", "remove"} :
        net' = net \cup {Overview!Request(kind, ui.detail, u)}
  BY DEF Overview!Invite, Overview!Remove
<1>4. u \in Values
  BY DEF Values
<1> HIDE DEF Overview!Request
<1> QED BY <1>1, <1>2, <1>3, <1>4, MemberAsked

LEMMA InvitedStep ==
  ASSUME PanelInv, NEW r \in net, Overview!Invited(r)
  PROVE  PanelInv' /\ PanelSame
<1>1. CASE /\ r.kind = "invite" /\ UNCHANGED <<ui, db>>
           /\ net' = (net \ {r}) \cup {Overview!Request("members", r.on, None)}
  <2>1. r.on \in Ids /\ None \in Values /\ net \ {r} \in SUBSET net
    BY <1>1 DEF PanelInv, NetOK, WellMade, Values
  <2>2. ui' \in Overview!PageType /\ PanelSame
    BY <1>1 DEF PanelInv, Overview!OverviewTypeOK, PanelSame
  <2> HIDE DEF Overview!Request
  <2> QED BY <1>1, <2>1, <2>2, MemberAsked
<1>2. CASE /\ r.kind = "members" /\ r.step = "ok"
           /\ net' = net \ {r} /\ UNCHANGED db
           /\ ui' = [ui EXCEPT !.members = r.answer, !.inviting = FALSE]
  <2>1. r.answer \in SUBSET Users
    BY <1>2 DEF PanelInv, NetOK, WellMade
  <2>2. ui' \in Overview!PageType /\ PanelSame
    BY <1>2, <2>1 DEF PanelInv, Overview!OverviewTypeOK, Overview!PageType, PanelSame
  <2> QED BY <1>2, <2>2, MemberTaken
<1>3. CASE net' = net \ {r} /\ UNCHANGED db /\ ui' = [ui EXCEPT !.inviting = FALSE]
  <2>1. ui' \in Overview!PageType /\ PanelSame
    BY <1>3 DEF PanelInv, Overview!OverviewTypeOK, Overview!PageType, PanelSame
  <2> QED BY <1>3, <2>1, MemberTaken
<1>4. CASE /\ net' = net \ {r} /\ UNCHANGED db
           /\ ui' = [ui EXCEPT !.inviting = FALSE, !.mixed = TRUE]
  <2>1. ui' \in Overview!PageType /\ PanelSame
    BY <1>4 DEF PanelInv, Overview!OverviewTypeOK, Overview!PageType, PanelSame
  <2> QED BY <1>4, <2>1, MemberTaken
<1> QED BY <1>1, <1>2, <1>3, <1>4 DEF Overview!Invited

LEMMA RemovedStep ==
  ASSUME PanelInv, NEW r \in net, Overview!Removed(r)
  PROVE  PanelInv' /\ PanelSame
<1>1. net' = net \ {r} /\ UNCHANGED db
  BY DEF Overview!Removed
<1>2. ui' \in Overview!PageType /\ PanelSame
  <2>1. CASE ui' = [ui EXCEPT !.members = @ \ {r.arg}, !.removeBusy = None]
    <3>1. ui.members \ {r.arg} \in SUBSET Users
      BY DEF PanelInv, Overview!OverviewTypeOK, Overview!PageType
    <3> QED BY <2>1, <3>1 DEF PanelInv, Overview!OverviewTypeOK,
                              Overview!PageType, PanelSame
  <2>2. CASE ui' = [ui EXCEPT !.removeBusy = None]
    BY <2>2 DEF PanelInv, Overview!OverviewTypeOK, Overview!PageType, PanelSame
  <2> QED BY <2>1, <2>2 DEF Overview!Removed
<1> QED BY <1>1, <1>2, MemberTaken

LEMMA OverviewStep ==
  ASSUME PanelInv, Overview!OverviewNext
  PROVE  /\ PanelInv'
         /\ PanelSame \/ PanelSelects \/ PanelCloses \/ PanelShows \/ PanelFails
<1>1. ASSUME NEW r \in net, Overview!OverviewServed(r)
      PROVE  PanelInv' /\ PanelSame
  BY <1>1, PanelServed DEF PanelSame
<1> QED
  BY <1>1, ListStep, SelectStep, CloseStep, LoadedStep, AskStep, InvitedStep,
     RemovedStep DEF Overview!OverviewNext

-----------------------------------------------------------------------------
\* The whole application.
Inv == page = "overview" => PanelInv

LEMMA PanelInit ==
  ASSUME Init
  PROVE  Inv /\ PanelView!ViewInit
<1>1. ASSUME page = "overview"
      PROVE  PanelInv /\ ui.selected = None /\ ui.detail = None
  <2>1. Overview!OverviewInit
    BY <1>1 DEF Init
  <2>2. ui.selected = None /\ ui.detail = None
    BY <2>1 DEF Overview!OverviewInit
  <2>3. PICK n \in 1 .. MaxPages, m \in SUBSET Users :
          db = [total |-> [s \in Overview!Sides |-> n],
                members |-> [i \in Ids |-> m]]
    BY <2>1 DEF Overview!OverviewInit
  <2>4. 1 \in 1 .. MaxPages
    BY <2>3, PagesAssumption
  <2>5. db \in Overview!StoreType
    BY <2>3 DEF Overview!StoreType
  <2>6. ui \in Overview!PageType
    BY <2>1, <2>4 DEF Overview!OverviewInit, Overview!PageType,
                      Overview!BucketType
  <2>7. net = {Overview!Request("list", s, 1) : s \in Overview!Sides}
    BY <2>1 DEF Overview!OverviewInit
  <2>8. ASSUME NEW s \in Overview!Sides
        PROVE  /\ Overview!Request("list", s, 1) \in RequestType
               /\ WellMade(Overview!Request("list", s, 1))
               /\ Overview!Request("list", s, 1).kind # "panel"
    <3>1. "list" \in Kinds /\ 1 \in Values /\ None \in Values
      BY <2>4 DEF Kinds, Values
    <3> QED BY <2>4, <3>1 DEF RequestType, WellMade
  <2> HIDE DEF Overview!Request
  <2>9. NetOK /\ PanelAsked
    BY <2>7, <2>8 DEF NetOK, PanelAsked
  <2> QED BY <2>2, <2>5, <2>6, <2>9 DEF PanelInv, Overview!OverviewTypeOK
<1> QED BY <1>1 DEF Inv, PanelView!ViewInit, On, Overview!PanelState

LEMMA PanelNext ==
  ASSUME Inv, [Next]_vars
  PROVE  Inv' /\ [PanelView!ViewNext]_(PanelView!viewVars)
<1>1. UNCHANGED page
  BY DEF Next, vars
<1>2. CASE page # "overview"
  <2>1. UNCHANGED PanelView!viewVars
    BY <1>1, <1>2 DEF On, PanelView!viewVars
  <2> QED BY <1>1, <1>2, <2>1 DEF Inv
<1>3. CASE UNCHANGED vars
  <2>1. UNCHANGED <<ui, net, db, page>>
    BY <1>3 DEF vars, pageVars
  <2>2. UNCHANGED PanelView!viewVars
    BY <2>1 DEF On, PanelView!viewVars, Overview!PanelState
  <2>3. Inv'
    BY <2>1 DEF Inv, PanelInv, Overview!OverviewTypeOK, NetOK, PanelAsked
  <2> QED BY <2>2, <2>3
<1>4. CASE page = "overview" /\ Next
  <2>1. PanelInv /\ Overview!OverviewNext
    BY <1>4 DEF Inv, Next
  <2>2. /\ PanelInv'
        /\ PanelSame \/ PanelSelects \/ PanelCloses \/ PanelShows \/ PanelFails
    BY <2>1, OverviewStep
  <2>3. Inv'
    BY <2>2 DEF Inv
  <2>4. CASE PanelSame
    <3>1. UNCHANGED PanelView!viewVars
      BY <1>1, <2>4 DEF On, PanelView!viewVars, Overview!PanelState, PanelSame
    <3> QED BY <2>3, <3>1
  <2>5. CASE PanelSelects
    <3>1. ui'.selected # None
      BY <2>5, PagesAssumption DEF PanelSelects
    <3>2. PanelView!Select(ui'.selected)
      BY <1>1, <1>4, <2>5, <3>1 DEF On, PanelView!Select, Overview!PanelState,
                                    PanelSelects
    <3> QED BY <2>3, <2>5, <3>2 DEF PanelView!ViewNext, PanelSelects
  <2>6. CASE PanelCloses
    <3>1. PanelView!Close
      BY <1>1, <1>4, <2>6 DEF On, PanelView!Close, Overview!PanelState,
                              PanelCloses
    <3> QED BY <2>3, <3>1 DEF PanelView!ViewNext
  <2>7. CASE PanelShows
    <3>1. PanelView!Show
      BY <1>1, <1>4, <2>7 DEF On, PanelView!Show, Overview!PanelState,
                              PanelShows
    <3> QED BY <2>3, <3>1 DEF PanelView!ViewNext
  <2>8. CASE PanelFails
    <3>1. PanelView!Fail
      BY <1>1, <1>4, <2>8 DEF On, PanelView!Fail, Overview!PanelState,
                              PanelFails
    <3> QED BY <2>3, <3>1 DEF PanelView!ViewNext
  <2> QED BY <2>2, <2>4, <2>5, <2>6, <2>7, <2>8
<1> QED BY <1>2, <1>3, <1>4

\* The panel of the overview shows the session selected last, or says that it
\* is loading or that loading failed, whatever selections, answers and changes
\* of members run together (useSessionOverviewDetail): the detailed page
\* implements LatestView.
THEOREM PanelImplementsView == Spec => PanelIsLatest
<1>1. Init => Inv /\ PanelView!ViewInit
  BY PanelInit
<1>2. Inv /\ [Next]_vars => Inv' /\ [PanelView!ViewNext]_(PanelView!viewVars)
  BY PanelNext
<1> QED BY <1>1, <1>2, PTL DEF Spec, PanelIsLatest, PanelView!ViewSpec

\* What LatestView is for: a panel that says neither that it is loading nor
\* that loading failed shows the selected session, and none when none is
\* selected.
THEOREM PanelShowsSelected == Spec => []PanelView!ReadyShowsKey
<1>1. PanelView!ViewInit => PanelView!ReadyShowsKey
  BY DEF PanelView!ViewInit, PanelView!ReadyShowsKey
<1>2. PanelView!ReadyShowsKey /\ [PanelView!ViewNext]_(PanelView!viewVars)
        => PanelView!ReadyShowsKey'
  BY DEF PanelView!ReadyShowsKey, PanelView!ViewNext, PanelView!viewVars,
         PanelView!Select, PanelView!Close, PanelView!Show, PanelView!Fail
<1> QED BY <1>1, <1>2, PanelImplementsView, PTL DEF PanelIsLatest,
           PanelView!ViewSpec

-----------------------------------------------------------------------------
(* The two lists of the overview.                                          *)

\* The one fetch of a side in flight is for the page that the pager names.
ListsAsked ==
  \A r \in net : r.kind = "list" =>
    /\ r.arg = ui.buckets[r.on].page
    /\ ui.buckets[r.on].loading /\ ~ui.buckets[r.on].error
    /\ \A q \in net : q.kind = "list" /\ q.on = r.on => q = r

\* What may happen to a list, as LatestView has it.
ListSame(s) == ui'.buckets[s] = ui.buckets[s]
ListSelects(s) == /\ ui'.buckets[s].page \in 1 .. MaxPages
                  /\ ui'.buckets[s].loading
                  /\ ui'.buckets[s].shown = ui.buckets[s].shown
ListShows(s) == /\ ui.buckets[s].loading
                /\ ui'.buckets[s].page = ui.buckets[s].page
                /\ ui'.buckets[s].shown = ui.buckets[s].page
                /\ ~ui'.buckets[s].loading /\ ~ui'.buckets[s].error
ListFails(s) == /\ ui.buckets[s].loading
                /\ ui'.buckets[s].page = ui.buckets[s].page
                /\ ui'.buckets[s].shown = ui.buckets[s].shown
                /\ ~ui'.buckets[s].loading /\ ui'.buckets[s].error
ListMoves(s) == ListSame(s) \/ ListSelects(s) \/ ListShows(s) \/ ListFails(s)

USE DEF Overview!Sent, Overview!Answered, Overview!Refused, Overview!Others,
        Overview!Without, Overview!Taken, Overview!Act

-----------------------------------------------------------------------------
\* A step that leaves the lists alone and asks for none.
LEMMA ListsKept ==
  ASSUME ListsAsked, UNCHANGED ui.buckets,
         \A r \in net' : r.kind = "list" => r \in net
  PROVE  ListsAsked' /\ \A s \in Overview!Sides : ListMoves(s)
  BY DEF ListsAsked, ListMoves, ListSame

\* A list of another state is all that changes.
LEMMA OneListSet ==
  ASSUME PanelInv, NEW s \in Overview!Sides, NEW b \in Overview!BucketType,
         ui' = [ui EXCEPT !.buckets[s] = b]
  PROVE  /\ ui'.buckets[s] = b
         /\ \A t \in Overview!Sides \ {s} : ListSame(t)
<1>1. ui.buckets \in [Overview!Sides -> Overview!BucketType]
  BY DEF PanelInv, Overview!OverviewTypeOK, Overview!PageType
<1>2. ui'.buckets = [ui.buckets EXCEPT ![s] = b]
  BY DEF PanelInv, Overview!OverviewTypeOK, Overview!PageType
<1> QED BY <1>1, <1>2 DEF ListSame

\* The server answers: a request with its answer is the same request.
LEMMA ListServed ==
  ASSUME PanelInv, ListsAsked, NEW r \in net, Overview!OverviewServed(r)
  PROVE  ListsAsked' /\ \A s \in Overview!Sides : ListMoves(s)
<1>1. UNCHANGED ui
  BY DEF Overview!OverviewServed
<1>2. r \in RequestType
  BY DEF PanelInv, NetOK
<1>3. PICK q : /\ net' = (net \ {r}) \cup {q}
               /\ q.kind = r.kind /\ q.on = r.on /\ q.arg = r.arg
  <2>1. CASE Overview!Refuse(r)
    <3> DEFINE p == [r EXCEPT !.step = "failed"]
    <3>1. p.kind = r.kind /\ p.on = r.on /\ p.arg = r.arg
      BY <1>2 DEF RequestType
    <3>2. net' = (net \ {r}) \cup {p}
      BY <2>1 DEF Overview!Refuse
    <3> HIDE DEF p
    <3> QED BY <3>1, <3>2
  <2>2. ASSUME NEW a, Overview!Answer(r, a)
        PROVE  \E p : /\ net' = (net \ {r}) \cup {p}
                      /\ p.kind = r.kind /\ p.on = r.on /\ p.arg = r.arg
    <3> DEFINE p == [r EXCEPT !.step = "ok", !.answer = a]
    <3>1. p.kind = r.kind /\ p.on = r.on /\ p.arg = r.arg
      BY <1>2 DEF RequestType
    <3>2. net' = (net \ {r}) \cup {p}
      BY <2>2 DEF Overview!Answer
    <3> HIDE DEF p
    <3> QED BY <3>1, <3>2
  <2> QED BY <2>1, <2>2 DEF Overview!OverviewServed
<1>4. ListsAsked'
  <2> SUFFICES ASSUME NEW p \in net', p.kind = "list"
               PROVE  /\ p.arg = ui.buckets[p.on].page
                      /\ ui.buckets[p.on].loading /\ ~ui.buckets[p.on].error
                      /\ \A o \in net' : o.kind = "list" /\ o.on = p.on => o = p
    BY <1>1 DEF ListsAsked
  <2>1. CASE p = q
    BY <1>3, <2>1 DEF ListsAsked
  <2>2. CASE p # q
    BY <1>3, <2>2 DEF ListsAsked
  <2> QED BY <2>1, <2>2
<1> QED BY <1>1, <1>4 DEF ListMoves, ListSame

\* A list is only turned when nothing of it is in flight.
LEMMA ListTurned ==
  ASSUME PanelInv, ListsAsked, NEW s \in Overview!Sides, NEW n \in 1 .. MaxPages,
         Overview!SetPage(s, n)
  PROVE  ListsAsked' /\ \A t \in Overview!Sides : ListMoves(t)
<1> DEFINE b == [ui.buckets[s] EXCEPT !.page = n, !.loading = TRUE, !.error = FALSE]
           q == Overview!Request("list", s, n)
<1>1. ui.buckets[s] \in Overview!BucketType /\ ~ui.buckets[s].loading
  BY DEF PanelInv, Overview!OverviewTypeOK, Overview!PageType, Overview!SetPage
<1>2. /\ b \in Overview!BucketType /\ b.page = n /\ b.loading /\ ~b.error
      /\ b.shown = ui.buckets[s].shown
  BY <1>1 DEF Overview!BucketType
<1>3. ui' = [ui EXCEPT !.buckets[s] = b] /\ net' = net \cup {q}
  BY DEF Overview!SetPage
<1>4. q.kind = "list" /\ q.on = s /\ q.arg = n
  BY DEF Overview!Request
<1> HIDE DEF b, q
<1>5. ui'.buckets[s] = b /\ \A t \in Overview!Sides \ {s} : ListSame(t)
  BY <1>2, <1>3, OneListSet
<1>6. \A r \in net : r.kind = "list" => r.on \in Overview!Sides \ {s}
  BY <1>1 DEF ListsAsked, PanelInv, NetOK, WellMade
<1>7. ListsAsked'
  <2> SUFFICES ASSUME NEW p \in net', p.kind = "list"
               PROVE  /\ p.arg = ui'.buckets[p.on].page
                      /\ ui'.buckets[p.on].loading /\ ~ui'.buckets[p.on].error
                      /\ \A o \in net' : o.kind = "list" /\ o.on = p.on => o = p
    BY DEF ListsAsked
  <2>1. CASE p = q
    BY <1>2, <1>3, <1>4, <1>5, <1>6, <2>1
  <2>2. CASE p \in net
    <3>1. ui'.buckets[p.on] = ui.buckets[p.on] /\ p.on # s
      BY <1>5, <1>6, <2>2 DEF ListSame
    <3> QED BY <1>3, <1>4, <2>2, <3>1 DEF ListsAsked
  <2> QED BY <1>3, <2>1, <2>2
<1>8. ListSelects(s)
  BY <1>2, <1>5 DEF ListSelects
<1> QED BY <1>5, <1>7, <1>8 DEF ListMoves

\* The answer to the one fetch of a side.
LEMMA ListLoaded ==
  ASSUME PanelInv, ListsAsked, NEW r \in net, Overview!BucketLoaded(r)
  PROVE  ListsAsked' /\ \A t \in Overview!Sides : ListMoves(t)
<1> DEFINE was == ui.buckets[r.on]
           b == [was EXCEPT !.shown = r.arg, !.total = r.answer, !.loading = FALSE]
           e == [was EXCEPT !.error = TRUE, !.loading = FALSE]
<1>1. net' = net \ {r} /\ r.kind = "list"
  BY DEF Overview!BucketLoaded
<1>2. /\ r.on \in Overview!Sides /\ r.arg \in 1 .. MaxPages
      /\ r.step = "ok" => r.answer \in 1 .. MaxPages
  BY <1>1 DEF PanelInv, NetOK, WellMade
<1>3. /\ was \in Overview!BucketType
      /\ r.arg = was.page /\ was.loading /\ ~was.error
      /\ \A q \in net : q.kind = "list" /\ q.on = r.on => q = r
  BY <1>1, <1>2 DEF PanelInv, Overview!OverviewTypeOK, Overview!PageType, ListsAsked
<1>4. ASSUME NEW c \in Overview!BucketType, ui' = [ui EXCEPT !.buckets[r.on] = c]
      PROVE  /\ ListsAsked' /\ ui'.buckets[r.on] = c
             /\ \A t \in Overview!Sides \ {r.on} : ListSame(t)
  <2>1. ui'.buckets[r.on] = c /\ \A t \in Overview!Sides \ {r.on} : ListSame(t)
    BY <1>2, <1>4, OneListSet
  <2>2. \A q \in net' : q.kind = "list" => q.on \in Overview!Sides \ {r.on}
    BY <1>1, <1>3 DEF PanelInv, NetOK, WellMade
  <2> HIDE DEF was
  <2>3. ListsAsked'
    BY <1>1, <2>1, <2>2 DEF ListsAsked, ListSame
  <2> QED BY <2>1, <2>3
<1>5. CASE r.step = "ok" /\ ui' = [ui EXCEPT !.buckets[r.on] = b]
  <2>1. /\ b \in Overview!BucketType /\ b.page = was.page /\ b.shown = was.page
        /\ ~b.loading /\ ~b.error
    <3> HIDE DEF was
    <3> QED BY <1>2, <1>3, <1>5 DEF Overview!BucketType
  <2> HIDE DEF b
  <2>2. ListsAsked' /\ ListShows(r.on)
    BY <1>3, <1>4, <1>5, <2>1 DEF ListShows
  <2> QED BY <1>4, <1>5, <2>1, <2>2 DEF ListMoves
<1>6. CASE ui' = [ui EXCEPT !.buckets[r.on] = e]
  <2>1. /\ e \in Overview!BucketType /\ e.page = was.page /\ e.shown = was.shown
        /\ ~e.loading /\ e.error
    <3> HIDE DEF was
    <3> QED BY <1>3 DEF Overview!BucketType
  <2> HIDE DEF e
  <2>2. ListsAsked' /\ ListFails(r.on)
    BY <1>3, <1>4, <1>6, <2>1 DEF ListFails
  <2> QED BY <1>4, <1>6, <2>1, <2>2 DEF ListMoves
<1> QED BY <1>5, <1>6 DEF Overview!BucketLoaded

\* The panel's steps leave the lists alone.
LEMMA PanelOnly ==
  ASSUME PanelInv, ListsAsked,
         \/ \E r \in net : \/ Overview!PanelLoaded(r) \/ Overview!Invited(r)
                           \/ Overview!Removed(r)
         \/ \E id \in Ids : Overview!SelectSession(id)
         \/ Overview!ClosePanel
         \/ \E u \in Users : Overview!Invite(u) \/ Overview!Remove(u)
  PROVE  ListsAsked' /\ \A s \in Overview!Sides : ListMoves(s)
<1>1. UNCHANGED ui.buckets
  <2> USE DEF PanelInv, Overview!OverviewTypeOK, Overview!PageType
  <2>1. ASSUME NEW r \in net, Overview!PanelLoaded(r)
        PROVE  UNCHANGED ui.buckets
    BY <2>1 DEF Overview!PanelLoaded
  <2>2. ASSUME NEW r \in net, Overview!Invited(r)
        PROVE  UNCHANGED ui.buckets
    BY <2>2 DEF Overview!Invited
  <2>3. ASSUME NEW r \in net, Overview!Removed(r)
        PROVE  UNCHANGED ui.buckets
    BY <2>3 DEF Overview!Removed
  <2>4. ASSUME NEW id \in Ids, Overview!SelectSession(id)
        PROVE  UNCHANGED ui.buckets
    BY <2>4 DEF Overview!SelectSession
  <2>5. CASE Overview!ClosePanel
    BY <2>5 DEF Overview!ClosePanel
  <2>6. ASSUME NEW u \in Users, Overview!Invite(u) \/ Overview!Remove(u)
        PROVE  UNCHANGED ui.buckets
    BY <2>6 DEF Overview!Invite, Overview!Remove
  <2> QED BY <2>1, <2>2, <2>3, <2>4, <2>5, <2>6
<1>2. \A q \in net' : q.kind = "list" => q \in net
  <2> DEFINE NoneAsked == \A q \in net' : q.kind = "list" => q \in net
  <2>1. ASSUME NEW kind \in {"panel", "members", "invite", "remove"}, NEW on,
               NEW arg, NEW rest \in SUBSET net,
               net' = rest \cup {Overview!Request(kind, on, arg)}
        PROVE  NoneAsked
    <3>1. Overview!Request(kind, on, arg).kind = kind
      BY DEF Overview!Request
    <3> HIDE DEF Overview!Request
    <3> QED BY <2>1, <3>1
  <2>2. ASSUME NEW r \in net,
               Overview!PanelLoaded(r) \/ Overview!Removed(r)
        PROVE  NoneAsked
    BY <2>2 DEF Overview!PanelLoaded, Overview!Removed
  <2>3. ASSUME NEW r \in net, Overview!Invited(r)
        PROVE  NoneAsked
    <3> DEFINE rest == net \ {r}
    <3>0. rest \in SUBSET net
      OBVIOUS
    <3>1. CASE net' = rest \cup {Overview!Request("members", r.on, None)}
      <4> HIDE DEF rest
      <4> QED BY <2>1, <3>0, <3>1
    <3>2. CASE net' = net \ {r}
      BY <3>2
    <3> QED BY <2>3, <3>1, <3>2 DEF Overview!Invited
  <2>4. ASSUME NEW id \in Ids, Overview!SelectSession(id)
        PROVE  NoneAsked
    <3> DEFINE rest == Overview!Without({"panel"})
    <3>1. rest \in SUBSET net
      OBVIOUS
    <3>2. net' = rest \cup {Overview!Request("panel", id, None)}
      BY <2>4 DEF Overview!SelectSession
    <3> HIDE DEF rest
    <3> QED BY <2>1, <3>1, <3>2
  <2>5. CASE Overview!ClosePanel
    BY <2>5 DEF Overview!ClosePanel
  <2>6. ASSUME NEW u \in Users, Overview!Invite(u) \/ Overview!Remove(u)
        PROVE  NoneAsked
    <3>1. CASE net' = net \cup {Overview!Request("invite", ui.detail, u)}
      BY <2>1, <3>1
    <3>2. CASE net' = net \cup {Overview!Request("remove", ui.detail, u)}
      BY <2>1, <3>2
    <3> QED BY <2>6, <3>1, <3>2 DEF Overview!Invite, Overview!Remove
  <2> QED BY <2>2, <2>3, <2>4, <2>5, <2>6
<1> QED BY <1>1, <1>2, ListsKept

LEMMA ListsStep ==
  ASSUME PanelInv, ListsAsked, Overview!OverviewNext
  PROVE  ListsAsked' /\ \A s \in Overview!Sides : ListMoves(s)
  BY ListServed, ListTurned, ListLoaded, PanelOnly DEF Overview!OverviewNext

-----------------------------------------------------------------------------
\* The whole application.
ListsInv == page = "overview" => ListsAsked

LEMMA ListsInit ==
  ASSUME Init
  PROVE  ListsInv /\ OwnView!ViewInit /\ GuestView!ViewInit
<1>1. CASE page = "overview"
  <2>1. Overview!OverviewInit
    BY <1>1 DEF Init
  <2>2. \A s \in Overview!Sides :
          /\ ui.buckets[s].page = 1 /\ ui.buckets[s].shown = None
          /\ ui.buckets[s].loading /\ ~ui.buckets[s].error
    BY <2>1 DEF Overview!OverviewInit
  <2>3. ListsAsked
    <3>1. \A r \in net : \E s \in Overview!Sides : r = Overview!Request("list", s, 1)
      BY <2>1 DEF Overview!OverviewInit
    <3>2. \A r \in net : /\ r.on \in Overview!Sides /\ r.arg = 1
                         /\ r = Overview!Request("list", r.on, 1)
      BY <3>1 DEF Overview!Request
    <3> HIDE DEF Overview!Request
    <3> QED BY <2>2, <3>2 DEF ListsAsked
  <2>4. PICK n \in 1 .. MaxPages : TRUE
    BY <2>1 DEF Overview!OverviewInit
  <2>5. 1 \in 1 .. MaxPages /\ 1 # None
    BY <2>4, PagesAssumption
  <2>6. "owner" \in Overview!Sides /\ "guest" \in Overview!Sides
    BY DEF Overview!Sides
  <2> QED BY <1>1, <2>2, <2>3, <2>5, <2>6 DEF ListsInv, On, Overview!BucketState,
             OwnView!ViewInit, GuestView!ViewInit
<1>2. CASE page # "overview"
  BY <1>2 DEF ListsInv, On, OwnView!ViewInit, GuestView!ViewInit
<1> QED BY <1>1, <1>2

\* A step of the lists is a step of their views.
LEMMA OwnMoves ==
  ASSUME page = "overview", UNCHANGED page, ListMoves("owner")
  PROVE  [OwnView!ViewNext]_(OwnView!viewVars)
<1> USE DEF On, Overview!BucketState
<1>1. CASE ListSame("owner")
  BY <1>1 DEF ListSame, OwnView!viewVars
<1>2. CASE ListSelects("owner")
  <2>1. OwnView!Select(ui'.buckets["owner"].page)
    BY <1>2 DEF ListSelects, OwnView!Select
  <2> QED BY <1>2, <2>1 DEF ListSelects, OwnView!ViewNext
<1>3. CASE ListShows("owner")
  BY <1>3 DEF ListShows, OwnView!ViewNext, OwnView!Show
<1>4. CASE ListFails("owner")
  BY <1>4 DEF ListFails, OwnView!ViewNext, OwnView!Fail
<1> QED BY <1>1, <1>2, <1>3, <1>4 DEF ListMoves

LEMMA GuestMoves ==
  ASSUME page = "overview", UNCHANGED page, ListMoves("guest")
  PROVE  [GuestView!ViewNext]_(GuestView!viewVars)
<1> USE DEF On, Overview!BucketState
<1>1. CASE ListSame("guest")
  BY <1>1 DEF ListSame, GuestView!viewVars
<1>2. CASE ListSelects("guest")
  <2>1. GuestView!Select(ui'.buckets["guest"].page)
    BY <1>2 DEF ListSelects, GuestView!Select
  <2> QED BY <1>2, <2>1 DEF ListSelects, GuestView!ViewNext
<1>3. CASE ListShows("guest")
  BY <1>3 DEF ListShows, GuestView!ViewNext, GuestView!Show
<1>4. CASE ListFails("guest")
  BY <1>4 DEF ListFails, GuestView!ViewNext, GuestView!Fail
<1> QED BY <1>1, <1>2, <1>3, <1>4 DEF ListMoves

LEMMA ListsNext ==
  ASSUME Inv, ListsInv, [Next]_vars
  PROVE  /\ ListsInv'
         /\ [OwnView!ViewNext]_(OwnView!viewVars)
         /\ [GuestView!ViewNext]_(GuestView!viewVars)
<1>1. UNCHANGED page
  BY DEF Next, vars
<1>2. CASE page # "overview"
  BY <1>1, <1>2 DEF ListsInv, On, OwnView!viewVars, GuestView!viewVars
<1>3. CASE UNCHANGED vars
  BY <1>3 DEF vars, pageVars, ListsInv, ListsAsked, On, Overview!BucketState,
              OwnView!viewVars, GuestView!viewVars
<1>4. CASE page = "overview" /\ Next
  <2>1. ListsAsked' /\ \A s \in Overview!Sides : ListMoves(s)
    BY <1>4, ListsStep DEF Inv, ListsInv, Next
  <2>2. ListMoves("owner") /\ ListMoves("guest")
    BY <2>1 DEF Overview!Sides
  <2> QED BY <1>1, <1>4, <2>1, <2>2, OwnMoves, GuestMoves DEF ListsInv
<1> QED BY <1>2, <1>3, <1>4

\* Each list of the overview shows the page that its pager names, or says that
\* it is loading or that loading failed (useSessionBuckets): both implement
\* LatestView.
THEOREM BucketsImplementView == Spec => BucketsAreLatest
<1>1. Init => Inv /\ ListsInv /\ OwnView!ViewInit /\ GuestView!ViewInit
  BY PanelInit, ListsInit
<1>2. Inv /\ ListsInv /\ [Next]_vars =>
        /\ Inv' /\ ListsInv'
        /\ [OwnView!ViewNext]_(OwnView!viewVars)
        /\ [GuestView!ViewNext]_(GuestView!viewVars)
  BY PanelNext, ListsNext
<1> QED BY <1>1, <1>2, PTL DEF Spec, BucketsAreLatest, OwnView!ViewSpec,
           GuestView!ViewSpec

-----------------------------------------------------------------------------
(* The page of a session.                                                  *)

DetailKinds == {"detail", "members", "rename", "invite", "remove"}

NamesOf == [Speakers -> Names]

Rename == [names : NamesOf, before : NamesOf]

Args == {None, "invited"} \cup Users \cup Rename

Answers == {None} \cup (SUBSET Users) \cup Detail!Details

DetailRequest == [kind : DetailKinds, on : Ids, arg : Args,
                step : {"sent", "ok", "failed"}, answer : Answers]

\* What a request of each kind is about and answered with.
DetailWellMade(r) ==
  /\ r.kind \in {"invite", "remove"} => r.arg \in Users
  /\ r.kind = "rename" => r.arg \in Rename
  /\ r.kind = "detail" /\ r.step = "ok" =>
       r.answer \in Detail!Details /\ r.answer.id = r.on
  /\ r.kind = "members" /\ r.step = "ok" => r.answer \in SUBSET Users

DetailNetOK == net \subseteq DetailRequest /\ \A r \in net : DetailWellMade(r)

\* The one load in flight is for the session of the address.
DetailAsked ==
  \A r \in net : r.kind = "detail" =>
    /\ r.on = ui.id /\ ui.loading /\ ~ui.error
    /\ \A q \in net : q.kind = "detail" => q = r

\* Names are changed on a page that shows something.
RenamedShown == (\E r \in net : r.kind = "rename") => ui.detail # None

DetailUiType == [id : Ids \cup {None}, loading : BOOLEAN, error : BOOLEAN,
           detail : {None} \cup Detail!Details,
           members : SUBSET Users, membersError : BOOLEAN,
           inviting : BOOLEAN, removeBusy : Users \cup {None},
           missed : BOOLEAN, mixed : BOOLEAN]

StoreType == [role : [Ids -> Detail!Roles], names : [Ids -> NamesOf],
              members : [Ids -> SUBSET Users]]

DetailInv ==
  ui \in DetailUiType /\ db \in StoreType /\ DetailNetOK /\ DetailAsked /\ RenamedShown

\* What LatestView sees of the page.
ShownId == IF ui.detail = None THEN None ELSE ui.detail.id
PageSame == UNCHANGED <<ui.id, ui.loading, ui.error, ShownId>>

USE DEF Detail!Sent, Detail!Answered, Detail!Refused, Detail!Others,
        Detail!Without, Detail!Act, Detail!Page

-----------------------------------------------------------------------------
\* A request that is made is well made.
LEMMA DetailMade ==
  ASSUME NEW kind \in DetailKinds, NEW on \in Ids, NEW arg \in Args,
         kind \in {"invite", "remove"} => arg \in Users,
         kind = "rename" => arg \in Rename
  PROVE  LET r == Detail!Request(kind, on, arg)
         IN r \in DetailRequest /\ DetailWellMade(r) /\ r.kind = kind /\ r.on = on
  BY DEF Detail!Request, DetailRequest, DetailWellMade, Answers

\* As long as the state of the load stays and none is added, the load in flight
\* is still the one.
LEMMA LoadKept ==
  ASSUME DetailInv, ui' \in DetailUiType, UNCHANGED db, PageSame, DetailNetOK',
         \A r \in net' : r.kind = "detail" => r \in net,
         ui'.detail = None => ui.detail = None,
         \A r \in net' : r.kind = "rename" => r \in net \/ ui'.detail # None
  PROVE  DetailInv'
<1>1. DetailAsked'
  BY DEF DetailInv, DetailAsked, PageSame
<1>2. RenamedShown'
  BY DEF DetailInv, RenamedShown
<1> QED BY <1>1, <1>2 DEF DetailInv

\* The same when an answer is taken and nothing is asked.
LEMMA AnswerTaken ==
  ASSUME DetailInv, NEW r \in net, ui' \in DetailUiType, UNCHANGED db, PageSame,
         net' = net \ {r}, ui'.detail = None => ui.detail = None
  PROVE  DetailInv'
<1>1. DetailNetOK'
  BY DEF DetailInv, DetailNetOK
<1> QED BY <1>1, LoadKept

\* A request with its answer is the same request.
LEMMA Replaced ==
  ASSUME DetailInv, NEW r \in net, NEW step \in {"ok", "failed"},
         NEW a \in Answers, UNCHANGED ui, db' \in StoreType,
         net' = (net \ {r}) \cup {[r EXCEPT !.step = step, !.answer = a]},
         r.kind = "detail" /\ step = "ok" => a \in Detail!Details /\ a.id = r.on,
         r.kind = "members" /\ step = "ok" => a \in SUBSET Users
  PROVE  DetailInv'
<1> DEFINE q == [r EXCEPT !.step = step, !.answer = a]
<1>1. r \in DetailRequest /\ DetailWellMade(r)
  BY DEF DetailInv, DetailNetOK
<1>2. /\ q \in DetailRequest /\ q.kind = r.kind /\ q.on = r.on /\ q.arg = r.arg
      /\ q.step = step /\ q.answer = a
  BY <1>1 DEF DetailRequest
<1>3. net' = (net \ {r}) \cup {q}
  OBVIOUS
<1> HIDE DEF q
<1>4. DetailWellMade(q)
  BY <1>1, <1>2 DEF DetailWellMade
<1>5. DetailNetOK'
  BY <1>2, <1>3, <1>4 DEF DetailInv, DetailNetOK
<1>6. DetailAsked'
  <2> SUFFICES ASSUME NEW p \in net', p.kind = "detail"
               PROVE  /\ p.on = ui.id /\ ui.loading /\ ~ui.error
                      /\ \A o \in net' : o.kind = "detail" => o = p
    BY DEF DetailAsked
  <2>1. CASE p = q
    BY <1>2, <1>3, <2>1 DEF DetailInv, DetailAsked
  <2>2. CASE p # q
    BY <1>2, <1>3, <2>2 DEF DetailInv, DetailAsked
  <2> QED BY <2>1, <2>2
<1>7. RenamedShown'
  BY <1>2, <1>3 DEF DetailInv, RenamedShown
<1> QED BY <1>5, <1>6, <1>7 DEF DetailInv

\* The server answers, and nothing is on the page of it yet.
LEMMA DetailServed ==
  ASSUME DetailInv, NEW r \in net, Detail!DetailServed(r)
  PROVE  DetailInv' /\ UNCHANGED ui
<1>1. UNCHANGED ui
  BY DEF Detail!DetailServed
<1>2. r \in DetailRequest /\ DetailWellMade(r) /\ r.on \in Ids
  BY DEF DetailInv, DetailNetOK, DetailRequest
<1>3. CASE Detail!Refuse(r) /\ UNCHANGED db
  <2>1. r.answer \in Answers
    BY <1>2 DEF DetailRequest
  <2>2. [r EXCEPT !.step = "failed"]
          = [r EXCEPT !.step = "failed", !.answer = r.answer]
    BY <1>2 DEF DetailRequest
  <2>3. net' = (net \ {r}) \cup {[r EXCEPT !.step = "failed", !.answer = r.answer]}
    BY <1>3, <2>2 DEF Detail!Refuse
  <2>4. db' \in StoreType
    BY <1>3 DEF DetailInv
  <2> QED BY <1>1, <2>1, <2>3, <2>4, Replaced
<1>4. ASSUME NEW a \in Answers, Detail!Answer(r, a), db' \in StoreType,
             r.kind = "detail" => a \in Detail!Details /\ a.id = r.on,
             r.kind = "members" => a \in SUBSET Users
      PROVE  DetailInv'
  BY <1>1, <1>4, Replaced DEF Detail!Answer
<1>5. CASE /\ r.kind = "detail" /\ UNCHANGED db
           /\ Detail!Answer(r, [id |-> r.on, role |-> db.role[r.on],
                                names |-> db.names[r.on]])
  <2> DEFINE a == [id |-> r.on, role |-> db.role[r.on], names |-> db.names[r.on]]
  <2>1. db.role[r.on] \in Detail!Roles /\ db.names[r.on] \in NamesOf
    BY <1>2 DEF DetailInv, StoreType
  <2>2. a \in Detail!Details /\ a.id = r.on
    BY <1>2, <2>1 DEF Detail!Details, NamesOf
  <2> HIDE DEF a
  <2>3. a \in Answers
    BY <2>2 DEF Answers
  <2>4. db' \in StoreType /\ Detail!Answer(r, a)
    BY <1>5 DEF DetailInv, a
  <2> QED BY <1>1, <1>4, <1>5, <2>2, <2>3, <2>4
<1>6. CASE r.kind = "members" /\ UNCHANGED db /\ Detail!Answer(r, db.members[r.on])
  <2>1. db.members[r.on] \in SUBSET Users
    BY <1>2 DEF DetailInv, StoreType
  <2>2. db.members[r.on] \in Answers
    BY <2>1 DEF Answers
  <2>3. db' \in StoreType /\ r.kind # "detail"
    BY <1>6 DEF DetailInv
  <2> QED BY <1>1, <1>4, <1>6, <2>1, <2>2, <2>3
<1>7. ASSUME r.kind \in {"rename", "invite", "remove"}, Detail!Answer(r, None),
             db' \in StoreType
      PROVE  DetailInv'
  <2>1. None \in Answers /\ r.kind # "detail" /\ r.kind # "members"
    BY <1>7 DEF Answers
  <2> QED BY <1>4, <1>7, <2>1
<1>8. CASE r.kind = "rename" /\ db' = [db EXCEPT !.names[r.on] = r.arg.names]
           /\ Detail!Answer(r, None)
  <2>1. r.arg.names \in NamesOf
    BY <1>2, <1>8 DEF DetailWellMade, Rename
  <2>2. db' \in StoreType
    BY <1>2, <1>8, <2>1 DEF DetailInv, StoreType
  <2> QED BY <1>1, <1>7, <1>8, <2>2
<1>9. CASE r.kind = "invite" /\ db' = [db EXCEPT !.members[r.on] = @ \cup {r.arg}]
           /\ Detail!Answer(r, None)
  <2>1. db' \in StoreType
    BY <1>2, <1>9 DEF DetailWellMade, DetailInv, StoreType
  <2> QED BY <1>1, <1>7, <1>9, <2>1
<1>10. CASE r.kind = "remove" /\ db' = [db EXCEPT !.members[r.on] = @ \ {r.arg}]
            /\ Detail!Answer(r, None)
  <2>1. db' \in StoreType
    BY <1>2, <1>10 DEF DetailWellMade, DetailInv, StoreType
  <2> QED BY <1>1, <1>7, <1>10, <2>1
<1> QED BY <1>1, <1>3, <1>5, <1>6, <1>8, <1>9, <1>10 DEF Detail!DetailServed

-----------------------------------------------------------------------------
\* What may happen to the page, as LatestView has it.
PageSelects == /\ ui'.id \in Ids /\ ui'.loading /\ ShownId' = ShownId
               /\ ui.id # None
PageCloses == ui'.id = None
PageShows == /\ ui.id # None /\ ui.loading /\ UNCHANGED ui.id
             /\ ui'.detail # None /\ ui'.detail.id = ui.id
             /\ ~ui'.loading /\ ~ui'.error
PageFails == /\ ui.id # None /\ ui.loading
             /\ UNCHANGED <<ui.id, ui.detail>> /\ ~ui'.loading /\ ui'.error

\* A jump cancels the load before it.
LEMMA JumpStep ==
  ASSUME DetailInv, NEW id \in Ids, Detail!Jump(id)
  PROVE  DetailInv' /\ PageSelects
<1> DEFINE early == Detail!Without({"detail"})
           one == Detail!Request("detail", id, None)
           two == Detail!Request("members", id, None)
<1>1. net' = early \cup {one, two} /\ UNCHANGED db /\ ui.id # None
  BY DEF Detail!Jump, Detail!Loads
<1>2. /\ one \in DetailRequest /\ DetailWellMade(one) /\ one.kind = "detail"
      /\ one.on = id
      /\ two \in DetailRequest /\ DetailWellMade(two) /\ two.kind = "members"
  <2>1. None \in Args /\ "detail" \in DetailKinds /\ "members" \in DetailKinds
    BY DEF Args, DetailKinds
  <2> QED BY <2>1, DetailMade
<1> HIDE DEF one, two
<1>3. ui' = [ui EXCEPT !.id = id, !.loading = TRUE, !.error = FALSE,
                       !.membersError = FALSE, !.mixed = @ \/ early # {}]
  BY DEF Detail!Jump
<1>4. \A r \in early : r \in net /\ r.kind # "detail"
  OBVIOUS
<1> HIDE DEF early
<1>5. /\ ui' \in DetailUiType /\ ui'.id = id /\ ui'.loading /\ ~ui'.error
      /\ ui'.detail = ui.detail
  BY <1>3 DEF DetailInv, DetailUiType
<1>6. DetailNetOK'
  BY <1>1, <1>2, <1>4 DEF DetailInv, DetailNetOK
<1>7. DetailAsked'
  BY <1>1, <1>2, <1>4, <1>5 DEF DetailAsked
<1>8. RenamedShown'
  BY <1>1, <1>2, <1>4, <1>5 DEF DetailInv, RenamedShown
<1> QED BY <1>1, <1>5, <1>6, <1>7, <1>8 DEF DetailInv, PageSelects, ShownId

LEMMA LeaveStep ==
  ASSUME DetailInv, Detail!LeaveRemoved
  PROVE  DetailInv' /\ PageCloses
<1>1. net' = {} /\ UNCHANGED db
  BY DEF Detail!LeaveRemoved
<1>2. ui' \in DetailUiType /\ ui'.id = None
  BY DEF Detail!LeaveRemoved, DetailInv, DetailUiType
<1>3. DetailNetOK' /\ DetailAsked' /\ RenamedShown'
  BY <1>1 DEF DetailNetOK, DetailAsked, RenamedShown
<1> QED BY <1>1, <1>2, <1>3 DEF DetailInv, PageCloses

\* The load of the page, answered or not.
LEMMA LoadStep ==
  ASSUME DetailInv, NEW r \in net, Detail!LoadDetail(r)
  PROVE  DetailInv' /\ (PageShows \/ PageFails)
<1>1. net' = net \ {r} /\ UNCHANGED db /\ r.kind = "detail"
  BY DEF Detail!LoadDetail
<1>2. /\ r \in DetailRequest /\ DetailWellMade(r) /\ r.on = ui.id /\ ui.loading
      /\ ~ui.error /\ \A q \in net : q.kind = "detail" => q = r
  BY <1>1 DEF DetailInv, DetailNetOK, DetailAsked
<1>3. ui.id \in Ids /\ ui.id # None
  BY <1>2, PagesAssumption DEF DetailRequest
<1>4. DetailNetOK' /\ DetailAsked'
  BY <1>1, <1>2 DEF DetailInv, DetailNetOK, DetailAsked
<1>5. CASE r.step = "ok"
           /\ ui' = [ui EXCEPT !.detail = r.answer, !.loading = FALSE]
  <2>1. r.answer \in Detail!Details /\ r.answer.id = ui.id
    BY <1>1, <1>2, <1>5 DEF DetailWellMade
  <2>2. r.answer # None
    BY <2>1, DetailAssumption
  <2>3. /\ ui' \in DetailUiType /\ ui'.detail = r.answer /\ ui'.id = ui.id
        /\ ~ui'.loading /\ ~ui'.error
    BY <1>2, <1>5, <2>1 DEF DetailInv, DetailUiType
  <2>4. RenamedShown' /\ PageShows
    BY <1>2, <1>3, <2>1, <2>2, <2>3 DEF RenamedShown, PageShows
  <2> QED BY <1>1, <1>4, <2>3, <2>4 DEF DetailInv
<1>6. CASE ui' = [ui EXCEPT !.error = TRUE, !.loading = FALSE]
  <2>1. /\ ui' \in DetailUiType /\ ui'.detail = ui.detail /\ ui'.id = ui.id
        /\ ~ui'.loading /\ ui'.error
    BY <1>6 DEF DetailInv, DetailUiType
  <2>2. RenamedShown' /\ PageFails
    BY <1>1, <1>2, <1>3, <2>1 DEF DetailInv, RenamedShown, PageFails
  <2> QED BY <1>1, <1>4, <2>1, <2>2 DEF DetailInv
<1> QED BY <1>5, <1>6 DEF Detail!LoadDetail

\* A rename, and the undoing of one that was refused.
LEMMA NamesSet ==
  ASSUME DetailInv, ui.detail # None, NEW names \in NamesOf, NEW m \in BOOLEAN,
         ui' = [ui EXCEPT !.detail.names = names, !.mixed = m]
  PROVE  ui' \in DetailUiType /\ PageSame /\ ui'.detail # None
<1> DEFINE d == [ui.detail EXCEPT !.names = names]
<1>1. ui \in DetailUiType /\ ui.detail \in Detail!Details
  BY DEF DetailInv, DetailUiType
<1>2. d \in Detail!Details /\ d.id = ui.detail.id
  BY <1>1 DEF Detail!Details, NamesOf
<1>3. ui' = [ui EXCEPT !.detail = d, !.mixed = m]
  BY <1>1 DEF DetailUiType
<1> HIDE DEF d
<1>4. /\ ui' \in DetailUiType /\ ui'.detail = d
      /\ UNCHANGED <<ui.id, ui.loading, ui.error>>
  BY <1>1, <1>2, <1>3 DEF DetailUiType
<1>5. d # None
  BY <1>2, DetailAssumption
<1> QED BY <1>2, <1>4, <1>5 DEF PageSame, ShownId

LEMMA RenameStep ==
  ASSUME DetailInv,
         \E s \in Speakers, name \in Names : Detail!RenameSpeaker(s, name)
  PROVE  DetailInv' /\ PageSame
<1>1. PICK s \in Speakers, name \in Names : Detail!RenameSpeaker(s, name)
  OBVIOUS
<1> DEFINE names == [ui.detail.names EXCEPT ![s] = name]
           arg == [names |-> names, before |-> ui.detail.names]
           m == ui.mixed \/ ui.loading \/ Detail!InFlight({"rename"}) # {}
<1>2. ui.detail # None /\ ui.id # None /\ UNCHANGED db
  BY <1>1 DEF Detail!RenameSpeaker
<1>3. ui.id \in Ids /\ ui.detail \in Detail!Details /\ ui.mixed \in BOOLEAN
      /\ ui.loading \in BOOLEAN
  BY <1>2 DEF DetailInv, DetailUiType
<1>4. ui.detail.names \in NamesOf /\ names \in NamesOf
  BY <1>3 DEF Detail!Details, NamesOf
<1>5. arg \in Rename
  BY <1>4 DEF Rename
<1>6. ui' = [ui EXCEPT !.detail.names = names, !.mixed = m]
  BY <1>1 DEF Detail!RenameSpeaker
<1>7. net' = net \cup {Detail!Request("rename", ui.id, arg)}
  BY <1>1 DEF Detail!RenameSpeaker
<1>8. m \in BOOLEAN
  BY <1>3
<1> HIDE DEF names, arg, m
<1>9. ui' \in DetailUiType /\ PageSame /\ ui'.detail # None
  BY <1>2, <1>4, <1>6, <1>8, NamesSet
<1>10. DetailNetOK' /\ \A r \in net' : r.kind = "detail" => r \in net
  <2>1. "rename" \in DetailKinds /\ arg \in Args
    BY <1>5 DEF DetailKinds, Args
  <2> QED BY <1>3, <1>5, <1>7, <2>1, DetailMade DEF DetailInv, DetailNetOK
<1> QED BY <1>2, <1>9, <1>10, LoadKept

LEMMA RenamedStep ==
  ASSUME DetailInv, NEW r \in net, Detail!SpeakerRenamed(r)
  PROVE  DetailInv' /\ PageSame
<1>1. net' = net \ {r} /\ UNCHANGED db /\ r.kind = "rename"
  BY DEF Detail!SpeakerRenamed
<1>2. r.arg \in Rename /\ ui.detail # None
  BY <1>1 DEF DetailInv, DetailNetOK, DetailWellMade, RenamedShown
<1>3. CASE UNCHANGED ui
  <2>1. ui' \in DetailUiType /\ PageSame
    BY <1>3 DEF DetailInv, PageSame, ShownId
  <2> QED BY <1>1, <1>3, <2>1, AnswerTaken
<1>4. CASE ui' = [ui EXCEPT !.detail.names = r.arg.before]
  <2>1. r.arg.before \in NamesOf /\ ui.mixed \in BOOLEAN
    BY <1>2 DEF Rename, DetailInv, DetailUiType
  <2>2. ui' = [ui EXCEPT !.detail.names = r.arg.before, !.mixed = ui.mixed]
    BY <1>4 DEF DetailInv, DetailUiType
  <2>3. ui' \in DetailUiType /\ PageSame /\ ui'.detail # None
    BY <1>2, <2>1, <2>2, NamesSet
  <2> QED BY <1>1, <2>3, AnswerTaken
<1> QED BY <1>3, <1>4 DEF Detail!SpeakerRenamed

\* What is asked of the members.
LEMMA DetailMemberAsked ==
  ASSUME DetailInv, \E u \in Users : Detail!InviteMember(u) \/ Detail!RemoveMember(u)
  PROVE  DetailInv' /\ PageSame
<1>1. PICK u \in Users : Detail!InviteMember(u) \/ Detail!RemoveMember(u)
  OBVIOUS
<1>2. ui.id \in Ids /\ UNCHANGED db /\ ui \in DetailUiType
  BY <1>1 DEF Detail!InviteMember, Detail!RemoveMember, DetailInv, DetailUiType
<1>3. /\ ui' \in DetailUiType
      /\ UNCHANGED <<ui.id, ui.loading, ui.error, ui.detail>>
  <2>1. CASE Detail!InviteMember(u)
    <3>1. PICK m \in BOOLEAN :
            ui' = [ui EXCEPT !.inviting = TRUE, !.membersError = FALSE, !.mixed = m]
      BY <1>2, <2>1 DEF Detail!InviteMember, DetailUiType
    <3> QED BY <1>2, <3>1 DEF DetailUiType
  <2>2. CASE Detail!RemoveMember(u)
    <3>1. PICK m \in BOOLEAN :
            ui' = [ui EXCEPT !.removeBusy = u, !.membersError = FALSE, !.mixed = m]
      BY <1>2, <2>2 DEF Detail!RemoveMember, DetailUiType
    <3> QED BY <1>1, <1>2, <3>1 DEF DetailUiType
  <2> QED BY <1>1, <2>1, <2>2
<1>4. PICK kind \in {"invite", "remove"} :
        net' = net \cup {Detail!Request(kind, ui.id, u)}
  BY <1>1 DEF Detail!InviteMember, Detail!RemoveMember
<1>5. /\ DetailNetOK'
      /\ \A r \in net' : r.kind \in {"detail", "rename"} => r \in net
  <2>1. kind \in DetailKinds /\ u \in Args
    BY DEF DetailKinds, Args
  <2> QED BY <1>2, <1>4, <2>1, DetailMade DEF DetailInv, DetailNetOK
<1>6. PageSame
  BY <1>3 DEF PageSame, ShownId
<1> QED BY <1>2, <1>3, <1>5, <1>6, LoadKept

\* What is answered about the members.
LEMMA DetailMemberTaken ==
  ASSUME DetailInv, NEW r \in net,
         \/ Detail!FetchMembers(r) \/ Detail!MemberInvited(r)
         \/ Detail!MemberRemoved(r)
  PROVE  DetailInv' /\ PageSame
<1>1. ui \in DetailUiType /\ r \in DetailRequest /\ DetailWellMade(r) /\ r.on \in Ids
  BY DEF DetailInv, DetailNetOK, DetailRequest
<1>2. UNCHANGED db
  BY DEF Detail!FetchMembers, Detail!MemberInvited, Detail!MemberRemoved
<1>3. ASSUME net' = net \ {r}, ui' \in DetailUiType,
             UNCHANGED <<ui.id, ui.loading, ui.error, ui.detail>>
      PROVE  DetailInv' /\ PageSame
  <2>1. PageSame
    BY <1>3 DEF PageSame, ShownId
  <2> QED BY <1>2, <1>3, <2>1, AnswerTaken
<1>4. CASE Detail!FetchMembers(r)
  <2>1. net' = net \ {r}
    BY <1>4 DEF Detail!FetchMembers
  <2> DEFINE i == IF r.arg = "invited" THEN FALSE ELSE ui.inviting
  <2>2. i \in BOOLEAN
    BY <1>1 DEF DetailUiType
  <2>3. CASE r.kind = "members" /\ r.step = "ok"
             /\ ui' = [ui EXCEPT !.members = r.answer, !.missed = FALSE,
                                  !.inviting = i]
    <3>1. r.answer \in SUBSET Users
      BY <1>1, <2>3 DEF DetailWellMade
    <3> HIDE DEF i
    <3>2. ui' \in DetailUiType /\ UNCHANGED <<ui.id, ui.loading, ui.error, ui.detail>>
      BY <1>1, <2>2, <2>3, <3>1 DEF DetailUiType
    <3> QED BY <1>3, <2>1, <3>2
  <2>4. CASE ui' = [ui EXCEPT !.membersError = TRUE, !.missed = TRUE,
                              !.inviting = i]
    <3> HIDE DEF i
    <3>1. ui' \in DetailUiType /\ UNCHANGED <<ui.id, ui.loading, ui.error, ui.detail>>
      BY <1>1, <2>2, <2>4 DEF DetailUiType
    <3> QED BY <1>3, <2>1, <3>1
  <2> QED BY <1>4, <2>3, <2>4 DEF Detail!FetchMembers
<1>5. CASE ui' = [ui EXCEPT !.membersError = FALSE]
           /\ net' = (net \ {r}) \cup {Detail!Request("members", r.on, "invited")}
  <2>1. "members" \in DetailKinds /\ "invited" \in Args
    BY DEF DetailKinds, Args
  <2>2. /\ DetailNetOK'
        /\ \A q \in net' : q.kind \in {"detail", "rename"} => q \in net
    BY <1>1, <1>5, <2>1, DetailMade DEF DetailInv, DetailNetOK
  <2>3. /\ ui' \in DetailUiType
        /\ UNCHANGED <<ui.id, ui.loading, ui.error, ui.detail>>
    BY <1>1, <1>5 DEF DetailUiType
  <2>4. PageSame
    BY <2>3 DEF PageSame, ShownId
  <2> QED BY <1>1, <1>2, <2>2, <2>3, <2>4, LoadKept
<1>6. CASE net' = net \ {r}
           /\ ui' = [ui EXCEPT !.membersError = TRUE, !.inviting = FALSE]
  <2>1. ui' \in DetailUiType /\ UNCHANGED <<ui.id, ui.loading, ui.error, ui.detail>>
    BY <1>1, <1>6 DEF DetailUiType
  <2> QED BY <1>3, <1>6, <2>1
<1>7. CASE net' = net \ {r}
           /\ ui' = [ui EXCEPT !.members = @ \ {r.arg}, !.removeBusy = None]
  <2>1. ui' \in DetailUiType /\ UNCHANGED <<ui.id, ui.loading, ui.error, ui.detail>>
    BY <1>1, <1>7 DEF DetailUiType
  <2> QED BY <1>3, <1>7, <2>1
<1>8. CASE net' = net \ {r}
           /\ ui' = [ui EXCEPT !.membersError = TRUE, !.removeBusy = None]
  <2>1. ui' \in DetailUiType /\ UNCHANGED <<ui.id, ui.loading, ui.error, ui.detail>>
    BY <1>1, <1>8 DEF DetailUiType
  <2> QED BY <1>3, <1>8, <2>1
<1> QED BY <1>4, <1>5, <1>6, <1>7, <1>8
        DEF Detail!MemberInvited, Detail!MemberRemoved

LEMMA DetailStep ==
  ASSUME DetailInv, Detail!DetailNext
  PROVE  /\ DetailInv'
         /\ PageSame \/ PageSelects \/ PageCloses \/ PageShows \/ PageFails
<1>1. ASSUME NEW r \in net, Detail!DetailServed(r)
      PROVE  DetailInv' /\ PageSame
  BY <1>1, DetailServed DEF PageSame, ShownId
<1> QED
  BY <1>1, JumpStep, LeaveStep, LoadStep, RenameStep, RenamedStep, DetailMemberAsked,
     DetailMemberTaken DEF Detail!DetailNext

-----------------------------------------------------------------------------
\* The whole application.
DetailPageInv == page = "detail" => DetailInv

LEMMA DetailInitial ==
  ASSUME Init
  PROVE  DetailPageInv /\ DetailView!ViewInit
<1>1. ASSUME page = "detail"
      PROVE  /\ DetailInv
             /\ ui.id \in Ids /\ ui.detail = None /\ ui.loading
  <2>1. Detail!DetailInit
    BY <1>1 DEF Init
  <2>2. PICK id \in Ids :
          /\ ui = [id |-> id, loading |-> TRUE, error |-> FALSE, detail |-> None,
                   members |-> {}, membersError |-> FALSE, inviting |-> FALSE,
                   removeBusy |-> None, missed |-> FALSE,
                   mixed |-> FALSE]
          /\ net = Detail!Loads(id)
    BY <2>1 DEF Detail!DetailInit
  <2>3. /\ ui \in DetailUiType /\ ui.id = id /\ ui.detail = None /\ ui.loading
        /\ ~ui.error
    BY <2>2 DEF DetailUiType
  <2>4. Detail!FirstName \in Names
    BY PagesAssumption DEF Detail!FirstName
  <2>5. db \in StoreType
    BY <2>1, <2>4 DEF Detail!DetailInit, StoreType, NamesOf
  <2> DEFINE one == Detail!Request("detail", id, None)
             two == Detail!Request("members", id, None)
  <2>6. net = {one, two}
    BY <2>2 DEF Detail!Loads
  <2>7. /\ one \in DetailRequest /\ DetailWellMade(one) /\ one.kind = "detail"
        /\ one.on = id
        /\ two \in DetailRequest /\ DetailWellMade(two) /\ two.kind = "members"
    <3>1. None \in Args /\ "detail" \in DetailKinds /\ "members" \in DetailKinds
      BY DEF Args, DetailKinds
    <3> QED BY <3>1, DetailMade
  <2> HIDE DEF one, two
  <2>8. DetailNetOK /\ DetailAsked /\ RenamedShown
    BY <2>3, <2>6, <2>7 DEF DetailNetOK, DetailAsked, RenamedShown
  <2> QED BY <2>3, <2>5, <2>8 DEF DetailInv
<1>2. CASE page = "detail"
  <2>1. ui.id # None
    BY <1>1, <1>2, PagesAssumption
  <2> QED BY <1>1, <1>2, <2>1 DEF DetailPageInv, DetailView!ViewInit, On,
             Detail!DetailKey, Detail!DetailShown, Detail!DetailState
<1>3. CASE page # "detail"
  BY <1>3 DEF DetailPageInv, DetailView!ViewInit, On
<1> QED BY <1>2, <1>3

LEMMA DetailPreserved ==
  ASSUME DetailPageInv, [Next]_vars
  PROVE  DetailPageInv' /\ [DetailView!ViewNext]_(DetailView!viewVars)
<1> USE DEF On, Detail!DetailKey, Detail!DetailShown, Detail!DetailState
<1>1. UNCHANGED page
  BY DEF Next, vars
<1>2. CASE page # "detail"
  <2>1. UNCHANGED DetailView!viewVars
    BY <1>1, <1>2 DEF DetailView!viewVars
  <2> QED BY <1>1, <1>2, <2>1 DEF DetailPageInv
<1>3. CASE UNCHANGED vars
  <2>1. UNCHANGED <<ui, net, db, page>>
    BY <1>3 DEF vars, pageVars
  <2>2. UNCHANGED DetailView!viewVars
    BY <2>1 DEF DetailView!viewVars
  <2>3. DetailPageInv'
    BY <2>1 DEF DetailPageInv, DetailInv, DetailNetOK, DetailAsked, RenamedShown
  <2> QED BY <2>2, <2>3
<1>4. CASE page = "detail" /\ Next
  <2>1. DetailInv /\ Detail!DetailNext
    BY <1>4 DEF DetailPageInv, Next
  <2>2. /\ DetailInv'
        /\ PageSame \/ PageSelects \/ PageCloses \/ PageShows \/ PageFails
    BY <2>1, DetailStep
  <2>3. DetailPageInv'
    BY <2>2 DEF DetailPageInv
  <2>4. CASE PageSame
    <3>1. UNCHANGED DetailView!viewVars
      BY <1>1, <2>4 DEF DetailView!viewVars, PageSame, ShownId
    <3> QED BY <2>3, <3>1
  <2>5. CASE PageSelects
    <3>1. ui'.id # None
      BY <2>5, PagesAssumption DEF PageSelects
    <3>2. DetailView!Select(ui'.id)
      BY <1>1, <1>4, <2>5, <3>1 DEF DetailView!Select, PageSelects, ShownId
    <3> QED BY <2>3, <2>5, <3>2 DEF DetailView!ViewNext, PageSelects
  <2>6. CASE PageCloses
    <3>1. DetailView!Close
      BY <1>1, <1>4, <2>6 DEF DetailView!Close, PageCloses
    <3> QED BY <2>3, <3>1 DEF DetailView!ViewNext
  <2>7. CASE PageShows
    <3>1. DetailView!Show
      BY <1>1, <1>4, <2>7 DEF DetailView!Show, PageShows
    <3> QED BY <2>3, <3>1 DEF DetailView!ViewNext
  <2>8. CASE PageFails
    <3>1. DetailView!Fail
      BY <1>1, <1>4, <2>8 DEF DetailView!Fail, PageFails
    <3> QED BY <2>3, <3>1 DEF DetailView!ViewNext
  <2> QED BY <2>2, <2>4, <2>5, <2>6, <2>7, <2>8
<1> QED BY <1>2, <1>3, <1>4

\* The page of a session shows the session of its address, or says that it is
\* loading or that loading failed, whatever jumps, renames and answers run
\* together (useSessionDetailData): it implements LatestView.
THEOREM DetailImplementsView == Spec => DetailIsLatest
<1>1. Init => DetailPageInv /\ DetailView!ViewInit
  BY DetailInitial
<1>2. DetailPageInv /\ [Next]_vars
        => DetailPageInv' /\ [DetailView!ViewNext]_(DetailView!viewVars)
  BY DetailPreserved
<1> QED BY <1>1, <1>2, PTL DEF Spec, DetailIsLatest, DetailView!ViewSpec

-----------------------------------------------------------------------------
(* The members on the page of a session.  As long as no request overlapped *)
(* another one request about them is in flight, and what it has done or    *)
(* will do is what the page still has to show.                             *)

MemberKinds == {"members", "invite", "remove"}

\* What a request about the members says of the page u and the store d.
MemberFits(r, u, d) ==
  /\ r.on = u.id
  /\ r.kind = "invite" => u.inviting
  /\ r.kind = "members" /\ r.step = "ok" => r.answer = d.members[u.id]
  /\ r.kind = "remove" /\ r.step = "ok" /\ ~u.missed
       => u.members \ {r.arg} = d.members[u.id]
  /\ r.kind \in {"invite", "remove"} /\ r.step # "ok" /\ ~u.missed
       => u.members = d.members[u.id]

MembersFit ==
  ~ui.mixed =>
    /\ \A r, q \in net : r.kind \in MemberKinds /\ q.kind \in MemberKinds => r = q
    /\ \A r \in net : r.kind \in MemberKinds => MemberFits(r, ui, db)
    /\ ui.id # None /\ ~ui.missed /\ (\A r \in net : r.kind \notin MemberKinds)
         => ui.members = db.members[ui.id]

\* What has nothing to do with the members.
LEMMA MembersKept ==
  ASSUME MembersFit, db'.members = db.members, ui'.mixed \/ ~ui.mixed,
         UNCHANGED <<ui.id, ui.members, ui.missed, ui.inviting>>,
         \A r : r.kind \in MemberKinds => (r \in net' <=> r \in net)
  PROVE  MembersFit'
BY DEF MembersFit, MemberFits

\* The one request about the members is another one, or gone.
LEMMA MembersLeft ==
  ASSUME NEW q, ui'.mixed \in BOOLEAN,
         ~ui'.mixed => \A p \in net' : p.kind \in MemberKinds => p = q,
         ~ui'.mixed /\ q \in net' => MemberFits(q, ui', db'),
         ~ui'.mixed /\ q \notin net' /\ ~ui'.missed
           => ui'.members = db'.members[ui'.id],
         q \in net' => q.kind \in MemberKinds
  PROVE  MembersFit'
BY DEF MembersFit

\* The server answers.
LEMMA MembersServed ==
  ASSUME DetailInv, MembersFit, NEW r \in net, Detail!DetailServed(r)
  PROVE  MembersFit'
<1>1. UNCHANGED ui /\ ui \in DetailUiType
  BY DetailServed DEF DetailInv
<1>2. r \in DetailRequest /\ r.on \in Ids /\ r.kind \in DetailKinds
      /\ db \in StoreType
  BY DEF DetailInv, DetailNetOK, DetailRequest
<1>3. ASSUME NEW q, net' = (net \ {r}) \cup {q}, q.kind = r.kind,
             r.kind \notin MemberKinds, db'.members = db.members
      PROVE  MembersFit'
  <2>1. \A p : p.kind \in MemberKinds => (p \in net' <=> p \in net)
    BY <1>3
  <2> QED BY <1>1, <1>3, <2>1, MembersKept DEF DetailUiType
<1>4. ASSUME NEW q, net' = (net \ {r}) \cup {q}, q.kind = r.kind,
             r.kind \in MemberKinds, ~ui.mixed => MemberFits(q, ui, db')
      PROVE  MembersFit'
  <2>1. ~ui'.mixed => \A p \in net' : p.kind \in MemberKinds => p = q
    BY <1>1, <1>4 DEF MembersFit
  <2> QED BY <1>1, <1>4, <2>1, MembersLeft DEF DetailUiType
<1>5. CASE Detail!Refuse(r) /\ UNCHANGED db
  <2> DEFINE q == [r EXCEPT !.step = "failed"]
  <2>1. /\ q.kind = r.kind /\ q.on = r.on /\ q.arg = r.arg /\ q.step = "failed"
        /\ net' = (net \ {r}) \cup {q} /\ r.step = "sent"
    BY <1>2, <1>5 DEF DetailRequest, Detail!Refuse, Detail!DetailServed
  <2> HIDE DEF q
  <2>2. CASE r.kind \notin MemberKinds
    BY <1>3, <1>5, <2>1, <2>2
  <2>3. CASE r.kind \in MemberKinds
    <3>1. ~ui.mixed => MemberFits(q, ui, db')
      BY <1>5, <2>1, <2>3 DEF MembersFit, MemberFits
    <3> QED BY <1>4, <2>1, <2>3, <3>1
  <2> QED BY <2>2, <2>3
<1>6. ASSUME NEW a, Detail!Answer(r, a)
      PROVE  \E q : /\ net' = (net \ {r}) \cup {q} /\ q.kind = r.kind
                    /\ q.on = r.on /\ q.arg = r.arg /\ q.step = "ok"
                    /\ q.answer = a /\ r.step = "sent"
  <2> WITNESS [r EXCEPT !.step = "ok", !.answer = a]
  <2> QED BY <1>2, <1>6 DEF DetailRequest, Detail!Answer, Detail!DetailServed
<1>7. CASE r.kind = "detail" /\ UNCHANGED db
           /\ Detail!Answer(r, [id |-> r.on, role |-> db.role[r.on],
                                names |-> db.names[r.on]])
  <2>1. r.kind \notin MemberKinds
    BY <1>7 DEF MemberKinds
  <2> QED BY <1>3, <1>6, <1>7, <2>1
<1>8. CASE r.kind = "rename" /\ db' = [db EXCEPT !.names[r.on] = r.arg.names]
           /\ Detail!Answer(r, None)
  <2>1. r.kind \notin MemberKinds /\ db'.members = db.members
    BY <1>2, <1>8 DEF MemberKinds, StoreType
  <2> QED BY <1>3, <1>6, <1>8, <2>1
<1>9. CASE r.kind = "members" /\ UNCHANGED db /\ Detail!Answer(r, db.members[r.on])
  <2>1. PICK q : /\ net' = (net \ {r}) \cup {q} /\ q.kind = r.kind
                 /\ q.on = r.on /\ q.step = "ok" /\ q.answer = db.members[r.on]
    BY <1>6, <1>9
  <2>2. r.kind \in MemberKinds
    BY <1>9 DEF MemberKinds
  <2>3. ~ui.mixed => MemberFits(q, ui, db')
    BY <1>9, <2>1, <2>2 DEF MembersFit, MemberFits
  <2> QED BY <1>4, <2>1, <2>2, <2>3
<1>10. CASE r.kind = "invite" /\ Detail!Answer(r, None)
  <2>1. PICK q : /\ net' = (net \ {r}) \cup {q} /\ q.kind = r.kind
                 /\ q.on = r.on /\ q.step = "ok"
    BY <1>6, <1>10
  <2>2. r.kind \in MemberKinds
    BY <1>10 DEF MemberKinds
  <2>3. ~ui.mixed => MemberFits(q, ui, db')
    BY <1>10, <2>1, <2>2 DEF MembersFit, MemberFits
  <2> QED BY <1>4, <2>1, <2>2, <2>3
<1>11. CASE r.kind = "remove" /\ db' = [db EXCEPT !.members[r.on] = @ \ {r.arg}]
            /\ Detail!Answer(r, None)
  <2>1. PICK q : /\ net' = (net \ {r}) \cup {q} /\ q.kind = r.kind
                 /\ q.on = r.on /\ q.arg = r.arg /\ q.step = "ok"
                 /\ r.step = "sent"
    BY <1>6, <1>11
  <2>2. r.kind \in MemberKinds
    BY <1>11 DEF MemberKinds
  <2>3. db'.members[r.on] = db.members[r.on] \ {r.arg}
    BY <1>2, <1>11 DEF StoreType
  <2>4. ~ui.mixed => MemberFits(q, ui, db')
    BY <1>11, <2>1, <2>2, <2>3 DEF MembersFit, MemberFits
  <2> QED BY <1>4, <2>1, <2>2, <2>4
<1> QED BY <1>1, <1>5, <1>7, <1>8, <1>9, <1>10, <1>11 DEF Detail!DetailServed

\* A jump leaves one request about the members, when none was in flight.
LEMMA MembersJump ==
  ASSUME DetailInv, MembersFit, NEW id \in Ids, Detail!Jump(id)
  PROVE  MembersFit'
<1> DEFINE one == Detail!Request("detail", id, None)
           two == Detail!Request("members", id, None)
           early == Detail!Without({"detail"})
<1>1. net' = early \cup {one, two}
  BY DEF Detail!Jump, Detail!Loads
<1>2. /\ one.kind = "detail" /\ two.kind = "members" /\ two.on = id
      /\ two.step = "sent"
  BY DEF Detail!Request
<1>3. /\ ui'.mixed = (ui.mixed \/ early # {}) /\ ui'.id = id
      /\ ui'.mixed \in BOOLEAN
  BY DEF Detail!Jump, DetailInv, DetailUiType
<1> HIDE DEF one, two, early
<1>4. ~ui'.mixed => \A p \in net' : p.kind \in MemberKinds => p = two
  BY <1>1, <1>2, <1>3 DEF MemberKinds
<1>5. two \in net' /\ two.kind \in MemberKinds /\ MemberFits(two, ui', db')
  BY <1>1, <1>2, <1>3 DEF MemberKinds, MemberFits
<1> QED BY <1>3, <1>4, <1>5, MembersLeft

LEMMA MembersAsked ==
  ASSUME DetailInv, MembersFit, NEW u \in Users,
         Detail!InviteMember(u) \/ Detail!RemoveMember(u)
  PROVE  MembersFit'
<1>1. ui \in DetailUiType /\ UNCHANGED db /\ ui.id # None
  BY DEF DetailInv, Detail!InviteMember, Detail!RemoveMember
<1>2. CASE Detail!InviteMember(u)
  <2> DEFINE q == Detail!Request("invite", ui.id, u)
             m == ui.mixed \/ ui.loading \/ Detail!InFlight({"members", "remove"}) # {}
  <2>1. /\ q.kind = "invite" /\ q.on = ui.id /\ q.step = "sent"
    BY DEF Detail!Request
  <2>2. net' = net \cup {q} /\ ~ui.inviting
    BY <1>2 DEF Detail!InviteMember
  <2>3. /\ ui'.mixed = m /\ ui'.inviting /\ m \in BOOLEAN
        /\ UNCHANGED <<ui.id, ui.members, ui.missed>>
    BY <1>1, <1>2 DEF Detail!InviteMember, DetailUiType
  <2>4. ~m => ~ui.mixed /\ \A p \in net : p.kind \notin {"members", "remove"}
    BY DEF Detail!InFlight
  <2>5. ~m => \A p \in net : p.kind \notin MemberKinds
    BY <2>2, <2>4 DEF MembersFit, MemberFits, MemberKinds
  <2> HIDE DEF q, m
  <2>6. q.kind \in MemberKinds
    BY <2>1 DEF MemberKinds
  <2>7. ~ui'.mixed => \A p \in net' : p.kind \in MemberKinds => p = q
    BY <2>2, <2>3, <2>5
  <2>8. ~ui'.mixed => MemberFits(q, ui', db')
    BY <1>1, <2>1, <2>3, <2>4, <2>5 DEF MembersFit, MemberFits
  <2>9. q \in net'
    BY <2>2
  <2> QED BY <2>3, <2>6, <2>7, <2>8, <2>9, MembersLeft
<1>3. CASE Detail!RemoveMember(u)
  <2> DEFINE q == Detail!Request("remove", ui.id, u)
             m == ui.mixed \/ ui.loading
                  \/ Detail!InFlight({"members", "invite", "remove"}) # {}
  <2>1. /\ q.kind = "remove" /\ q.on = ui.id /\ q.step = "sent"
    BY DEF Detail!Request
  <2>2. net' = net \cup {q}
    BY <1>3 DEF Detail!RemoveMember
  <2>3. /\ ui'.mixed = m /\ m \in BOOLEAN
        /\ UNCHANGED <<ui.id, ui.members, ui.missed, ui.inviting>>
    BY <1>1, <1>3 DEF Detail!RemoveMember, DetailUiType
  <2>4. ~m => ~ui.mixed /\ \A p \in net : p.kind \notin MemberKinds
    BY DEF Detail!InFlight, MemberKinds
  <2> HIDE DEF q, m
  <2>6. q.kind \in MemberKinds
    BY <2>1 DEF MemberKinds
  <2>7. ~ui'.mixed => \A p \in net' : p.kind \in MemberKinds => p = q
    BY <2>2, <2>3, <2>4
  <2>8. ~ui'.mixed => MemberFits(q, ui', db')
    BY <1>1, <2>1, <2>3, <2>4 DEF MembersFit, MemberFits
  <2>9. q \in net'
    BY <2>2
  <2> QED BY <2>3, <2>6, <2>7, <2>8, <2>9, MembersLeft
<1> QED BY <1>2, <1>3

\* An answer about the members is taken.
LEMMA MembersTaken ==
  ASSUME DetailInv, MembersFit, NEW r \in net,
         \/ Detail!FetchMembers(r) \/ Detail!MemberInvited(r)
         \/ Detail!MemberRemoved(r)
  PROVE  MembersFit'
<1>1. ui \in DetailUiType /\ UNCHANGED db
  BY DEF DetailInv, Detail!FetchMembers, Detail!MemberInvited, Detail!MemberRemoved
<1>2. r.kind \in MemberKinds /\ (~ui.mixed => MemberFits(r, ui, db))
      /\ (~ui.mixed => \A p \in net : p.kind \in MemberKinds => p = r)
  BY DEF Detail!FetchMembers, Detail!MemberInvited, Detail!MemberRemoved,
         MembersFit, MemberKinds
<1>3. ASSUME net' = net \ {r}, UNCHANGED <<ui.id, ui.mixed>>,
             ~ui.mixed /\ ~ui'.missed => ui'.members = db.members[ui.id]
      PROVE  MembersFit'
  <2>1. ~ui'.mixed => \A p \in net' : p.kind \in MemberKinds => p = r
    BY <1>2, <1>3
  <2>2. ui'.mixed \in BOOLEAN
    BY <1>1, <1>3 DEF DetailUiType
  <2> QED BY <1>1, <1>2, <1>3, <2>1, <2>2, MembersLeft
<1>4. CASE Detail!FetchMembers(r)
  <2>1. net' = net \ {r} /\ r.kind = "members" /\ UNCHANGED <<ui.id, ui.mixed>>
    BY <1>1, <1>4 DEF Detail!FetchMembers, DetailUiType
  <2>2. \/ r.step = "ok" /\ ui'.members = r.answer
        \/ ui'.missed
    BY <1>1, <1>4 DEF Detail!FetchMembers, DetailUiType
  <2> QED BY <1>2, <1>3, <2>1, <2>2 DEF MemberFits
<1>5. CASE /\ ui' = [ui EXCEPT !.membersError = FALSE]
           /\ net' = (net \ {r}) \cup {Detail!Request("members", r.on, "invited")}
  <2> DEFINE q == Detail!Request("members", r.on, "invited")
  <2>1. q.kind = "members" /\ q.on = r.on /\ q.step = "sent"
    BY DEF Detail!Request
  <2>2. net' = (net \ {r}) \cup {q}
    BY <1>5
  <2> HIDE DEF q
  <2>3. q.kind \in MemberKinds /\ q \in net'
    BY <2>1, <2>2 DEF MemberKinds
  <2>4. UNCHANGED <<ui.id, ui.mixed>> /\ ui'.mixed \in BOOLEAN
    BY <1>1, <1>5 DEF DetailUiType
  <2>5. ~ui'.mixed => \A p \in net' : p.kind \in MemberKinds => p = q
    BY <1>2, <2>2, <2>4
  <2>6. ~ui'.mixed => MemberFits(q, ui', db')
    BY <1>2, <2>1, <2>4 DEF MemberFits
  <2> QED BY <2>3, <2>4, <2>5, <2>6, MembersLeft
<1>6. CASE r.kind = "invite" /\ r.step # "ok" /\ net' = net \ {r}
           /\ ui' = [ui EXCEPT !.membersError = TRUE, !.inviting = FALSE]
  <2>1. UNCHANGED <<ui.id, ui.mixed, ui.members, ui.missed>>
    BY <1>1, <1>6 DEF DetailUiType
  <2> QED BY <1>2, <1>3, <1>6, <2>1 DEF MemberFits
<1>7. CASE r.kind = "remove" /\ r.step = "ok" /\ net' = net \ {r}
           /\ ui' = [ui EXCEPT !.members = @ \ {r.arg}, !.removeBusy = None]
  <2>1. UNCHANGED <<ui.id, ui.mixed, ui.missed>>
        /\ ui'.members = ui.members \ {r.arg}
    BY <1>1, <1>7 DEF DetailUiType
  <2> QED BY <1>2, <1>3, <1>7, <2>1 DEF MemberFits
<1>8. CASE r.kind = "remove" /\ r.step # "ok" /\ net' = net \ {r}
           /\ ui' = [ui EXCEPT !.membersError = TRUE, !.removeBusy = None]
  <2>1. UNCHANGED <<ui.id, ui.mixed, ui.members, ui.missed>>
    BY <1>1, <1>8 DEF DetailUiType
  <2> QED BY <1>2, <1>3, <1>8, <2>1 DEF MemberFits
<1> QED BY <1>4, <1>5, <1>6, <1>7, <1>8
        DEF Detail!MemberInvited, Detail!MemberRemoved

LEMMA MembersStep ==
  ASSUME DetailInv, MembersFit, Detail!DetailNext
  PROVE  MembersFit'
<1>1. ui \in DetailUiType
  BY DEF DetailInv
<1>2. ASSUME NEW r \in net, Detail!LoadDetail(r) \/ Detail!SpeakerRenamed(r)
      PROVE  MembersFit'
  <2>1. /\ net' = net \ {r} /\ r.kind \in {"detail", "rename"} /\ UNCHANGED db
    BY <1>2 DEF Detail!LoadDetail, Detail!SpeakerRenamed
  <2>2. UNCHANGED <<ui.id, ui.members, ui.missed, ui.inviting, ui.mixed>>
    BY <1>1, <1>2 DEF Detail!LoadDetail, Detail!SpeakerRenamed, DetailUiType
  <2>3. \A p : p.kind \in MemberKinds => (p \in net' <=> p \in net)
    BY <2>1 DEF MemberKinds
  <2> QED BY <1>1, <2>1, <2>2, <2>3, MembersKept DEF DetailUiType
<1>3. ASSUME NEW s \in Speakers, NEW name \in Names, Detail!RenameSpeaker(s, name)
      PROVE  MembersFit'
  <2>1. PICK arg : net' = net \cup {Detail!Request("rename", ui.id, arg)}
    BY <1>3 DEF Detail!RenameSpeaker
  <2>2. /\ UNCHANGED <<ui.id, ui.members, ui.missed, ui.inviting, db>>
        /\ ui'.mixed \/ ~ui.mixed
    BY <1>1, <1>3 DEF Detail!RenameSpeaker, DetailUiType
  <2>3. \A p : p.kind \in MemberKinds => (p \in net' <=> p \in net)
    BY <2>1 DEF MemberKinds, Detail!Request
  <2> QED BY <2>2, <2>3, MembersKept
<1>4. ASSUME Detail!LeaveRemoved
      PROVE  MembersFit'
  <2>1. net' = {} /\ ui'.id = None
    BY <1>1, <1>4 DEF Detail!LeaveRemoved, DetailUiType
  <2> QED BY <2>1 DEF MembersFit
<1> QED BY <1>2, <1>3, <1>4, MembersServed, MembersJump, MembersAsked, MembersTaken
        DEF Detail!DetailNext

-----------------------------------------------------------------------------
(* The speaker names on the page of a session: what is renamed on the page *)
(* is what the one rename in flight says, over what is stored.             *)

\* What a rename in flight says of the page u, that shows its session, and of
\* the store d.
NamesFit(r, u, d) ==
  /\ u.detail.names = r.arg.names
  /\ d.names[u.id] = IF r.step = "ok" THEN r.arg.names ELSE r.arg.before

NamesKnown ==
  ~ui.mixed /\ ui.id # None =>
    /\ \A r, q \in net : r.kind = "rename" /\ q.kind = "rename" => r = q
    /\ \A r \in net : r.kind = "rename" => r.on = ui.id /\ ~ui.loading
    /\ \A r \in net : r.kind = "detail" /\ r.step = "ok"
         => r.answer.names = db.names[ui.id]
    /\ ~ui.loading /\ ~ui.error /\ ui.detail # None =>
         /\ \A r \in net : r.kind = "rename" => NamesFit(r, ui, db)
         /\ (\A r \in net : r.kind # "rename")
              => ui.detail.names = db.names[ui.id]

\* What has nothing to do with the names.
LEMMA NamesKept ==
  ASSUME NamesKnown, db'.names = db.names, ui'.mixed \/ ~ui.mixed,
         UNCHANGED <<ui.id, ui.loading, ui.error, ui.detail>>,
         \A r : r.kind \in {"rename", "detail"} => (r \in net' <=> r \in net)
  PROVE  NamesKnown'
BY DEF NamesKnown, NamesFit

\* The server answers about them.
LEMMA NamesServed ==
  ASSUME DetailInv, NamesKnown, NEW r \in net, Detail!DetailServed(r)
  PROVE  NamesKnown'
<1>1. UNCHANGED ui /\ ui \in DetailUiType
  BY DetailServed DEF DetailInv
<1>2. r \in DetailRequest /\ r.on \in Ids /\ r.kind \in DetailKinds
      /\ db \in StoreType /\ r.step = "sent"
  BY DEF DetailInv, DetailNetOK, DetailRequest, Detail!DetailServed
<1>3. ASSUME NEW q, net' = (net \ {r}) \cup {q}, q.kind = r.kind,
             r.kind \notin {"rename", "detail"}, db'.names = db.names
      PROVE  NamesKnown'
  <2>1. \A p : p.kind \in {"rename", "detail"} => (p \in net' <=> p \in net)
    BY <1>3
  <2> QED BY <1>1, <1>3, <2>1, NamesKept
<1>4. ASSUME NEW q, net' = (net \ {r}) \cup {q}, q.kind = "rename",
             r.kind = "rename", q.on = r.on, q.arg = r.arg,
             \/ q.step = "failed" /\ UNCHANGED db
             \/ q.step = "ok" /\ db' = [db EXCEPT !.names[r.on] = r.arg.names]
      PROVE  NamesKnown'
  <2> SUFFICES ASSUME ~ui'.mixed, ui'.id # None
               PROVE  /\ \A p, o \in net' : p.kind = "rename" /\ o.kind = "rename" => p = o
                      /\ \A p \in net' : p.kind = "rename" => p.on = ui.id /\ ~ui.loading
                      /\ \A p \in net' : p.kind # "detail"
                      /\ ~ui.loading /\ ~ui.error /\ ui.detail # None =>
                           /\ \A p \in net' : p.kind = "rename" => NamesFit(p, ui, db')
                           /\ \E p \in net' : p.kind = "rename"
    BY <1>1 DEF NamesKnown
  <2>1. ~ui.mixed /\ ui.id # None /\ r.on = ui.id /\ ~ui.loading
        /\ \A p \in net : p.kind = "rename" => p = r
    BY <1>1, <1>4 DEF NamesKnown
  <2>2. \A p \in net' : p.kind = "rename" => p = q
    BY <1>4, <2>1
  <2>3. \A p \in net' : p.kind # "detail"
    BY <1>4, <2>1 DEF DetailInv, DetailAsked
  <2>4. ASSUME ~ui.loading, ~ui.error, ui.detail # None
        PROVE  NamesFit(q, ui, db')
    <3>1. NamesFit(r, ui, db)
      BY <1>4, <2>1, <2>4 DEF NamesKnown
    <3>2. CASE q.step = "failed" /\ UNCHANGED db
      BY <1>2, <1>4, <3>1, <3>2 DEF NamesFit
    <3>3. CASE q.step = "ok" /\ db' = [db EXCEPT !.names[r.on] = r.arg.names]
      <4>1. db'.names[ui.id] = r.arg.names
        BY <1>2, <2>1, <3>3 DEF StoreType
      <4> QED BY <1>4, <3>1, <3>3, <4>1 DEF NamesFit
    <3> QED BY <1>4, <3>2, <3>3
  <2> QED BY <1>4, <2>1, <2>2, <2>3, <2>4
<1>5. ASSUME NEW q, net' = (net \ {r}) \cup {q}, q.kind = "detail",
             r.kind = "detail", UNCHANGED db,
             q.step = "ok" => q.answer.names = db.names[r.on]
      PROVE  NamesKnown'
  <2>1. r.on = ui.id /\ ui.loading
    BY <1>5 DEF DetailInv, DetailAsked
  <2>2. \A p : p.kind = "rename" => (p \in net' <=> p \in net)
    BY <1>5
  <2> QED BY <1>1, <1>5, <2>1, <2>2 DEF NamesKnown, NamesFit
<1>6. CASE Detail!Refuse(r) /\ UNCHANGED db
  <2> DEFINE q == [r EXCEPT !.step = "failed"]
  <2>1. /\ q.kind = r.kind /\ q.on = r.on /\ q.arg = r.arg /\ q.step = "failed"
        /\ net' = (net \ {r}) \cup {q}
    BY <1>2, <1>6 DEF DetailRequest, Detail!Refuse
  <2> HIDE DEF q
  <2> QED BY <1>3, <1>4, <1>5, <1>6, <2>1
<1>7. ASSUME NEW a, Detail!Answer(r, a)
      PROVE  \E q : /\ net' = (net \ {r}) \cup {q} /\ q.kind = r.kind
                    /\ q.on = r.on /\ q.arg = r.arg /\ q.step = "ok"
                    /\ q.answer = a
  <2> WITNESS [r EXCEPT !.step = "ok", !.answer = a]
  <2> QED BY <1>2, <1>7 DEF DetailRequest, Detail!Answer
<1>8. CASE r.kind = "detail" /\ UNCHANGED db
           /\ Detail!Answer(r, [id |-> r.on, role |-> db.role[r.on],
                                names |-> db.names[r.on]])
  BY <1>5, <1>7, <1>8
<1>9. CASE r.kind = "rename" /\ db' = [db EXCEPT !.names[r.on] = r.arg.names]
           /\ Detail!Answer(r, None)
  BY <1>4, <1>7, <1>9
<1>10. CASE r.kind = "members" /\ UNCHANGED db /\ Detail!Answer(r, db.members[r.on])
  BY <1>3, <1>7, <1>10
<1>11. CASE r.kind \in {"invite", "remove"} /\ Detail!Answer(r, None)
            /\ \/ db' = [db EXCEPT !.members[r.on] = @ \cup {r.arg}]
               \/ db' = [db EXCEPT !.members[r.on] = @ \ {r.arg}]
  <2>1. db'.names = db.names
    BY <1>2, <1>11 DEF StoreType
  <2> QED BY <1>3, <1>7, <1>11, <2>1
<1> QED BY <1>1, <1>6, <1>8, <1>9, <1>10, <1>11 DEF Detail!DetailServed

LEMMA NamesJump ==
  ASSUME DetailInv, NEW id \in Ids, Detail!Jump(id)
  PROVE  NamesKnown'
<1> DEFINE one == Detail!Request("detail", id, None)
           two == Detail!Request("members", id, None)
           early == Detail!Without({"detail"})
<1>1. net' = early \cup {one, two}
  BY DEF Detail!Jump, Detail!Loads
<1>2. /\ one.kind = "detail" /\ one.step = "sent" /\ two.kind = "members"
  BY DEF Detail!Request
<1>3. ui'.mixed = (ui.mixed \/ early # {}) /\ ui'.loading
  BY DEF Detail!Jump, DetailInv, DetailUiType
<1> HIDE DEF one, two, early
<1>4. ~ui'.mixed => net' = {one, two}
  BY <1>1, <1>3
<1> QED BY <1>2, <1>3, <1>4 DEF NamesKnown

\* The load of the page, answered or not.
LEMMA NamesLoaded ==
  ASSUME DetailInv, NamesKnown, NEW r \in net, Detail!LoadDetail(r)
  PROVE  NamesKnown'
<1>1. /\ net' = net \ {r} /\ r.kind = "detail" /\ UNCHANGED db
      /\ ui \in DetailUiType
  BY DEF Detail!LoadDetail, DetailInv
<1>2. r.on = ui.id /\ ui.loading /\ \A p \in net : p.kind = "detail" => p = r
  BY <1>1 DEF DetailInv, DetailAsked
<1>3. CASE r.step = "ok" /\ ui' = [ui EXCEPT !.detail = r.answer, !.loading = FALSE]
  <2>1. ui'.detail = r.answer /\ UNCHANGED <<ui.id, ui.mixed, ui.error>>
    BY <1>1, <1>3 DEF DetailUiType
  <2> QED BY <1>1, <1>2, <1>3, <2>1 DEF NamesKnown
<1>4. CASE ui' = [ui EXCEPT !.error = TRUE, !.loading = FALSE]
  <2>1. ui'.error /\ UNCHANGED <<ui.id, ui.mixed>>
    BY <1>1, <1>4 DEF DetailUiType
  <2> QED BY <1>1, <1>2, <2>1 DEF NamesKnown
<1> QED BY <1>3, <1>4 DEF Detail!LoadDetail

LEMMA NamesRenamed ==
  ASSUME DetailInv, NamesKnown, NEW s \in Speakers, NEW name \in Names,
         Detail!RenameSpeaker(s, name)
  PROVE  NamesKnown'
<1> DEFINE names == [ui.detail.names EXCEPT ![s] = name]
           arg == [names |-> names, before |-> ui.detail.names]
           q == Detail!Request("rename", ui.id, arg)
           m == ui.mixed \/ ui.loading \/ Detail!InFlight({"rename"}) # {}
<1>1. ui \in DetailUiType /\ ui.detail \in Detail!Details
  BY DEF DetailInv, DetailUiType, Detail!RenameSpeaker
<1>2. /\ q.kind = "rename" /\ q.on = ui.id /\ q.arg.names = names
      /\ q.arg.before = ui.detail.names /\ q.step = "sent"
  BY DEF Detail!Request
<1>3. net' = net \cup {q} /\ UNCHANGED db
  BY DEF Detail!RenameSpeaker
<1>4. /\ ui'.mixed = m /\ ui'.detail.names = names
      /\ UNCHANGED <<ui.id, ui.loading, ui.error>>
  BY <1>1 DEF Detail!RenameSpeaker, DetailUiType, Detail!Details
<1>5. ~m => ~ui.mixed /\ ~ui.loading /\ \A p \in net : p.kind # "rename"
  BY DEF Detail!InFlight
<1>6. \A p \in net : p.kind = "detail" => ui.loading
  BY DEF DetailInv, DetailAsked
<1>7. ui.detail # None
  BY DEF Detail!RenameSpeaker
<1> HIDE DEF q, m, names
<1>8. CASE m
  BY <1>4, <1>8 DEF NamesKnown
<1>9. CASE ~m /\ ui.id # None
  <2>1. \A p \in net' : p.kind = "rename" => p = q
    BY <1>3, <1>5, <1>9
  <2>2. \A p \in net' : p.kind # "detail"
    BY <1>2, <1>3, <1>5, <1>6, <1>9
  <2>3. ~ui.error => ui.detail.names = db.names[ui.id]
    BY <1>5, <1>7, <1>9 DEF NamesKnown
  <2>4. ~ui.error => NamesFit(q, ui', db')
    BY <1>2, <1>3, <1>4, <2>3 DEF NamesFit
  <2> QED BY <1>2, <1>3, <1>4, <1>5, <1>9, <2>1, <2>2, <2>4 DEF NamesKnown
<1>10. CASE ui.id = None
  BY <1>4, <1>10 DEF NamesKnown
<1> QED BY <1>8, <1>9, <1>10

LEMMA NamesSettled ==
  ASSUME DetailInv, NamesKnown, NEW r \in net, Detail!SpeakerRenamed(r)
  PROVE  NamesKnown'
<1>1. /\ net' = net \ {r} /\ UNCHANGED db /\ r.kind = "rename"
      /\ ui \in DetailUiType
  BY DEF Detail!SpeakerRenamed, DetailInv
<1>2. ui.detail # None /\ ui.detail \in Detail!Details
  BY <1>1 DEF DetailInv, RenamedShown, DetailUiType
<1>3. UNCHANGED <<ui.id, ui.loading, ui.error, ui.mixed>>
  BY <1>1 DEF Detail!SpeakerRenamed, DetailUiType
<1>4. ASSUME ~ui.mixed, ui.id # None
      PROVE  /\ \A p \in net' : p.kind # "rename"
             /\ ~ui.error /\ ~ui.loading => ui'.detail.names = db.names[ui.id]
  <2>1. \A p \in net : p.kind = "rename" => p = r
    BY <1>1, <1>4 DEF NamesKnown
  <2>2. ~ui.error /\ ~ui.loading => NamesFit(r, ui, db)
    BY <1>1, <1>2, <1>4 DEF NamesKnown
  <2>3. CASE r.step = "ok" /\ UNCHANGED ui
    BY <1>1, <2>1, <2>2, <2>3 DEF NamesFit
  <2>4. CASE r.step = "failed" /\ ui' = [ui EXCEPT !.detail.names = r.arg.before]
    <3>1. ui'.detail.names = r.arg.before
      BY <1>1, <1>2, <2>4 DEF DetailUiType, Detail!Details
    <3> QED BY <1>1, <2>1, <2>2, <2>4, <3>1 DEF NamesFit
  <2> QED BY <2>3, <2>4 DEF Detail!SpeakerRenamed
<1>5. \A p \in net' : p \in net
  BY <1>1
<1> QED BY <1>1, <1>3, <1>4, <1>5 DEF NamesKnown

LEMMA NamesStep ==
  ASSUME DetailInv, NamesKnown, Detail!DetailNext
  PROVE  NamesKnown'
<1>1. ui \in DetailUiType
  BY DEF DetailInv
<1>2. ASSUME NEW r \in net,
             \/ Detail!FetchMembers(r) \/ Detail!MemberInvited(r)
             \/ Detail!MemberRemoved(r)
      PROVE  NamesKnown'
  <2>1. UNCHANGED <<ui.id, ui.loading, ui.error, ui.detail, ui.mixed, db>>
    BY <1>1, <1>2 DEF Detail!FetchMembers, Detail!MemberInvited,
                      Detail!MemberRemoved, DetailUiType
  <2>2. \/ net' = net \ {r} /\ r.kind \in MemberKinds
        \/ net' = (net \ {r}) \cup {Detail!Request("members", r.on, "invited")}
           /\ r.kind \in MemberKinds
    BY <1>2 DEF Detail!FetchMembers, Detail!MemberInvited, Detail!MemberRemoved,
                MemberKinds
  <2>3. \A p : p.kind \in {"rename", "detail"} => (p \in net' <=> p \in net)
    BY <2>2 DEF MemberKinds, Detail!Request
  <2> QED BY <2>1, <2>3, NamesKept
<1>3. ASSUME NEW u \in Users, Detail!InviteMember(u) \/ Detail!RemoveMember(u)
      PROVE  NamesKnown'
  <2>1. /\ UNCHANGED <<ui.id, ui.loading, ui.error, ui.detail, db>>
        /\ ui'.mixed \/ ~ui.mixed
    BY <1>1, <1>3 DEF Detail!InviteMember, Detail!RemoveMember, DetailUiType
  <2>2. PICK kind \in {"invite", "remove"} :
          net' = net \cup {Detail!Request(kind, ui.id, u)}
    BY <1>3 DEF Detail!InviteMember, Detail!RemoveMember
  <2>3. \A p : p.kind \in {"rename", "detail"} => (p \in net' <=> p \in net)
    BY <2>2 DEF Detail!Request
  <2> QED BY <2>1, <2>3, NamesKept
<1>4. ASSUME Detail!LeaveRemoved
      PROVE  NamesKnown'
  <2>1. ui'.id = None
    BY <1>1, <1>4 DEF Detail!LeaveRemoved, DetailUiType
  <2> QED BY <2>1 DEF NamesKnown
<1> QED BY <1>2, <1>3, <1>4, NamesServed, NamesJump, NamesLoaded, NamesRenamed,
           NamesSettled
        DEF Detail!DetailNext

-----------------------------------------------------------------------------
(* The members in the panel of the overview, in the same way: but a list   *)
(* that could not be fetched again counts as an overlap.                   *)

PanelMemberFits(r, u, d) ==
  /\ r.on = u.detail
  /\ r.kind = "members" /\ r.step = "ok" => r.answer = d.members[u.detail]
  /\ r.kind = "remove" /\ r.step = "ok"
       => u.members \ {r.arg} = d.members[u.detail]
  /\ r.kind \in {"invite", "remove"} /\ r.step # "ok"
       => u.members = d.members[u.detail]

PanelMembersFit ==
  ~ui.mixed =>
    /\ \A r, q \in net : r.kind # "list" /\ q.kind # "list" => r = q
    /\ \A r \in net : r.kind \in MemberKinds => PanelMemberFits(r, ui, db)
    /\ \A r \in net : r.kind = "panel" /\ r.step = "ok"
         => r.answer = db.members[r.on]
    /\ ui.detail # None /\ (\A r \in net : r.kind \notin MemberKinds)
         => ui.members = db.members[ui.detail]

\* The lists have nothing to do with the members.
LEMMA PanelMembersKept ==
  ASSUME PanelMembersFit, db'.members = db.members,
         UNCHANGED <<ui.detail, ui.members, ui.mixed>>,
         \A r : r.kind # "list" => (r \in net' <=> r \in net)
  PROVE  PanelMembersFit'
<1>1. MemberKinds \cap {"list", "panel"} = {}
  BY DEF MemberKinds
<1> QED BY <1>1 DEF PanelMembersFit, PanelMemberFits

\* One request about the members is left.
LEMMA PanelMemberLeft ==
  ASSUME NEW q, q \in net', q.kind \in MemberKinds,
         ~ui'.mixed => \A p \in net' : p.kind # "list" => p = q,
         ~ui'.mixed => PanelMemberFits(q, ui', db')
  PROVE  PanelMembersFit'
<1>1. MemberKinds \cap {"list", "panel"} = {}
  BY DEF MemberKinds
<1> QED BY <1>1 DEF PanelMembersFit

\* None is left.
LEMMA NoPanelMemberLeft ==
  ASSUME ~ui'.mixed => \A p \in net' : p.kind = "list",
         ~ui'.mixed /\ ui'.detail # None => ui'.members = db'.members[ui'.detail]
  PROVE  PanelMembersFit'
<1>1. MemberKinds \cap {"list", "panel"} = {}
  BY DEF MemberKinds
<1> QED BY <1>1 DEF PanelMembersFit

LEMMA PanelMembersServed ==
  ASSUME PanelInv, PanelMembersFit, NEW r \in net, Overview!OverviewServed(r)
  PROVE  PanelMembersFit'
<1>1. UNCHANGED ui
  BY PanelServed
<1>2. /\ r \in RequestType /\ r.kind \in Kinds /\ r.step = "sent"
      /\ r.kind # "list" => r.on \in Ids
  BY DEF PanelInv, NetOK, RequestType, WellMade, Overview!OverviewServed
<1>3. db \in Overview!StoreType
  BY DEF PanelInv, Overview!OverviewTypeOK
<1>4. ~ui.mixed /\ r.kind # "list"
        => \A p \in net : p.kind # "list" => p = r
  BY DEF PanelMembersFit
<1>5. ASSUME NEW q, net' = (net \ {r}) \cup {q}, q.kind = r.kind,
             r.kind \in MemberKinds, ~ui.mixed => PanelMemberFits(q, ui, db')
      PROVE  PanelMembersFit'
  <2>1. r.kind # "list"
    BY <1>5 DEF MemberKinds
  <2>2. ~ui'.mixed => \A p \in net' : p.kind # "list" => p = q
    BY <1>1, <1>4, <1>5, <2>1
  <2> QED BY <1>1, <1>5, <2>2, PanelMemberLeft
<1>6. ASSUME NEW q, net' = (net \ {r}) \cup {q}, q.kind = "panel", q.on = r.on,
             r.kind = "panel", UNCHANGED db,
             q.step = "ok" => q.answer = db.members[r.on]
      PROVE  PanelMembersFit'
  <2>1. ~ui.mixed => \A p \in net' : p.kind # "list" => p = q
    BY <1>4, <1>6
  <2>2. ~ui.mixed /\ ui.detail # None => ui.members = db.members[ui.detail]
    BY <1>4, <1>6 DEF PanelMembersFit, MemberKinds
  <2> QED BY <1>1, <1>6, <2>1, <2>2 DEF PanelMembersFit, MemberKinds
<1>7. ASSUME NEW q, net' = (net \ {r}) \cup {q}, q.kind = "list",
             r.kind = "list", UNCHANGED db
      PROVE  PanelMembersFit'
  <2>1. \A p : p.kind # "list" => (p \in net' <=> p \in net)
    BY <1>7
  <2> QED BY <1>1, <1>7, <2>1, PanelMembersKept
<1>8. CASE Overview!Refuse(r) /\ UNCHANGED db
  <2> DEFINE q == [r EXCEPT !.step = "failed"]
  <2>1. /\ q.kind = r.kind /\ q.on = r.on /\ q.arg = r.arg /\ q.step = "failed"
        /\ net' = (net \ {r}) \cup {q}
    BY <1>2, <1>8 DEF RequestType, Overview!Refuse
  <2> HIDE DEF q
  <2>2. CASE r.kind \in MemberKinds
    <3>1. ~ui.mixed => PanelMemberFits(q, ui, db')
      BY <1>2, <1>8, <2>1, <2>2 DEF PanelMembersFit, PanelMemberFits
    <3> QED BY <1>5, <2>1, <2>2, <3>1
  <2>3. CASE r.kind = "panel"
    BY <1>6, <1>8, <2>1, <2>3
  <2>4. CASE r.kind = "list"
    BY <1>7, <1>8, <2>1, <2>4
  <2> QED BY <1>2, <2>2, <2>3, <2>4 DEF Kinds, MemberKinds
<1>9. ASSUME NEW a, Overview!Answer(r, a)
      PROVE  \E q : /\ net' = (net \ {r}) \cup {q} /\ q.kind = r.kind
                    /\ q.on = r.on /\ q.arg = r.arg /\ q.step = "ok"
                    /\ q.answer = a
  <2> WITNESS [r EXCEPT !.step = "ok", !.answer = a]
  <2> QED BY <1>2, <1>9 DEF RequestType, Overview!Answer
<1>10. CASE r.kind = "list" /\ Overview!Answer(r, db.total[r.on]) /\ UNCHANGED db
  BY <1>7, <1>9, <1>10
<1>11. CASE r.kind = "panel" /\ Overview!Answer(r, db.members[r.on]) /\ UNCHANGED db
  BY <1>6, <1>9, <1>11
<1>12. CASE r.kind = "members" /\ Overview!Answer(r, db.members[r.on]) /\ UNCHANGED db
  <2>1. PICK q : /\ net' = (net \ {r}) \cup {q} /\ q.kind = r.kind
                 /\ q.on = r.on /\ q.answer = db.members[r.on]
    BY <1>9, <1>12
  <2>2. r.kind \in MemberKinds
    BY <1>12 DEF MemberKinds
  <2>3. ~ui.mixed => PanelMemberFits(q, ui, db')
    BY <1>12, <2>1, <2>2 DEF PanelMembersFit, PanelMemberFits
  <2> QED BY <1>5, <2>1, <2>2, <2>3
<1>13. CASE r.kind = "invite" /\ Overview!Answer(r, None)
  <2>1. PICK q : /\ net' = (net \ {r}) \cup {q} /\ q.kind = r.kind
                 /\ q.on = r.on /\ q.step = "ok"
    BY <1>9, <1>13
  <2>2. r.kind \in MemberKinds
    BY <1>13 DEF MemberKinds
  <2>3. ~ui.mixed => PanelMemberFits(q, ui, db')
    BY <1>13, <2>1, <2>2 DEF PanelMembersFit, PanelMemberFits
  <2> QED BY <1>5, <2>1, <2>2, <2>3
<1>14. CASE r.kind = "remove" /\ db' = [db EXCEPT !.members[r.on] = @ \ {r.arg}]
            /\ Overview!Answer(r, None)
  <2>1. PICK q : /\ net' = (net \ {r}) \cup {q} /\ q.kind = r.kind
                 /\ q.on = r.on /\ q.arg = r.arg /\ q.step = "ok"
    BY <1>9, <1>14
  <2>2. r.kind \in MemberKinds
    BY <1>14 DEF MemberKinds
  <2>3. db'.members[r.on] = db.members[r.on] \ {r.arg}
    BY <1>2, <1>3, <1>14 DEF Overview!StoreType
  <2>4. ~ui.mixed => PanelMemberFits(q, ui, db')
    BY <1>2, <1>14, <2>1, <2>2, <2>3 DEF PanelMembersFit, PanelMemberFits
  <2> QED BY <1>5, <2>1, <2>2, <2>4
<1> QED BY <1>1, <1>8, <1>10, <1>11, <1>12, <1>13, <1>14 DEF Overview!OverviewServed

\* The panel is given another session, or is closed.
LEMMA PanelMembersTurned ==
  ASSUME PanelInv, PanelMembersFit,
         \/ \E id \in Ids : Overview!SelectSession(id)
         \/ Overview!ClosePanel
  PROVE  PanelMembersFit'
<1>1. ui \in Overview!PageType
  BY DEF PanelInv, Overview!OverviewTypeOK
<1>2. MemberKinds \cap {"list", "panel"} = {}
  BY DEF MemberKinds
<1> DEFINE busy == Overview!Without({"list", "panel"}) # {}
           rest == Overview!Without({"panel"})
<1>3. ~busy => \A p \in rest : p.kind = "list"
  OBVIOUS
<1>4. ASSUME NEW id \in Ids, Overview!SelectSession(id)
      PROVE  PanelMembersFit'
  <2> DEFINE q == Overview!Request("panel", id, None)
  <2>1. q.kind = "panel" /\ q.step = "sent"
    OBVIOUS
  <2>2. /\ net' = rest \cup {q} /\ UNCHANGED db
        /\ ui'.mixed = (ui.mixed \/ busy) /\ UNCHANGED <<ui.detail, ui.members>>
    BY <1>1, <1>4 DEF Overview!SelectSession, Overview!PageType
  <2>3. \A p \in net : p \in rest \/ p.kind = "panel"
    OBVIOUS
  <2> HIDE DEF q, rest, busy, Overview!Request
  <2>4. ~ui'.mixed => \A p \in net' : p.kind # "list" => p = q
    BY <1>3, <2>2
  <2>5. ~ui'.mixed /\ ui.detail # None => ui.members = db.members[ui.detail]
    BY <1>2, <1>3, <2>2, <2>3 DEF PanelMembersFit
  <2> QED BY <1>2, <2>1, <2>2, <2>4, <2>5 DEF PanelMembersFit
<1>5. CASE Overview!ClosePanel
  <2>1. /\ net' = rest /\ ui'.mixed = (ui.mixed \/ busy) /\ ui'.detail = None
    BY <1>1, <1>5 DEF Overview!ClosePanel, Overview!PageType
  <2> HIDE DEF rest, busy
  <2> QED BY <1>3, <2>1, NoPanelMemberLeft
<1> QED BY <1>4, <1>5

LEMMA PanelMembersLoaded ==
  ASSUME PanelInv, PanelMembersFit, NEW r \in net, Overview!PanelLoaded(r)
  PROVE  PanelMembersFit'
<1>1. /\ r.kind = "panel" /\ net' = net \ {r} /\ UNCHANGED db
      /\ ui \in Overview!PageType
  BY DEF Overview!PanelLoaded, PanelInv, Overview!OverviewTypeOK
<1>2. ~ui.mixed => \A p \in net' : p.kind = "list"
  BY <1>1 DEF PanelMembersFit
<1>3. ~ui.mixed => \A p \in net : p.kind \notin MemberKinds
  BY <1>1, <1>2 DEF MemberKinds
<1>4. CASE r.step = "ok" /\ ui' = [ui EXCEPT !.detail = r.on, !.members = r.answer,
                                              !.loading = FALSE]
  <2>1. ui'.detail = r.on /\ ui'.members = r.answer /\ UNCHANGED ui.mixed
    BY <1>1, <1>4 DEF Overview!PageType
  <2> QED BY <1>1, <1>2, <1>4, <2>1, NoPanelMemberLeft DEF PanelMembersFit
<1>5. CASE ui' = [ui EXCEPT !.error = TRUE, !.loading = FALSE]
  <2>1. UNCHANGED <<ui.detail, ui.members, ui.mixed>>
    BY <1>1, <1>5 DEF Overview!PageType
  <2> QED BY <1>1, <1>2, <1>3, <2>1, NoPanelMemberLeft DEF PanelMembersFit
<1> QED BY <1>4, <1>5 DEF Overview!PanelLoaded

LEMMA PanelMembersAsked ==
  ASSUME PanelInv, PanelMembersFit, NEW u \in Users,
         Overview!Invite(u) \/ Overview!Remove(u)
  PROVE  PanelMembersFit'
<1>1. /\ ui \in Overview!PageType /\ UNCHANGED db /\ ui.detail # None
  BY DEF PanelInv, Overview!OverviewTypeOK, Overview!Invite, Overview!Remove
<1> DEFINE m == ui.mixed \/ ui.loading \/ Overview!Without({"list"}) # {}
<1>2. ui'.mixed = m /\ UNCHANGED <<ui.detail, ui.members>>
  BY <1>1 DEF Overview!Invite, Overview!Remove, Overview!PageType
<1>3. PICK kind \in {"invite", "remove"} :
        net' = net \cup {Overview!Request(kind, ui.detail, u)}
  BY DEF Overview!Invite, Overview!Remove
<1> DEFINE q == Overview!Request(kind, ui.detail, u)
<1>4. q.kind = kind /\ q.on = ui.detail /\ q.step = "sent"
  OBVIOUS
<1>5. ~m => ~ui.mixed /\ \A p \in net : p.kind = "list"
  OBVIOUS
<1>6. net' = net \cup {q}
  BY <1>3
<1> HIDE DEF q, m, Overview!Request
<1>7. q \in net' /\ q.kind \in MemberKinds
  BY <1>4, <1>6 DEF MemberKinds
<1>8. ~ui'.mixed => \A p \in net' : p.kind # "list" => p = q
  BY <1>2, <1>5, <1>6
<1>9. ~m => ui.members = db.members[ui.detail]
  BY <1>1, <1>5 DEF PanelMembersFit, MemberKinds
<1>10. ~ui'.mixed => PanelMemberFits(q, ui', db')
  BY <1>1, <1>2, <1>4, <1>9 DEF PanelMemberFits
<1> QED BY <1>7, <1>8, <1>10, PanelMemberLeft

LEMMA PanelMembersTaken ==
  ASSUME PanelInv, PanelMembersFit, NEW r \in net,
         Overview!Invited(r) \/ Overview!Removed(r)
  PROVE  PanelMembersFit'
<1>1. ui \in Overview!PageType /\ UNCHANGED db
  BY DEF PanelInv, Overview!OverviewTypeOK, Overview!Invited, Overview!Removed
<1>2. r.kind \in MemberKinds
  BY DEF Overview!Invited, Overview!Removed, MemberKinds
<1>3. ~ui.mixed => /\ PanelMemberFits(r, ui, db)
                   /\ \A p \in net : p.kind # "list" => p = r
  BY <1>2 DEF PanelMembersFit, MemberKinds
<1>4. ASSUME net' = net \ {r}, UNCHANGED ui.detail, ui'.mixed \/ ~ui.mixed,
             ~ui.mixed /\ ~ui'.mixed => ui'.members = db.members[ui.detail]
      PROVE  PanelMembersFit'
  <2>1. ~ui'.mixed => \A p \in net' : p.kind = "list"
    BY <1>3, <1>4
  <2> QED BY <1>1, <1>4, <2>1, NoPanelMemberLeft
<1>5. CASE /\ r.kind = "invite" /\ UNCHANGED ui
           /\ net' = (net \ {r}) \cup {Overview!Request("members", r.on, None)}
  <2> DEFINE q == Overview!Request("members", r.on, None)
  <2>1. q.kind = "members" /\ q.on = r.on /\ q.step = "sent"
    OBVIOUS
  <2>2. net' = (net \ {r}) \cup {q}
    BY <1>5
  <2> HIDE DEF q, Overview!Request
  <2>3. q \in net' /\ q.kind \in MemberKinds
    BY <2>1, <2>2 DEF MemberKinds
  <2>4. ~ui'.mixed => \A p \in net' : p.kind # "list" => p = q
    BY <1>3, <1>5, <2>2
  <2>5. ~ui'.mixed => PanelMemberFits(q, ui', db')
    BY <1>3, <1>5, <2>1 DEF PanelMemberFits
  <2> QED BY <2>3, <2>4, <2>5, PanelMemberLeft
<1>6. CASE r.kind = "members" /\ r.step = "ok" /\ net' = net \ {r}
           /\ ui' = [ui EXCEPT !.members = r.answer, !.inviting = FALSE]
  <2>1. ui'.members = r.answer /\ UNCHANGED <<ui.detail, ui.mixed>>
    BY <1>1, <1>6 DEF Overview!PageType
  <2> QED BY <1>3, <1>4, <1>6, <2>1 DEF PanelMemberFits
<1>7. CASE r.kind = "invite" /\ r.step = "failed" /\ net' = net \ {r}
           /\ ui' = [ui EXCEPT !.inviting = FALSE]
  <2>1. UNCHANGED <<ui.detail, ui.mixed, ui.members>>
    BY <1>1, <1>7 DEF Overview!PageType
  <2> QED BY <1>3, <1>4, <1>7, <2>1 DEF PanelMemberFits
<1>8. CASE net' = net \ {r} /\ ui' = [ui EXCEPT !.inviting = FALSE, !.mixed = TRUE]
  <2>1. UNCHANGED ui.detail /\ ui'.mixed
    BY <1>1, <1>8 DEF Overview!PageType
  <2> QED BY <1>4, <1>8, <2>1
<1>9. CASE r.kind = "remove" /\ r.step = "ok" /\ net' = net \ {r}
           /\ ui' = [ui EXCEPT !.members = @ \ {r.arg}, !.removeBusy = None]
  <2>1. UNCHANGED <<ui.detail, ui.mixed>> /\ ui'.members = ui.members \ {r.arg}
    BY <1>1, <1>9 DEF Overview!PageType
  <2> QED BY <1>3, <1>4, <1>9, <2>1 DEF PanelMemberFits
<1>10. CASE r.kind = "remove" /\ r.step = "failed" /\ net' = net \ {r}
            /\ ui' = [ui EXCEPT !.removeBusy = None]
  <2>1. UNCHANGED <<ui.detail, ui.mixed, ui.members>>
    BY <1>1, <1>10 DEF Overview!PageType
  <2> QED BY <1>3, <1>4, <1>10, <2>1 DEF PanelMemberFits
<1> QED BY <1>5, <1>6, <1>7, <1>8, <1>9, <1>10 DEF Overview!Invited, Overview!Removed

LEMMA PanelMembersListed ==
  ASSUME PanelInv, PanelMembersFit,
         \/ \E s \in Overview!Sides, n \in 1 .. MaxPages : Overview!SetPage(s, n)
         \/ \E r \in net : Overview!BucketLoaded(r)
  PROVE  PanelMembersFit'
<1>1. ui \in Overview!PageType
  BY DEF PanelInv, Overview!OverviewTypeOK
<1>2. ASSUME NEW s \in Overview!Sides, NEW n \in 1 .. MaxPages,
             Overview!SetPage(s, n)
      PROVE  PanelMembersFit'
  <2>1. net' = net \cup {Overview!Request("list", s, n)} /\ UNCHANGED db
    BY <1>2 DEF Overview!SetPage
  <2>2. UNCHANGED <<ui.detail, ui.members, ui.mixed>>
    BY <1>1, <1>2 DEF Overview!SetPage, Overview!PageType
  <2>3. \A p : p.kind # "list" => (p \in net' <=> p \in net)
    BY <2>1
  <2> QED BY <2>1, <2>2, <2>3, PanelMembersKept
<1>3. ASSUME NEW r \in net, Overview!BucketLoaded(r)
      PROVE  PanelMembersFit'
  <2>1. net' = net \ {r} /\ r.kind = "list" /\ UNCHANGED db
    BY <1>3 DEF Overview!BucketLoaded
  <2>2. UNCHANGED <<ui.detail, ui.members, ui.mixed>>
    BY <1>1, <1>3 DEF Overview!BucketLoaded, Overview!PageType
  <2>3. \A p : p.kind # "list" => (p \in net' <=> p \in net)
    BY <2>1
  <2> QED BY <2>1, <2>2, <2>3, PanelMembersKept
<1> QED BY <1>2, <1>3

LEMMA PanelMembersStep ==
  ASSUME PanelInv, PanelMembersFit, Overview!OverviewNext
  PROVE  PanelMembersFit'
BY PanelMembersServed, PanelMembersTurned, PanelMembersLoaded, PanelMembersAsked,
   PanelMembersTaken, PanelMembersListed DEF Overview!OverviewNext

-----------------------------------------------------------------------------
(* What both pages show is stored.                                         *)

StoredInv ==
  /\ page = "detail" => DetailInv /\ MembersFit /\ NamesKnown
  /\ page = "overview" => PanelInv /\ PanelMembersFit

LEMMA StoredInit ==
  ASSUME Init
  PROVE  StoredInv
<1>1. ASSUME page = "detail"
      PROVE  DetailInv /\ MembersFit /\ NamesKnown
  <2>1. DetailInv
    BY <1>1, DetailInitial DEF DetailPageInv
  <2>2. Detail!DetailInit
    BY <1>1 DEF Init
  <2>3. PICK id \in Ids : ui.id = id /\ ui.loading /\ net = Detail!Loads(id)
    BY <2>2 DEF Detail!DetailInit
  <2> DEFINE one == Detail!Request("detail", id, None)
             two == Detail!Request("members", id, None)
  <2>4. net = {one, two}
    BY <2>3 DEF Detail!Loads
  <2>5. /\ one.kind = "detail" /\ one.step = "sent"
        /\ two.kind = "members" /\ two.step = "sent" /\ two.on = id
    BY DEF Detail!Request
  <2> HIDE DEF one, two
  <2>6. MembersFit
    BY <2>3, <2>4, <2>5 DEF MembersFit, MemberFits, MemberKinds
  <2>7. NamesKnown
    BY <2>3, <2>4, <2>5 DEF NamesKnown
  <2> QED BY <2>1, <2>6, <2>7
<1>2. ASSUME page = "overview"
      PROVE  PanelInv /\ PanelMembersFit
  <2>1. PanelInv
    BY <1>2, PanelInit DEF Inv
  <2>2. Overview!OverviewInit
    BY <1>2 DEF Init
  <2>3. ui.detail = None /\ \A r \in net : r.kind = "list"
    BY <2>2 DEF Overview!OverviewInit
  <2> QED BY <2>1, <2>3 DEF PanelMembersFit, MemberKinds
<1> QED BY <1>1, <1>2 DEF StoredInv

LEMMA StoredNext ==
  ASSUME StoredInv, [Next]_vars
  PROVE  StoredInv'
<1>1. UNCHANGED page
  BY DEF Next, vars
<1>2. CASE UNCHANGED vars
  <2>1. UNCHANGED <<ui, net, db, page>>
    BY <1>2 DEF vars, pageVars
  <2>2. page = "detail" => DetailInv' /\ MembersFit' /\ NamesKnown'
    BY <2>1 DEF StoredInv, DetailInv, DetailNetOK, DetailAsked, RenamedShown,
                MembersFit, NamesKnown
  <2>3. page = "overview" => PanelInv' /\ PanelMembersFit'
    BY <2>1 DEF StoredInv, PanelInv, Overview!OverviewTypeOK, NetOK, PanelAsked,
                PanelMembersFit
  <2> QED BY <2>1, <2>2, <2>3 DEF StoredInv
<1>3. CASE Next
  <2>1. page = "detail" => Detail!DetailNext
    BY <1>3 DEF Next
  <2>2. page = "overview" => Overview!OverviewNext
    BY <1>3 DEF Next
  <2>3. page = "detail" => DetailInv' /\ MembersFit' /\ NamesKnown'
    BY <2>1, DetailStep, MembersStep, NamesStep DEF StoredInv
  <2>4. page = "overview" => PanelInv' /\ PanelMembersFit'
    BY <2>2, OverviewStep, PanelMembersStep DEF StoredInv
  <2> QED BY <1>1, <2>3, <2>4 DEF StoredInv
<1> QED BY <1>2, <1>3

\* The members listed, on the page of a session and in the panel, are those the
\* server has, as soon as nothing is under way: an invitation that is answered
\* fetches them again, a removal takes its member away, and a refusal of either
\* leaves them, unless requests overlapped or that fetch failed (inviteMember,
\* removeMember).
THEOREM MembersAreStored == Spec => []MembersShownAreStored
<1>1. Init => StoredInv
  BY StoredInit
<1>2. StoredInv /\ [Next]_vars => StoredInv'
  BY StoredNext
<1>3. StoredInv => MembersShownAreStored
  BY DEF StoredInv, MembersShownAreStored, MembersFit, PanelMembersFit,
         MemberKinds, Detail!MembersShownAreStored, Overview!PanelMembersAreStored,
         Detail!InFlight, Overview!InFlight
<1> QED BY <1>1, <1>2, <1>3, PTL DEF Spec

\* The speaker names on the page are the stored ones when nothing is under way:
\* a rename shows at once and is undone when it is refused (renameSpeaker).
THEOREM NamesAreStored == Spec => []NamesShownAreStored
<1>1. Init => StoredInv
  BY StoredInit
<1>2. StoredInv /\ [Next]_vars => StoredInv'
  BY StoredNext
<1>3. StoredInv => NamesShownAreStored
  BY DEF StoredInv, NamesShownAreStored, NamesKnown, Detail!NamesShownAreStored,
         Detail!InFlight
<1> QED BY <1>1, <1>2, <1>3, PTL DEF Spec
==============================================================================
