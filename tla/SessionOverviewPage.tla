------------------------- MODULE SessionOverviewPage -------------------------
(***************************************************************************)
(* The overview of past sessions: two lists in pages, own sessions and     *)
(* those as a guest, and a panel with the session that is selected.        *)
(***************************************************************************)
EXTENDS Page

CONSTANTS Ids, Users,
          MaxPages  \* pages of a list, a bound

Sides == {"owner", "guest"}

BucketType == [page : 1 .. MaxPages, total : 1 .. MaxPages,
               shown : {None} \cup (1 .. MaxPages), loading : BOOLEAN,
               error : BOOLEAN]

PageType == [buckets : [Sides -> BucketType],
             selected : Ids \cup {None}, detail : Ids \cup {None},
             loading : BOOLEAN, error : BOOLEAN,
             members : SUBSET Users, inviting : BOOLEAN,
             removeBusy : Users \cup {None},
             mixed : BOOLEAN]  \* history: requests that overlapped

StoreType == [total : [Sides -> 1 .. MaxPages], members : [Ids -> SUBSET Users]]

OverviewTypeOK == ui \in PageType /\ db \in StoreType

OverviewInit ==
  /\ ui = [buckets |-> [s \in Sides |->
                         [page |-> 1, total |-> 1, shown |-> None,
                          loading |-> TRUE, error |-> FALSE]],
           selected |-> None, detail |-> None, loading |-> FALSE,
           error |-> FALSE, members |-> {}, inviting |-> FALSE,
           removeBusy |-> None, mixed |-> FALSE]
  /\ net = {Request("list", s, 1) : s \in Sides}
  /\ acts = 0
  /\ db \in [total : {[s \in Sides |-> n] : n \in 1 .. MaxPages},
             members : {[i \in Ids |-> m] : m \in SUBSET Users}]

-----------------------------------------------------------------------------
\* The server.

OverviewServed(r) ==
  /\ Sent(r)
  /\ \/ r.kind = "list" /\ Answer(r, db.total[r.on]) /\ UNCHANGED db
     \/ r.kind = "panel" /\ Answer(r, db.members[r.on]) /\ UNCHANGED db
     \/ r.kind = "members" /\ Answer(r, db.members[r.on]) /\ UNCHANGED db
     \/ /\ r.kind = "invite"
        /\ db' = [db EXCEPT !.members[r.on] = @ \cup {r.arg}]
        /\ Answer(r, None)
     \/ /\ r.kind = "remove" /\ r.arg \in db.members[r.on]
        /\ db' = [db EXCEPT !.members[r.on] = @ \ {r.arg}]
        /\ Answer(r, None)
     \/ Refuse(r) /\ UNCHANGED db
  /\ UNCHANGED <<ui, acts>>

-----------------------------------------------------------------------------
\* The lists.

\* The buttons Vorige and Volgende, which a list has that is not loading: the
\* effect aborts a request under way and fetches the page.
SetPage(s, n) ==
  /\ LET b == ui.buckets[s]
     IN /\ ~b.loading /\ ~b.error /\ b.total > 1
        /\ n \in {b.page - 1, b.page + 1} /\ n \in 1 .. b.total
  /\ Act
  /\ ui' = [ui EXCEPT !.buckets[s] =
              [@ EXCEPT !.page = n, !.loading = TRUE, !.error = FALSE]]
  /\ net' = net \cup {Request("list", s, n)}
  /\ UNCHANGED db

Taken(r) == net' = Others(r) /\ UNCHANGED <<db, acts>>

\* Mutation of BucketLoaded: an error leaves what was shown in its place.
BucketLoadedQuietly(r) ==
  /\ Answered(r, "list") \/ Refused(r, "list")
  /\ Taken(r)
  /\ ui' = IF r.step = "ok"
           THEN [ui EXCEPT !.buckets[r.on] =
                  [@ EXCEPT !.shown = r.arg, !.total = r.answer,
                            !.loading = FALSE]]
           ELSE [ui EXCEPT !.buckets[r.on].loading = FALSE]

BucketLoaded(r) ==
  \/ /\ Answered(r, "list") /\ Taken(r)
     /\ ui' = [ui EXCEPT !.buckets[r.on] =
                 [@ EXCEPT !.shown = r.arg, !.total = r.answer,
                           !.loading = FALSE]]
  \/ /\ Refused(r, "list") /\ Taken(r)
     /\ ui' = [ui EXCEPT !.buckets[r.on] =
                 [@ EXCEPT !.error = TRUE, !.loading = FALSE]]

-----------------------------------------------------------------------------
\* The panel.

\* Mutation of SelectSession: the load of the session before goes on.
SelectSessionUncancelled(id) ==
  /\ ui.selected # id /\ Act
  /\ ui' = [ui EXCEPT !.selected = id, !.loading = TRUE, !.error = FALSE]
  /\ net' = net \cup {Request("panel", id, None)}
  /\ UNCHANGED db

\* The list of the other side stays beside the panel, so that the selection
\* may change under it; the old detail stays until the new one is there.
SelectSession(id) ==
  /\ ui.selected # id /\ Act
  /\ ui' = [ui EXCEPT !.selected = id, !.loading = TRUE, !.error = FALSE,
                      !.mixed = @ \/ Without({"list", "panel"}) # {}]
  /\ net' = Without({"panel"}) \cup {Request("panel", id, None)}
  /\ UNCHANGED db

\* detailLoading keeps its value: the cancelled load does not reset it.
ClosePanel ==
  /\ ui.selected # None /\ Act
  /\ ui' = [ui EXCEPT !.selected = None, !.detail = None, !.members = {},
                      !.mixed = @ \/ Without({"list", "panel"}) # {}]
  /\ net' = Without({"panel"})
  /\ UNCHANGED db

\* fetchDetailAndMembers: both, or neither.
PanelLoaded(r) ==
  \/ /\ Answered(r, "panel") /\ Taken(r)
     /\ ui' = [ui EXCEPT !.detail = r.on, !.members = r.answer,
                         !.loading = FALSE]
  \/ /\ Refused(r, "panel") /\ Taken(r)
     /\ ui' = [ui EXCEPT !.error = TRUE, !.loading = FALSE]

\* inviteMember and removeMember work on the session of the detail.
Invite(u) ==
  /\ ui.detail # None /\ ~ui.inviting /\ Act
  /\ ui' = [ui EXCEPT !.inviting = TRUE,
                      !.mixed = @ \/ ui.loading \/ Without({"list"}) # {}]
  /\ net' = net \cup {Request("invite", ui.detail, u)}
  /\ UNCHANGED db

Remove(u) ==
  /\ ui.detail # None /\ u \in ui.members /\ ui.removeBusy # u /\ Act
  /\ ui' = [ui EXCEPT !.removeBusy = u,
                      !.mixed = @ \/ ui.loading \/ Without({"list"}) # {}]
  /\ net' = net \cup {Request("remove", ui.detail, u)}
  /\ UNCHANGED db

Invited(r) ==
  \/ /\ Answered(r, "invite")
     /\ net' = Others(r) \cup {Request("members", r.on, None)}
     /\ UNCHANGED <<ui, db, acts>>
  \/ /\ Answered(r, "members") /\ Taken(r)
     /\ ui' = [ui EXCEPT !.members = r.answer, !.inviting = FALSE]
  \/ /\ Refused(r, "invite") /\ Taken(r)
     /\ ui' = [ui EXCEPT !.inviting = FALSE]
  \/ /\ Refused(r, "members") /\ Taken(r)
     /\ ui' = [ui EXCEPT !.inviting = FALSE, !.mixed = TRUE]

Removed(r) ==
  \/ /\ Answered(r, "remove") /\ Taken(r)
     /\ ui' = [ui EXCEPT !.members = @ \ {r.arg}, !.removeBusy = None]
  \/ /\ Refused(r, "remove") /\ Taken(r)
     /\ ui' = [ui EXCEPT !.removeBusy = None]

OverviewNext ==
  \/ \E r \in net : \/ OverviewServed(r) \/ BucketLoaded(r) \/ PanelLoaded(r)
                    \/ Invited(r) \/ Removed(r)
  \/ \E s \in Sides, n \in 1 .. MaxPages : SetPage(s, n)
  \/ \E id \in Ids : SelectSession(id)
  \/ ClosePanel
  \/ \E u \in Users : Invite(u) \/ Remove(u)

-----------------------------------------------------------------------------
\* The views of LatestView that the lists and the panel are.
BucketState(s) == IF ui.buckets[s].loading THEN "busy"
                  ELSE IF ui.buckets[s].error THEN "failed" ELSE "ready"

PanelState == IF ui.selected = None THEN "ready"
              ELSE IF ui.loading THEN "busy"
              ELSE IF ui.error THEN "failed" ELSE "ready"

\* The members in the panel are those of the session it shows, when no request
\* overlapped another.
PanelMembersAreStored ==
  ui.detail # None /\ ~ui.mixed /\ ~ui.loading
    /\ InFlight({"invite", "remove", "members"}) = {}
  => ui.members = db.members[ui.detail]
=============================================================================
