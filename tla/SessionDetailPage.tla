-------------------------- MODULE SessionDetailPage --------------------------
(***************************************************************************)
(* The page of one session: its data, speaker names and members.  A jump   *)
(* in the browser's history goes from one session to another without a new *)
(* page.                                                                   *)
(***************************************************************************)
EXTENDS Page

CONSTANTS Ids, Users, Speakers, Names

\* What a speaker is called at first.
FirstName == CHOOSE n \in Names : TRUE

Roles == {"owner", "viewer"}   \* an editor may do here what an owner may

\* The data of a session as the page has it.
Details == [id : Ids, role : Roles, names : [Speakers -> Names]]

DetailTypeOK ==
  /\ ui \in [id : Ids \cup {None}, loading : BOOLEAN, error : BOOLEAN,
             detail : {None} \cup Details,
             members : SUBSET Users, membersError : BOOLEAN,
             inviting : BOOLEAN, removeBusy : Users \cup {None},
             missed : BOOLEAN,  \* history: the members could not be fetched
             mixed : BOOLEAN]   \* history: requests that overlapped
  /\ db \in [role : [Ids -> Roles], names : [Ids -> [Speakers -> Names]],
             members : [Ids -> SUBSET Users]]

Loads(id) == {Request(k, id, None) : k \in {"detail", "members"}}

DetailInit ==
  /\ \E id \in Ids :
       /\ ui = [id |-> id, loading |-> TRUE, error |-> FALSE, detail |-> None,
                members |-> {}, membersError |-> FALSE, inviting |-> FALSE,
                removeBusy |-> None, missed |-> FALSE, mixed |-> FALSE]
       /\ net = Loads(id)
  /\ acts = 0
  /\ db \in [role : [Ids -> Roles],
             names : {[id \in Ids |-> [s \in Speakers |-> FirstName]]},
             members : [Ids -> SUBSET Users]]

-----------------------------------------------------------------------------
\* The server.

MayManage(id) == db.role[id] = "owner"

DetailServed(r) ==
  /\ Sent(r)
  /\ \/ /\ r.kind = "detail"
        /\ Answer(r, [id |-> r.on, role |-> db.role[r.on],
                      names |-> db.names[r.on]])
        /\ UNCHANGED db
     \/ r.kind = "members" /\ Answer(r, db.members[r.on]) /\ UNCHANGED db
     \/ /\ r.kind = "rename" /\ MayManage(r.on)
        /\ db' = [db EXCEPT !.names[r.on] = r.arg.names]
        /\ Answer(r, None)
     \/ /\ r.kind = "invite" /\ MayManage(r.on)
        /\ db' = [db EXCEPT !.members[r.on] = @ \cup {r.arg}]
        /\ Answer(r, None)
     \/ /\ r.kind = "remove" /\ MayManage(r.on)
        /\ r.arg \in db.members[r.on]
        /\ db' = [db EXCEPT !.members[r.on] = @ \ {r.arg}]
        /\ Answer(r, None)
     \/ Refuse(r) /\ UNCHANGED db
  /\ UNCHANGED <<ui, acts>>

-----------------------------------------------------------------------------
\* The user.

\* Mutation of Jump: the load of the session left behind is not cancelled.
JumpUncancelled(id) ==
  /\ ui.id \notin {id, None} /\ Act
  /\ ui' = [ui EXCEPT !.id = id, !.loading = TRUE, !.error = FALSE]
  /\ net' = net \cup Loads(id)
  /\ UNCHANGED db

\* The effects of another sessionId: what was loading is cancelled, except
\* the members; what is shown stays until it is replaced.
Jump(id) ==
  /\ ui.id \notin {id, None} /\ Act
  /\ ui' = [ui EXCEPT !.id = id, !.loading = TRUE, !.error = FALSE,
                      !.membersError = FALSE,
                      !.mixed = @ \/ Without({"detail"}) # {}]
  /\ net' = Without({"detail"}) \cup Loads(id)
  /\ UNCHANGED db

\* removedSessionId is this session: to the overview.
LeaveRemoved ==
  /\ ui.id # None /\ Act
  /\ ui' = [ui EXCEPT !.id = None] /\ net' = {}
  /\ UNCHANGED db

\* SpeakerLabel commits another name than the one displayed; the closure's
\* names go as a whole, to the session of the page.
RenameSpeaker(s, name) ==
  /\ ui.id # None /\ ui.detail # None
  /\ ui.detail.role = "owner" /\ ui.detail.names[s] # name
  /\ Act
  /\ LET names == [ui.detail.names EXCEPT ![s] = name]
     IN /\ ui' = [ui EXCEPT !.detail.names = names,
                            !.mixed = @ \/ ui.loading \/ InFlight({"rename"}) # {}]
        /\ net' = net \cup {Request("rename", ui.id,
                                    [names |-> names, before |-> ui.detail.names])}
  /\ UNCHANGED db

InviteMember(u) ==
  /\ ui.id # None /\ ui.detail # None /\ ui.detail.role = "owner"
  /\ ~ui.inviting /\ Act
  /\ ui' = [ui EXCEPT !.inviting = TRUE, !.membersError = FALSE,
                      !.mixed = @ \/ ui.loading
                                  \/ InFlight({"members", "remove"}) # {}]
  /\ net' = net \cup {Request("invite", ui.id, u)}
  /\ UNCHANGED db

RemoveMember(u) ==
  /\ ui.id # None /\ ui.detail # None /\ ui.detail.role = "owner"
  /\ u \in ui.members /\ ui.removeBusy # u /\ Act
  /\ ui' = [ui EXCEPT !.removeBusy = u, !.membersError = FALSE,
                      !.mixed = @ \/ ui.loading
                                  \/ InFlight({"members", "invite", "remove"}) # {}]
  /\ net' = net \cup {Request("remove", ui.id, u)}
  /\ UNCHANGED db

-----------------------------------------------------------------------------
\* Answers.

Page(r) == net' = Others(r) /\ UNCHANGED <<db, acts>>

\* loadDetail; loadSegments does the same.  A cancelled one is not in net.
LoadDetail(r) ==
  \/ /\ Answered(r, "detail") /\ Page(r)
     /\ ui' = [ui EXCEPT !.detail = r.answer, !.loading = FALSE]
  \/ /\ Refused(r, "detail") /\ Page(r)
     /\ ui' = [ui EXCEPT !.error = TRUE, !.loading = FALSE]

\* fetchMembers, the one of the effect and the one an invitation awaits.
FetchMembers(r) ==
  \/ /\ Answered(r, "members") /\ Page(r)
     /\ ui' = [ui EXCEPT !.members = r.answer, !.missed = FALSE,
                         !.inviting = IF r.arg = "invited" THEN FALSE ELSE @]
  \/ /\ Refused(r, "members") /\ Page(r)
     /\ ui' = [ui EXCEPT !.membersError = TRUE, !.missed = TRUE,
                         !.inviting = IF r.arg = "invited" THEN FALSE ELSE @]

\* Mutation of SpeakerRenamed: the name stays although it was refused.
SpeakerRenamedAnyway(r) ==
  /\ Answered(r, "rename") \/ Refused(r, "rename")
  /\ Page(r) /\ UNCHANGED ui

SpeakerRenamed(r) ==
  \/ Answered(r, "rename") /\ Page(r) /\ UNCHANGED ui
  \/ /\ Refused(r, "rename") /\ Page(r)
     /\ ui' = [ui EXCEPT !.detail.names = r.arg.before]

\* Mutation of MemberInvited: the list is not fetched again.
MemberInvitedUnseen(r) ==
  /\ Answered(r, "invite") \/ Refused(r, "invite")
  /\ Page(r) /\ ui' = [ui EXCEPT !.inviting = FALSE]

MemberInvited(r) ==
  \/ /\ Answered(r, "invite")
     /\ net' = Others(r) \cup {Request("members", r.on, "invited")}
     /\ ui' = [ui EXCEPT !.membersError = FALSE]
     /\ UNCHANGED <<db, acts>>
  \/ /\ Refused(r, "invite") /\ Page(r)
     /\ ui' = [ui EXCEPT !.membersError = TRUE, !.inviting = FALSE]

MemberRemoved(r) ==
  \/ /\ Answered(r, "remove") /\ Page(r)
     /\ ui' = [ui EXCEPT !.members = @ \ {r.arg}, !.removeBusy = None]
  \/ /\ Refused(r, "remove") /\ Page(r)
     /\ ui' = [ui EXCEPT !.membersError = TRUE, !.removeBusy = None]

DetailNext ==
  \/ \E r \in net : \/ DetailServed(r) \/ LoadDetail(r)
                    \/ FetchMembers(r) \/ SpeakerRenamed(r)
                    \/ MemberInvited(r) \/ MemberRemoved(r)
  \/ \E id \in Ids : Jump(id)
  \/ LeaveRemoved
  \/ \E s \in Speakers, name \in Names : RenameSpeaker(s, name)
  \/ \E u \in Users : InviteMember(u) \/ RemoveMember(u)

-----------------------------------------------------------------------------
\* The view of LatestView that this page is.
DetailKey == ui.id
DetailShown == IF ui.id = None \/ ui.detail = None THEN None ELSE ui.detail.id
DetailState == IF ui.id = None THEN "ready"
               ELSE IF ui.loading THEN "busy"
               ELSE IF ui.error THEN "failed" ELSE "ready"

\* A refused rename is undone: when no request overlapped another, the names
\* on the page are the stored ones.
NamesShownAreStored ==
  ui.id # None /\ ui.detail # None /\ ~ui.loading /\ ~ui.error /\ ~ui.mixed
    /\ InFlight({"rename"}) = {}
  => ui.detail.names = db.names[ui.id]

\* The members on the page are those of its session when no request
\* overlapped another and the last fetch of them did not fail.  (That the page
\* shows no error is not enough: the next removal clears it.)
MembersShownAreStored ==
  ui.id # None /\ ~ui.mixed /\ ~ui.missed
    /\ InFlight({"members", "invite", "remove"}) = {}
  => ui.members = db.members[ui.id]
=============================================================================
