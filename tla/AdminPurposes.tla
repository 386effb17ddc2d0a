---------------------------- MODULE AdminPurposes ----------------------------
(***************************************************************************)
(* The tab of the administration with the purposes of sessions.  Of what   *)
(* the form holds, hours stands for the periods of retention, filled says  *)
(* that the title, the description and the prompt are there.               *)
(***************************************************************************)
EXTENDS EditedList

Hours == (0 - 1) .. 1

Purposes == [hours : Hours, filled : BOOLEAN]

PurposesTypeOK ==
  /\ ui \in ListType(Purposes, {"loading", "there", "failed"})
  /\ db \in [Things -> [hours : {0, 1}, filled : {TRUE}] \cup {None}]

PurposesInit ==
  /\ ui = EmptyList("loading")
  /\ net = {GetList("page", None), Request("options", None, None)}
  /\ acts = 0
  /\ db \in [Things -> {None, [hours |-> 0, filled |-> TRUE]}]

\* The form as one types in it: the prompt needs options to choose from, a
\* period is any number.
Typed(form) == {[hours |-> h, filled |-> f] : h \in Hours, f \in BOOLEAN} \ {form}

SanitizeHours(h) == IF h < 0 THEN 0 ELSE h

ToPayload(form) ==
  [form EXCEPT !.content = [hours |-> SanitizeHours(@.hours), filled |-> TRUE]]

-----------------------------------------------------------------------------
PurposesServed(r) ==
  /\ Sent(r)
  /\ \/ r.kind = "list" /\ Answer(r, db) /\ UNCHANGED db
     \/ r.kind = "options" /\ Answer(r, None) /\ UNCHANGED db
     \/ /\ r.kind = "create"
        /\ \E t \in Things : db[t] = None /\ db' = [db EXCEPT ![t] = r.arg.content]
        /\ Answer(r, None)
     \/ /\ r.kind = "update" /\ db[r.on] # None
        /\ db' = [db EXCEPT ![r.on] = r.arg.content]
        /\ Answer(r, None)
     \/ /\ r.kind = "delete" /\ db[r.on] # None
        /\ db' = [db EXCEPT ![r.on] = None]
        /\ Answer(r, None)
     \/ Refuse(r) /\ UNCHANGED db
  /\ UNCHANGED <<ui, acts>>

-----------------------------------------------------------------------------
\* An item of the list with its buttons, each blocked by its own request only.

RefreshPurposeList ==
  /\ ~ui.loading /\ Act
  /\ ui' = Mixing(Fetching(ui), net)
  /\ net' = net \cup {GetList("user", None)}
  /\ UNCHANGED db

\* A form that is not filled is refused before anything is sent.
CreatePurpose ==
  /\ ~ui.creating /\ ui.options = "there" /\ Act
  /\ ui' = Mixing([ui EXCEPT !.creating = TRUE], net)
  /\ net' = net \cup
       {Request("create", None,
                ToPayload([of |-> None, content |-> [hours |-> 0,
                                                     filled |-> TRUE]]))}
  /\ UNCHANGED db

BeginEditPurpose(t) ==
  /\ Listed(t) /\ ~Edited(t) /\ ui.deleting # t
  /\ ui' = [ui EXCEPT !.editing = t,
                      !.form = [of |-> t, content |-> ui.items[t]]]
  /\ UNCHANGED <<net, db, acts>>

SetEditForm(t, content) ==
  /\ Edited(t) /\ ui.form.content # None /\ content \in Typed(ui.form.content)
  /\ content.filled => ui.form.content.filled \/ ui.options = "there"
  /\ ui' = [ui EXCEPT !.form.content = content]
  /\ UNCHANGED <<net, db, acts>>

CancelEditPurpose(t) ==
  /\ Edited(t) /\ ui.saving = None
  /\ ui' = FormClosed(ui)
  /\ UNCHANGED <<net, db, acts>>

UpdatePurpose(t) ==
  /\ Edited(t) /\ ui.saving # t /\ ui.form.content # None
  /\ ui.form.content.filled
  /\ Act
  /\ ui' = Mixing([ui EXCEPT !.saving = t], net)
  /\ net' = net \cup {Request("update", t, ToPayload(ui.form))}
  /\ UNCHANGED db

DeletePurpose(t) ==
  /\ Listed(t) /\ ~Edited(t) /\ ui.deleting # t /\ Act
  /\ ui' = Mixing([ui EXCEPT !.deleting = t], net)
  /\ net' = net \cup {Request("delete", t, ui.editing)}
  /\ UNCHANGED db

-----------------------------------------------------------------------------
PromptOptionsLoaded(r) ==
  /\ Answered(r, "options") \/ Refused(r, "options")
  /\ ui' = [ui EXCEPT !.options = IF r.step = "ok" THEN "there" ELSE "failed"]
  /\ net' = Others(r) /\ UNCHANGED <<db, acts>>

PurposeCreated(r) == Answered(r, "create") /\ ThenList(r, ui)

PurposeUpdated(r) == Answered(r, "update") /\ ThenList(r, FormClosed(ui))

PurposeDeleted(r) ==
  /\ Answered(r, "delete")
  /\ ThenList(r, IF r.arg = r.on THEN FormClosed(ui) ELSE ui)

PurposesNext ==
  \/ \E r \in net : \/ PurposesServed(r) \/ ListShown(r) \/ GivenUp(r)
                    \/ PromptOptionsLoaded(r) \/ PurposeCreated(r)
                    \/ PurposeUpdated(r) \/ PurposeDeleted(r)
  \/ RefreshPurposeList \/ CreatePurpose
  \/ \E t \in Things :
       \/ BeginEditPurpose(t) \/ CancelEditPurpose(t)
       \/ UpdatePurpose(t) \/ DeletePurpose(t)
       \/ \E content \in Purposes : SetEditForm(t, content)

-----------------------------------------------------------------------------

\* The tab shows the purposes there are.
PurposesShownAreStored == ListIsStored(db)
=============================================================================
