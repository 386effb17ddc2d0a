---------------------------- MODULE PromptManager ----------------------------
(***************************************************************************)
(* The card of the account page in which a user keeps prompts: those of    *)
(* everybody, which only an admin changes, and one's own.                  *)
(***************************************************************************)
EXTENDS EditedList

CONSTANT Names   \* what a prompt says

Contents == [text : Names, global : BOOLEAN, own : BOOLEAN]

ManagerTypeOK ==
  /\ ui \in ListType(Contents, {None})
  /\ db \in [rows : [Things -> Contents \cup {None}], admin : BOOLEAN]

FirstText == CHOOSE n \in Names : TRUE

\* A prompt of somebody else is there when it is global.
ManagerInit ==
  /\ ui = EmptyList(None)
  /\ net = {GetList("page", None)}
  /\ acts = 0
  /\ db \in [rows : [Things -> {None} \cup [text : {FirstText},
                                            global : BOOLEAN, own : BOOLEAN]],
             admin : BOOLEAN]
  /\ \A t \in Things : db.rows[t] # None => db.rows[t].global \/ db.rows[t].own

-----------------------------------------------------------------------------
\* The server.

Visible(row) == IF row = None THEN FALSE ELSE row.global \/ row.own
CanManage(row) == IF row.global THEN db.admin ELSE row.own

PromptRows == [t \in Things |-> IF Visible(db.rows[t]) THEN db.rows[t] ELSE None]

ManagerServed(r) ==
  /\ Sent(r)
  /\ \/ r.kind = "list" /\ Answer(r, PromptRows) /\ UNCHANGED db
     \/ /\ r.kind = "create"
        /\ \E t \in Things :
             /\ db.rows[t] = None
             /\ db' = [db EXCEPT !.rows[t] =
                         [text |-> r.arg.text, global |-> r.arg.global,
                          own |-> TRUE]]
        /\ Answer(r, None)
     \/ /\ r.kind = "update" /\ Visible(db.rows[r.on])
        /\ db' = [db EXCEPT !.rows[r.on] = [r.arg.content EXCEPT
                                              !.own = db.rows[r.on].own]]
        /\ Answer(r, None)
     \/ /\ r.kind = "delete" /\ db.rows[r.on] # None
        /\ db' = [db EXCEPT !.rows[r.on] = None]
        /\ Answer(r, None)
     \/ Refuse(r) /\ UNCHANGED db
  /\ UNCHANGED <<ui, acts>>

-----------------------------------------------------------------------------
\* The card.

\* The sections with the prompts of everybody and one's own.
GlobalPrompts == {t \in Things : Listed(t) /\ ui.items[t].global}
OwnPrompts == {t \in Things : Listed(t) /\ ~ui.items[t].global /\ ui.items[t].own}

\* A prompt in its section, with its buttons.
InSection(t) == t \in GlobalPrompts \cup OwnPrompts /\ CanManage(ui.items[t])
IsBusy(t) == t \in {ui.saving, ui.deleting}

\* A new prompt says what the first ones say; texts are told apart in edits.
HandleCreatePrompt ==
  /\ ~ui.creating /\ Act
  /\ ui' = Mixing([ui EXCEPT !.creating = TRUE], net)
  /\ \E global \in BOOLEAN :
       /\ global => db.admin
       /\ net' = net \cup {Request("create", None,
                                   [text |-> FirstText, global |-> global])}
  /\ UNCHANGED db

\* Mutation of BeginEdit: the form keeps what it has.
BeginEditKept(t) ==
  /\ InSection(t) /\ ~Edited(t) /\ ~IsBusy(t)
  /\ ui' = [ui EXCEPT !.editing = t,
                      !.form = IF @.of = None
                               THEN [of |-> t, content |-> ui.items[t]] ELSE @]
  /\ UNCHANGED <<net, db, acts>>

\* From another form too, which is lost.
BeginEdit(t) ==
  /\ InSection(t) /\ ~Edited(t) /\ ~IsBusy(t)
  /\ ui' = [ui EXCEPT !.editing = t,
                      !.form = [of |-> t, content |-> ui.items[t]]]
  /\ UNCHANGED <<net, db, acts>>

\* The checkbox for a global prompt is there for an admin.
EditPrompt(t, text, global) ==
  /\ InSection(t) /\ Edited(t) /\ ui.form.content # None
  /\ db.admin \/ global = ui.form.content.global
  /\ ui' = [ui EXCEPT !.form.content.text = text, !.form.content.global = global]
  /\ ui' # ui
  /\ UNCHANGED <<net, db, acts>>

CancelEdit(t) ==
  /\ InSection(t) /\ Edited(t) /\ ~IsBusy(t)
  /\ ui' = FormClosed(ui)
  /\ UNCHANGED <<net, db, acts>>

\* Only an admin says whether the prompt is global.
HandleSavePrompt(t) ==
  /\ InSection(t) /\ Edited(t) /\ ~IsBusy(t) /\ ui.form.content # None
  /\ Act
  /\ LET payload == [ui.form EXCEPT !.content.global =
                       IF db.admin THEN @ ELSE ui.items[t].global]
     IN net' = net \cup {Request("update", t, payload)}
  /\ ui' = Mixing([ui EXCEPT !.saving = t], net)
  /\ UNCHANGED db

\* After confirmation.  The handler keeps what was edited when it began.
HandleDeletePrompt(t) ==
  /\ InSection(t) /\ ~Edited(t) /\ ~IsBusy(t) /\ Act
  /\ net' = net \cup {Request("delete", t, ui.editing)}
  /\ ui' = Mixing([ui EXCEPT !.deleting = t], net)
  /\ UNCHANGED db

-----------------------------------------------------------------------------
\* What comes after an answer.

PromptCreated(r) == Answered(r, "create") /\ ThenList(r, ui)

\* Mutation of PromptSaved: the list is left as it is.
PromptSavedUnseen(r) ==
  /\ Answered(r, "update")
  /\ ui' = [FormClosed(ui) EXCEPT !.saving = None]
  /\ net' = Others(r) /\ UNCHANGED <<db, acts>>

\* The form closes, also when another prompt is edited in it by now.
PromptSaved(r) == Answered(r, "update") /\ ThenList(r, FormClosed(ui))

PromptDeleted(r) ==
  /\ Answered(r, "delete")
  /\ ThenList(r, IF r.arg = r.on THEN FormClosed(ui) ELSE ui)

ManagerNext ==
  \/ \E r \in net : \/ ManagerServed(r) \/ ListShown(r) \/ GivenUp(r)
                    \/ PromptCreated(r) \/ PromptSaved(r) \/ PromptDeleted(r)
  \/ HandleCreatePrompt
  \/ \E t \in Things :
       \/ BeginEdit(t) \/ CancelEdit(t)
       \/ HandleSavePrompt(t) \/ HandleDeletePrompt(t)
       \/ \E text \in Names, global \in BOOLEAN : EditPrompt(t, text, global)

-----------------------------------------------------------------------------
\* What is sent for a prompt comes from the form that was opened for it, though
\* there is one form and other prompts are saved, deleted and opened meanwhile.
PromptFormsAreOwn == FormsAreOwn

\* The card shows the prompts the server has for the user.
PromptsShownAreStored == ListIsStored(PromptRows)
=============================================================================
