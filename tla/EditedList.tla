----------------------------- MODULE EditedList -----------------------------
(***************************************************************************)
(* What the pages that keep a list of things have in common: a list that   *)
(* is fetched again after every change, one form to edit in, and one place *)
(* each to remember what is being saved and deleted.                       *)
(***************************************************************************)
EXTENDS Page

CONSTANT Things   \* what can be in the list, a bound

ListKinds == {"list", "create", "update", "delete"}

NoForm == [of |-> None, content |-> None]

\* The state of such a list of contents, and of what a form can choose from.
ListType(contents, options) ==
  [items : [Things -> contents \cup {None}],
   loading : BOOLEAN, creating : BOOLEAN, editing : Things \cup {None},
   form : [of : Things \cup {None}, content : contents \cup {None}],
   options : options,
   saving : Things \cup {None}, deleting : Things \cup {None},
   missed : BOOLEAN,  \* history: the last fetch failed
   mixed : BOOLEAN]   \* history: requests overlapped

EmptyList(options) ==
  [items |-> [t \in Things |-> None], loading |-> TRUE, creating |-> FALSE,
   editing |-> None, form |-> NoForm, options |-> options, saving |-> None,
   deleting |-> None, missed |-> FALSE, mixed |-> FALSE]

\* Fetching the list, on behalf of who waits for it.
GetList(by, id) == Request("list", by, id)

Fetching(u) == [u EXCEPT !.loading = TRUE]
Mixing(u, others) == [u EXCEPT !.mixed = @ \/ others \cap InFlight(ListKinds) # {}]

FormClosed(u) == [u EXCEPT !.editing = None, !.form = NoForm]

\* The list hides while it loads; an item that is edited shows its form.
Listed(t) == ~ui.loading /\ ui.items[t] # None
Edited(t) == Listed(t) /\ ui.editing = t

\* Who waited for the list is done.
Freed(u, by) ==
  CASE by = "create" -> [u EXCEPT !.creating = FALSE]
    [] by = "update" -> [u EXCEPT !.saving = None]
    [] by = "delete" -> [u EXCEPT !.deleting = None]
    [] OTHER         -> u

ListShown(r) ==
  /\ net' = Others(r) /\ UNCHANGED <<db, acts>>
  /\ \/ /\ Answered(r, "list")
        /\ ui' = Freed([ui EXCEPT !.items = r.answer, !.loading = FALSE,
                            !.missed = FALSE], r.on)
     \/ /\ Refused(r, "list")
        /\ ui' = Freed([ui EXCEPT !.loading = FALSE, !.missed = TRUE], r.on)

\* A handler goes on to fetch the list, in the state its page is in by then.
ThenList(r, u) ==
  /\ ui' = Mixing(Fetching(u), Others(r))
  /\ net' = Others(r) \cup {GetList(r.kind, r.on)}
  /\ UNCHANGED <<db, acts>>

GivenUp(r) ==
  /\ Refused(r, r.kind) /\ r.kind \in {"create", "update", "delete"}
  /\ net' = Others(r) /\ ui' = Freed(ui, r.kind)
  /\ UNCHANGED <<db, acts>>

\* What is saved of a thing was edited in the form that was opened for it.
FormsAreOwn == \A r \in InFlight({"update"}) : r.arg.of = r.on

\* The list is the stored one when nothing is under way, no request overlapped
\* another, and the list could be fetched.
ListIsStored(stored) ==
  ~ui.mixed /\ ~ui.missed /\ InFlight(ListKinds) = {} => ui.items = stored
=============================================================================
