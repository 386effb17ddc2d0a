---------------------------- MODULE AdminMessages ----------------------------
(***************************************************************************)
(* The tab of the administration from which messages are sent to everybody *)
(* or to the users that are ticked.  The server takes an empty list of     *)
(* users for everybody.                                                    *)
(***************************************************************************)
EXTENDS Page

CONSTANTS Accounts, MaxPages

MessagesTypeOK ==
  /\ ui \in [filled : BOOLEAN, target : {"all", "specific"},
             selected : SUBSET Accounts, users : SUBSET Accounts,
             page : 1 .. MaxPages, total : 0 .. MaxPages, search : BOOLEAN,
             loading : BOOLEAN, sending : BOOLEAN]
  /\ db \in [reached : SUBSET Accounts, pages : 1 .. MaxPages]

GetMessageUsers(page, search) == Request("users", page, search)
PostMessage(ids) == Request("notify", None, ids)

MessagesInit ==
  /\ ui = [filled |-> FALSE, target |-> "all", selected |-> {}, users |-> {},
           page |-> 1, total |-> 0, search |-> FALSE, loading |-> FALSE,
           sending |-> FALSE]
  /\ net = {} /\ acts = 0
  /\ db \in [reached : {{}}, pages : 1 .. MaxPages]

-----------------------------------------------------------------------------
Recipients(ids) == IF ids = {} THEN Accounts ELSE ids

MessagesServed(r) ==
  /\ Sent(r)
  /\ \/ /\ r.kind = "users" /\ UNCHANGED db
        /\ \E users \in SUBSET Accounts :
             Answer(r, [users |-> users, total |-> db.pages])
     \/ /\ r.kind = "notify"
        /\ db' = [db EXCEPT !.reached = @ \cup Recipients(r.arg)]
        /\ Answer(r, None)
     \/ Refuse(r) /\ UNCHANGED db
  /\ UNCHANGED <<ui, acts>>

-----------------------------------------------------------------------------
\* The title and the text.
Fill == ui' = [ui EXCEPT !.filled = ~@] /\ UNCHANGED <<net, db, acts>>

\* The effect that fetches users to choose from, for a target, a search and a
\* page, and cancels nothing.
Choosing(target, search, page) ==
  /\ <<target, search, page>> # <<ui.target, ui.search, ui.page>>
  /\ Act
  /\ ui' = [ui EXCEPT !.target = target, !.search = search, !.page = page,
                      !.loading = @ \/ target = "specific"]
  /\ net' = net \cup (IF target = "specific"
                      THEN {GetMessageUsers(page, search)} ELSE {})
  /\ UNCHANGED db

SetTarget(target) == Choosing(target, ui.search, ui.page)

SetSearch == ui.target = "specific" /\ Choosing(ui.target, ~ui.search, 1)

ListOfUsers == ui.target = "specific" /\ ~ui.loading /\ ui.users # {}

SetMessagePage(page) ==
  /\ ListOfUsers /\ ui.total > 1 /\ page \in {ui.page - 1, ui.page + 1}
  /\ page <= ui.total
  /\ Choosing(ui.target, ui.search, page)

Tick(a) ==
  /\ ListOfUsers /\ a \in ui.users
  /\ ui' = [ui EXCEPT !.selected = IF a \in @ THEN @ \ {a} ELSE @ \cup {a}]
  /\ UNCHANGED <<net, db, acts>>

SendAdminMessage ==
  /\ ~ui.sending /\ ui.filled /\ Act
  /\ ui.target = "specific" => ui.selected # {}
  /\ ui' = [ui EXCEPT !.sending = TRUE]
  /\ net' = net \cup {PostMessage(IF ui.target = "specific"
                                  THEN ui.selected ELSE {})}
  /\ UNCHANGED db

-----------------------------------------------------------------------------
\* An error empties the list.
MessageUsersShown(r) ==
  /\ net' = Others(r) /\ UNCHANGED <<db, acts>>
  /\ \/ /\ Answered(r, "users")
        /\ ui' = [ui EXCEPT !.users = r.answer.users, !.total = r.answer.total,
                            !.loading = FALSE]
     \/ /\ Refused(r, "users")
        /\ ui' = [ui EXCEPT !.users = {}, !.loading = FALSE]

\* What is ticked is cleared, the target stays.
MessageSent(r) ==
  /\ net' = Others(r) /\ UNCHANGED <<db, acts>>
  /\ \/ /\ Answered(r, "notify")
        /\ ui' = [ui EXCEPT !.filled = FALSE, !.selected = {}, !.sending = FALSE]
     \/ Refused(r, "notify") /\ ui' = [ui EXCEPT !.sending = FALSE]

MessagesNext ==
  \/ \E r \in net : MessagesServed(r) \/ MessageUsersShown(r) \/ MessageSent(r)
  \/ Fill \/ SetSearch \/ SendAdminMessage
  \/ \E target \in {"all", "specific"} : SetTarget(target)
  \/ \E page \in 1 .. MaxPages : SetMessagePage(page)
  \/ \E a \in Accounts : Tick(a)
=============================================================================
