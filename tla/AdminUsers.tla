----------------------------- MODULE AdminUsers -----------------------------
(***************************************************************************)
(* The tab of the administration with the accounts.  A page of a source    *)
(* stands for the one account on it, and that for its role.                *)
(***************************************************************************)
EXTENDS Page

CONSTANT MaxPages

AccountSources == {"local", "azure"}
PlatformRoles == {"user", "admin"}

Places == [source : AccountSources, page : 1 .. MaxPages]

\* The admin's own account.
OwnPlace == [source |-> "local", page |-> 1]

UsersTypeOK ==
  /\ ui \in [tab : AccountSources, page : 1 .. MaxPages,
             total : 0 .. MaxPages, loading : BOOLEAN,
             shown : {None} \cup [at : Places, role : PlatformRoles \cup {None}],
             updating : Places \cup {None},
             modal : BOOLEAN, creating : BOOLEAN,
             online : BOOLEAN,
             missed : BOOLEAN,  \* history: the last fetch failed
             mixed : BOOLEAN]   \* history: requests overlapped
  /\ db \in [total : [AccountSources -> 0 .. MaxPages],
             role : [Places -> PlatformRoles]]

At(source, page) == [source |-> source, page |-> page]
GetUsers(by, source, page) == Request("users", by, At(source, page))
GetOnline == Request("online", None, None)
PutRole(place, role) == Request("role", place, role)
PostAccount == Request("account", None, None)

ChangingKinds == {"users", "role", "account"}
UsersMixed == ui.mixed \/ InFlight(ChangingKinds) # {}

UsersInit ==
  /\ ui = [tab |-> "local", page |-> 1, total |-> 0, loading |-> TRUE,
           shown |-> None, updating |-> None, modal |-> FALSE,
           creating |-> FALSE, online |-> FALSE, missed |-> FALSE,
           mixed |-> FALSE]
  /\ net = {GetUsers("page", "local", 1)}
  /\ acts = 0
  /\ db \in [total : {[s \in AccountSources |-> n] : n \in 1 .. MaxPages},
             role : {[p \in Places |-> IF p = OwnPlace THEN "admin" ELSE "user"]}]

-----------------------------------------------------------------------------
RoleAt(place) ==
  IF place.page <= db.total[place.source] THEN db.role[place] ELSE None

UsersServed(r) ==
  /\ Sent(r)
  /\ \/ /\ r.kind = "users" /\ UNCHANGED db
        /\ Answer(r, [role |-> RoleAt(r.arg), total |-> db.total[r.arg.source]])
     \/ r.kind = "online" /\ Answer(r, None) /\ UNCHANGED db
     \/ /\ r.kind = "role"
        /\ db' = [db EXCEPT !.role[r.on] = r.arg]
        /\ Answer(r, None)
     \/ /\ r.kind = "account" /\ db.total.local < MaxPages
        /\ db' = [db EXCEPT !.total.local = @ + 1]
        /\ Answer(r, None)
     \/ Refuse(r) /\ UNCHANGED db
  /\ UNCHANGED <<ui, acts>>

-----------------------------------------------------------------------------
\* Another source or page: the effect fetches it, and cancels nothing.
Turned(tab, page) ==
  /\ Act
  /\ ui' = IF <<tab, page>> = <<ui.tab, ui.page>> THEN ui
           ELSE [ui EXCEPT !.tab = tab, !.page = page, !.loading = TRUE,
                           !.mixed = UsersMixed]
  /\ net' = IF <<tab, page>> = <<ui.tab, ui.page>> THEN net
            ELSE net \cup {GetUsers("page", tab, page)}
  /\ UNCHANGED db

\* The buttons of the sources, also while a list is loading.
SelectSource(tab) == ui.tab # tab /\ Turned(tab, 1)

\* The buttons Vorige and Volgende and those with a number.
SetUserPage(page) ==
  /\ ~ui.loading /\ page # ui.page
  /\ page = ui.page - 1 \/ page <= ui.total
  /\ Turned(ui.tab, page)

RefreshUsers ==
  /\ ~ui.loading /\ Act
  /\ ui' = [ui EXCEPT !.loading = TRUE, !.mixed = UsersMixed]
  /\ net' = net \cup {GetUsers("user", ui.tab, ui.page)}
  /\ UNCHANGED db

\* The dialogue for a new account.
OpenCreateModal ==
  /\ ~ui.modal /\ ui' = [ui EXCEPT !.modal = TRUE] /\ UNCHANGED <<net, db, acts>>

CloseCreateModal ==
  /\ ui.modal /\ ~ui.creating
  /\ ui' = [ui EXCEPT !.modal = FALSE]
  /\ UNCHANGED <<net, db, acts>>

HandleCreateAccount ==
  /\ ui.modal /\ ~ui.creating /\ Act
  /\ ui' = [ui EXCEPT !.creating = TRUE, !.mixed = UsersMixed]
  /\ net' = net \cup {PostAccount}
  /\ UNCHANGED db

\* The card of an account.
RoleLocked(place) == place.source = "azure" \/ place = OwnPlace

HandleRoleUpdate(role) ==
  /\ ~ui.loading /\ ui.shown # None
  /\ ui.shown.role \notin {None, role}
  /\ ~RoleLocked(ui.shown.at) /\ ui.updating # ui.shown.at
  /\ Act
  /\ ui' = [ui EXCEPT !.updating = ui.shown.at, !.mixed = UsersMixed]
  /\ net' = net \cup {PutRole(ui.shown.at, role)}
  /\ UNCHANGED db

\* Every half minute.
RefreshOnlineUsers ==
  /\ InFlight({"online"}) = {} /\ Act
  /\ net' = net \cup {GetOnline} /\ UNCHANGED <<ui, db>>

-----------------------------------------------------------------------------
\* The page of the answer becomes the page, from which the effect may fetch
\* again.  The dialogue waits for the list it asked for.
UsersShown(r) ==
  LET done(u) == IF r.on = "account" THEN [u EXCEPT !.creating = FALSE] ELSE u
      back == r.arg.page # ui.page
  IN \/ /\ Answered(r, "users")
        /\ ui' = done([ui EXCEPT !.shown = [at |-> r.arg, role |-> r.answer.role],
                                 !.page = r.arg.page, !.total = r.answer.total,
                                 !.loading = back, !.missed = FALSE])
        /\ net' = Others(r) \cup
             (IF back THEN {GetUsers("page", ui.tab, r.arg.page)} ELSE {})
        /\ UNCHANGED <<db, acts>>
     \/ /\ Refused(r, "users")
        /\ ui' = done([ui EXCEPT !.loading = FALSE, !.missed = TRUE])
        /\ net' = Others(r) /\ UNCHANGED <<db, acts>>

OnlineShown(r) ==
  /\ Answered(r, "online") \/ Refused(r, "online")
  /\ ui' = [ui EXCEPT !.online = @ \/ r.step = "ok"]
  /\ net' = Others(r) /\ UNCHANGED <<db, acts>>

\* The list of local accounts from its start, by the handler and, when that is
\* another list, by the effect as well.
AccountCreated(r) ==
  \/ /\ Answered(r, "account")
     /\ ui' = [ui EXCEPT !.modal = FALSE, !.tab = "local", !.page = 1,
                         !.loading = TRUE,
                         !.mixed = @ \/ Others(r) # {} \/ ui.tab # "local"
                                     \/ ui.page # 1]
     /\ net' = Others(r) \cup {GetUsers("account", "local", 1)} \cup
          (IF <<ui.tab, ui.page>> = <<"local", 1>> THEN {}
           ELSE {GetUsers("page", "local", 1)})
     /\ UNCHANGED <<db, acts>>
  \/ /\ Refused(r, "account")
     /\ ui' = [ui EXCEPT !.creating = FALSE]
     /\ net' = Others(r) /\ UNCHANGED <<db, acts>>

\* Mutation of RoleUpdated: the row keeps its role.
RoleUpdatedUnseen(r) ==
  /\ Answered(r, "role") \/ Refused(r, "role")
  /\ ui' = [ui EXCEPT !.updating = None]
  /\ net' = Others(r) /\ UNCHANGED <<db, acts>>

\* The row of the account, if it is there, gets the role.
RoleUpdated(r) ==
  /\ \/ /\ Answered(r, "role")
        /\ LET seen == IF ui.shown = None THEN FALSE ELSE ui.shown.at = r.on
           IN ui' = [ui EXCEPT !.updating = None,
                               !.shown = IF seen THEN [@ EXCEPT !.role = r.arg]
                                         ELSE @]
     \/ /\ Refused(r, "role")
        /\ ui' = [ui EXCEPT !.updating = None]
  /\ net' = Others(r) /\ UNCHANGED <<db, acts>>

UsersNext ==
  \/ \E r \in net : \/ UsersServed(r) \/ UsersShown(r) \/ OnlineShown(r)
                    \/ AccountCreated(r) \/ RoleUpdated(r)
  \/ \E tab \in AccountSources : SelectSource(tab)
  \/ \E page \in 1 .. MaxPages : SetUserPage(page)
  \/ \E role \in PlatformRoles : HandleRoleUpdate(role)
  \/ RefreshUsers \/ OpenCreateModal \/ CloseCreateModal \/ HandleCreateAccount
  \/ RefreshOnlineUsers

-----------------------------------------------------------------------------
\* The accounts shown are those of the source and the page that are named above
\* them, with the roles they have, unless requests overlapped or one failed.
UsersShownAreStored ==
  ~ui.mixed /\ ~ui.missed /\ InFlight(ChangingKinds) = {}
  => ui.shown = [at |-> At(ui.tab, ui.page), role |-> RoleAt(At(ui.tab, ui.page))]
=============================================================================
