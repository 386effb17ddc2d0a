------------------------------ MODULE Account ------------------------------
(***************************************************************************)
(* Who is signed in: the context with the token and its profile, the login *)
(* page, the routes that wait for them, and the change of one's password.  *)
(* A token stands for its account.                                         *)
(***************************************************************************)
EXTENDS Page

CONSTANT Accounts

Forms == {"login", "register"}

Methods == [local : BOOLEAN, azure : BOOLEAN, registration : BOOLEAN]

AccountTypeOK ==
  /\ ui \in [token : Accounts \cup {None}, user : Accounts \cup {None},
             loading : BOOLEAN, at : {"login", "/", "account", "admin"},
             mode : Forms, methods : Methods \cup {None},
             submitting : BOOLEAN, saving : BOOLEAN]
  /\ db \in [methods : Methods, local : SUBSET Accounts,
             admins : SUBSET Accounts]

GetProfile(a) == Request("me", a, None)
GetMethods == Request("methods", None, None)

\* The effect of a token: without one there is nothing to wait for, with one
\* its profile is asked for, and the answer for an earlier one is ignored.
OnToken(t) == IF t = None THEN {GetMethods} ELSE {GetProfile(t)}

\* Mutation of Ignored: the profile on its way is still used.
IgnoredNone == Without({"methods"})

Ignored == Without({"me", "methods"})

\* The login page as it is mounted.
LoginPage(u) ==
  [u EXCEPT !.token = None, !.user = None, !.loading = FALSE, !.at = "login",
            !.mode = "login", !.methods = None, !.submitting = FALSE,
            !.saving = FALSE]

\* From the login page one is sent to the home page.
SignedIn(u, a) == [LoginPage(u) EXCEPT !.token = a, !.at = "/"]

\* The token comes from localStorage.
AccountInit ==
  /\ \E t \in Accounts \cup {None} :
       /\ ui = [token |-> t, user |-> None, loading |-> t # None,
                at |-> IF t = None THEN "login" ELSE "/",
                mode |-> "login", methods |-> None,
                submitting |-> FALSE, saving |-> FALSE]
       /\ net = OnToken(t)
  /\ acts = 0
  /\ db \in [methods : Methods, local : SUBSET Accounts,
             admins : SUBSET Accounts]

-----------------------------------------------------------------------------
\* The routes.

LoginShown == ~ui.loading /\ ui.token = None
PagesShown == ~ui.loading /\ ui.token # None

IsAdmin(u) == u.user \in db.admins
AccountLinkShown == ui.user # None /\ (ui.user \in db.local \/ IsAdmin(ui))

\* The admin page sends away who is no admin.
Routed(u) == IF u.at = "admin" /\ ~IsAdmin(u) THEN [u EXCEPT !.at = "/"] ELSE u

Follow(p) ==
  /\ PagesShown /\ ui.at # p
  /\ \/ p = "account" /\ AccountLinkShown
     \/ p = "admin" /\ IsAdmin(ui)
     \/ p = "/"
  /\ ui' = [ui EXCEPT !.at = p, !.saving = FALSE]
  /\ UNCHANGED <<net, db, acts>>

-----------------------------------------------------------------------------
\* The login page.

LocalEnabled(u) == u.methods # None => u.methods.local
AzureEnabled(u) == u.methods # None => u.methods.azure
RegistrationEnabled(u) == u.methods # None /\ u.methods.registration

FormEnabled(u, mode) ==
  IF mode = "login" THEN LocalEnabled(u) ELSE RegistrationEnabled(u)

Other(mode) == IF mode = "login" THEN "register" ELSE "login"

\* The effect that shows the form that may be used.
Fitting(u) ==
  IF u.methods # None /\ ~FormEnabled(u, u.mode) /\ FormEnabled(u, Other(u.mode))
  THEN [u EXCEPT !.mode = Other(@)]
  ELSE u

ToggleMode ==
  /\ LoginShown /\ FormEnabled(ui, Other(ui.mode))
  /\ ui' = Fitting([ui EXCEPT !.mode = Other(@)])
  /\ UNCHANGED <<net, db, acts>>

HandleSubmit(a) ==
  /\ LoginShown /\ ~ui.submitting /\ FormEnabled(ui, ui.mode) /\ Act
  /\ ui' = [ui EXCEPT !.submitting = TRUE]
  /\ net' = net \cup {Request(ui.mode, None, a)}
  /\ UNCHANGED db

\* Away to Microsoft, and back with a token or an error in the address.
AzureLogin ==
  /\ LoginShown /\ AzureEnabled(ui) /\ ui.mode = "login" /\ ~ui.submitting
  /\ Act
  /\ \E a \in Accounts \cup {None} :
       IF a = None
       THEN ui' = LoginPage(ui) /\ net' = {GetMethods}
       ELSE ui' = SignedIn(ui, a) /\ net' = {GetProfile(a)}
  /\ UNCHANGED db

MethodsLoaded(r) ==
  /\ net' = Others(r) /\ UNCHANGED <<db, acts>>
  /\ \/ /\ Answered(r, "methods")
        /\ ui' = Fitting([ui EXCEPT !.methods = r.answer])
     \/ Refused(r, "methods") /\ UNCHANGED ui

Submitted(r) ==
  /\ UNCHANGED <<db, acts>>
  /\ \/ /\ Answered(r, "login")
        /\ ui' = SignedIn(ui, r.arg)
        /\ net' = (Ignored \ {r}) \cup OnToken(r.arg)
     \/ /\ Answered(r, "register") /\ net' = Others(r)
        /\ ui' = Fitting([ui EXCEPT !.mode = "login", !.submitting = FALSE])
     \/ /\ Refused(r, "login") \/ Refused(r, "register")
        /\ net' = Others(r)
        /\ ui' = [ui EXCEPT !.submitting = FALSE]

-----------------------------------------------------------------------------
\* The session of an account.

LogOut ==
  /\ PagesShown /\ Act
  /\ ui' = LoginPage(ui)
  /\ net' = Ignored \cup OnToken(None)
  /\ UNCHANGED db

\* A profile that cannot be had, for whatever reason, ends the session.
ProfileLoaded(r) ==
  /\ UNCHANGED <<db, acts>>
  /\ \/ /\ Answered(r, "me") /\ net' = Others(r)
        /\ ui' = Routed([ui EXCEPT !.user = r.on, !.loading = FALSE])
     \/ /\ Refused(r, "me")
        /\ ui' = LoginPage(ui)
        /\ net' = (Ignored \ {r}) \cup OnToken(None)

\* The card is on the account page of a local user.
HandlePasswordSubmit ==
  /\ PagesShown /\ ui.at = "account" /\ ui.user \in db.local
  /\ ~ui.saving /\ Act
  /\ ui' = [ui EXCEPT !.saving = TRUE]
  /\ net' = net \cup {Request("password", ui.token, None)}
  /\ UNCHANGED db

\* Mutation of PasswordChanged: a wrong password is taken for a lost session.
PasswordChangedOrOut(r) ==
  /\ UNCHANGED <<db, acts>>
  /\ Answered(r, "password") \/ Refused(r, "password")
  /\ ui' = LoginPage(ui)
  /\ net' = (Ignored \ {r}) \cup OnToken(None)

\* The handler goes on after its page is gone.
PasswordChanged(r) ==
  /\ UNCHANGED <<db, acts>>
  /\ \/ /\ Answered(r, "password")
        /\ IF ui.token = None
           THEN net' = Others(r) /\ UNCHANGED ui
           ELSE /\ ui' = LoginPage(ui)
                /\ net' = (Ignored \ {r}) \cup OnToken(None)
     \/ /\ Refused(r, "password") /\ net' = Others(r)
        /\ ui' = [ui EXCEPT !.saving = FALSE]

Reload ==
  /\ Act
  /\ ui' = [LoginPage(ui) EXCEPT !.token = ui.token,
                                 !.loading = ui.token # None,
                                 !.at = ui.at]
  /\ net' = OnToken(ui.token)
  /\ UNCHANGED db

AccountServed(r) ==
  /\ Sent(r)
  /\ \/ r.kind = "methods" /\ Answer(r, db.methods)
     \/ r.kind # "methods" /\ Answer(r, None)
     \/ Refuse(r)
  /\ UNCHANGED <<ui, db, acts>>

AccountNext ==
  \/ \E r \in net : \/ AccountServed(r) \/ MethodsLoaded(r) \/ Submitted(r)
                    \/ ProfileLoaded(r) \/ PasswordChanged(r)
  \/ \E p \in {"/", "account", "admin"} : Follow(p)
  \/ \E a \in Accounts : HandleSubmit(a)
  \/ ToggleMode \/ AzureLogin \/ LogOut \/ HandlePasswordSubmit \/ Reload

-----------------------------------------------------------------------------
\* The profile shown, on which the administration opens, is that of the token
\* that requests are made with, also when somebody else signs in meanwhile.
UserIsTokens == ui.user # None => ui.user = ui.token

\* A session ends by its user, by a profile request of its own that failed, or
\* by a password that has been changed (which is not asked whose it was).
EndsByItself ==
  ui.token # None /\ ui'.token = None =>
    \/ LogOut
    \/ \E r \in net : Refused(r, "me") /\ r.on = ui.token
    \/ \E r \in net : Answered(r, "password") /\ r \notin net'
=============================================================================
