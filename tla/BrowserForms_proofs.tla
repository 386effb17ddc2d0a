-------------------------- MODULE BrowserForms_proofs --------------------------
(***************************************************************************)
(* Proofs about the pages where things are made, edited and sent, for any  *)
(* accounts, prompts, files and queues and any number of requests in       *)
(* flight.  There is an invariant per page, inductive on its own:          *)
(*                                                                         *)
(* AccountInv, who is signed in: the profile pages go by is that of the    *)
(* token.  A profile is set without being compared with the token; that it *)
(* is right is because a change of token cancels what was asked before     *)
(* (ProfileAsked).                                                         *)
(*                                                                         *)
(* HomeInv: the tab's sound is captured only where the session or, before  *)
(* there is one, the user allows it, through the permission that is        *)
(* awaited.  ToolsInv: one fetch of the queue's list at a time.            *)
(*                                                                         *)
(* ManagerInv and PurposesInv: a form saves what it was opened for, and a  *)
(* list without requests in flight is what is stored.                      *)
(*                                                                         *)
(* ResultsInv and UsersInv: what is shown is stored once the requests are  *)
(* answered.  UploadInv: a file is stored once, through failed uploads and *)
(* those whose answer is awaited.                                          *)
(*                                                                         *)
(* Together with the pages of BrowserPages_proofs they give the types of   *)
(* the application (PagesAreTyped).                                        *)
(***************************************************************************)
EXTENDS BrowserPages_proofs, WellFoundedInduction

AccountKinds == {"me", "methods", "login", "register", "password"}

Signed == Accounts \cup {None}

AccountRequest == [kind : AccountKinds, on : Signed, arg : Signed,
                step : {"sent", "ok", "failed"},
                answer : Access!Methods \cup {None}]

\* A form is sent for an account, and the methods are answered with methods.
AccountWellMade(r) ==
  /\ r.kind = "login" => r.arg \in Accounts
  /\ r.kind = "methods" /\ r.step = "ok" => r.answer \in Access!Methods

AccountNetOK == net \subseteq AccountRequest /\ \A r \in net : AccountWellMade(r)

\* The profiles in flight are those of the token.
ProfileAsked == \A r \in net : r.kind = "me" => r.on = ui.token

AccountInv ==
  Access!AccountTypeOK /\ AccountNetOK /\ ProfileAsked /\ Access!UserIsTokens

AccountUi == [token : Signed, user : Signed,
           loading : BOOLEAN, at : {"login", "/", "account", "admin"},
           mode : Access!Forms, methods : Access!Methods \cup {None},
           submitting : BOOLEAN, saving : BOOLEAN]

USE DEF Access!Sent, Access!Answered, Access!Refused, Access!Others,
        Access!Without, Access!Act

-----------------------------------------------------------------------------
\* The type of the page's state, by its name.
LEMMA AccountUiTyped ==
  ASSUME Access!AccountTypeOK
  PROVE  ui \in AccountUi
  BY DEF Access!AccountTypeOK, AccountUi, Signed

LEMMA AccountTypedAgain ==
  ASSUME AccountInv, ui' \in AccountUi, UNCHANGED db
  PROVE  Access!AccountTypeOK'
  BY DEF AccountInv, Access!AccountTypeOK, AccountUi, Signed

\* A request that is made is well made.
LEMMA AccountMade ==
  ASSUME NEW kind \in AccountKinds, NEW on \in Signed, NEW arg \in Signed,
         kind = "login" => arg \in Accounts
  PROVE  LET r == Access!Request(kind, on, arg)
         IN r \in AccountRequest /\ AccountWellMade(r) /\ r.kind = kind /\ r.on = on
  BY DEF Access!Request, AccountRequest, AccountWellMade

\* The effect of a token asks for its own profile.
LEMMA TokenEffect ==
  ASSUME NEW t \in Signed
  PROVE  /\ Access!OnToken(t) \subseteq AccountRequest
         /\ \A r \in Access!OnToken(t) :
              AccountWellMade(r) /\ (r.kind = "me" => r.on = t)
              /\ r.kind \in {"me", "methods"}
<1>1. None \in Signed /\ "me" \in AccountKinds /\ "methods" \in AccountKinds
  BY DEF Signed, AccountKinds
<1>2. CASE t = None
  BY <1>1, <1>2, AccountMade DEF Access!OnToken, Access!GetMethods
<1>3. CASE t # None
  BY <1>1, <1>3, AccountMade DEF Access!OnToken, Access!GetProfile
<1> QED BY <1>2, <1>3

\* A change of token: what the token before had asked for is not in flight any
\* more, and no profile is shown yet.
LEMMA TokenChanged ==
  ASSUME AccountInv, NEW t \in Signed,
         ui' \in AccountUi, ui'.token = t, ui'.user = None, UNCHANGED db,
         net' \subseteq Access!Ignored \cup Access!OnToken(t)
  PROVE  AccountInv'
<1>1. Access!AccountTypeOK'
  BY AccountTypedAgain
<1>2. AccountNetOK' /\ ProfileAsked'
  BY TokenEffect DEF AccountInv, AccountNetOK, ProfileAsked, Access!Ignored
<1> QED BY <1>1, <1>2 DEF AccountInv, Access!UserIsTokens

\* Token and profile stay, and no profile is asked for.
LEMMA TokenSame ==
  ASSUME AccountInv, ui' \in AccountUi, UNCHANGED <<ui.token, ui.user, db>>, AccountNetOK',
         \A r \in net' : r.kind = "me" => r \in net
  PROVE  AccountInv'
<1>1. Access!AccountTypeOK'
  BY AccountTypedAgain
<1> QED BY <1>1 DEF AccountInv, ProfileAsked, Access!UserIsTokens

\* The login page has no token and no profile.
LEMMA LoginPageState ==
  ASSUME ui \in AccountUi
  PROVE  /\ Access!LoginPage(ui) \in AccountUi
         /\ Access!LoginPage(ui).token = None
         /\ Access!LoginPage(ui).user = None
  BY DEF AccountUi, Access!LoginPage, Signed, Access!Forms

LEMMA SignedInState ==
  ASSUME ui \in AccountUi, NEW a \in Accounts
  PROVE  /\ Access!SignedIn(ui, a) \in AccountUi
         /\ Access!SignedIn(ui, a).token = a
         /\ Access!SignedIn(ui, a).user = None
<1> DEFINE u == Access!LoginPage(ui)
<1>1. u \in AccountUi /\ u.user = None
  BY LoginPageState
<1> HIDE DEF u
<1>2. Access!SignedIn(ui, a) = [u EXCEPT !.token = a, !.at = "/"]
  BY DEF Access!SignedIn, u
<1> QED BY <1>1, <1>2 DEF AccountUi, Signed

\* The effects that choose a form and a route leave token and profile alone.
LEMMA FittingState ==
  ASSUME NEW u \in AccountUi
  PROVE  /\ Access!Fitting(u) \in AccountUi
         /\ Access!Fitting(u).token = u.token
         /\ Access!Fitting(u).user = u.user
  BY DEF AccountUi, Access!Fitting, Access!Other, Access!Forms

LEMMA RoutedState ==
  ASSUME NEW u \in AccountUi
  PROVE  /\ Access!Routed(u) \in AccountUi
         /\ Access!Routed(u).token = u.token
         /\ Access!Routed(u).user = u.user
  BY DEF AccountUi, Access!Routed

\* A form in the page's state is a form that can be sent.
LEMMA AccountUiFields ==
  ASSUME AccountInv
  PROVE  /\ ui.token \in Signed /\ ui.user \in Signed
         /\ ui.mode \in {"login", "register"}
  BY AccountUiTyped DEF AccountInv, AccountUi, Access!Forms

-----------------------------------------------------------------------------
\* The steps of the page.

\* The server answers, and nothing is on the page of it yet.
LEMMA AccountServed ==
  ASSUME AccountInv, NEW r \in net, Access!AccountServed(r)
  PROVE  AccountInv' /\ UNCHANGED ui
<1>1. UNCHANGED <<ui, db>>
  BY DEF Access!AccountServed
<1>2. r \in AccountRequest /\ AccountWellMade(r)
  BY DEF AccountInv, AccountNetOK
<1>3. PICK step \in {"ok", "failed"}, a \in Access!Methods \cup {None} :
        /\ net' = (net \ {r}) \cup {[r EXCEPT !.step = step, !.answer = a]}
        /\ r.kind = "methods" /\ step = "ok" => a \in Access!Methods
  <2>1. CASE r.kind = "methods" /\ Access!Answer(r, db.methods)
    <3>1. db.methods \in Access!Methods
      BY DEF AccountInv, Access!AccountTypeOK
    <3> QED BY <2>1, <3>1 DEF Access!Answer
  <2>2. CASE r.kind # "methods" /\ Access!Answer(r, None)
    BY <2>2 DEF Access!Answer
  <2>3. CASE Access!Refuse(r)
    <3>1. r.answer \in Access!Methods \cup {None}
      BY <1>2 DEF AccountRequest
    <3>2. [r EXCEPT !.step = "failed"]
            = [r EXCEPT !.step = "failed", !.answer = r.answer]
      BY <1>2 DEF AccountRequest
    <3> QED BY <2>3, <3>1, <3>2 DEF Access!Refuse
  <2> QED BY <2>1, <2>2, <2>3 DEF Access!AccountServed
<1> DEFINE q == [r EXCEPT !.step = step, !.answer = a]
<1>4. /\ q \in AccountRequest /\ q.kind = r.kind /\ q.on = r.on /\ q.arg = r.arg
      /\ q.step = step /\ q.answer = a
  BY <1>2 DEF AccountRequest
<1>5. net' = (net \ {r}) \cup {q}
  BY <1>3
<1> HIDE DEF q
<1>6. AccountWellMade(q)
  BY <1>2, <1>3, <1>4 DEF AccountWellMade
<1>7. AccountNetOK' /\ ProfileAsked'
  BY <1>1, <1>4, <1>5, <1>6 DEF AccountInv, AccountNetOK, ProfileAsked
<1> QED BY <1>1, <1>7 DEF AccountInv, Access!AccountTypeOK, Access!UserIsTokens

\* Steps of the pages and forms that neither change the token nor ask for its
\* profile.
LEMMA AccountPageStep ==
  ASSUME AccountInv,
         \/ \E p \in {"/", "account", "admin"} : Access!Follow(p)
         \/ Access!ToggleMode
  PROVE  AccountInv' /\ UNCHANGED ui.token
<1>1. ui \in AccountUi /\ ui.mode \in Access!Forms
  BY AccountUiTyped DEF AccountInv, AccountUi
<1>2. UNCHANGED <<net, db>>
  BY DEF Access!Follow, Access!ToggleMode
<1>3. AccountNetOK'
  BY <1>2 DEF AccountInv, AccountNetOK
<1>4. ui' \in AccountUi /\ UNCHANGED <<ui.token, ui.user>>
  <2>1. ASSUME NEW p \in {"/", "account", "admin"}, Access!Follow(p)
        PROVE  ui' \in AccountUi /\ UNCHANGED <<ui.token, ui.user>>
    BY <1>1, <2>1 DEF Access!Follow, AccountUi
  <2>2. CASE Access!ToggleMode
    <3> DEFINE u == [ui EXCEPT !.mode = Access!Other(@)]
    <3>1. u \in AccountUi /\ u.token = ui.token /\ u.user = ui.user
      BY <1>1 DEF AccountUi, Access!Other, Access!Forms
    <3>2. ui' = Access!Fitting(u)
      BY <2>2 DEF Access!ToggleMode
    <3> HIDE DEF u
    <3> QED BY <3>1, <3>2, FittingState
  <2> QED BY <2>1, <2>2
<1> QED BY <1>2, <1>3, <1>4, TokenSame

\* A form is sent.
LEMMA SubmitStep ==
  ASSUME AccountInv, \/ \E a \in Accounts : Access!HandleSubmit(a)
                     \/ Access!HandlePasswordSubmit
  PROVE  AccountInv' /\ UNCHANGED ui.token
<1>1. ui \in AccountUi
  BY AccountUiTyped DEF AccountInv
<1>2. /\ ui' \in AccountUi /\ UNCHANGED <<ui.token, ui.user, db>>
  BY <1>1 DEF Access!HandleSubmit, Access!HandlePasswordSubmit, AccountUi
<1>3. PICK kind \in {"login", "register", "password"}, on \in Signed,
           arg \in Signed :
        /\ net' = net \cup {Access!Request(kind, on, arg)}
        /\ kind = "login" => arg \in Accounts
  <2>1. None \in Signed /\ Accounts \subseteq Signed
    BY DEF Signed
  <2>2. ASSUME NEW a \in Accounts, Access!HandleSubmit(a)
        PROVE  net' = net \cup {Access!Request(ui.mode, None, a)}
    BY <2>2 DEF Access!HandleSubmit
  <2>3. CASE Access!HandlePasswordSubmit
    BY <2>1, <2>3, AccountUiFields DEF Access!HandlePasswordSubmit
  <2> QED BY <2>1, <2>2, <2>3, AccountUiFields
<1>4. AccountNetOK' /\ \A r \in net' : r.kind = "me" => r \in net
  <2>1. kind \in AccountKinds
    BY DEF AccountKinds
  <2> QED BY <1>3, <2>1, AccountMade DEF AccountInv, AccountNetOK
<1> QED BY <1>2, <1>4, TokenSame

\* What is answered to the login page.
LEMMA LoginStep ==
  ASSUME AccountInv, NEW r \in net,
         Access!MethodsLoaded(r) \/ Access!Submitted(r)
  PROVE  AccountInv' /\ (ui.token # None => ui'.token # None)
<1>1. /\ ui \in AccountUi /\ r \in AccountRequest /\ AccountWellMade(r)
      /\ "login" \in Access!Forms
  BY AccountUiTyped DEF AccountInv, AccountNetOK, Access!Forms
<1>2. UNCHANGED db
  BY DEF Access!MethodsLoaded, Access!Submitted
<1>3. ASSUME net' = net \ {r}, ui' \in AccountUi, UNCHANGED <<ui.token, ui.user>>
      PROVE  AccountInv' /\ (ui.token # None => ui'.token # None)
  <2>1. AccountNetOK' /\ \A q \in net' : q.kind = "me" => q \in net
    BY <1>3 DEF AccountInv, AccountNetOK
  <2> QED BY <1>2, <1>3, <2>1, TokenSame
<1>4. CASE Access!MethodsLoaded(r)
  <2>1. net' = net \ {r}
    BY <1>4 DEF Access!MethodsLoaded
  <2>2. ui' \in AccountUi /\ UNCHANGED <<ui.token, ui.user>>
    <3>1. CASE UNCHANGED ui
      BY <1>1, <3>1
    <3>2. CASE r.kind = "methods" /\ r.step = "ok"
               /\ ui' = Access!Fitting([ui EXCEPT !.methods = r.answer])
      <4> DEFINE u == [ui EXCEPT !.methods = r.answer]
      <4>1. r.answer \in Access!Methods
        BY <1>1, <3>2 DEF AccountWellMade
      <4>2. u \in AccountUi /\ u.token = ui.token /\ u.user = ui.user
        BY <1>1, <4>1 DEF AccountUi
      <4>3. ui' = Access!Fitting(u)
        BY <3>2
      <4> HIDE DEF u
      <4> QED BY <4>2, <4>3, FittingState
    <3> QED BY <1>4, <3>1, <3>2 DEF Access!MethodsLoaded
  <2> QED BY <1>3, <2>1, <2>2
<1>5. CASE /\ Access!Answered(r, "login") /\ ui' = Access!SignedIn(ui, r.arg)
           /\ net' = (Access!Ignored \ {r}) \cup Access!OnToken(r.arg)
  <2>1. r.arg \in Accounts
    BY <1>1, <1>5 DEF AccountWellMade
  <2>2. /\ ui' \in AccountUi /\ ui'.token = r.arg /\ ui'.user = None
        /\ r.arg \in Signed
    BY <1>1, <1>5, <2>1, SignedInState DEF Signed
  <2>3. AccountInv'
    BY <1>2, <1>5, <2>2, TokenChanged
  <2> QED BY <2>1, <2>2, <2>3, PagesAssumption
<1>6. CASE net' = net \ {r}
           /\ ui' = Access!Fitting([ui EXCEPT !.mode = "login",
                                              !.submitting = FALSE])
  <2> DEFINE u == [ui EXCEPT !.mode = "login", !.submitting = FALSE]
  <2>1. u \in AccountUi /\ u.token = ui.token /\ u.user = ui.user
    BY <1>1 DEF AccountUi
  <2>2. ui' = Access!Fitting(u)
    BY <1>6
  <2> HIDE DEF u
  <2> QED BY <1>3, <1>6, <2>1, <2>2, FittingState
<1>7. CASE net' = net \ {r} /\ ui' = [ui EXCEPT !.submitting = FALSE]
  <2>1. ui' \in AccountUi /\ UNCHANGED <<ui.token, ui.user>>
    BY <1>1, <1>7 DEF AccountUi
  <2> QED BY <1>3, <1>7, <2>1
<1> QED BY <1>4, <1>5, <1>6, <1>7 DEF Access!Submitted

\* The user comes and goes, and the page is loaded again.
LEMMA ComeAndGoStep ==
  ASSUME AccountInv, Access!AzureLogin \/ Access!LogOut \/ Access!Reload
  PROVE  AccountInv' /\ Access!EndsByItself
<1>1. ui \in AccountUi /\ ui.token \in Signed /\ None \in Signed
  BY AccountUiTyped, AccountUiFields DEF AccountInv, Signed
<1>2. UNCHANGED db
  BY DEF Access!AzureLogin, Access!LogOut, Access!Reload
<1>3. ASSUME ui' = Access!LoginPage(ui),
             net' \subseteq Access!Ignored \cup Access!OnToken(None)
      PROVE  AccountInv'
  <2>1. ui' \in AccountUi /\ ui'.token = None /\ ui'.user = None
    BY <1>1, <1>3, LoginPageState
  <2> QED BY <1>1, <1>2, <1>3, <2>1, TokenChanged
<1>4. CASE Access!LogOut
  BY <1>3, <1>4 DEF Access!LogOut, Access!EndsByItself
<1>5. CASE Access!AzureLogin
  <2>1. ui.token = None
    BY <1>5 DEF Access!AzureLogin, Access!LoginShown
  <2>2. CASE ui' = Access!LoginPage(ui) /\ net' = {Access!GetMethods}
    <3>1. net' = Access!OnToken(None)
      BY <2>2 DEF Access!OnToken
    <3> QED BY <1>3, <2>1, <2>2, <3>1 DEF Access!EndsByItself
  <2>3. ASSUME NEW a \in Accounts, ui' = Access!SignedIn(ui, a),
               net' = {Access!GetProfile(a)}
        PROVE  AccountInv' /\ Access!EndsByItself
    <3>1. ui' \in AccountUi /\ ui'.token = a /\ ui'.user = None
      BY <1>1, <2>3, SignedInState
    <3>2. net' = Access!OnToken(a) /\ a \in Signed
      BY <2>3, PagesAssumption DEF Access!OnToken, Signed
    <3> QED BY <1>2, <2>1, <3>1, <3>2, TokenChanged DEF Access!EndsByItself
  <2> QED BY <1>5, <2>2, <2>3 DEF Access!AzureLogin
<1>6. CASE Access!Reload
  <2> DEFINE u == Access!LoginPage(ui)
  <2>1. u \in AccountUi /\ u.user = None
    BY <1>1, LoginPageState
  <2>2. ui' = [u EXCEPT !.token = ui.token, !.loading = ui.token # None,
                        !.at = ui.at]
    BY <1>6 DEF Access!Reload
  <2> HIDE DEF u
  <2>3. ui' \in AccountUi /\ ui'.token = ui.token /\ ui'.user = None
    <3>1. ui.at \in {"login", "/", "account", "admin"}
      BY <1>1 DEF AccountUi
    <3> QED BY <1>1, <2>1, <2>2, <3>1 DEF AccountUi
  <2>4. net' = Access!OnToken(ui.token)
    BY <1>6 DEF Access!Reload
  <2> QED BY <1>1, <1>2, <2>3, <2>4, TokenChanged DEF Access!EndsByItself
<1> QED BY <1>4, <1>5, <1>6

\* The session is over by an answer: a failed profile or a changed password.
LEMMA SignedOutBy ==
  ASSUME AccountInv, NEW r \in net, ui' = Access!LoginPage(ui), UNCHANGED db,
         net' = (Access!Ignored \ {r}) \cup Access!OnToken(None)
  PROVE  AccountInv'
<1>1. ui' \in AccountUi /\ ui'.token = None /\ ui'.user = None
  BY AccountUiTyped, LoginPageState DEF AccountInv
<1>2. None \in Signed
  BY DEF Signed
<1> QED BY <1>1, <1>2, TokenChanged

LEMMA ProfileStep ==
  ASSUME AccountInv, NEW r \in net, Access!ProfileLoaded(r)
  PROVE  AccountInv' /\ Access!EndsByItself
<1>1. r \in AccountRequest /\ (r.kind = "me" => r.on = ui.token)
  BY DEF AccountInv, AccountNetOK, ProfileAsked
<1>2. UNCHANGED db
  BY DEF Access!ProfileLoaded
<1>3. CASE Access!Answered(r, "me") /\ net' = net \ {r}
           /\ ui' = Access!Routed([ui EXCEPT !.user = r.on, !.loading = FALSE])
  <2> DEFINE u == [ui EXCEPT !.user = r.on, !.loading = FALSE]
  <2>1. u \in AccountUi /\ u.token = ui.token /\ u.user = ui.token
    BY <1>1, <1>3, AccountUiTyped DEF AccountInv, AccountUi
  <2>2. ui' = Access!Routed(u)
    BY <1>3
  <2> HIDE DEF u
  <2>3. ui' \in AccountUi /\ ui'.token = ui.token /\ ui'.user = ui.token
    BY <2>1, <2>2, RoutedState
  <2>4. AccountNetOK' /\ ProfileAsked'
    BY <1>3, <2>3 DEF AccountInv, AccountNetOK, ProfileAsked
  <2>5. Access!AccountTypeOK'
    BY <1>2, <2>3, AccountTypedAgain
  <2>6. Access!UserIsTokens'
    BY <2>3 DEF Access!UserIsTokens
  <2> QED BY <2>3, <2>4, <2>5, <2>6 DEF AccountInv, Access!EndsByItself
<1>4. CASE Access!Refused(r, "me") /\ ui' = Access!LoginPage(ui)
           /\ net' = (Access!Ignored \ {r}) \cup Access!OnToken(None)
  <2>1. AccountInv'
    BY <1>2, <1>4, SignedOutBy
  <2> QED BY <1>1, <1>4, <2>1 DEF Access!EndsByItself
<1> QED BY <1>3, <1>4 DEF Access!ProfileLoaded

LEMMA PasswordStep ==
  ASSUME AccountInv, NEW r \in net, Access!PasswordChanged(r)
  PROVE  AccountInv' /\ Access!EndsByItself
<1>1. UNCHANGED db
  BY DEF Access!PasswordChanged
<1>2. ASSUME net' = net \ {r}, ui' \in AccountUi, UNCHANGED <<ui.token, ui.user>>
      PROVE  AccountInv' /\ Access!EndsByItself
  <2>1. AccountNetOK' /\ \A q \in net' : q.kind = "me" => q \in net
    BY <1>2 DEF AccountInv, AccountNetOK
  <2> QED BY <1>1, <1>2, <2>1, TokenSame DEF Access!EndsByItself
<1>3. CASE net' = net \ {r} /\ UNCHANGED ui
  BY <1>2, <1>3, AccountUiTyped DEF AccountInv
<1>4. CASE net' = net \ {r} /\ ui' = [ui EXCEPT !.saving = FALSE]
  <2>1. ui' \in AccountUi /\ UNCHANGED <<ui.token, ui.user>>
    BY <1>4, AccountUiTyped DEF AccountInv, AccountUi
  <2> QED BY <1>2, <1>4, <2>1
<1>5. CASE Access!Answered(r, "password") /\ ui' = Access!LoginPage(ui)
           /\ net' = (Access!Ignored \ {r}) \cup Access!OnToken(None)
  <2>1. AccountInv'
    BY <1>1, <1>5, SignedOutBy
  <2>2. r \notin net'
    <3>1. \A q \in Access!OnToken(None) : q.kind = "methods"
      BY DEF Access!OnToken, Access!GetMethods, Access!Request
    <3> QED BY <1>5, <3>1
  <2> QED BY <1>5, <2>1, <2>2 DEF Access!EndsByItself
<1> QED BY <1>3, <1>4, <1>5 DEF Access!PasswordChanged

LEMMA AccountStep ==
  ASSUME AccountInv, Access!AccountNext
  PROVE  AccountInv' /\ Access!EndsByItself
<1>1. ASSUME NEW r \in net, Access!AccountServed(r)
      PROVE  AccountInv' /\ Access!EndsByItself
  BY <1>1, AccountServed DEF Access!EndsByItself
<1>2. ASSUME NEW r \in net, Access!MethodsLoaded(r) \/ Access!Submitted(r)
      PROVE  AccountInv' /\ Access!EndsByItself
  BY <1>2, LoginStep DEF Access!EndsByItself
<1>3. CASE \/ \E p \in {"/", "account", "admin"} : Access!Follow(p)
           \/ Access!ToggleMode
  BY <1>3, AccountPageStep DEF Access!EndsByItself
<1>4. CASE \/ \E a \in Accounts : Access!HandleSubmit(a)
           \/ Access!HandlePasswordSubmit
  BY <1>4, SubmitStep DEF Access!EndsByItself
<1> QED BY <1>1, <1>2, <1>3, <1>4, ProfileStep, PasswordStep, ComeAndGoStep
        DEF Access!AccountNext

-----------------------------------------------------------------------------
\* The whole application.
AccessInv == page = "access" => AccountInv

LEMMA AccessInit ==
  ASSUME Init
  PROVE  AccessInv
<1> SUFFICES ASSUME page = "access"
             PROVE  AccountInv
  BY DEF AccessInv
<1>1. Access!AccountInit
  BY DEF Init
<1>2. PICK t \in Signed :
        /\ ui = [token |-> t, user |-> None, loading |-> t # None,
                 at |-> IF t = None THEN "login" ELSE "/",
                 mode |-> "login", methods |-> None,
                 submitting |-> FALSE, saving |-> FALSE]
        /\ net = Access!OnToken(t)
  BY <1>1 DEF Access!AccountInit, Signed
<1>3. Access!AccountTypeOK
  BY <1>1, <1>2 DEF Access!AccountInit, Access!AccountTypeOK, Access!Forms, Signed
<1>4. ui.token = t /\ ui.user = None
  BY <1>2
<1>5. AccountNetOK /\ ProfileAsked
  BY <1>2, <1>4, TokenEffect DEF AccountNetOK, ProfileAsked
<1> QED BY <1>3, <1>4, <1>5 DEF AccountInv, Access!UserIsTokens

LEMMA AccessNext ==
  ASSUME AccessInv, [Next]_vars
  PROVE  AccessInv' /\ [page = "access" => Access!EndsByItself]_vars
<1>1. UNCHANGED page
  BY DEF Next, vars
<1>2. CASE page # "access"
  BY <1>1, <1>2 DEF AccessInv
<1>3. CASE UNCHANGED vars
  BY <1>3 DEF vars, pageVars, AccessInv, AccountInv, Access!AccountTypeOK, AccountNetOK,
              ProfileAsked, Access!UserIsTokens
<1>4. CASE page = "access" /\ Next
  BY <1>4, AccountStep DEF AccessInv, Next
<1> QED BY <1>2, <1>3, <1>4

\* The profile that the pages go by is the one of the token in use, whoever
\* signs in and out while profiles are on their way (AuthProvider).
THEOREM ProfileIsTokens == Spec => []UserIsTokens
<1>1. Init => AccessInv
  BY AccessInit
<1>2. AccessInv /\ [Next]_vars => AccessInv'
  BY AccessNext
<1>3. AccessInv => UserIsTokens
  BY DEF AccessInv, AccountInv, UserIsTokens
<1> QED BY <1>1, <1>2, <1>3, PTL DEF Spec

\* A login ends by its user, by the failure of its own profile, which an answer
\* for an earlier token cannot be, or by a changed password (AuthProvider,
\* PasswordCard).
THEOREM LoginEndsByItself == Spec => EndsByItself
<1>1. Init => AccessInv
  BY AccessInit
<1>2. AccessInv /\ [Next]_vars =>
        AccessInv' /\ [page = "access" => Access!EndsByItself]_vars
  BY AccessNext
<1> QED BY <1>1, <1>2, PTL DEF Spec, EndsByItself

-----------------------------------------------------------------------------
(* The home page: a tab's sound is recorded only where it is allowed.  The *)
(* source is chosen when recording is asked for, by the purpose of the     *)
(* session the page is in, which it has from the server and which does not *)
(* change any more.                                                        *)

HomeKinds == {"purposes", "create", "join", "mic", "stop", "leave"}

HomeArgs == {None} \cup Start!HomePurposes \cup Start!Sources

HomeRequest == [kind : HomeKinds, on : Ids \cup {None}, arg : HomeArgs,
                step : {"sent", "ok", "failed"}, answer : Ids \cup {None}]

\* A session there is, of which a recording from source is allowed.
Allowed(id, source, d) ==
  /\ id \in Ids /\ d.purpose[id] # None
  /\ d.purpose[id] = "closed" => source = "mic"

HomeWellMade(r, d) ==
  /\ r.kind = "create" => r.arg \in Start!HomePurposes
  /\ r.kind \in {"join", "stop", "leave"} => r.on \in Ids
  /\ r.kind \in {"create", "join"} /\ r.step = "ok"
       => r.answer \in Ids /\ d.purpose[r.answer] # None
  /\ r.kind = "mic" => r.arg \in Start!Sources /\ Allowed(r.on, r.arg, d)

HomeNetOK(n, d) == n \subseteq HomeRequest /\ \A r \in n : HomeWellMade(r, d)

\* The page knows the purpose of its session; what is captured is allowed.
HomeKnown(u, d) ==
  /\ u.sess # None => u.purpose = d.purpose[u.sess] /\ u.purpose # None
  /\ u.capture # None => Allowed(u.capture.of, u.capture.source, d)

HomeUi == [mic : BOOLEAN, app : BOOLEAN, loading : BOOLEAN, known : BOOLEAN,
           selected : Start!HomePurposes \cup {None},
           sess : Ids \cup {None}, purpose : Start!HomePurposes \cup {None},
           owner : BOOLEAN, begun : BOOLEAN, active : BOOLEAN,
           capture : {None} \cup [source : Start!Sources, of : Ids],
           starting : BOOLEAN, stopping : BOOLEAN, joining : BOOLEAN]

HomeDb == [purpose : [Ids -> Start!HomePurposes \cup {None}],
           mine : SUBSET Ids, begun : SUBSET Ids]

HomeInv == ui \in HomeUi /\ db \in HomeDb /\ HomeNetOK(net, db) /\ HomeKnown(ui, db)

USE DEF Start!Sent, Start!Answered, Start!Refused, Start!Others, Start!Act,
        Start!Home

\* A purpose, once there, does not change.
HomeKept(d, e) == \A id \in Ids : d.purpose[id] # None => e.purpose[id] = d.purpose[id]

LEMMA HomeStays ==
  ASSUME HomeInv, NEW d \in HomeDb, HomeKept(db, d)
  PROVE  HomeKnown(ui, d) /\ \A r \in net : HomeWellMade(r, d)
<1>1. HomeKnown(ui, d)
  BY DEF HomeInv, HomeUi, HomeKnown, Allowed, HomeKept
<1>2. ASSUME NEW r \in net
      PROVE  HomeWellMade(r, d)
  BY DEF HomeInv, HomeNetOK, HomeWellMade, Allowed, HomeKept
<1> QED BY <1>1, <1>2

\* The server answers.
LEMMA HomeServedStep ==
  ASSUME HomeInv, NEW r \in net, Start!HomeServed(r)
  PROVE  HomeInv'
<1>1. UNCHANGED ui /\ ui \in HomeUi
  BY DEF HomeInv, Start!HomeServed
<1>2. r \in HomeRequest /\ HomeWellMade(r, db) /\ db \in HomeDb
  BY DEF HomeInv, HomeNetOK
<1>3. ASSUME db' \in HomeDb, HomeKept(db, db'), NEW step \in {"ok", "failed"},
             NEW a \in Ids \cup {None},
             net' = (net \ {r}) \cup {[r EXCEPT !.step = step, !.answer = a]},
             step = "ok" /\ r.kind \in {"create", "join"}
               => a \in Ids /\ db'.purpose[a] # None
      PROVE  HomeInv'
  <2> DEFINE q == [r EXCEPT !.step = step, !.answer = a]
  <2>1. /\ q \in HomeRequest /\ q.kind = r.kind /\ q.on = r.on /\ q.arg = r.arg
        /\ q.step = step /\ q.answer = a
    BY <1>2 DEF HomeRequest
  <2>2. net' = (net \ {r}) \cup {q}
    BY <1>3
  <2> HIDE DEF q
  <2>3. HomeKnown(ui, db') /\ \A o \in net : HomeWellMade(o, db')
    BY <1>3, HomeStays
  <2>4. HomeWellMade(q, db')
    BY <1>3, <2>1, <2>3 DEF HomeWellMade
  <2>5. HomeNetOK(net', db')
    BY <2>1, <2>2, <2>3, <2>4 DEF HomeInv, HomeNetOK
  <2> QED BY <1>1, <1>3, <2>3, <2>5 DEF HomeInv
<1>4. CASE Start!Refuse(r) /\ UNCHANGED db
  <2>1. r.answer \in Ids \cup {None}
    BY <1>2 DEF HomeRequest
  <2>2. [r EXCEPT !.step = "failed"]
          = [r EXCEPT !.step = "failed", !.answer = r.answer]
    BY <1>2 DEF HomeRequest
  <2>3. net' = (net \ {r}) \cup {[r EXCEPT !.step = "failed", !.answer = r.answer]}
    BY <1>4, <2>2 DEF Start!Refuse
  <2>4. HomeKept(db, db') /\ db' \in HomeDb
    BY <1>2, <1>4 DEF HomeKept
  <2> QED BY <1>3, <2>1, <2>3, <2>4
<1>5. ASSUME NEW a \in Ids \cup {None}, Start!Answer(r, a), db' \in HomeDb,
             HomeKept(db, db'),
             r.kind \in {"create", "join"} => a \in Ids /\ db'.purpose[a] # None
      PROVE  HomeInv'
  BY <1>3, <1>5 DEF Start!Answer
<1>6. CASE r.kind = "purposes" /\ Start!Answer(r, None) /\ UNCHANGED db
  BY <1>2, <1>5, <1>6 DEF HomeKept
<1>7. CASE r.kind = "create"
           /\ \E id \in Ids :
                /\ db.purpose[id] = None
                /\ db' = [db EXCEPT !.purpose[id] = r.arg, !.mine = @ \cup {id}]
                /\ Start!Answer(r, id)
  <2>1. PICK id \in Ids :
          /\ db.purpose[id] = None
          /\ db' = [db EXCEPT !.purpose[id] = r.arg, !.mine = @ \cup {id}]
          /\ Start!Answer(r, id)
    BY <1>7
  <2>2. r.arg \in Start!HomePurposes
    BY <1>2, <1>7 DEF HomeWellMade
  <2>3. /\ db'.purpose = [db.purpose EXCEPT ![id] = r.arg]
        /\ db'.mine = db.mine \cup {id} /\ db'.begun = db.begun
        /\ db' = [purpose |-> db'.purpose, mine |-> db'.mine, begun |-> db'.begun]
    BY <1>2, <2>1 DEF HomeDb
  <2>4. db' \in HomeDb
    BY <1>2, <2>2, <2>3 DEF HomeDb
  <2>5. r.arg # None
    BY <2>2, HomeAssumption
  <2>6. HomeKept(db, db') /\ db'.purpose[id] # None
    BY <1>2, <2>1, <2>3, <2>5 DEF HomeKept, HomeDb
  <2> QED BY <1>5, <2>1, <2>4, <2>6
<1>8. CASE r.kind = "join" /\ db.purpose[r.on] # None
           /\ Start!Answer(r, r.on) /\ UNCHANGED db
  BY <1>2, <1>5, <1>8 DEF HomeKept, HomeWellMade
<1>9. ASSUME r.kind \in {"mic", "stop", "leave"}, Start!Answer(r, r.on),
             db' \in HomeDb, HomeKept(db, db')
      PROVE  HomeInv'
  BY <1>2, <1>5, <1>9 DEF HomeRequest
<1>10. CASE r.kind = "mic" /\ db' = [db EXCEPT !.begun = @ \cup {r.on}]
            /\ Start!Answer(r, r.on)
  <2>1. r.on \in Ids
    BY <1>2, <1>10 DEF HomeWellMade, Allowed
  <2>2. db' \in HomeDb /\ HomeKept(db, db')
    BY <1>2, <1>10, <2>1 DEF HomeDb, HomeKept
  <2> QED BY <1>9, <1>10, <2>2
<1>11. CASE r.kind = "stop" /\ db' = [db EXCEPT !.mine = @ \ {r.on}]
            /\ Start!Answer(r, r.on)
  <2>1. db' \in HomeDb /\ HomeKept(db, db')
    BY <1>2, <1>11 DEF HomeDb, HomeKept
  <2> QED BY <1>9, <1>11, <2>1
<1>12. CASE r.kind = "leave" /\ UNCHANGED db /\ Start!Answer(r, r.on)
  BY <1>2, <1>9, <1>12 DEF HomeKept
<1> QED BY <1>4, <1>6, <1>7, <1>8, <1>10, <1>11, <1>12 DEF Start!HomeServed

\* The page changes and the server does not: what is asked is well made.
LEMMA HomePageStep ==
  ASSUME HomeInv, UNCHANGED db, ui' \in HomeUi, HomeKnown(ui', db),
         NEW q \in HomeRequest, HomeWellMade(q, db), net' \subseteq net \cup {q}
  PROVE  HomeInv'
BY DEF HomeInv, HomeNetOK

\* What is still needed of the page when nothing is asked.
LEMMA HomeUiStep ==
  ASSUME HomeInv, UNCHANGED db, ui' \in HomeUi, HomeKnown(ui', db), net' \subseteq net
  PROVE  HomeInv'
BY DEF HomeInv, HomeNetOK

\* As long as the session, its purpose and the capture stay.
LEMMA SameSession ==
  ASSUME HomeInv, NEW v, v.sess = ui.sess, v.purpose = ui.purpose,
         v.capture = ui.capture \/ v.capture = None
  PROVE  HomeKnown(v, db)
BY DEF HomeInv, HomeKnown

LEMMA HomeMade ==
  ASSUME NEW kind \in HomeKinds, NEW on \in Ids \cup {None}, NEW arg \in HomeArgs
  PROVE  LET r == Start!Request(kind, on, arg)
         IN /\ r \in HomeRequest /\ r.kind = kind /\ r.on = on /\ r.arg = arg
            /\ r.step = "sent"
BY DEF Start!Request, HomeRequest

\* Turning the app off changes nothing else.
LEMMA RenderedUi ==
  ASSUME NEW v \in HomeUi
  PROVE  /\ Start!Rendered(v) \in HomeUi
         /\ Start!Rendered(v).sess = v.sess /\ Start!Rendered(v).purpose = v.purpose
         /\ Start!Rendered(v).capture = v.capture
<1> DEFINE a == v.app /\ Start!AppRecordingAllowed(v)
<1>1. a \in BOOLEAN
  BY DEF HomeUi, Start!AppRecordingAllowed
<1>2. Start!Rendered(v) = [v EXCEPT !.app = a]
  BY DEF HomeUi, Start!Rendered
<1> HIDE DEF a
<1> QED BY <1>1, <1>2 DEF HomeUi

\* The sources and the purpose before a session, and the pause.
LEMMA HomeSettings ==
  ASSUME HomeInv,
         \/ Start!SetMicEnabled \/ Start!SetAppEnabled \/ Start!HandleStopMic
         \/ \E p \in Start!HomePurposes : Start!SetSelectedPurpose(p)
  PROVE  HomeInv'
<1>1. ui \in HomeUi /\ UNCHANGED <<net, db>>
  BY DEF HomeInv, Start!SetMicEnabled, Start!SetAppEnabled, Start!HandleStopMic,
         Start!SetSelectedPurpose
<1>2. ASSUME ui' \in HomeUi, UNCHANGED <<ui.sess, ui.purpose, ui.capture>>
      PROVE  HomeInv'
  <2>1. HomeKnown(ui', db)
    BY <1>2, SameSession
  <2> QED BY <1>1, <1>2, <2>1, HomeUiStep
<1>3. CASE Start!SetMicEnabled
  BY <1>1, <1>2, <1>3 DEF Start!SetMicEnabled, HomeUi
<1>4. CASE Start!SetAppEnabled
  BY <1>1, <1>2, <1>4 DEF Start!SetAppEnabled, HomeUi
<1>5. CASE Start!HandleStopMic
  BY <1>1, <1>2, <1>5 DEF Start!HandleStopMic, HomeUi
<1>6. ASSUME NEW p \in Start!HomePurposes, Start!SetSelectedPurpose(p)
      PROVE  HomeInv'
  <2> DEFINE v == [ui EXCEPT !.selected = p]
  <2>1. v \in HomeUi /\ v.sess = ui.sess /\ v.purpose = ui.purpose
        /\ v.capture = ui.capture
    BY <1>1 DEF HomeUi
  <2>2. ui' = Start!Rendered(v)
    BY <1>6 DEF Start!SetSelectedPurpose
  <2> HIDE DEF v
  <2> QED BY <1>2, <2>1, <2>2, RenderedUi
<1> QED BY <1>3, <1>4, <1>5, <1>6

\* What the buttons ask for.
LEMMA HomeButtons ==
  ASSUME HomeInv,
         \/ Start!HandleStart \/ Start!HandleStop \/ Start!HandleLeave
         \/ \E id \in Ids : Start!HandleJoin(id)
  PROVE  HomeInv'
<1>1. ui \in HomeUi /\ UNCHANGED db
  BY DEF HomeInv, Start!HandleStart, Start!HandleStop, Start!HandleLeave,
         Start!HandleJoin
<1>2. ASSUME ui' \in HomeUi, UNCHANGED <<ui.sess, ui.purpose>>,
             ui'.capture = ui.capture \/ ui'.capture = None,
             NEW kind \in {"create", "join", "stop", "leave"},
             NEW on \in Ids \cup {None}, NEW arg \in {None} \cup Start!HomePurposes,
             kind = "create" => arg \in Start!HomePurposes,
             kind \in {"join", "stop", "leave"} => on \in Ids,
             net' = net \cup {Start!Request(kind, on, arg)}
      PROVE  HomeInv'
  <2> DEFINE q == Start!Request(kind, on, arg)
  <2>1. kind \in HomeKinds /\ arg \in HomeArgs
    BY DEF HomeKinds, HomeArgs
  <2>2. /\ q \in HomeRequest /\ q.kind = kind /\ q.on = on /\ q.arg = arg
        /\ q.step = "sent"
    BY <2>1, HomeMade
  <2>3. net' \subseteq net \cup {q}
    BY <1>2
  <2> HIDE DEF q
  <2>4. HomeWellMade(q, db)
    BY <1>2, <2>2 DEF HomeWellMade
  <2>5. HomeKnown(ui', db)
    BY <1>2, SameSession
  <2> QED BY <1>1, <1>2, <2>2, <2>3, <2>4, <2>5, HomePageStep
<1>3. CASE Start!HandleStart
  <2>1. net' = net \cup {Start!Request("create", None, ui.selected)}
    BY <1>3 DEF Start!HandleStart
  <2>2. ui.selected \in Start!HomePurposes
    BY <1>1, <1>3 DEF Start!HandleStart, HomeUi
  <2>3. /\ ui' \in HomeUi /\ UNCHANGED <<ui.sess, ui.purpose, ui.capture>>
    BY <1>1, <1>3 DEF Start!HandleStart, HomeUi
  <2> QED BY <1>2, <2>1, <2>2, <2>3
<1>4. CASE Start!HandleStop
  <2>1. net' = net \cup {Start!Request("stop", ui.sess, None)}
    BY <1>4 DEF Start!HandleStop
  <2>2. ui.sess \in Ids
    BY <1>1, <1>4 DEF Start!HandleStop, HomeUi
  <2>3. /\ ui' \in HomeUi /\ UNCHANGED <<ui.sess, ui.purpose>>
        /\ ui'.capture = None
    BY <1>1, <1>4 DEF Start!HandleStop, HomeUi
  <2> QED BY <1>2, <2>1, <2>2, <2>3
<1>5. CASE Start!HandleLeave
  <2>1. net' = net \cup {Start!Request("leave", ui.sess, None)}
    BY <1>5 DEF Start!HandleLeave
  <2>2. ui.sess \in Ids
    BY <1>1, <1>5 DEF Start!HandleLeave, HomeUi
  <2>3. /\ ui' \in HomeUi /\ UNCHANGED <<ui.sess, ui.purpose>>
        /\ ui'.capture = None
    BY <1>1, <1>5 DEF Start!HandleLeave, HomeUi
  <2> QED BY <1>2, <2>1, <2>2, <2>3
<1>6. ASSUME NEW id \in Ids, Start!HandleJoin(id)
      PROVE  HomeInv'
  <2>1. net' = net \cup {Start!Request("join", id, None)}
    BY <1>6 DEF Start!HandleJoin
  <2>2. PICK form \in BOOLEAN : ui' = [ui EXCEPT !.joining = form]
    BY <1>6 DEF Start!HandleJoin
  <2>3. /\ ui' \in HomeUi /\ UNCHANGED <<ui.sess, ui.purpose, ui.capture>>
    BY <1>1, <2>2 DEF HomeUi
  <2> QED BY <1>2, <2>1, <2>3
<1> QED BY <1>3, <1>4, <1>5, <1>6

\* Recording begins from a source that the session's purpose allows.
LEMMA HomeMic ==
  ASSUME HomeInv, Start!HandleStartMic
  PROVE  HomeInv'
<1>1. ui \in HomeUi /\ UNCHANGED db /\ ui.sess # None
  BY DEF HomeInv, Start!HandleStartMic
<1>2. CASE ui' = [ui EXCEPT !.active = TRUE] /\ UNCHANGED net
  <2>1. ui' \in HomeUi /\ UNCHANGED <<ui.sess, ui.purpose, ui.capture>>
    BY <1>1, <1>2 DEF HomeUi
  <2>2. HomeKnown(ui', db)
    BY <2>1, SameSession
  <2> QED BY <1>1, <1>2, <2>1, <2>2, HomeUiStep
<1>3. CASE UNCHANGED ui
           /\ net' = net \cup {Start!Request("mic", ui.sess, Start!CaptureSource(ui))}
  <2> DEFINE source == Start!CaptureSource(ui)
             q == Start!Request("mic", ui.sess, source)
  <2>1. /\ source \in Start!Sources
        /\ ui.purpose = "closed" => source = "mic"
    <3>1. source # None
      BY DEF Start!HandleStartMic
    <3>2. ui.purpose = "closed" => ~Start!AppRecordingAllowed(ui)
      BY <1>1 DEF Start!AppRecordingAllowed, Start!PurposeForPermissions
    <3>3. /\ ui.mic /\ ui.app /\ Start!AppRecordingAllowed(ui) => source = "mix"
          /\ ui.mic /\ ~(ui.app /\ Start!AppRecordingAllowed(ui)) => source = "mic"
          /\ ~ui.mic /\ ui.app /\ Start!AppRecordingAllowed(ui) => source = "display"
          /\ ~ui.mic /\ ~(ui.app /\ Start!AppRecordingAllowed(ui)) => source = None
      BY DEF Start!CaptureSource
    <3> HIDE DEF source
    <3> QED BY <3>1, <3>2, <3>3 DEF Start!Sources
  <2> HIDE DEF source
  <2>2. ui.sess \in Ids /\ "mic" \in HomeKinds /\ source \in HomeArgs
    BY <1>1, <2>1 DEF HomeUi, HomeKinds, HomeArgs
  <2>3. /\ q \in HomeRequest /\ q.kind = "mic" /\ q.on = ui.sess /\ q.arg = source
    BY <2>2, HomeMade
  <2>4. net' \subseteq net \cup {q}
    BY <1>3 DEF source
  <2> HIDE DEF q
  <2>5. HomeWellMade(q, db)
    BY <1>1, <2>1, <2>2, <2>3 DEF HomeInv, HomeKnown, HomeWellMade, Allowed
  <2> QED BY <1>1, <1>3, <2>3, <2>4, <2>5, HomePageStep DEF HomeInv
<1> QED BY <1>2, <1>3 DEF Start!HandleStartMic

\* A page without a session has nothing to know.
LEMMA NoSessionUi ==
  ASSUME NEW v \in HomeUi
  PROVE  /\ Start!NoSession(v) \in HomeUi
         /\ Start!NoSession(v).sess = None /\ Start!NoSession(v).capture = None
BY DEF Start!NoSession, HomeUi

LEMMA NothingKnown ==
  ASSUME NEW v, v.sess = None, v.capture = None
  PROVE  HomeKnown(v, db)
BY DEF HomeKnown

\* The answers.
LEMMA HomeAnswers ==
  ASSUME HomeInv, NEW r \in net,
         \/ Start!HomePurposesLoaded(r) \/ Start!MicStarted(r) \/ Start!SessionQuit(r)
  PROVE  HomeInv'
<1>1. ui \in HomeUi /\ UNCHANGED db /\ net' \subseteq net
      /\ r \in HomeRequest /\ HomeWellMade(r, db)
  BY DEF HomeInv, HomeNetOK, Start!HomePurposesLoaded, Start!MicStarted,
         Start!SessionQuit
<1>2. ASSUME ui' \in HomeUi, UNCHANGED <<ui.sess, ui.purpose, ui.capture>>
      PROVE  HomeInv'
  <2>1. HomeKnown(ui', db)
    BY <1>2, SameSession
  <2> QED BY <1>1, <1>2, <2>1, HomeUiStep
<1>3. CASE Start!HomePurposesLoaded(r)
  <2>1. ui' = [ui EXCEPT !.loading = FALSE, !.known = (r.step = "ok")]
    BY <1>3 DEF Start!HomePurposesLoaded
  <2> QED BY <1>1, <1>2, <2>1 DEF HomeUi
<1>4. CASE r.kind = "mic"
           /\ ui' = [ui EXCEPT !.capture = [source |-> r.arg, of |-> r.on],
                               !.active = ui.sess # None,
                               !.begun = @ \/ ui.sess = r.on]
  <2>1. r.arg \in Start!Sources /\ Allowed(r.on, r.arg, db)
    BY <1>1, <1>4 DEF HomeWellMade
  <2> DEFINE c == [source |-> r.arg, of |-> r.on]
             b == ui.begun \/ ui.sess = r.on
  <2>2. c \in [source : Start!Sources, of : Ids] /\ b \in BOOLEAN
        /\ c.source = r.arg /\ c.of = r.on
    BY <1>1, <2>1 DEF Allowed, HomeUi
  <2>3. ui' = [ui EXCEPT !.capture = c, !.active = (ui.sess # None), !.begun = b]
    BY <1>1, <1>4 DEF HomeUi
  <2> HIDE DEF c, b
  <2>4. ui' \in HomeUi /\ UNCHANGED <<ui.sess, ui.purpose>> /\ ui'.capture = c
    BY <1>1, <2>2, <2>3 DEF HomeUi
  <2>5. HomeKnown(ui', db)
    BY <1>1, <2>1, <2>2, <2>4 DEF HomeInv, HomeKnown
  <2> QED BY <1>1, <2>4, <2>5, HomeUiStep
<1>5. CASE UNCHANGED ui
  BY <1>1, <1>2, <1>5
<1>6. CASE ui' = Start!Rendered([Start!NoSession(ui) EXCEPT !.stopping = FALSE])
  <2> DEFINE n == Start!NoSession(ui)
             v == [n EXCEPT !.stopping = FALSE]
  <2>1. n \in HomeUi /\ n.sess = None /\ n.capture = None
    BY <1>1, NoSessionUi
  <2> HIDE DEF n
  <2>2. v \in HomeUi /\ v.sess = None /\ v.capture = None
    BY <2>1 DEF HomeUi
  <2>3. ui' = Start!Rendered(v)
    BY <1>6 DEF n
  <2> HIDE DEF v
  <2>4. ui' \in HomeUi /\ ui'.sess = None /\ ui'.capture = None
    BY <2>2, <2>3, RenderedUi
  <2> QED BY <1>1, <2>4, NothingKnown, HomeUiStep
<1>7. CASE ui' = [ui EXCEPT !.stopping = FALSE]
  BY <1>1, <1>2, <1>7 DEF HomeUi
<1> QED BY <1>3, <1>4, <1>5, <1>6, <1>7 DEF Start!MicStarted, Start!SessionQuit

\* A session is entered with the purpose the server has for it.
LEMMA HomeEntered ==
  ASSUME HomeInv, NEW r \in net, Start!SessionEntered(r)
  PROVE  HomeInv'
<1>1. ui \in HomeUi /\ UNCHANGED db /\ net' \subseteq net /\ db \in HomeDb
      /\ r \in HomeRequest /\ HomeWellMade(r, db)
  BY DEF HomeInv, HomeNetOK, Start!SessionEntered
<1> DEFINE done == [ui EXCEPT !.starting = FALSE, !.joining = FALSE]
<1>2. done \in HomeUi /\ done.sess = ui.sess /\ done.purpose = ui.purpose
      /\ done.capture = ui.capture
  BY <1>1 DEF HomeUi
<1>3. CASE /\ r.kind \in {"create", "join"} /\ r.step = "ok"
           /\ ui' = Start!Rendered([done EXCEPT !.sess = r.answer,
                                       !.purpose = db.purpose[r.answer],
                                       !.owner = r.answer \in db.mine,
                                       !.begun = r.answer \in db.begun,
                                       !.active = FALSE,
                                       !.capture = IF r.kind = "join"
                                                   THEN None ELSE @])
  <2>1. r.answer \in Ids /\ db.purpose[r.answer] # None
    BY <1>1, <1>3 DEF HomeWellMade
  <2>2. db.purpose[r.answer] \in Start!HomePurposes
    BY <1>1, <2>1 DEF HomeDb
  <2> DEFINE o == r.answer \in db.mine
             b == r.answer \in db.begun
             c == IF r.kind = "join" THEN None ELSE done.capture
             s == r.answer
             p == db.purpose[r.answer]
             w == [done EXCEPT !.sess = s, !.purpose = p, !.owner = o,
                               !.begun = b, !.active = FALSE]
             v == [w EXCEPT !.capture = c]
  <2>3. o \in BOOLEAN /\ b \in BOOLEAN /\ (c = ui.capture \/ c = None)
        /\ c \in {None} \cup [source : Start!Sources, of : Ids]
    BY <1>1, <1>2 DEF HomeUi
  <2>4. ui' = Start!Rendered(v)
    BY <1>2, <1>3 DEF HomeUi
  <2>5. s \in Ids /\ p \in Start!HomePurposes
    BY <2>1, <2>2
  <2> HIDE DEF o, b, c, s, p, done
  <2>6. /\ v \in HomeUi /\ v.sess = s /\ v.purpose = p /\ v.capture = c
    <3> DEFINE x == [done EXCEPT !.sess = s, !.purpose = p]
    <3>1. x \in HomeUi /\ x.sess = s /\ x.purpose = p
      BY <1>2, <2>5 DEF HomeUi
    <3>2. PICK owned \in BOOLEAN, started \in BOOLEAN :
            owned = o /\ started = b
      BY <2>3
    <3>3. w = [x EXCEPT !.owner = owned, !.begun = started, !.active = FALSE]
      BY <1>2, <3>2 DEF HomeUi
    <3> HIDE DEF x
    <3>4. w \in HomeUi /\ w.sess = s /\ w.purpose = p
      BY <3>1, <3>3 DEF HomeUi
    <3> HIDE DEF w
    <3> QED BY <2>3, <3>4 DEF HomeUi
  <2> HIDE DEF v
  <2>7. /\ ui' \in HomeUi /\ ui'.sess = r.answer
        /\ ui'.purpose = db.purpose[r.answer] /\ ui'.capture = c
    BY <2>4, <2>6, RenderedUi DEF s, p
  <2>8. HomeKnown(ui', db)
    BY <2>1, <2>3, <2>7 DEF HomeInv, HomeKnown
  <2> QED BY <1>1, <2>7, <2>8, HomeUiStep
<1>4. CASE ui' = done
  <2>1. ui' \in HomeUi /\ HomeKnown(ui', db)
    BY <1>2, <1>4, SameSession
  <2> QED BY <1>1, <2>1, HomeUiStep
<1> QED BY <1>3, <1>4 DEF Start!SessionEntered

\* What ends by itself, and a page that is loaded again.
LEMMA HomeEnds ==
  ASSUME HomeInv, Start!SessionOver \/ Start!CaptureEnds \/ Start!HomeReload
  PROVE  HomeInv'
<1>1. ui \in HomeUi /\ UNCHANGED db
  BY DEF HomeInv, Start!SessionOver, Start!CaptureEnds, Start!HomeReload
<1> DEFINE n == Start!NoSession(ui)
<1>2. n \in HomeUi /\ n.sess = None /\ n.capture = None
  BY <1>1, NoSessionUi
<1> HIDE DEF n
<1>3. CASE Start!SessionOver
  <2>1. ui' = Start!Rendered(n) /\ UNCHANGED net
    BY <1>3 DEF Start!SessionOver, n
  <2>2. ui' \in HomeUi /\ ui'.sess = None /\ ui'.capture = None
    BY <1>2, <2>1, RenderedUi
  <2> QED BY <1>1, <2>1, <2>2, NothingKnown, HomeUiStep
<1>4. CASE Start!CaptureEnds
  <2>1. UNCHANGED net /\ ui' = [ui EXCEPT !.capture = None, !.active = FALSE]
    BY <1>4 DEF Start!CaptureEnds
  <2>2. ui' \in HomeUi /\ UNCHANGED <<ui.sess, ui.purpose>> /\ ui'.capture = None
    BY <1>1, <2>1 DEF HomeUi
  <2>3. HomeKnown(ui', db)
    BY <2>2, SameSession
  <2> QED BY <1>1, <2>1, <2>2, <2>3, HomeUiStep
<1>5. CASE Start!HomeReload
  <2> DEFINE q == Start!Request("purposes", None, None)
  <2>1. net' = {q} /\ q \in HomeRequest /\ HomeWellMade(q, db)
    BY <1>5 DEF Start!HomeReload, Start!Request, HomeRequest, HomeKinds, HomeArgs,
               HomeWellMade
  <2>2. ui' = [n EXCEPT !.loading = TRUE, !.known = FALSE,
                        !.selected = None, !.starting = FALSE,
                        !.stopping = FALSE, !.joining = FALSE]
    BY <1>5 DEF Start!HomeReload, n
  <2>3. ui' \in HomeUi /\ ui'.sess = None /\ ui'.capture = None
    BY <1>2, <2>2 DEF HomeUi
  <2> HIDE DEF q
  <2> QED BY <1>1, <2>1, <2>3, NothingKnown, HomePageStep
<1> QED BY <1>3, <1>4, <1>5

LEMMA HomeStep ==
  ASSUME HomeInv, Start!HomeNext
  PROVE  HomeInv'
BY HomeServedStep, HomeSettings, HomeButtons, HomeMic, HomeAnswers, HomeEntered,
   HomeEnds DEF Start!HomeNext

LEMMA HomeInitial ==
  ASSUME Start!HomeInit
  PROVE  HomeInv
<1>1. ui \in HomeUi /\ ui.sess = None /\ ui.capture = None
  BY DEF Start!HomeInit, HomeUi
<1>2. db \in HomeDb
  BY DEF Start!HomeInit, HomeDb
<1> DEFINE q == Start!Request("purposes", None, None)
<1>3. net = {q} /\ q \in HomeRequest /\ HomeWellMade(q, db)
  BY DEF Start!HomeInit, Start!Request, HomeRequest, HomeKinds, HomeArgs,
         HomeWellMade
<1> HIDE DEF q
<1> QED BY <1>1, <1>2, <1>3, NothingKnown DEF HomeInv, HomeNetOK

LEMMA HomeStutters ==
  ASSUME HomeInv, UNCHANGED <<ui, net, db>>
  PROVE  HomeInv'
BY DEF HomeInv

HomePageInv == page = "home" => HomeInv

LEMMA HomeHolds ==
  /\ Init => HomePageInv
  /\ HomePageInv /\ [Next]_vars => HomePageInv'
<1>1. Init => HomePageInv
  BY HomeInitial DEF Init, HomePageInv
<1>2. HomePageInv /\ [Next]_vars => HomePageInv'
  BY HomeStep, HomeStutters DEF HomePageInv, Next, vars, pageVars
<1> QED BY <1>1, <1>2

\* A tab's sound is captured only for a session whose purpose allows it (Home):
\* the purpose chosen on the page, kept over a reload or left from an earlier
\* session, never decides for the session that is recorded.
THEOREM AppIsAllowed == Spec => []AppOnlyWhereAllowed
<1>1. HomePageInv => AppOnlyWhereAllowed
  BY DEF HomePageInv, HomeInv, HomeKnown, Allowed, AppOnlyWhereAllowed,
         Start!AppOnlyWhereAllowed
<1> QED BY <1>1, HomeHolds, PTL DEF Spec

-----------------------------------------------------------------------------
(* Requests of the pages that follow, whatever they are about.             *)

Steps == {"sent", "ok", "failed"}

Requests(kinds, ons, args, answers) ==
  [kind : kinds, on : ons, arg : args, step : Steps, answer : answers]

\* What a request becomes that is refused.
LEMMA Declined ==
  ASSUME NEW K, NEW O, NEW A, NEW V, NEW r \in Requests(K, O, A, V),
         NEW q, q = [r EXCEPT !.step = "failed"]
  PROVE  /\ q \in Requests(K, O, A, V)
         /\ q.kind = r.kind /\ q.on = r.on /\ q.arg = r.arg /\ q.step = "failed"
  BY DEF Requests, Steps

\* What a request is when it is made.
LEMMA Asked ==
  ASSUME NEW K, NEW O, NEW A, NEW V, None \in V,
         NEW kind \in K, NEW on \in O, NEW arg \in A, NEW q,
         q = [kind |-> kind, on |-> on, arg |-> arg, step |-> "sent", answer |-> None]
  PROVE  /\ q \in Requests(K, O, A, V)
         /\ q.kind = kind /\ q.on = on /\ q.arg = arg /\ q.step = "sent"
  BY DEF Requests, Steps

-----------------------------------------------------------------------------
(* The overview of all prompts: one page of it is asked for at a time.     *)
(* The pager is not there while a page is loading, and the answer that     *)
(* makes its page the page asks again only in the place of itself.         *)

ToolsKinds == {"prompts", "queues", "peek", "drop", "session"}

ToolsArgs == {None} \cup (1 .. MaxPages) \cup Tools!SessionActions

ToolsAnswers == {None} \cup (1 .. MaxPages) \cup SUBSET Queues

ToolsRequest == Requests(ToolsKinds, Queues \cup Ids \cup {None}, ToolsArgs, ToolsAnswers)

ToolsUi == [tab : {"prompts", "queues", "sessions"},
            page : 1 .. MaxPages, total : 0 .. MaxPages,
            shown : {None} \cup (1 .. MaxPages),
            loading : BOOLEAN, error : BOOLEAN,
            known : SUBSET Queues, viewed : [Queues -> BOOLEAN],
            busy : [Queues -> BOOLEAN], acting : BOOLEAN]

\* What a request of each kind is about, and in which tab it is made.
ToolsWellMade(r, u) ==
  /\ r.kind = "prompts" => r.arg \in 1 .. MaxPages /\ u.tab = "prompts" /\ u.loading
  /\ r.kind = "prompts" /\ r.step = "ok" => r.answer \in 1 .. MaxPages
  /\ r.kind = "queues" => u.tab = "queues"
  /\ r.kind = "queues" /\ r.step = "ok" => r.answer \subseteq Queues
  /\ r.kind \in {"peek", "drop"} => r.on \in Queues

OneOf(kind, n) == \A q, r \in n : q.kind = kind /\ r.kind = kind => q = r

ToolsNetOK(n, u) ==
  n \subseteq ToolsRequest /\ (\A r \in n : ToolsWellMade(r, u)) /\ OneOf("prompts", n)

ToolsInv == ui \in ToolsUi /\ db \in [pages : 1 .. MaxPages] /\ ToolsNetOK(net, ui)

USE DEF Tools!Sent, Tools!Answered, Tools!Refused, Tools!Others, Tools!Act

LEMMA ToolsServedStep ==
  ASSUME ToolsInv, NEW r \in net, Tools!ToolsServed(r)
  PROVE  ToolsInv'
<1>1. /\ UNCHANGED <<ui, db>> /\ r \in ToolsRequest /\ ToolsWellMade(r, ui)
      /\ db.pages \in 1 .. MaxPages
  BY DEF ToolsInv, ToolsNetOK, Tools!ToolsServed
<1>2. ASSUME NEW q \in ToolsRequest, net' = (net \ {r}) \cup {q},
             q.kind = r.kind, q.on = r.on, q.arg = r.arg,
             q.kind = "prompts" /\ q.step = "ok" => q.answer \in 1 .. MaxPages,
             q.kind = "queues" /\ q.step = "ok" => q.answer \subseteq Queues
      PROVE  ToolsInv'
  <2>1. ToolsWellMade(q, ui)
    BY <1>1, <1>2 DEF ToolsWellMade
  <2> QED BY <1>1, <1>2, <2>1 DEF ToolsInv, ToolsNetOK, OneOf
<1>3. ASSUME NEW a \in ToolsAnswers, Tools!Answer(r, a),
             r.kind = "prompts" => a \in 1 .. MaxPages,
             r.kind = "queues" => a \subseteq Queues
      PROVE  ToolsInv'
  <2> DEFINE q == [r EXCEPT !.step = "ok", !.answer = a]
  <2>1. net' = (net \ {r}) \cup {q}
    BY <1>3 DEF Tools!Answer
  <2>2. q = [r EXCEPT !.step = "ok", !.answer = a]
    OBVIOUS
  <2> HIDE DEF q
  <2>3. /\ q \in ToolsRequest /\ q.kind = r.kind /\ q.on = r.on /\ q.arg = r.arg
        /\ q.answer = a
    BY <1>1, <1>3, <2>2 DEF ToolsRequest, Requests, Steps
  <2> QED BY <1>2, <1>3, <2>1, <2>3
<1>4. CASE r.kind = "prompts" /\ Tools!Answer(r, db.pages)
  BY <1>1, <1>3, <1>4 DEF ToolsAnswers
<1>5. CASE r.kind = "queues" /\ \E qs \in {{}, Queues} : Tools!Answer(r, qs)
  BY <1>3, <1>5 DEF ToolsAnswers
<1>6. CASE r.kind \in {"peek", "drop", "session"} /\ Tools!Answer(r, None)
  BY <1>3, <1>6 DEF ToolsAnswers
<1>7. CASE Tools!Refuse(r)
  <2> DEFINE q == [r EXCEPT !.step = "failed"]
  <2>1. net' = (net \ {r}) \cup {q}
    BY <1>7 DEF Tools!Refuse
  <2>2. /\ q \in ToolsRequest /\ q.kind = r.kind /\ q.on = r.on /\ q.arg = r.arg
        /\ q.step = "failed"
    BY <1>1, Declined DEF ToolsRequest
  <2> HIDE DEF q
  <2> QED BY <1>2, <2>1, <2>2
<1> QED BY <1>4, <1>5, <1>6, <1>7 DEF Tools!ToolsServed

\* A tab that stays with its loading: the requests there are stay right.
LEMMA ToolsStay ==
  ASSUME ToolsInv, UNCHANGED db, ui' \in ToolsUi, ui'.tab = ui.tab,
         ui'.loading = ui.loading \/ \A q \in net' : q.kind # "prompts",
         net' \subseteq net
  PROVE  ToolsInv'
<1>1. \A q \in net' : ToolsWellMade(q, ui')
  BY DEF ToolsInv, ToolsNetOK, ToolsWellMade
<1>2. net' \subseteq ToolsRequest /\ OneOf("prompts", net')
  BY DEF ToolsInv, ToolsNetOK, OneOf
<1> QED BY <1>1, <1>2 DEF ToolsInv, ToolsNetOK

\* So does one that is made and is not for a page of prompts.
LEMMA ToolsMake ==
  ASSUME ToolsInv, UNCHANGED db, ui' \in ToolsUi, ui'.tab = ui.tab,
         ui'.loading = ui.loading \/ \A q \in net : q.kind # "prompts",
         NEW q \in ToolsRequest, net' \subseteq net \cup {q},
         ToolsWellMade(q, ui'), q.kind # "prompts"
  PROVE  ToolsInv'
<1>1. \A o \in net' : ToolsWellMade(o, ui')
  BY DEF ToolsInv, ToolsNetOK, ToolsWellMade
<1>2. net' \subseteq ToolsRequest /\ OneOf("prompts", net')
  BY DEF ToolsInv, ToolsNetOK, OneOf
<1> QED BY <1>1, <1>2 DEF ToolsInv, ToolsNetOK

\* A page of prompts is asked for when none is, and then the tab is loading.
LEMMA ToolsAskPage ==
  ASSUME ToolsInv, UNCHANGED db, ui' \in ToolsUi, ui'.tab = "prompts", ui.tab = "prompts",
         ui'.loading, NEW p \in 1 .. MaxPages,
         NEW rest, rest \subseteq net, \A q \in rest : q.kind # "prompts",
         net' = rest \cup {Tools!GetPromptPage(p)}
  PROVE  ToolsInv'
<1> DEFINE q == Tools!GetPromptPage(p)
<1>1. q \in ToolsRequest /\ q.kind = "prompts" /\ q.arg = p /\ q.step = "sent"
  BY Asked DEF Tools!GetPromptPage, Tools!Request, ToolsRequest, ToolsKinds, ToolsArgs,
               ToolsAnswers
<1> HIDE DEF q
<1>2. ToolsWellMade(q, ui')
  BY <1>1 DEF ToolsWellMade
<1>3. \A o \in rest : ToolsWellMade(o, ui')
  BY DEF ToolsInv, ToolsNetOK, ToolsWellMade
<1>4. net' = rest \cup {q}
  BY DEF q
<1> QED BY <1>1, <1>2, <1>3, <1>4 DEF ToolsInv, ToolsNetOK, OneOf

LEMMA ToolsPrompts ==
  ASSUME ToolsInv,
         \/ \E p \in 1 .. MaxPages : Tools!SetPromptPage(p)
         \/ \E r \in net : Tools!PromptPageShown(r)
         \/ Tools!RefreshTool
  PROVE  ToolsInv'
<1>1. UNCHANGED db /\ ui \in ToolsUi
  BY DEF ToolsInv, Tools!SetPromptPage, Tools!PromptPageShown, Tools!RefreshTool
<1>2. ASSUME NEW p \in 1 .. MaxPages, Tools!SetPromptPage(p)
      PROVE  ToolsInv'
  <2>1. ui.tab = "prompts" /\ ~ui.loading /\ net' = net \cup {Tools!GetPromptPage(p)}
        /\ ui' = [ui EXCEPT !.page = p, !.loading = TRUE, !.error = FALSE]
    BY <1>2 DEF Tools!SetPromptPage, Tools!MayTurn
  <2>2. ui' \in ToolsUi /\ ui'.tab = "prompts" /\ ui'.loading
    BY <1>1, <2>1 DEF ToolsUi
  <2>3. \A q \in net : q.kind # "prompts"
    BY <2>1 DEF ToolsInv, ToolsNetOK, ToolsWellMade
  <2> QED BY <1>1, <2>1, <2>2, <2>3, ToolsAskPage
<1>3. ASSUME NEW r \in net, Tools!PromptPageShown(r)
      PROVE  ToolsInv'
  <2>1. r.kind = "prompts" /\ r.arg \in 1 .. MaxPages /\ ui.tab = "prompts"
        /\ \A q \in net \ {r} : q.kind # "prompts"
    BY <1>3 DEF Tools!PromptPageShown, ToolsInv, ToolsNetOK, ToolsWellMade, OneOf
  <2>2. CASE Tools!Answered(r, "prompts")
             /\ ui' = [ui EXCEPT !.shown = r.arg, !.page = r.arg, !.total = r.answer,
                                 !.loading = ui.page # r.arg]
             /\ net' = (net \ {r}) \cup
                  (IF ui.page # r.arg THEN {Tools!GetPromptPage(r.arg)} ELSE {})
    <3>1. r.answer \in 0 .. MaxPages
      BY <2>1, <2>2 DEF ToolsInv, ToolsNetOK, ToolsWellMade
    <3>2. PICK b \in BOOLEAN : b = (ui.page # r.arg)
      OBVIOUS
    <3>3. ui' = [ui EXCEPT !.shown = r.arg, !.page = r.arg, !.total = r.answer,
                           !.loading = b]
      BY <2>2, <3>2
    <3>4. ui' \in ToolsUi /\ ui'.tab = "prompts" /\ ui'.loading = b
      BY <1>1, <2>1, <3>1, <3>3 DEF ToolsUi
    <3>5. CASE ~b
      <4>1. net' = net \ {r}
        BY <2>2, <3>2, <3>5
      <4>2. net' \subseteq net /\ \A q \in net' : q.kind # "prompts"
        BY <2>1, <4>1
      <4> QED BY <1>1, <2>1, <3>4, <4>2, ToolsStay
    <3>6. CASE b
      <4>1. net' = (net \ {r}) \cup {Tools!GetPromptPage(r.arg)}
        BY <2>2, <3>2, <3>6
      <4> QED BY <1>1, <2>1, <3>4, <3>6, <4>1, ToolsAskPage
    <3> QED BY <3>2, <3>5, <3>6
  <2>3. CASE ui' = [ui EXCEPT !.loading = FALSE, !.error = TRUE] /\ net' = net \ {r}
    <3>1. ui' \in ToolsUi /\ ui'.tab = ui.tab
      BY <1>1, <2>3 DEF ToolsUi
    <3>2. net' \subseteq net /\ \A q \in net' : q.kind # "prompts"
      BY <2>1, <2>3
    <3> QED BY <1>1, <3>1, <3>2, ToolsStay
  <2> QED BY <1>3, <2>2, <2>3 DEF Tools!PromptPageShown
<1>4. CASE Tools!RefreshTool
  <2>1. ui' = [ui EXCEPT !.loading = TRUE, !.error = FALSE] /\ ~ui.loading
        /\ net' = net \cup {IF ui.tab = "prompts" THEN Tools!GetPromptPage(ui.page)
                            ELSE Tools!GetQueues} /\ ui.tab # "sessions"
    BY <1>4 DEF Tools!RefreshTool
  <2>2. ui' \in ToolsUi /\ ui'.tab = ui.tab /\ ui'.loading /\ ui.page \in 1 .. MaxPages
    BY <1>1, <2>1 DEF ToolsUi
  <2>3. \A q \in net : q.kind # "prompts"
    BY <2>1 DEF ToolsInv, ToolsNetOK, ToolsWellMade
  <2>4. CASE ui.tab = "prompts"
    BY <1>1, <2>1, <2>2, <2>3, <2>4, ToolsAskPage
  <2>5. CASE ui.tab = "queues"
    <3> DEFINE q == Tools!GetQueues
    <3>1. q \in ToolsRequest /\ q.kind = "queues" /\ q.step = "sent"
      BY Asked DEF Tools!GetQueues, Tools!Request, ToolsRequest, ToolsKinds, ToolsArgs,
                   ToolsAnswers
    <3>2. net' = net \cup {q}
      BY <2>1, <2>5
    <3> HIDE DEF q
    <3>3. ToolsWellMade(q, ui')
      BY <2>2, <2>5, <3>1 DEF ToolsWellMade
    <3> QED BY <1>1, <2>1, <2>2, <2>3, <3>1, <3>2, <3>3, ToolsMake
  <2> QED BY <1>1, <2>1, <2>4, <2>5 DEF ToolsUi
<1> QED BY <1>2, <1>3, <1>4

LEMMA ToolsOthers ==
  ASSUME ToolsInv,
         \/ \E r \in net : \/ Tools!QueuesShown(r) \/ Tools!MessagesShown(r)
                           \/ Tools!MessageDropped(r) \/ Tools!SessionActionDone(r)
         \/ \E q \in Queues : Tools!ViewQueue(q) \/ Tools!DropQueueMessage(q)
         \/ \E id \in Ids, action \in Tools!SessionActions :
              Tools!ExecuteSessionAction(id, action)
  PROVE  ToolsInv'
<1>1. UNCHANGED db /\ ui \in ToolsUi /\ \A r \in net : r \in ToolsRequest /\ ToolsWellMade(r, ui)
  BY DEF ToolsInv, ToolsNetOK, Tools!QueuesShown, Tools!MessagesShown, Tools!MessageDropped,
         Tools!SessionActionDone, Tools!ViewQueue, Tools!DropQueueMessage,
         Tools!ExecuteSessionAction
<1>2. ASSUME ui' \in ToolsUi, ui'.tab = ui.tab, ui'.loading = ui.loading, net' \subseteq net
      PROVE  ToolsInv'
  BY <1>1, <1>2, ToolsStay
<1>3. ASSUME ui' \in ToolsUi, ui'.tab = ui.tab, ui'.loading = ui.loading,
             NEW kind \in {"peek", "drop", "session"}, NEW on \in Queues \cup Ids,
             NEW arg \in ToolsArgs,
             kind \in {"peek", "drop"} => on \in Queues,
             NEW rest, rest \subseteq net,
             net' = rest \cup {Tools!Request(kind, on, arg)}
      PROVE  ToolsInv'
  <2> DEFINE q == Tools!Request(kind, on, arg)
  <2>1. q \in ToolsRequest /\ q.kind = kind /\ q.on = on /\ q.step = "sent"
    BY <1>3, Asked DEF Tools!Request, ToolsRequest, ToolsKinds, ToolsArgs, ToolsAnswers
  <2>2. net' \subseteq net \cup {q}
    BY <1>3
  <2> HIDE DEF q
  <2>3. ToolsWellMade(q, ui') /\ q.kind # "prompts"
    BY <1>3, <2>1 DEF ToolsWellMade
  <2> QED BY <1>1, <1>3, <2>1, <2>2, <2>3, ToolsMake
<1>4. ASSUME NEW r \in net, Tools!QueuesShown(r)
      PROVE  ToolsInv'
  <2>1. r.kind = "queues" /\ ui.tab = "queues" /\ \A q \in net : q.kind # "prompts"
    BY <1>1, <1>4 DEF Tools!QueuesShown, ToolsWellMade
  <2>2. ui' \in ToolsUi /\ ui'.tab = ui.tab
    BY <1>1, <1>4 DEF Tools!QueuesShown, ToolsUi, ToolsWellMade
  <2>3. net' \subseteq net
    BY <1>4 DEF Tools!QueuesShown
  <2> QED BY <1>1, <2>1, <2>2, <2>3, ToolsStay
<1>5. ASSUME NEW r \in net, Tools!MessagesShown(r)
      PROVE  ToolsInv'
  <2>1. ui' \in ToolsUi /\ ui'.tab = ui.tab /\ ui'.loading = ui.loading /\ net' \subseteq net
    BY <1>1, <1>5 DEF Tools!MessagesShown, ToolsUi, ToolsWellMade
  <2> QED BY <1>2, <2>1
<1>6. ASSUME NEW r \in net, Tools!MessageDropped(r)
      PROVE  ToolsInv'
  <2>1. r.on \in Queues
    BY <1>1, <1>6 DEF Tools!MessageDropped, ToolsWellMade
  <2>2. CASE ui' = [ui EXCEPT !.viewed[r.on] = TRUE]
             /\ net' = (net \ {r}) \cup {Tools!PeekMessages(r.on)}
    <3>1. net' = (net \ {r}) \cup {Tools!Request("peek", r.on, None)}
      BY <2>2 DEF Tools!PeekMessages
    <3>2. net \ {r} \subseteq net
      OBVIOUS
    <3>3. ui' \in ToolsUi /\ ui'.tab = ui.tab /\ ui'.loading = ui.loading
      BY <1>1, <2>1, <2>2 DEF ToolsUi
    <3> QED BY <1>3, <2>1, <3>1, <3>2, <3>3 DEF ToolsArgs
  <2>3. CASE ui' = [ui EXCEPT !.busy[r.on] = FALSE] /\ net' = net \ {r}
    <3>1. ui' \in ToolsUi /\ ui'.tab = ui.tab /\ ui'.loading = ui.loading
      BY <1>1, <2>1, <2>3 DEF ToolsUi
    <3> QED BY <1>2, <2>3, <3>1
  <2> QED BY <1>6, <2>2, <2>3 DEF Tools!MessageDropped
<1>7. ASSUME NEW r \in net, Tools!SessionActionDone(r)
      PROVE  ToolsInv'
  <2>1. PICK b \in BOOLEAN : b = (r.step = "failed")
    OBVIOUS
  <2>2. ui' = [ui EXCEPT !.acting = FALSE, !.error = b] /\ net' = net \ {r}
    BY <1>7, <2>1 DEF Tools!SessionActionDone
  <2>3. ui' \in ToolsUi /\ ui'.tab = ui.tab /\ ui'.loading = ui.loading
    BY <1>1, <2>2 DEF ToolsUi
  <2> QED BY <1>2, <2>2, <2>3
<1>8. ASSUME NEW q \in Queues, Tools!ViewQueue(q)
      PROVE  ToolsInv'
  <2>1. CASE ui' = [ui EXCEPT !.viewed[q] = FALSE] /\ UNCHANGED net
    <3>1. ui' \in ToolsUi /\ ui'.tab = ui.tab /\ ui'.loading = ui.loading
      BY <1>1, <2>1 DEF ToolsUi
    <3> QED BY <1>2, <2>1, <3>1
  <2>2. CASE ui' = [ui EXCEPT !.viewed[q] = TRUE, !.busy[q] = TRUE]
             /\ net' = net \cup {Tools!PeekMessages(q)}
    <3>1. ui' \in ToolsUi /\ ui'.tab = ui.tab /\ ui'.loading = ui.loading
      BY <1>1, <2>2 DEF ToolsUi
    <3>2. net' = net \cup {Tools!Request("peek", q, None)}
      BY <2>2 DEF Tools!PeekMessages
    <3> QED BY <1>3, <3>1, <3>2 DEF ToolsArgs
  <2> QED BY <1>8, <2>1, <2>2 DEF Tools!ViewQueue
<1>9. ASSUME NEW q \in Queues, Tools!DropQueueMessage(q)
      PROVE  ToolsInv'
  <2>1. ui' \in ToolsUi /\ ui'.tab = ui.tab /\ ui'.loading = ui.loading
    BY <1>1, <1>9 DEF Tools!DropQueueMessage, ToolsUi
  <2>2. net' = net \cup {Tools!Request("drop", q, None)}
    BY <1>9 DEF Tools!DropQueueMessage, Tools!DropMessage
  <2> QED BY <1>3, <2>1, <2>2 DEF ToolsArgs
<1>10. ASSUME NEW id \in Ids, NEW action \in Tools!SessionActions,
              Tools!ExecuteSessionAction(id, action)
       PROVE  ToolsInv'
  <2>1. ui' \in ToolsUi /\ ui'.tab = ui.tab /\ ui'.loading = ui.loading
    BY <1>1, <1>10 DEF Tools!ExecuteSessionAction, ToolsUi
  <2>2. net' = net \cup {Tools!Request("session", id, action)}
    BY <1>10 DEF Tools!ExecuteSessionAction, Tools!PostSessionAction
  <2> QED BY <1>3, <2>1, <2>2 DEF ToolsArgs
<1> QED BY <1>4, <1>5, <1>6, <1>7, <1>8, <1>9, <1>10

LEMMA ToolsStep ==
  ASSUME ToolsInv, Tools!ToolsNext
  PROVE  ToolsInv'
BY ToolsServedStep, ToolsPrompts, ToolsOthers DEF Tools!ToolsNext

LEMMA ToolsInitial ==
  ASSUME Tools!ToolsInit
  PROVE  ToolsInv
<1>1. PICK tab \in {"prompts", "queues", "sessions"} :
        /\ ui = [tab |-> tab, page |-> 1, total |-> 0, shown |-> None,
                 loading |-> tab # "sessions", error |-> FALSE, known |-> {},
                 viewed |-> [q \in Queues |-> FALSE],
                 busy |-> [q \in Queues |-> FALSE], acting |-> FALSE]
        /\ net = CASE tab = "prompts"  -> {Tools!GetPromptPage(1)}
                   [] tab = "queues"   -> {Tools!GetQueues}
                   [] tab = "sessions" -> {}
  BY DEF Tools!ToolsInit
<1>2. db \in [pages : 1 .. MaxPages] /\ MaxPages \in Nat
  BY PagesAssumption DEF Tools!ToolsInit
<1>3. 1 \in 1 .. MaxPages /\ 0 \in 0 .. MaxPages
  BY <1>2
<1>4. PICK b \in BOOLEAN : b = (tab # "sessions")
  OBVIOUS
<1>5. ui \in ToolsUi /\ ui.tab = tab /\ ui.loading = b
  BY <1>1, <1>3, <1>4 DEF ToolsUi
<1> DEFINE p == Tools!GetPromptPage(1)
           q == Tools!GetQueues
<1>6. /\ p \in ToolsRequest /\ p.kind = "prompts" /\ p.arg = 1 /\ p.step = "sent"
      /\ q \in ToolsRequest /\ q.kind = "queues" /\ q.step = "sent"
  BY <1>3, Asked DEF Tools!GetPromptPage, Tools!GetQueues, Tools!Request, ToolsRequest,
                     ToolsKinds, ToolsArgs, ToolsAnswers
<1>7. \/ net = {}
      \/ tab = "prompts" /\ net = {p}
      \/ tab = "queues" /\ net = {q}
  <2>1. CASE tab = "prompts"
    BY <1>1, <2>1
  <2>2. CASE tab = "queues"
    BY <1>1, <2>2
  <2>3. CASE tab = "sessions"
    BY <1>1, <2>3
  <2> QED BY <2>1, <2>2, <2>3
<1> HIDE DEF p, q
<1>8. ToolsNetOK(net, ui)
  BY <1>3, <1>4, <1>5, <1>6, <1>7 DEF ToolsNetOK, ToolsWellMade, OneOf
<1> QED BY <1>2, <1>5, <1>8 DEF ToolsInv

ToolsPageInv == page = "tools" => ToolsInv

LEMMA ToolsHold ==
  /\ Init => ToolsPageInv
  /\ ToolsPageInv /\ [Next]_vars => ToolsPageInv'
<1>1. Init => ToolsPageInv
  BY ToolsInitial DEF Init, ToolsPageInv
<1>2. ToolsPageInv /\ [Next]_vars => ToolsPageInv'
  <2>1. ASSUME ToolsInv, UNCHANGED <<ui, net, db>>
        PROVE  ToolsInv'
    BY <2>1 DEF ToolsInv
  <2> QED BY <2>1, ToolsStep DEF ToolsPageInv, Next, vars, pageVars
<1> QED BY <1>1, <1>2

\* One page of prompts is asked for at a time (fetchPromptPage), for any number
\* of pages, queues and actions: no two answers go on making each other's page
\* the page to fetch.
THEOREM PagesAskOnce == Spec => []PagesDoNotChase
<1>1. ToolsPageInv => PagesDoNotChase
  BY DEF ToolsPageInv, ToolsInv, ToolsNetOK, OneOf, PagesDoNotChase,
         Tools!PagesDoNotChase, Tools!InFlight
<1> QED BY <1>1, ToolsHold, PTL DEF Spec

-----------------------------------------------------------------------------
(* The lists that are edited: prompts of a user, purposes of sessions.     *)
(* While no request overlapped another there is one request at most, so    *)
(* that the list on the page is the stored one until something is stored,  *)
(* and what is fetched is what is stored: ListSettled says so of the       *)
(* state u of the page, the requests n and the rows that are stored.       *)

EditKinds == {"list", "create", "update", "delete"}

ListSettled(u, n, rows) ==
  ~u.mixed =>
    /\ \A q, r \in n : q.kind \in EditKinds /\ r.kind \in EditKinds => q = r
    /\ \A r \in n : r.kind = "list" /\ r.step = "ok" => r.answer = rows
    /\ /\ ~u.missed
       /\ \A r \in n : r.kind \in EditKinds => r.kind # "list" /\ r.step # "ok"
       => u.items = rows

\* The state of such a page as far as that goes.
SameList(u, v) == v.items = u.items /\ v.missed = u.missed

LEMMA SettledStays ==
  ASSUME NEW u, NEW v, NEW n, NEW rows, ListSettled(u, n, rows), SameList(u, v),
         v.mixed = u.mixed
  PROVE  ListSettled(v, n, rows)
  BY DEF ListSettled, SameList

\* A request is made; one that overlaps another makes it mixed.
LEMMA SettledAsked ==
  ASSUME NEW u, NEW v, NEW n, NEW q, NEW rows, ListSettled(u, n, rows),
         SameList(u, v), q.step = "sent",
         ~v.mixed => ~u.mixed /\ \A r \in n : r.kind \notin EditKinds
  PROVE  ListSettled(v, n \cup {q}, rows)
  BY DEF ListSettled, SameList

\* A request that was done is followed by a fetch of the list.
LEMMA SettledThenList ==
  ASSUME NEW u, NEW v, NEW n, NEW r \in n, NEW q, NEW rows, ListSettled(u, n, rows),
         q.kind = "list", q.step = "sent",
         ~v.mixed => ~u.mixed /\ \A o \in n \ {r} : o.kind \notin EditKinds
  PROVE  ListSettled(v, (n \ {r}) \cup {q}, rows)
<1> DEFINE m == (n \ {r}) \cup {q}
<1> SUFFICES ASSUME ~v.mixed
             PROVE  /\ \A o, p \in m : o.kind \in EditKinds /\ p.kind \in EditKinds
                                         => o = p
                    /\ \A p \in m : p.kind = "list" /\ p.step = "ok"
                                      => p.answer = rows
                    /\ q \in m /\ q.kind \in EditKinds
  BY DEF ListSettled
<1> QED BY DEF EditKinds

\* The list is shown, or could not be fetched.
LEMMA SettledShown ==
  ASSUME NEW u, NEW v, NEW n, NEW r \in n, NEW rows, ListSettled(u, n, rows),
         r.kind = "list", v.mixed = u.mixed,
         \/ r.step = "ok" /\ v.items = r.answer
         \/ v.missed
  PROVE  ListSettled(v, n \ {r}, rows)
  BY DEF ListSettled, EditKinds

\* What was refused has stored nothing.
LEMMA SettledGivenUp ==
  ASSUME NEW u, NEW v, NEW n, NEW r \in n, NEW rows, ListSettled(u, n, rows),
         r.kind \in EditKinds, r.kind # "list", r.step = "failed",
         SameList(u, v), v.mixed = u.mixed
  PROVE  ListSettled(v, n \ {r}, rows)
  BY DEF ListSettled, SameList

\* The server has dealt with a request; only one that is done stores anything.
LEMMA SettledServed ==
  ASSUME NEW u, NEW n, NEW r \in n, NEW q, NEW rows, NEW stored,
         ListSettled(u, n, rows), r.step = "sent", q.kind = r.kind,
         q.kind = "list" /\ q.step = "ok" => q.answer = stored,
         stored # rows => q.step = "ok" /\ q.kind \in EditKinds \ {"list"}
  PROVE  ListSettled(u, (n \ {r}) \cup {q}, stored)
<1> DEFINE m == (n \ {r}) \cup {q}
<1> SUFFICES ASSUME ~u.mixed
             PROVE  /\ \A o, p \in m : o.kind \in EditKinds /\ p.kind \in EditKinds
                                         => o = p
                    /\ \A p \in m : p.kind = "list" /\ p.step = "ok"
                                      => p.answer = stored
                    /\ /\ ~u.missed
                       /\ \A p \in m : p.kind \in EditKinds
                                         => p.kind # "list" /\ p.step # "ok"
                       => u.items = stored
  BY DEF ListSettled
<1>1. /\ \A o, p \in n : o.kind \in EditKinds /\ p.kind \in EditKinds => o = p
      /\ \A p \in n : p.kind = "list" /\ p.step = "ok" => p.answer = rows
      /\ /\ ~u.missed
         /\ \A p \in n : p.kind \in EditKinds => p.kind # "list" /\ p.step # "ok"
         => u.items = rows
  BY DEF ListSettled
<1>2. \A o, p \in m : o.kind \in EditKinds /\ p.kind \in EditKinds => o = p
  BY <1>1
<1>3. \A p \in m : p.kind = "list" /\ p.step = "ok" => p.answer = stored
  BY <1>1, <1>2 DEF EditKinds
<1>4. ASSUME ~u.missed,
             \A p \in m : p.kind \in EditKinds => p.kind # "list" /\ p.step # "ok"
      PROVE  u.items = stored
  BY <1>1, <1>4
<1> QED BY <1>2, <1>3, <1>4

-----------------------------------------------------------------------------
(* The prompts of a user.  There is one form, which is always of the       *)
(* prompt that is edited: what is saved of a prompt was opened for it.     *)

EditedUi(contents, options) ==
  [items : [Things -> contents \cup {None}],
   loading : BOOLEAN, creating : BOOLEAN, editing : Things \cup {None},
   form : [of : Things \cup {None}, content : contents \cup {None}],
   options : options,
   saving : Things \cup {None}, deleting : Things \cup {None},
   missed : BOOLEAN, mixed : BOOLEAN]

\* The page is edited as before, and so is what is shown.
SameForm(u, v) == v.editing = u.editing /\ v.form = u.form

\* Who waited for a list is freed (Freed of EditedList).
LEMMA FreedUi ==
  ASSUME NEW C, NEW O, NEW u \in EditedUi(C, O), NEW v,
         \/ v = u
         \/ v = [u EXCEPT !.creating = FALSE]
         \/ v = [u EXCEPT !.saving = None]
         \/ v = [u EXCEPT !.deleting = None]
  PROVE  v \in EditedUi(C, O) /\ SameList(u, v) /\ v.mixed = u.mixed /\ SameForm(u, v)
  BY DEF EditedUi, SameList, SameForm

\* A page begins to load, and knows whether requests overlap.
LEMMA FetchingUi ==
  ASSUME NEW C, NEW O, NEW u \in EditedUi(C, O), NEW b \in BOOLEAN, NEW v,
         v = [[u EXCEPT !.loading = TRUE] EXCEPT !.mixed = b]
  PROVE  v \in EditedUi(C, O) /\ SameList(u, v) /\ v.mixed = b /\ SameForm(u, v)
  BY DEF EditedUi, SameList, SameForm

LEMMA MixingUi ==
  ASSUME NEW C, NEW O, NEW u \in EditedUi(C, O), NEW b \in BOOLEAN, NEW v,
         v = [u EXCEPT !.mixed = b]
  PROVE  v \in EditedUi(C, O) /\ SameList(u, v) /\ v.mixed = b /\ SameForm(u, v)
  BY DEF EditedUi, SameList, SameForm

ManagerUi == EditedUi(Manager!Contents, {None})

Rows == [Things -> Manager!Contents \cup {None}]

ManagerDb == [rows : Rows, admin : BOOLEAN]

\* What the server has for the user.
RowsFor(d) == [t \in Things |-> IF Manager!Visible(d.rows[t]) THEN d.rows[t] ELSE None]

NewPrompts == [text : Names, global : BOOLEAN]

Payloads == [of : Things \cup {None}, content : Manager!Contents]

ManagerRequest ==
  Requests(EditKinds, Things \cup {None, "page"} \cup EditKinds,
           Things \cup {None} \cup NewPrompts \cup Payloads, {None} \cup Rows)

\* What a request of each kind is about and answered with.
ManagerWellMade(r) ==
  /\ r.kind = "create" => r.arg \in NewPrompts
  /\ r.kind = "update" => r.on \in Things /\ r.arg \in Payloads /\ r.arg.of = r.on
  /\ r.kind = "delete" => r.on \in Things
  /\ r.kind # "list" => r.on \in Things \cup {None}
  /\ r.arg \in Things \cup {None} \/ r.kind \in {"create", "update"}
  /\ r.kind = "list" /\ r.step = "ok" => r.answer \in Rows

ManagerNetOK(n) == n \subseteq ManagerRequest /\ \A r \in n : ManagerWellMade(r)

ManagerInv ==
  /\ ui \in ManagerUi /\ db \in ManagerDb /\ ManagerNetOK(net)
  /\ ui.form.of = ui.editing
  /\ ListSettled(ui, net, RowsFor(db))

USE DEF Manager!Sent, Manager!Answered, Manager!Refused, Manager!Others, Manager!Act

LEMMA RowsAreFor ==
  /\ Manager!PromptRows = RowsFor(db)
  /\ db \in ManagerDb => RowsFor(db) \in Rows
<1>1. Manager!PromptRows = RowsFor(db)
  BY DEF Manager!PromptRows, RowsFor
<1>2. ASSUME db \in ManagerDb
      PROVE  RowsFor(db) \in Rows
  BY <1>2 DEF ManagerDb, Rows, RowsFor
<1> QED BY <1>1, <1>2

LEMMA ManagerMixing ==
  ASSUME NEW u \in ManagerUi, NEW others, others \subseteq net, NEW v,
         v = Manager!Mixing(u, others)
  PROVE  /\ v \in ManagerUi /\ SameList(u, v) /\ SameForm(u, v)
         /\ ~v.mixed => ~u.mixed /\ \A r \in others : r.kind \notin EditKinds
<1>1. PICK b \in BOOLEAN :
        b = (u.mixed \/ others \cap Manager!InFlight(Manager!ListKinds) # {})
  OBVIOUS
<1>2. v = [u EXCEPT !.mixed = b]
  BY <1>1 DEF Manager!Mixing
<1>3. v \in ManagerUi /\ SameList(u, v) /\ v.mixed = b /\ SameForm(u, v)
  BY <1>2, MixingUi DEF ManagerUi
<1>4. ASSUME ~b, NEW r \in others, r.kind \in EditKinds
      PROVE  FALSE
  BY <1>1, <1>4 DEF Manager!InFlight, Manager!ListKinds, EditKinds
<1> QED BY <1>1, <1>3, <1>4

\* The server's answer, or its refusal.
LEMMA ManagerServedStep ==
  ASSUME ManagerInv, NEW r \in net, Manager!ManagerServed(r)
  PROVE  ManagerInv'
<1>1. /\ UNCHANGED ui /\ r \in ManagerRequest /\ ManagerWellMade(r) /\ db \in ManagerDb
      /\ r.step = "sent" /\ RowsFor(db) \in Rows
  BY RowsAreFor DEF ManagerInv, ManagerNetOK, Manager!ManagerServed
<1>2. ASSUME NEW q \in ManagerRequest, net' = (net \ {r}) \cup {q},
             q.kind = r.kind, q.on = r.on, q.arg = r.arg, db' \in ManagerDb,
             q.kind = "list" /\ q.step = "ok" => q.answer = RowsFor(db) /\ db' = db,
             db' # db => q.step = "ok" /\ q.kind \in EditKinds \ {"list"}
      PROVE  ManagerInv'
  <2>1. ManagerWellMade(q)
    BY <1>1, <1>2 DEF ManagerWellMade
  <2>2. ListSettled(ui, net', RowsFor(db'))
    <3>1. RowsFor(db') # RowsFor(db) => q.step = "ok" /\ q.kind \in EditKinds \ {"list"}
      BY <1>2
    <3>2. q.kind = "list" /\ q.step = "ok" => q.answer = RowsFor(db')
      BY <1>2
    <3> QED BY <1>1, <1>2, <3>1, <3>2, SettledServed DEF ManagerInv
  <2>3. ManagerNetOK(net')
    BY <1>2, <2>1 DEF ManagerInv, ManagerNetOK
  <2>4. RowsFor(db') = RowsFor(db)'
    BY DEF RowsFor
  <2> QED BY <1>1, <1>2, <2>2, <2>3, <2>4 DEF ManagerInv
<1>3. ASSUME NEW a \in {None} \cup Rows, Manager!Answer(r, a), db' \in ManagerDb,
             r.kind = "list" => a = RowsFor(db) /\ db' = db
      PROVE  ManagerInv'
  <2> DEFINE q == [r EXCEPT !.step = "ok", !.answer = a]
  <2>1. net' = (net \ {r}) \cup {q}
    BY <1>3 DEF Manager!Answer
  <2>2. /\ q \in ManagerRequest /\ q.kind = r.kind /\ q.on = r.on /\ q.arg = r.arg
        /\ q.step = "ok" /\ q.answer = a /\ q.kind \in EditKinds
    BY <1>1, <1>3 DEF ManagerRequest, Requests, Steps
  <2> HIDE DEF q
  <2> QED BY <1>2, <1>3, <2>1, <2>2
<1>4. CASE r.kind = "list" /\ Manager!Answer(r, Manager!PromptRows) /\ UNCHANGED db
  BY <1>1, <1>3, <1>4, RowsAreFor
<1>5. CASE Manager!Refuse(r) /\ UNCHANGED db
  <2> DEFINE q == [r EXCEPT !.step = "failed"]
  <2>1. net' = (net \ {r}) \cup {q}
    BY <1>5 DEF Manager!Refuse
  <2>2. /\ q \in ManagerRequest /\ q.kind = r.kind /\ q.on = r.on /\ q.arg = r.arg
        /\ q.step = "failed"
    BY <1>1, Declined DEF ManagerRequest
  <2> HIDE DEF q
  <2> QED BY <1>1, <1>2, <1>5, <2>1, <2>2
<1>6. ASSUME NEW t \in Things, NEW row \in Manager!Contents \cup {None},
             db' = [db EXCEPT !.rows[t] = row], r.kind # "list",
             Manager!Answer(r, None)
      PROVE  ManagerInv'
  <2>1. db' \in ManagerDb
    BY <1>1, <1>6 DEF ManagerDb, Rows
  <2> QED BY <1>3, <1>6, <2>1
<1>7. CASE /\ r.kind = "create"
           /\ \E t \in Things :
                /\ db.rows[t] = None
                /\ db' = [db EXCEPT !.rows[t] =
                            [text |-> r.arg.text, global |-> r.arg.global, own |-> TRUE]]
           /\ Manager!Answer(r, None)
  <2>1. [text |-> r.arg.text, global |-> r.arg.global, own |-> TRUE] \in Manager!Contents
    BY <1>1, <1>7 DEF ManagerWellMade, NewPrompts, Manager!Contents
  <2> QED BY <1>6, <1>7, <2>1
<1>8. CASE /\ r.kind = "update" /\ Manager!Visible(db.rows[r.on])
           /\ db' = [db EXCEPT !.rows[r.on] = [r.arg.content EXCEPT
                                                 !.own = db.rows[r.on].own]]
           /\ Manager!Answer(r, None)
  <2>1. r.on \in Things /\ r.arg.content \in Manager!Contents
    BY <1>1, <1>8 DEF ManagerWellMade, Payloads
  <2>2. db.rows[r.on] \in Manager!Contents
    BY <1>1, <1>8, <2>1 DEF Manager!Visible, ManagerDb, Rows
  <2>3. db.rows[r.on].own \in BOOLEAN
    BY <2>2 DEF Manager!Contents
  <2>4. [r.arg.content EXCEPT !.own = db.rows[r.on].own] \in Manager!Contents
    BY <2>1, <2>3 DEF Manager!Contents
  <2> QED BY <1>6, <1>8, <2>1, <2>4
<1>9. CASE /\ r.kind = "delete" /\ db' = [db EXCEPT !.rows[r.on] = None]
           /\ Manager!Answer(r, None)
  BY <1>1, <1>6, <1>9 DEF ManagerWellMade
<1> QED BY <1>4, <1>5, <1>7, <1>8, <1>9 DEF Manager!ManagerServed

\* The page's state changes, not its list and not what is in flight.
LEMMA ManagerForms ==
  ASSUME ManagerInv, NEW t \in Things,
         \/ Manager!BeginEdit(t) \/ Manager!CancelEdit(t)
         \/ \E text \in Names, global \in BOOLEAN : Manager!EditPrompt(t, text, global)
  PROVE  ManagerInv'
<1>1. UNCHANGED <<net, db>> /\ ui \in ManagerUi /\ RowsFor(db)' = RowsFor(db)
  BY DEF ManagerInv, Manager!BeginEdit, Manager!CancelEdit, Manager!EditPrompt, RowsFor
<1>2. ASSUME ui' \in ManagerUi, SameList(ui, ui'), ui'.mixed = ui.mixed,
             ui'.form.of = ui'.editing
      PROVE  ManagerInv'
  <2>1. ListSettled(ui', net, RowsFor(db))
    BY <1>2, SettledStays DEF ManagerInv
  <2> QED BY <1>1, <1>2, <2>1 DEF ManagerInv
<1>3. CASE Manager!BeginEdit(t)
  <2>1. ui' = [ui EXCEPT !.editing = t, !.form = [of |-> t, content |-> ui.items[t]]]
    BY <1>3 DEF Manager!BeginEdit
  <2>2. ui' \in ManagerUi /\ SameList(ui, ui') /\ ui'.mixed = ui.mixed
        /\ ui'.form.of = ui'.editing
    BY <1>1, <2>1 DEF ManagerUi, EditedUi, SameList
  <2> QED BY <1>2, <2>2
<1>4. CASE Manager!CancelEdit(t)
  <2>1. ui' = [ui EXCEPT !.editing = None, !.form = [of |-> None, content |-> None]]
    BY <1>4 DEF Manager!CancelEdit, Manager!FormClosed, Manager!NoForm
  <2>2. ui' \in ManagerUi /\ SameList(ui, ui') /\ ui'.mixed = ui.mixed
        /\ ui'.form.of = ui'.editing
    BY <1>1, <2>1 DEF ManagerUi, EditedUi, SameList
  <2> QED BY <1>2, <2>2
<1>5. ASSUME NEW text \in Names, NEW global \in BOOLEAN,
             Manager!EditPrompt(t, text, global)
      PROVE  ManagerInv'
  <2>1. ui.form.content # None
        /\ ui' = [ui EXCEPT !.form.content.text = text, !.form.content.global = global]
    BY <1>5 DEF Manager!EditPrompt
  <2>2. ui.form \in [of : Things \cup {None}, content : Manager!Contents \cup {None}]
    BY <1>1 DEF ManagerUi, EditedUi
  <2>3. ui.form.content \in Manager!Contents
    BY <2>1, <2>2
  <2> DEFINE c == [ui.form.content EXCEPT !.text = text, !.global = global]
             f == [ui.form EXCEPT !.content = c]
  <2>4. c \in Manager!Contents
    BY <1>5, <2>3 DEF Manager!Contents
  <2>5. ui' = [ui EXCEPT !.form = f]
    BY <1>1, <2>1, <2>2, <2>3 DEF ManagerUi, EditedUi, Manager!Contents
  <2> HIDE DEF c
  <2>6. f \in [of : Things \cup {None}, content : Manager!Contents \cup {None}]
        /\ f.of = ui.form.of
    BY <2>2, <2>4
  <2> HIDE DEF f
  <2>7. ui' \in ManagerUi /\ SameList(ui, ui') /\ ui'.mixed = ui.mixed
        /\ ui'.form = f /\ ui'.editing = ui.editing
    BY <1>1, <2>5, <2>6 DEF ManagerUi, EditedUi, SameList
  <2> QED BY <1>2, <2>6, <2>7 DEF ManagerInv
<1> QED BY <1>3, <1>4, <1>5

\* A request is made from the state u of the page.
LEMMA ManagerAsks ==
  ASSUME ManagerInv, NEW u \in ManagerUi, SameList(ui, u), SameForm(ui, u),
         u.mixed = ui.mixed, UNCHANGED db, ui' = Manager!Mixing(u, net),
         NEW q \in ManagerRequest, ManagerWellMade(q), q.step = "sent",
         net' = net \cup {q}
  PROVE  ManagerInv'
<1>1. /\ ui' \in ManagerUi /\ SameList(u, ui') /\ SameForm(u, ui')
      /\ ~ui'.mixed => ~u.mixed /\ \A r \in net : r.kind \notin EditKinds
  BY ManagerMixing
<1>2. SameList(ui, ui') /\ ui'.form.of = ui'.editing
  BY <1>1 DEF SameList, SameForm, ManagerInv
<1>3. ListSettled(ui', net', RowsFor(db))
  BY <1>1, <1>2, SettledAsked DEF ManagerInv
<1>4. ManagerNetOK(net') /\ RowsFor(db)' = RowsFor(db)
  BY DEF ManagerInv, ManagerNetOK, RowsFor
<1> QED BY <1>1, <1>2, <1>3, <1>4 DEF ManagerInv

LEMMA ManagerButtons ==
  ASSUME ManagerInv,
         \/ Manager!HandleCreatePrompt
         \/ \E t \in Things : Manager!HandleSavePrompt(t) \/ Manager!HandleDeletePrompt(t)
  PROVE  ManagerInv'
<1>1. ui \in ManagerUi /\ db \in ManagerDb
  BY DEF ManagerInv
<1>2. CASE Manager!HandleCreatePrompt
  <2> DEFINE u == [ui EXCEPT !.creating = TRUE]
  <2>1. PICK global \in BOOLEAN :
          net' = net \cup {Manager!Request("create", None,
                             [text |-> Manager!FirstText, global |-> global])}
    BY <1>2 DEF Manager!HandleCreatePrompt
  <2>2. Manager!FirstText \in Names
    BY PagesAssumption DEF Manager!FirstText
  <2> DEFINE a == [text |-> Manager!FirstText, global |-> global]
             q == Manager!Request("create", None, a)
  <2>3. a \in NewPrompts
    BY <2>2 DEF NewPrompts
  <2> HIDE DEF a
  <2>4. q \in ManagerRequest /\ ManagerWellMade(q) /\ q.step = "sent"
    BY <2>3 DEF Manager!Request, ManagerRequest, Requests, Steps, EditKinds,
                ManagerWellMade
  <2>5. net' = net \cup {q} /\ UNCHANGED db /\ ui' = Manager!Mixing(u, net)
    BY <1>2, <2>1 DEF Manager!HandleCreatePrompt, a
  <2> HIDE DEF q
  <2>6. u \in ManagerUi /\ SameList(ui, u) /\ SameForm(ui, u) /\ u.mixed = ui.mixed
    BY <1>1 DEF ManagerUi, EditedUi, SameList, SameForm
  <2> HIDE DEF u
  <2> QED BY <2>4, <2>5, <2>6, ManagerAsks
<1>3. ASSUME NEW t \in Things, Manager!HandleSavePrompt(t)
      PROVE  ManagerInv'
  <2> DEFINE u == [ui EXCEPT !.saving = t]
  <2>1. /\ ui.items[t] # None /\ ui.editing = t /\ ui.form.content # None
        /\ UNCHANGED db /\ ui' = Manager!Mixing(u, net)
        /\ net' = net \cup {Manager!Request("update", t,
             [ui.form EXCEPT !.content.global =
                IF db.admin THEN @ ELSE ui.items[t].global])}
    BY <1>3 DEF Manager!HandleSavePrompt, Manager!Edited, Manager!Listed
  <2>2. /\ ui.items[t] \in Manager!Contents /\ ui.form.content \in Manager!Contents
        /\ ui.form \in [of : Things \cup {None}, content : Manager!Contents \cup {None}]
        /\ ui.form.of = t
    BY <1>1, <2>1 DEF ManagerInv, ManagerUi, EditedUi
  <2>3. PICK g \in BOOLEAN :
          g = IF db.admin THEN ui.form.content.global ELSE ui.items[t].global
    BY <2>2 DEF Manager!Contents
  <2> DEFINE c == [ui.form.content EXCEPT !.global = g]
             a == [ui.form EXCEPT !.content = c]
             q == Manager!Request("update", t, a)
  <2>4. c \in Manager!Contents
    BY <2>2, <2>3 DEF Manager!Contents
  <2>5. a = [ui.form EXCEPT !.content.global =
               IF db.admin THEN @ ELSE ui.items[t].global]
    BY <2>2, <2>3 DEF Manager!Contents
  <2> HIDE DEF c
  <2>6. a \in Payloads /\ a.of = t
    BY <2>2, <2>4 DEF Payloads
  <2>7. net' = net \cup {q}
    BY <2>1, <2>5
  <2> HIDE DEF a
  <2>8. q \in ManagerRequest /\ ManagerWellMade(q) /\ q.step = "sent"
    BY <2>6 DEF Manager!Request, ManagerRequest, Requests, Steps, EditKinds,
                ManagerWellMade
  <2> HIDE DEF q
  <2>9. u \in ManagerUi /\ SameList(ui, u) /\ SameForm(ui, u) /\ u.mixed = ui.mixed
    BY <1>1 DEF ManagerUi, EditedUi, SameList, SameForm
  <2> HIDE DEF u
  <2> QED BY <2>1, <2>7, <2>8, <2>9, ManagerAsks
<1>4. ASSUME NEW t \in Things, Manager!HandleDeletePrompt(t)
      PROVE  ManagerInv'
  <2> DEFINE u == [ui EXCEPT !.deleting = t]
             q == Manager!Request("delete", t, ui.editing)
  <2>1. UNCHANGED db /\ ui' = Manager!Mixing(u, net) /\ net' = net \cup {q}
    BY <1>4 DEF Manager!HandleDeletePrompt
  <2>2. ui.editing \in Things \cup {None}
    BY <1>1 DEF ManagerUi, EditedUi
  <2>3. q \in ManagerRequest /\ ManagerWellMade(q) /\ q.step = "sent"
    BY <2>2 DEF Manager!Request, ManagerRequest, Requests, Steps, EditKinds,
                ManagerWellMade
  <2> HIDE DEF q
  <2>4. u \in ManagerUi /\ SameList(ui, u) /\ SameForm(ui, u) /\ u.mixed = ui.mixed
    BY <1>1 DEF ManagerUi, EditedUi, SameList, SameForm
  <2> HIDE DEF u
  <2> QED BY <2>1, <2>3, <2>4, ManagerAsks
<1> QED BY <1>2, <1>3, <1>4

\* What Freed makes of a page.
LEMMA ManagerFreed ==
  ASSUME NEW u \in ManagerUi, NEW by, NEW v, v = Manager!Freed(u, by)
  PROVE  v \in ManagerUi /\ SameList(u, v) /\ v.mixed = u.mixed /\ SameForm(u, v)
<1>1. \/ v = u
      \/ v = [u EXCEPT !.creating = FALSE]
      \/ v = [u EXCEPT !.saving = None]
      \/ v = [u EXCEPT !.deleting = None]
  BY DEF Manager!Freed
<1> QED BY <1>1, FreedUi DEF ManagerUi

\* The list is shown, or what waited for it gives up.
LEMMA ManagerShown ==
  ASSUME ManagerInv, NEW r \in net, Manager!ListShown(r) \/ Manager!GivenUp(r)
  PROVE  ManagerInv'
<1>1. /\ UNCHANGED db /\ net' = net \ {r} /\ ui \in ManagerUi
      /\ RowsFor(db)' = RowsFor(db) /\ ManagerNetOK(net') /\ ManagerWellMade(r)
  BY DEF ManagerInv, ManagerNetOK, Manager!ListShown, Manager!GivenUp, RowsFor
<1>2. ASSUME NEW u \in ManagerUi, SameForm(ui, u), NEW by, ui' = Manager!Freed(u, by),
             u.mixed = ui.mixed,
             ListSettled(u, net', RowsFor(db))
      PROVE  ManagerInv'
  <2>1. ui' \in ManagerUi /\ SameList(u, ui') /\ ui'.mixed = u.mixed /\ SameForm(u, ui')
    BY <1>2, ManagerFreed
  <2>2. ListSettled(ui', net', RowsFor(db))
    BY <1>2, <2>1, SettledStays
  <2>3. ui'.form.of = ui'.editing
    BY <1>2, <2>1 DEF SameForm, ManagerInv
  <2> QED BY <1>1, <2>1, <2>2, <2>3 DEF ManagerInv
<1>3. CASE Manager!Answered(r, "list")
           /\ ui' = Manager!Freed([ui EXCEPT !.items = r.answer, !.loading = FALSE,
                                             !.missed = FALSE], r.on)
  <2> DEFINE u == [ui EXCEPT !.items = r.answer, !.loading = FALSE, !.missed = FALSE]
  <2>1. r.answer \in Rows
    BY <1>1, <1>3 DEF ManagerWellMade
  <2>2. u \in ManagerUi /\ SameForm(ui, u) /\ u.mixed = ui.mixed /\ u.items = r.answer
    BY <1>1, <2>1 DEF ManagerUi, EditedUi, SameForm, Rows
  <2>3. ui' = Manager!Freed(u, r.on)
    BY <1>3
  <2> HIDE DEF u
  <2>4. ListSettled(u, net', RowsFor(db))
    BY <1>1, <1>3, <2>2, SettledShown DEF ManagerInv
  <2> QED BY <1>2, <2>2, <2>3, <2>4
<1>4. CASE Manager!Refused(r, "list")
           /\ ui' = Manager!Freed([ui EXCEPT !.loading = FALSE, !.missed = TRUE], r.on)
  <2> DEFINE u == [ui EXCEPT !.loading = FALSE, !.missed = TRUE]
  <2>1. u \in ManagerUi /\ SameForm(ui, u) /\ u.mixed = ui.mixed /\ u.missed
    BY <1>1 DEF ManagerUi, EditedUi, SameForm
  <2>2. ui' = Manager!Freed(u, r.on)
    BY <1>4
  <2> HIDE DEF u
  <2>3. ListSettled(u, net', RowsFor(db))
    BY <1>1, <1>4, <2>1, SettledShown DEF ManagerInv
  <2> QED BY <1>2, <2>1, <2>2, <2>3
<1>5. CASE Manager!GivenUp(r)
  <2>1. r.step = "failed" /\ r.kind \in EditKinds \ {"list"}
        /\ ui' = Manager!Freed(ui, r.kind)
    BY <1>5 DEF Manager!GivenUp, EditKinds
  <2>2. SameList(ui, ui) /\ SameForm(ui, ui)
    BY DEF SameList, SameForm
  <2>3. ListSettled(ui, net', RowsFor(db))
    BY <1>1, <2>1, <2>2, SettledGivenUp DEF ManagerInv
  <2> QED BY <1>1, <1>2, <2>1, <2>2, <2>3
<1> QED BY <1>3, <1>4, <1>5 DEF Manager!ListShown

\* A change is followed by the list.
LEMMA ManagerChanged ==
  ASSUME ManagerInv, NEW r \in net,
         Manager!PromptCreated(r) \/ Manager!PromptSaved(r) \/ Manager!PromptDeleted(r)
  PROVE  ManagerInv'
<1>1. ui \in ManagerUi /\ r \in ManagerRequest /\ ManagerWellMade(r)
  BY DEF ManagerInv, ManagerNetOK
<1>2. ASSUME NEW u \in ManagerUi, u.mixed = ui.mixed, u.form.of = u.editing,
             Manager!ThenList(r, u), r.kind \in EditKinds, r.kind # "list"
      PROVE  ManagerInv'
  <2> DEFINE w == Manager!Fetching(u)
             q == Manager!GetList(r.kind, r.on)
  <2>1. ui' = Manager!Mixing(w, net \ {r}) /\ net' = (net \ {r}) \cup {q} /\ UNCHANGED db
    BY <1>2 DEF Manager!ThenList
  <2>2. w \in ManagerUi /\ w.mixed = u.mixed /\ SameForm(u, w)
    BY <1>2 DEF Manager!Fetching, ManagerUi, EditedUi, SameForm
  <2> HIDE DEF w
  <2>3. /\ ui' \in ManagerUi /\ SameForm(w, ui')
        /\ ~ui'.mixed => ~w.mixed /\ \A o \in net \ {r} : o.kind \notin EditKinds
    <3>1. net \ {r} \subseteq net
      OBVIOUS
    <3> QED BY <2>1, <2>2, <3>1, ManagerMixing
  <2>4. r.on \in Things \cup {None}
    BY <1>1, <1>2 DEF ManagerWellMade
  <2>5. q \in ManagerRequest /\ ManagerWellMade(q) /\ q.kind = "list" /\ q.step = "sent"
    <3>1. q = [kind |-> "list", on |-> r.kind, arg |-> r.on, step |-> "sent",
               answer |-> None]
      BY DEF Manager!GetList, Manager!Request
    <3> HIDE DEF q
    <3> QED BY <1>2, <2>4, <3>1 DEF ManagerRequest, Requests, Steps, EditKinds,
                                    ManagerWellMade
  <2> HIDE DEF q
  <2>6. ListSettled(ui', net', RowsFor(db))
    BY <1>2, <2>1, <2>2, <2>3, <2>5, SettledThenList DEF ManagerInv
  <2>7. ManagerNetOK(net')
    BY <2>1, <2>5 DEF ManagerInv, ManagerNetOK
  <2>8. ui'.form.of = ui'.editing
    BY <1>2, <2>2, <2>3 DEF SameForm
  <2>9. RowsFor(db)' = RowsFor(db)
    BY <2>1 DEF RowsFor
  <2> QED BY <2>1, <2>3, <2>6, <2>7, <2>8, <2>9 DEF ManagerInv
<1>3. ui.form.of = ui.editing
  BY DEF ManagerInv
<1> DEFINE c == Manager!FormClosed(ui)
<1>4. c \in ManagerUi /\ c.mixed = ui.mixed /\ c.form.of = c.editing
  BY <1>1 DEF Manager!FormClosed, Manager!NoForm, ManagerUi, EditedUi
<1> HIDE DEF c
<1>5. CASE Manager!PromptCreated(r)
  BY <1>1, <1>2, <1>3, <1>5 DEF Manager!PromptCreated, EditKinds
<1>6. CASE Manager!PromptSaved(r)
  BY <1>2, <1>4, <1>6 DEF Manager!PromptSaved, EditKinds, c
<1>7. CASE Manager!PromptDeleted(r)
  <2>1. Manager!ThenList(r, c) \/ Manager!ThenList(r, ui)
    BY <1>7 DEF Manager!PromptDeleted, c
  <2> QED BY <1>1, <1>2, <1>3, <1>4, <1>7, <2>1 DEF Manager!PromptDeleted, EditKinds
<1> QED BY <1>5, <1>6, <1>7

LEMMA ManagerStep ==
  ASSUME ManagerInv, Manager!ManagerNext
  PROVE  ManagerInv'
BY ManagerServedStep, ManagerForms, ManagerButtons, ManagerShown, ManagerChanged
   DEF Manager!ManagerNext

LEMMA ManagerInitial ==
  ASSUME Manager!ManagerInit
  PROVE  ManagerInv
<1>1. ui \in ManagerUi /\ ~ui.mixed /\ ui.form.of = ui.editing
  BY DEF Manager!ManagerInit, Manager!EmptyList, Manager!NoForm, ManagerUi, EditedUi
<1>2. Manager!FirstText \in Names
  BY PagesAssumption DEF Manager!FirstText
<1>3. db \in ManagerDb
  <2>1. [text : {Manager!FirstText}, global : BOOLEAN, own : BOOLEAN]
          \subseteq Manager!Contents
    BY <1>2 DEF Manager!Contents
  <2>2. db \in [rows : [Things -> {None} \cup [text : {Manager!FirstText},
                                                global : BOOLEAN, own : BOOLEAN]],
                admin : BOOLEAN]
    BY DEF Manager!ManagerInit
  <2> QED BY <2>1, <2>2 DEF ManagerDb, Rows
<1> DEFINE q == Manager!GetList("page", None)
<1>4. q \in ManagerRequest /\ ManagerWellMade(q) /\ q.kind = "list" /\ q.step = "sent"
  <2>1. q = [kind |-> "list", on |-> "page", arg |-> None, step |-> "sent",
             answer |-> None]
    BY DEF Manager!GetList, Manager!Request
  <2> HIDE DEF q
  <2> QED BY <2>1 DEF ManagerRequest, Requests, Steps, EditKinds, ManagerWellMade
<1>5. net = {q}
  BY DEF Manager!ManagerInit
<1> HIDE DEF q
<1>6. ListSettled(ui, net, RowsFor(db))
  BY <1>4, <1>5 DEF ListSettled, EditKinds
<1> QED BY <1>1, <1>3, <1>4, <1>5, <1>6 DEF ManagerInv, ManagerNetOK

ManagerPageInv == page = "manager" => ManagerInv

LEMMA ManagerHolds ==
  /\ Init => ManagerPageInv
  /\ ManagerPageInv /\ [Next]_vars => ManagerPageInv'
<1>1. Init => ManagerPageInv
  BY ManagerInitial DEF Init, ManagerPageInv
<1>2. ASSUME ManagerInv, UNCHANGED <<ui, net, db>>
      PROVE  ManagerInv'
  BY <1>2 DEF ManagerInv, RowsFor
<1>3. ManagerPageInv /\ [Next]_vars => ManagerPageInv'
  BY <1>2, ManagerStep DEF ManagerPageInv, Next, vars, pageVars
<1> QED BY <1>1, <1>3

\* What is sent for a prompt was edited in the form opened for it
\* (handleSavePrompt), for any prompts and texts and however saves, deletes and
\* other forms overlap.
THEOREM FormsStayOwn == Spec => []PromptFormsAreOwn
<1>1. ManagerPageInv => PromptFormsAreOwn
  BY DEF ManagerPageInv, ManagerInv, ManagerNetOK, ManagerWellMade, PromptFormsAreOwn,
         Manager!PromptFormsAreOwn, Manager!FormsAreOwn, Manager!InFlight
<1> QED BY <1>1, ManagerHolds, PTL DEF Spec

-----------------------------------------------------------------------------
(* The purposes of sessions, a list of the same kind.                      *)

\* A purpose as it is stored: sanitized and filled.
StoredPurpose == [hours : {0, 1}, filled : {TRUE}]

PurposesUi == EditedUi(Purposes!Purposes, {"loading", "there", "failed"})

PurposeRows == [Things -> StoredPurpose \cup {None}]

PurposePayloads == [of : Things \cup {None}, content : StoredPurpose]

PurposesRequest ==
  Requests(EditKinds \cup {"options"}, Things \cup {None, "page", "user"} \cup EditKinds,
           Things \cup {None} \cup PurposePayloads, {None} \cup PurposeRows)

\* What a request of each kind is about and answered with.
PurposeWellMade(r) ==
  /\ r.kind \in {"create", "update"} => r.arg \in PurposePayloads
  /\ r.kind \in {"update", "delete"} => r.on \in Things
  /\ r.kind \in EditKinds \ {"list"} => r.on \in Things \cup {None}
  /\ r.kind = "list" /\ r.step = "ok" => r.answer \in PurposeRows

PurposesNetOK(n) == n \subseteq PurposesRequest /\ \A r \in n : PurposeWellMade(r)

PurposesInv ==
  /\ ui \in PurposesUi /\ db \in PurposeRows /\ PurposesNetOK(net)
  /\ ListSettled(ui, net, db)

USE DEF Purposes!Sent, Purposes!Answered, Purposes!Refused, Purposes!Others, Purposes!Act

\* What is stored can be edited.
LEMMA StoredIsPurpose == StoredPurpose \subseteq Purposes!Purposes
<1>1. {0, 1} \subseteq Purposes!Hours
  BY DEF Purposes!Hours
<1>2. {TRUE} \subseteq BOOLEAN
  OBVIOUS
<1> QED BY <1>1, <1>2 DEF StoredPurpose, Purposes!Purposes

\* What is typed is sanitized before it is sent.
LEMMA PayloadIsStored ==
  ASSUME NEW form \in [of : Things \cup {None},
                       content : Purposes!Purposes \cup {None}],
         form.content # None
  PROVE  Purposes!ToPayload(form) \in PurposePayloads
<1>1. form.content \in Purposes!Purposes
  OBVIOUS
<1>2. form.content.hours \in Purposes!Hours
  BY <1>1 DEF Purposes!Purposes
<1> DEFINE h == Purposes!SanitizeHours(form.content.hours)
           c == [hours |-> h, filled |-> TRUE]
<1>3. h \in {0, 1}
  BY <1>2 DEF Purposes!SanitizeHours, Purposes!Hours
<1> HIDE DEF h
<1>4. c \in StoredPurpose
  BY <1>3 DEF StoredPurpose
<1>5. Purposes!ToPayload(form) = [form EXCEPT !.content = c]
  BY DEF Purposes!ToPayload, h
<1> HIDE DEF c
<1> QED BY <1>4, <1>5 DEF PurposePayloads

LEMMA PurposesMixing ==
  ASSUME NEW u \in PurposesUi, NEW others, others \subseteq net, NEW v,
         v = Purposes!Mixing(u, others)
  PROVE  /\ v \in PurposesUi /\ SameList(u, v)
         /\ ~v.mixed => ~u.mixed /\ \A r \in others : r.kind \notin EditKinds
<1>1. PICK b \in BOOLEAN :
        b = (u.mixed \/ others \cap Purposes!InFlight(Purposes!ListKinds) # {})
  OBVIOUS
<1>2. v = [u EXCEPT !.mixed = b]
  BY <1>1 DEF Purposes!Mixing
<1>3. v \in PurposesUi /\ SameList(u, v) /\ v.mixed = b
  BY <1>2, MixingUi DEF PurposesUi
<1>4. ASSUME ~b, NEW r \in others, r.kind \in EditKinds
      PROVE  FALSE
  BY <1>1, <1>4 DEF Purposes!InFlight, Purposes!ListKinds, EditKinds
<1> QED BY <1>1, <1>3, <1>4

LEMMA PurposesServedStep ==
  ASSUME PurposesInv, NEW r \in net, Purposes!PurposesServed(r)
  PROVE  PurposesInv'
<1>1. /\ UNCHANGED ui /\ r \in PurposesRequest /\ PurposeWellMade(r) /\ db \in PurposeRows
      /\ r.step = "sent"
  BY DEF PurposesInv, PurposesNetOK, Purposes!PurposesServed
<1>2. ASSUME NEW q \in PurposesRequest, net' = (net \ {r}) \cup {q},
             q.kind = r.kind, q.on = r.on, q.arg = r.arg, db' \in PurposeRows,
             q.kind = "list" /\ q.step = "ok" => q.answer = db /\ db' = db,
             db' # db => q.step = "ok" /\ q.kind \in EditKinds \ {"list"}
      PROVE  PurposesInv'
  <2>1. PurposeWellMade(q)
    BY <1>1, <1>2 DEF PurposeWellMade
  <2>2. ListSettled(ui, net', db')
    <3>1. q.kind = "list" /\ q.step = "ok" => q.answer = db'
      BY <1>2
    <3> QED BY <1>1, <1>2, <3>1, SettledServed DEF PurposesInv
  <2>3. PurposesNetOK(net')
    BY <1>2, <2>1 DEF PurposesInv, PurposesNetOK
  <2> QED BY <1>1, <1>2, <2>2, <2>3 DEF PurposesInv
<1>3. ASSUME NEW a \in {None} \cup PurposeRows, Purposes!Answer(r, a),
             db' \in PurposeRows,
             r.kind = "list" => a = db, r.kind \in {"list", "options"} => db' = db
      PROVE  PurposesInv'
  <2> DEFINE q == [r EXCEPT !.step = "ok", !.answer = a]
  <2>1. net' = (net \ {r}) \cup {q}
    BY <1>3 DEF Purposes!Answer
  <2>2. /\ q \in PurposesRequest /\ q.kind = r.kind /\ q.on = r.on /\ q.arg = r.arg
        /\ q.step = "ok" /\ q.answer = a /\ q.kind \in EditKinds \cup {"options"}
    BY <1>1, <1>3 DEF PurposesRequest, Requests, Steps
  <2> HIDE DEF q
  <2>3. db' # db => q.kind \in EditKinds \ {"list"}
    BY <1>3, <2>2
  <2> QED BY <1>2, <1>3, <2>1, <2>2, <2>3
<1>4. CASE r.kind = "list" /\ Purposes!Answer(r, db) /\ UNCHANGED db
  BY <1>1, <1>3, <1>4
<1>5. CASE r.kind = "options" /\ Purposes!Answer(r, None) /\ UNCHANGED db
  BY <1>1, <1>3, <1>5
<1>6. CASE Purposes!Refuse(r) /\ UNCHANGED db
  <2> DEFINE q == [r EXCEPT !.step = "failed"]
  <2>1. net' = (net \ {r}) \cup {q}
    BY <1>6 DEF Purposes!Refuse
  <2>2. /\ q \in PurposesRequest /\ q.kind = r.kind /\ q.on = r.on /\ q.arg = r.arg
        /\ q.step = "failed"
    BY <1>1, Declined DEF PurposesRequest
  <2> HIDE DEF q
  <2> QED BY <1>1, <1>2, <1>6, <2>1, <2>2
<1>7. ASSUME NEW t \in Things, NEW row \in StoredPurpose \cup {None},
             db' = [db EXCEPT ![t] = row], r.kind \notin {"list", "options"},
             Purposes!Answer(r, None)
      PROVE  PurposesInv'
  <2>1. db' \in PurposeRows
    BY <1>1, <1>7 DEF PurposeRows
  <2> QED BY <1>3, <1>7, <2>1
<1>8. ASSUME r.kind \in {"create", "update"}
      PROVE  r.arg.content \in StoredPurpose
  BY <1>1, <1>8 DEF PurposeWellMade, PurposePayloads
<1>9. CASE /\ r.kind = "create"
           /\ \E t \in Things : db[t] = None /\ db' = [db EXCEPT ![t] = r.arg.content]
           /\ Purposes!Answer(r, None)
  BY <1>7, <1>8, <1>9
<1>10. CASE /\ r.kind = "update" /\ db' = [db EXCEPT ![r.on] = r.arg.content]
            /\ Purposes!Answer(r, None)
  BY <1>1, <1>7, <1>8, <1>10 DEF PurposeWellMade
<1>11. CASE /\ r.kind = "delete" /\ db' = [db EXCEPT ![r.on] = None]
            /\ Purposes!Answer(r, None)
  BY <1>1, <1>7, <1>11 DEF PurposeWellMade
<1> QED BY <1>4, <1>5, <1>6, <1>9, <1>10, <1>11 DEF Purposes!PurposesServed

LEMMA PurposesForms ==
  ASSUME PurposesInv, NEW t \in Things,
         \/ Purposes!BeginEditPurpose(t) \/ Purposes!CancelEditPurpose(t)
         \/ \E content \in Purposes!Purposes : Purposes!SetEditForm(t, content)
  PROVE  PurposesInv'
<1>1. UNCHANGED <<net, db>> /\ ui \in PurposesUi /\ db \in PurposeRows
  BY DEF PurposesInv, Purposes!BeginEditPurpose, Purposes!CancelEditPurpose,
         Purposes!SetEditForm
<1>2. ASSUME ui' \in PurposesUi, SameList(ui, ui'), ui'.mixed = ui.mixed
      PROVE  PurposesInv'
  <2>1. ListSettled(ui', net, db)
    BY <1>2, SettledStays DEF PurposesInv
  <2> QED BY <1>1, <1>2, <2>1 DEF PurposesInv
<1>3. CASE Purposes!BeginEditPurpose(t)
  <2>1. ui' = [ui EXCEPT !.editing = t, !.form = [of |-> t, content |-> ui.items[t]]]
    BY <1>3 DEF Purposes!BeginEditPurpose
  <2>2. ui' \in PurposesUi /\ SameList(ui, ui') /\ ui'.mixed = ui.mixed
    BY <1>1, <2>1 DEF PurposesUi, EditedUi, SameList
  <2> QED BY <1>2, <2>2
<1>4. CASE Purposes!CancelEditPurpose(t)
  <2>1. ui' = [ui EXCEPT !.editing = None, !.form = [of |-> None, content |-> None]]
    BY <1>4 DEF Purposes!CancelEditPurpose, Purposes!FormClosed, Purposes!NoForm
  <2>2. ui' \in PurposesUi /\ SameList(ui, ui') /\ ui'.mixed = ui.mixed
    BY <1>1, <2>1 DEF PurposesUi, EditedUi, SameList
  <2> QED BY <1>2, <2>2
<1>5. ASSUME NEW content \in Purposes!Purposes, Purposes!SetEditForm(t, content)
      PROVE  PurposesInv'
  <2>1. ui' = [ui EXCEPT !.form.content = content]
    BY <1>5 DEF Purposes!SetEditForm
  <2>2. ui' \in PurposesUi /\ SameList(ui, ui') /\ ui'.mixed = ui.mixed
    BY <1>1, <2>1 DEF PurposesUi, EditedUi, SameList
  <2> QED BY <1>2, <2>2
<1> QED BY <1>3, <1>4, <1>5

LEMMA PurposesAsk ==
  ASSUME PurposesInv, NEW u \in PurposesUi, SameList(ui, u),
         u.mixed = ui.mixed, UNCHANGED db, ui' = Purposes!Mixing(u, net),
         NEW q \in PurposesRequest, PurposeWellMade(q), q.step = "sent",
         net' = net \cup {q}
  PROVE  PurposesInv'
<1>1. /\ ui' \in PurposesUi /\ SameList(u, ui')
      /\ ~ui'.mixed => ~u.mixed /\ \A r \in net : r.kind \notin EditKinds
  BY PurposesMixing
<1>2. SameList(ui, ui')
  BY <1>1 DEF SameList
<1>3. ListSettled(ui', net', db)
  BY <1>1, <1>2, SettledAsked DEF PurposesInv
<1>4. PurposesNetOK(net')
  BY DEF PurposesInv, PurposesNetOK
<1> QED BY <1>1, <1>3, <1>4 DEF PurposesInv

LEMMA PurposesButtons ==
  ASSUME PurposesInv,
         \/ Purposes!RefreshPurposeList \/ Purposes!CreatePurpose
         \/ \E t \in Things : Purposes!UpdatePurpose(t) \/ Purposes!DeletePurpose(t)
  PROVE  PurposesInv'
<1>1. ui \in PurposesUi /\ ui.editing \in Things \cup {None}
      /\ ui.form \in [of : Things \cup {None}, content : Purposes!Purposes \cup {None}]
  BY DEF PurposesInv, PurposesUi, EditedUi
<1>2. CASE Purposes!RefreshPurposeList
  <2> DEFINE u == Purposes!Fetching(ui)
             q == Purposes!GetList("user", None)
  <2>1. UNCHANGED db /\ ui' = Purposes!Mixing(u, net) /\ net' = net \cup {q}
    BY <1>2 DEF Purposes!RefreshPurposeList
  <2>2. q \in PurposesRequest /\ PurposeWellMade(q) /\ q.step = "sent"
    BY DEF Purposes!GetList, Purposes!Request, PurposesRequest, Requests, Steps,
           EditKinds, PurposeWellMade
  <2> HIDE DEF q
  <2>3. u \in PurposesUi /\ SameList(ui, u) /\ u.mixed = ui.mixed
    BY <1>1 DEF Purposes!Fetching, PurposesUi, EditedUi, SameList
  <2> HIDE DEF u
  <2> QED BY <2>1, <2>2, <2>3, PurposesAsk
<1>3. CASE Purposes!CreatePurpose
  <2> DEFINE u == [ui EXCEPT !.creating = TRUE]
             f == [of |-> None, content |-> [hours |-> 0, filled |-> TRUE]]
             a == Purposes!ToPayload(f)
             q == Purposes!Request("create", None, a)
  <2>1. UNCHANGED db /\ ui' = Purposes!Mixing(u, net) /\ net' = net \cup {q}
    BY <1>3 DEF Purposes!CreatePurpose
  <2>2. a \in PurposePayloads
    BY DEF Purposes!ToPayload, Purposes!SanitizeHours, PurposePayloads, StoredPurpose
  <2> HIDE DEF a
  <2>3. q \in PurposesRequest /\ PurposeWellMade(q) /\ q.step = "sent"
    BY <2>2 DEF Purposes!Request, PurposesRequest, Requests, Steps, EditKinds,
                PurposeWellMade
  <2> HIDE DEF q
  <2>4. u \in PurposesUi /\ SameList(ui, u) /\ u.mixed = ui.mixed
    BY <1>1 DEF PurposesUi, EditedUi, SameList
  <2> HIDE DEF u
  <2> QED BY <2>1, <2>3, <2>4, PurposesAsk
<1>4. ASSUME NEW t \in Things, Purposes!UpdatePurpose(t)
      PROVE  PurposesInv'
  <2> DEFINE u == [ui EXCEPT !.saving = t]
             a == Purposes!ToPayload(ui.form)
             q == Purposes!Request("update", t, a)
  <2>1. /\ UNCHANGED db /\ ui' = Purposes!Mixing(u, net) /\ net' = net \cup {q}
        /\ ui.form.content # None
    BY <1>4 DEF Purposes!UpdatePurpose
  <2>2. a \in PurposePayloads
    BY <1>1, <2>1, PayloadIsStored
  <2> HIDE DEF a
  <2>3. q \in PurposesRequest /\ PurposeWellMade(q) /\ q.step = "sent"
    BY <2>2 DEF Purposes!Request, PurposesRequest, Requests, Steps, EditKinds,
                PurposeWellMade
  <2> HIDE DEF q
  <2>4. u \in PurposesUi /\ SameList(ui, u) /\ u.mixed = ui.mixed
    BY <1>1 DEF PurposesUi, EditedUi, SameList
  <2> HIDE DEF u
  <2> QED BY <2>1, <2>3, <2>4, PurposesAsk
<1>5. ASSUME NEW t \in Things, Purposes!DeletePurpose(t)
      PROVE  PurposesInv'
  <2> DEFINE u == [ui EXCEPT !.deleting = t]
             q == Purposes!Request("delete", t, ui.editing)
  <2>1. UNCHANGED db /\ ui' = Purposes!Mixing(u, net) /\ net' = net \cup {q}
    BY <1>5 DEF Purposes!DeletePurpose
  <2>2. q \in PurposesRequest /\ PurposeWellMade(q) /\ q.step = "sent"
    BY <1>1 DEF Purposes!Request, PurposesRequest, Requests, Steps, EditKinds,
                PurposeWellMade
  <2> HIDE DEF q
  <2>3. u \in PurposesUi /\ SameList(ui, u) /\ u.mixed = ui.mixed
    BY <1>1 DEF PurposesUi, EditedUi, SameList
  <2> HIDE DEF u
  <2> QED BY <2>1, <2>2, <2>3, PurposesAsk
<1> QED BY <1>2, <1>3, <1>4, <1>5

\* What Freed makes of a page.
LEMMA PurposesFreed ==
  ASSUME NEW u \in PurposesUi, NEW by, NEW v, v = Purposes!Freed(u, by)
  PROVE  v \in PurposesUi /\ SameList(u, v) /\ v.mixed = u.mixed
<1>1. \/ v = u
      \/ v = [u EXCEPT !.creating = FALSE]
      \/ v = [u EXCEPT !.saving = None]
      \/ v = [u EXCEPT !.deleting = None]
  BY DEF Purposes!Freed
<1> QED BY <1>1, FreedUi DEF PurposesUi

LEMMA PurposesShown ==
  ASSUME PurposesInv, NEW r \in net,
         \/ Purposes!ListShown(r) \/ Purposes!GivenUp(r) \/ Purposes!PromptOptionsLoaded(r)
  PROVE  PurposesInv'
<1>1. /\ UNCHANGED db /\ net' = net \ {r} /\ ui \in PurposesUi /\ db \in PurposeRows
      /\ PurposesNetOK(net') /\ PurposeWellMade(r)
  BY DEF PurposesInv, PurposesNetOK, Purposes!ListShown, Purposes!GivenUp,
         Purposes!PromptOptionsLoaded
<1>2. ASSUME NEW u \in PurposesUi, NEW by, ui' = Purposes!Freed(u, by),
             ListSettled(u, net', db)
      PROVE  PurposesInv'
  <2>1. ui' \in PurposesUi /\ SameList(u, ui') /\ ui'.mixed = u.mixed
    BY <1>2, PurposesFreed
  <2>2. ListSettled(ui', net', db)
    BY <1>2, <2>1, SettledStays
  <2> QED BY <1>1, <2>1, <2>2 DEF PurposesInv
<1>3. CASE Purposes!Answered(r, "list")
           /\ ui' = Purposes!Freed([ui EXCEPT !.items = r.answer, !.loading = FALSE,
                                              !.missed = FALSE], r.on)
  <2> DEFINE u == [ui EXCEPT !.items = r.answer, !.loading = FALSE, !.missed = FALSE]
  <2>1. r.answer \in [Things -> Purposes!Purposes \cup {None}]
    <3>1. r.answer \in PurposeRows
      BY <1>1, <1>3 DEF PurposeWellMade
    <3> QED BY <3>1, StoredIsPurpose DEF PurposeRows
  <2>2. u \in PurposesUi /\ u.mixed = ui.mixed /\ u.items = r.answer
    BY <1>1, <2>1 DEF PurposesUi, EditedUi
  <2>3. ui' = Purposes!Freed(u, r.on)
    BY <1>3
  <2> HIDE DEF u
  <2>4. ListSettled(u, net', db)
    BY <1>1, <1>3, <2>2, SettledShown DEF PurposesInv
  <2> QED BY <1>2, <2>2, <2>3, <2>4
<1>4. CASE Purposes!Refused(r, "list")
           /\ ui' = Purposes!Freed([ui EXCEPT !.loading = FALSE, !.missed = TRUE], r.on)
  <2> DEFINE u == [ui EXCEPT !.loading = FALSE, !.missed = TRUE]
  <2>1. u \in PurposesUi /\ u.mixed = ui.mixed /\ u.missed
    BY <1>1 DEF PurposesUi, EditedUi
  <2>2. ui' = Purposes!Freed(u, r.on)
    BY <1>4
  <2> HIDE DEF u
  <2>3. ListSettled(u, net', db)
    BY <1>1, <1>4, <2>1, SettledShown DEF PurposesInv
  <2> QED BY <1>2, <2>1, <2>2, <2>3
<1>5. CASE Purposes!GivenUp(r)
  <2>1. r.step = "failed" /\ r.kind \in EditKinds \ {"list"}
        /\ ui' = Purposes!Freed(ui, r.kind)
    BY <1>5 DEF Purposes!GivenUp, EditKinds
  <2>2. SameList(ui, ui)
    BY DEF SameList
  <2>3. ListSettled(ui, net', db)
    BY <1>1, <2>1, <2>2, SettledGivenUp DEF PurposesInv
  <2> QED BY <1>1, <1>2, <2>1, <2>3
<1>6. CASE Purposes!PromptOptionsLoaded(r)
  <2>1. PICK o \in {"there", "failed"} : ui' = [ui EXCEPT !.options = o]
    BY <1>6 DEF Purposes!PromptOptionsLoaded
  <2>2. ui' \in PurposesUi /\ SameList(ui, ui') /\ ui'.mixed = ui.mixed
    BY <1>1, <2>1 DEF PurposesUi, EditedUi, SameList
  <2>3. ListSettled(ui, net', db)
    <3>1. r.kind \notin EditKinds
      BY <1>6 DEF Purposes!PromptOptionsLoaded, EditKinds
    <3> QED BY <1>1, <3>1 DEF PurposesInv, ListSettled
  <2>4. ListSettled(ui', net', db)
    BY <2>2, <2>3, SettledStays
  <2> QED BY <1>1, <2>2, <2>4 DEF PurposesInv
<1> QED BY <1>3, <1>4, <1>5, <1>6 DEF Purposes!ListShown

LEMMA PurposesChanged ==
  ASSUME PurposesInv, NEW r \in net,
         \/ Purposes!PurposeCreated(r) \/ Purposes!PurposeUpdated(r)
         \/ Purposes!PurposeDeleted(r)
  PROVE  PurposesInv'
<1>1. ui \in PurposesUi /\ r \in PurposesRequest /\ PurposeWellMade(r)
  BY DEF PurposesInv, PurposesNetOK
<1>2. ASSUME NEW u \in PurposesUi, u.mixed = ui.mixed,
             Purposes!ThenList(r, u), r.kind \in EditKinds, r.kind # "list"
      PROVE  PurposesInv'
  <2> DEFINE w == Purposes!Fetching(u)
             q == Purposes!GetList(r.kind, r.on)
  <2>1. ui' = Purposes!Mixing(w, net \ {r}) /\ net' = (net \ {r}) \cup {q} /\ UNCHANGED db
    BY <1>2 DEF Purposes!ThenList
  <2>2. w \in PurposesUi /\ w.mixed = u.mixed
    BY <1>2 DEF Purposes!Fetching, PurposesUi, EditedUi
  <2> HIDE DEF w
  <2>3. /\ ui' \in PurposesUi
        /\ ~ui'.mixed => ~w.mixed /\ \A o \in net \ {r} : o.kind \notin EditKinds
    <3>1. net \ {r} \subseteq net
      OBVIOUS
    <3> QED BY <2>1, <2>2, <3>1, PurposesMixing
  <2>4. r.on \in Things \cup {None}
    BY <1>1, <1>2 DEF PurposeWellMade
  <2>5. q \in PurposesRequest /\ PurposeWellMade(q) /\ q.kind = "list" /\ q.step = "sent"
    <3>1. q = [kind |-> "list", on |-> r.kind, arg |-> r.on, step |-> "sent",
               answer |-> None]
      BY DEF Purposes!GetList, Purposes!Request
    <3> HIDE DEF q
    <3> QED BY <1>2, <2>4, <3>1 DEF PurposesRequest, Requests, Steps, EditKinds,
                                    PurposeWellMade
  <2> HIDE DEF q
  <2>6. ListSettled(ui', net', db)
    BY <1>2, <2>1, <2>2, <2>3, <2>5, SettledThenList DEF PurposesInv
  <2>7. PurposesNetOK(net') /\ db \in PurposeRows
    BY <2>1, <2>5 DEF PurposesInv, PurposesNetOK
  <2> QED BY <2>1, <2>3, <2>6, <2>7 DEF PurposesInv
<1> DEFINE c == Purposes!FormClosed(ui)
<1>3. c \in PurposesUi /\ c.mixed = ui.mixed
  BY <1>1 DEF Purposes!FormClosed, Purposes!NoForm, PurposesUi, EditedUi
<1> HIDE DEF c
<1>4. CASE Purposes!PurposeCreated(r)
  BY <1>1, <1>2, <1>4 DEF Purposes!PurposeCreated, EditKinds
<1>5. CASE Purposes!PurposeUpdated(r)
  BY <1>2, <1>3, <1>5 DEF Purposes!PurposeUpdated, EditKinds, c
<1>6. CASE Purposes!PurposeDeleted(r)
  <2>1. Purposes!ThenList(r, c) \/ Purposes!ThenList(r, ui)
    BY <1>6 DEF Purposes!PurposeDeleted, c
  <2> QED BY <1>1, <1>2, <1>3, <1>6, <2>1 DEF Purposes!PurposeDeleted, EditKinds
<1> QED BY <1>4, <1>5, <1>6

LEMMA PurposesStep ==
  ASSUME PurposesInv, Purposes!PurposesNext
  PROVE  PurposesInv'
BY PurposesServedStep, PurposesForms, PurposesButtons, PurposesShown, PurposesChanged
   DEF Purposes!PurposesNext

LEMMA PurposesInitial ==
  ASSUME Purposes!PurposesInit
  PROVE  PurposesInv
<1>1. ui \in PurposesUi /\ ~ui.mixed
  BY DEF Purposes!PurposesInit, Purposes!EmptyList, Purposes!NoForm, PurposesUi, EditedUi
<1>2. db \in PurposeRows
  <2>1. [hours |-> 0, filled |-> TRUE] \in StoredPurpose
    BY DEF StoredPurpose
  <2> QED BY <2>1 DEF Purposes!PurposesInit, PurposeRows
<1> DEFINE q == Purposes!GetList("page", None)
           o == Purposes!Request("options", None, None)
<1>3. /\ q \in PurposesRequest /\ PurposeWellMade(q)
      /\ q.kind = "list" /\ q.step = "sent"
      /\ o \in PurposesRequest /\ PurposeWellMade(o) /\ o.kind = "options"
  <2>1. q = [kind |-> "list", on |-> "page", arg |-> None, step |-> "sent",
             answer |-> None]
    BY DEF Purposes!GetList, Purposes!Request
  <2>2. o = [kind |-> "options", on |-> None, arg |-> None, step |-> "sent",
             answer |-> None]
    BY DEF Purposes!Request
  <2> HIDE DEF q, o
  <2> QED BY <2>1, <2>2 DEF PurposesRequest, Requests, Steps, EditKinds, PurposeWellMade
<1>4. net = {q, o}
  BY DEF Purposes!PurposesInit
<1> HIDE DEF q, o
<1>5. ListSettled(ui, net, db)
  BY <1>3, <1>4 DEF ListSettled, EditKinds
<1> QED BY <1>1, <1>2, <1>3, <1>4, <1>5 DEF PurposesInv, PurposesNetOK

PurposesPageInv == page = "purposes" => PurposesInv

LEMMA PurposesHold ==
  /\ Init => PurposesPageInv
  /\ PurposesPageInv /\ [Next]_vars => PurposesPageInv'
<1>1. Init => PurposesPageInv
  BY PurposesInitial DEF Init, PurposesPageInv
<1>2. ASSUME PurposesInv, UNCHANGED <<ui, net, db>>
      PROVE  PurposesInv'
  BY <1>2 DEF PurposesInv
<1>3. PurposesPageInv /\ [Next]_vars => PurposesPageInv'
  BY <1>2, PurposesStep DEF PurposesPageInv, Next, vars, pageVars
<1> QED BY <1>1, <1>3

\* With nothing in flight, the list of a settled page is the stored one.
LEMMA SettledIsStored ==
  ASSUME NEW u, NEW n, NEW rows, ListSettled(u, n, rows), ~u.mixed, ~u.missed,
         \A r \in n : r.kind \notin EditKinds
  PROVE  u.items = rows
  BY DEF ListSettled

\* The prompts and the purposes on the page are the stored ones when nothing is
\* under way (refreshPrompts, refreshPurposeList), for any number of them and
\* whatever was created, saved, deleted or refused before, unless requests
\* overlapped or the last fetch failed.
THEOREM ListsAreStored == Spec => []EditedAreStored
<1>1. ManagerInv => Manager!PromptsShownAreStored
  <2>1. ManagerInv => ListSettled(ui, net, Manager!PromptRows)
    BY RowsAreFor DEF ManagerInv
  <2> QED BY <2>1, SettledIsStored
          DEF Manager!PromptsShownAreStored, Manager!ListIsStored, Manager!InFlight,
              Manager!ListKinds, EditKinds
<1>2. PurposesInv => Purposes!PurposesShownAreStored
  BY SettledIsStored
     DEF PurposesInv, Purposes!PurposesShownAreStored, Purposes!ListIsStored,
         Purposes!InFlight, Purposes!ListKinds, EditKinds
<1>3. ManagerPageInv /\ PurposesPageInv => EditedAreStored
  BY <1>1, <1>2 DEF ManagerPageInv, PurposesPageInv, EditedAreStored
<1> QED BY <1>3, ManagerHolds, PurposesHold, PTL DEF Spec

-----------------------------------------------------------------------------
(* The results of the prompts of a session.  While no request overlapped   *)
(* another there is one at most of those that fetch or change the results, *)
(* which are then the stored ones but for what it is about.                *)

\* Results are numbers, so that a list of them has a first and a last.
LEMMA LeastIn ==
  ASSUME NEW S, S \subseteq Nat, S # {}
  PROVE  \E x \in S : \A y \in S : x <= y
<1> DEFINE R == OpToRel(<, Nat)
<1>1. IsWellFoundedOn(R, Nat)
  BY NatLessThanWellFounded
<1>2. \A x, y \in Nat : <<y, x>> \in R <=> y < x
  BY DEF OpToRel
<1> HIDE DEF R
<1>3. PICK x \in S : \A y \in S : <<y, x>> \notin R
  BY <1>1, WFMin
<1>4. ASSUME NEW y \in S
      PROVE  x <= y
  <2>1. x \in Nat /\ y \in Nat
    OBVIOUS
  <2>2. ~(y < x)
    BY <1>2, <1>3, <2>1
  <2> QED BY <2>1, <2>2
<1> QED BY <1>4

LEMMA GreatestIn ==
  ASSUME NEW N \in Nat, NEW S, S \subseteq 1 .. N, S # {}
  PROVE  \E x \in S : \A y \in S : x >= y
<1> DEFINE T == {N - x : x \in S}
<1>1. T \subseteq Nat /\ T # {}
  <2>1. \A x \in S : N - x \in Nat
    OBVIOUS
  <2> QED BY <2>1
<1>2. PICK m \in T : \A y \in T : m <= y
  BY <1>1, LeastIn
<1>3. PICK x \in S : m = N - x
  OBVIOUS
<1>4. ASSUME NEW y \in S
      PROVE  x >= y
  <2>1. N - x <= N - y
    BY <1>2, <1>3
  <2> QED BY <2>1
<1> QED BY <1>4

ResultKinds == {"results", "apply", "delete"}

ResultsUi == [results : SUBSET ResultsOf!Results, loading : BOOLEAN, error : BOOLEAN,
              active : ResultsOf!Results \cup {None},
              options : {None} \cup SUBSET Prompts,
              selected : Prompts \cup {None}, applying : BOOLEAN,
              deleting : ResultsOf!Results \cup {None}, mixed : BOOLEAN]

ResultsDb == [rows : SUBSET ResultsOf!Results, used : 0 .. MaxResults, may : BOOLEAN]

ResultsRequest ==
  Requests(ResultKinds \cup {"options"}, {"page", "user", "apply"} \cup Prompts \cup {None},
           ResultsOf!Results \cup {None},
           {None} \cup (SUBSET ResultsOf!Results) \cup (SUBSET Prompts))

\* What a request of each kind is answered with.
ResultsWellMade(r) ==
  /\ r.kind = "results" /\ r.step = "ok" => r.answer \subseteq ResultsOf!Results
  /\ r.kind = "options" /\ r.step = "ok" => r.answer \subseteq Prompts
  /\ r.kind = "delete" => r.arg \in ResultsOf!Results

ResultsNetOK(n) == n \subseteq ResultsRequest /\ \A r \in n : ResultsWellMade(r)

ResultsSettled(u, n, rows) ==
  ~u.mixed =>
    /\ \A q, r \in n : q.kind \in ResultKinds /\ r.kind \in ResultKinds => q = r
    /\ \A r \in n : r.kind = "apply" => u.applying
    /\ \A r \in n : r.kind = "results" /\ r.step = "ok" => r.answer = rows
    /\ \A r \in n : r.kind = "delete" /\ r.step = "ok" /\ ~u.error
                      => u.results \ {r.arg} = rows
    /\ /\ ~u.error
       /\ \A r \in n : r.kind \in ResultKinds => r.kind # "results" /\ r.step # "ok"
       => u.results = rows

ResultsInv ==
  /\ ui \in ResultsUi /\ db \in ResultsDb /\ ResultsNetOK(net)
  /\ ResultsSettled(ui, net, db.rows)

USE DEF ResultsOf!Sent, ResultsOf!Answered, ResultsOf!Refused, ResultsOf!Others,
        ResultsOf!Act, ResultsOf!Done

LEMMA ActiveIsResult ==
  ASSUME NEW S \in SUBSET ResultsOf!Results, NEW a
  PROVE  ResultsOf!ActiveResult(S, a) \in ResultsOf!Results \cup {None}
<1>1. CASE S = {}
  BY <1>1 DEF ResultsOf!ActiveResult
<1>2. CASE S # {} /\ a \in S
  BY <1>2 DEF ResultsOf!ActiveResult
<1>3. CASE S # {} /\ a \notin S
  <2>1. \E x \in S : \A y \in S : x >= y
    BY <1>3, GreatestIn, PagesAssumption DEF ResultsOf!Results
  <2>2. ResultsOf!Max(S) \in S
    BY <2>1 DEF ResultsOf!Max
  <2> QED BY <1>3, <2>2 DEF ResultsOf!ActiveResult
<1> QED BY <1>1, <1>2, <1>3

\* The server.
LEMMA ResultsServedStep ==
  ASSUME ResultsInv, NEW r \in net, ResultsOf!PromptsServed(r)
  PROVE  ResultsInv'
<1>1. /\ UNCHANGED ui /\ r \in ResultsRequest /\ ResultsWellMade(r) /\ db \in ResultsDb
      /\ r.step = "sent"
  BY DEF ResultsInv, ResultsNetOK, ResultsOf!PromptsServed
<1>2. ASSUME NEW q \in ResultsRequest, net' = (net \ {r}) \cup {q},
             q.kind = r.kind, q.arg = r.arg, db' \in ResultsDb, ResultsWellMade(q),
             q.kind = "results" /\ q.step = "ok" => q.answer = db.rows,
             q.kind = "delete" /\ q.step = "ok" => db'.rows = db.rows \ {q.arg},
             q.step # "ok" \/ q.kind \notin {"apply", "delete"} => db'.rows = db.rows
      PROVE  ResultsInv'
  <2>1. ResultsNetOK(net')
    BY <1>2 DEF ResultsInv, ResultsNetOK
  <2>2. ResultsSettled(ui, net', db'.rows)
    <3> SUFFICES ASSUME ~ui.mixed
                 PROVE  /\ \A o, p \in net' : o.kind \in ResultKinds
                                               /\ p.kind \in ResultKinds => o = p
                        /\ \A p \in net' : p.kind = "apply" => ui.applying
                        /\ \A p \in net' : p.kind = "results" /\ p.step = "ok"
                                             => p.answer = db'.rows
                        /\ \A p \in net' : p.kind = "delete" /\ p.step = "ok" /\ ~ui.error
                                             => ui.results \ {p.arg} = db'.rows
                        /\ /\ ~ui.error
                           /\ \A p \in net' : p.kind \in ResultKinds
                                                => p.kind # "results" /\ p.step # "ok"
                           => ui.results = db'.rows
      BY DEF ResultsSettled
    <3>1. /\ \A o, p \in net : o.kind \in ResultKinds /\ p.kind \in ResultKinds => o = p
          /\ \A p \in net : p.kind = "apply" => ui.applying
          /\ \A p \in net : p.kind = "results" /\ p.step = "ok" => p.answer = db.rows
          /\ \A p \in net : p.kind = "delete" /\ p.step = "ok" /\ ~ui.error
                              => ui.results \ {p.arg} = db.rows
          /\ /\ ~ui.error
             /\ \A p \in net : p.kind \in ResultKinds
                                 => p.kind # "results" /\ p.step # "ok"
             => ui.results = db.rows
      BY DEF ResultsInv, ResultsSettled
    <3>2. \A o, p \in net' : o.kind \in ResultKinds /\ p.kind \in ResultKinds => o = p
      BY <1>2, <3>1
    <3>3. \A p \in net' : p.kind = "apply" => ui.applying
      BY <1>2, <3>1
    <3>4. CASE r.kind \in ResultKinds
      <4>1. \A p \in net' : p.kind \in ResultKinds => p = q
        BY <1>2, <3>2, <3>4
      <4>2. \A p \in net : p.kind \in ResultKinds => p = r
        BY <3>1, <3>4
      <4>3. \A p \in net' : p.kind = "results" /\ p.step = "ok" => p.answer = db'.rows
        BY <1>2, <4>1 DEF ResultKinds
      <4>4. r.kind = "delete" /\ ~ui.error => ui.results = db.rows
        BY <1>1, <3>1, <4>2
      <4>5. \A p \in net' : p.kind = "delete" /\ p.step = "ok" /\ ~ui.error
                              => ui.results \ {p.arg} = db'.rows
        BY <1>2, <4>1, <4>4 DEF ResultKinds
      <4>6. ASSUME ~ui.error,
                   \A p \in net' : p.kind \in ResultKinds
                                     => p.kind # "results" /\ p.step # "ok"
            PROVE  ui.results = db'.rows
        <5>1. q.kind # "results" /\ q.step # "ok" /\ db'.rows = db.rows
          BY <1>2, <3>4, <4>6
        <5>2. ui.results = db.rows
          BY <1>1, <1>2, <3>1, <4>2, <4>6, <5>1
        <5> QED BY <5>1, <5>2
      <4> QED BY <3>2, <3>3, <4>3, <4>5, <4>6
    <3>5. CASE r.kind \notin ResultKinds
      <4>1. db'.rows = db.rows /\ q.kind \notin ResultKinds
        BY <1>2, <3>5 DEF ResultKinds
      <4>2. \A p \in net' : p.kind \in ResultKinds => p \in net
        BY <1>2, <4>1
      <4>3. \A p \in net : p.kind \in ResultKinds => p \in net'
        BY <1>2, <3>5
      <4> QED BY <3>1, <3>2, <3>3, <4>1, <4>2, <4>3 DEF ResultKinds
    <3> QED BY <3>4, <3>5
  <2> QED BY <1>1, <1>2, <2>1, <2>2 DEF ResultsInv
<1>3. ASSUME NEW a \in {None} \cup (SUBSET ResultsOf!Results) \cup (SUBSET Prompts),
             ResultsOf!Answer(r, a), db' \in ResultsDb,
             r.kind = "results" => a = db.rows,
             r.kind = "options" => a = Prompts,
             r.kind = "delete" => db'.rows = db.rows \ {r.arg},
             r.kind \notin {"apply", "delete"} => db'.rows = db.rows
      PROVE  ResultsInv'
  <2> DEFINE q == [r EXCEPT !.step = "ok", !.answer = a]
  <2>1. net' = (net \ {r}) \cup {q}
    BY <1>3 DEF ResultsOf!Answer
  <2>2. /\ q \in ResultsRequest /\ q.kind = r.kind /\ q.arg = r.arg
        /\ q.step = "ok" /\ q.answer = a
    BY <1>1, <1>3 DEF ResultsRequest, Requests, Steps
  <2> HIDE DEF q
  <2>3. ResultsWellMade(q)
    BY <1>1, <1>3, <2>2 DEF ResultsWellMade, ResultsDb
  <2> QED BY <1>2, <1>3, <2>1, <2>2, <2>3
<1>4. CASE r.kind = "results" /\ ResultsOf!Answer(r, db.rows) /\ UNCHANGED db
  BY <1>1, <1>3, <1>4 DEF ResultsDb
<1>5. CASE r.kind = "options" /\ ResultsOf!Answer(r, Prompts) /\ UNCHANGED db
  <2>1. Prompts \in {None} \cup (SUBSET ResultsOf!Results) \cup (SUBSET Prompts)
    OBVIOUS
  <2>2. db'.rows = db.rows
    BY <1>5
  <2> QED BY <1>1, <1>3, <1>5, <2>1, <2>2
<1>6. CASE /\ r.kind = "apply" /\ db.used < MaxResults
           /\ db' = [db EXCEPT !.used = @ + 1, !.rows = @ \cup {db.used + 1}]
           /\ ResultsOf!Answer(r, None)
  <2>1. db.used \in Nat /\ db.used + 1 \in 0 .. MaxResults
        /\ db.used + 1 \in ResultsOf!Results
    BY <1>1, <1>6, PagesAssumption DEF ResultsDb, ResultsOf!Results
  <2>2. db' \in ResultsDb
    BY <1>1, <1>6, <2>1 DEF ResultsDb
  <2> QED BY <1>3, <1>6, <2>2
<1>7. CASE /\ r.kind = "delete" /\ db' = [db EXCEPT !.rows = @ \ {r.arg}]
           /\ ResultsOf!Answer(r, None)
  <2>1. db' \in ResultsDb /\ db'.rows = db.rows \ {r.arg}
    BY <1>1, <1>7 DEF ResultsDb
  <2> QED BY <1>3, <1>7, <2>1
<1>8. CASE ResultsOf!Refuse(r) /\ UNCHANGED db
  <2> DEFINE q == [r EXCEPT !.step = "failed"]
  <2>1. net' = (net \ {r}) \cup {q}
    BY <1>8 DEF ResultsOf!Refuse
  <2>2. q \in ResultsRequest /\ q.kind = r.kind /\ q.arg = r.arg /\ q.step = "failed"
    BY <1>1, Declined DEF ResultsRequest
  <2> HIDE DEF q
  <2>3. ResultsWellMade(q)
    BY <1>1, <2>2 DEF ResultsWellMade
  <2> QED BY <1>1, <1>2, <1>8, <2>1, <2>2, <2>3
<1> QED BY <1>4, <1>5, <1>6, <1>7, <1>8 DEF ResultsOf!PromptsServed

\* The user's settings touch neither the results nor what is in flight.
LEMMA ResultsChosen ==
  ASSUME ResultsInv,
         \/ \E p \in Prompts : ResultsOf!SelectPrompt(p)
         \/ \E x \in ResultsOf!Results : ResultsOf!SelectResult(x)
  PROVE  ResultsInv'
<1>1. UNCHANGED <<net, db>> /\ ui \in ResultsUi
  BY DEF ResultsInv, ResultsOf!SelectPrompt, ResultsOf!SelectResult
<1>2. /\ ui' \in ResultsUi
      /\ UNCHANGED <<ui.results, ui.error, ui.applying, ui.mixed>>
  BY <1>1 DEF ResultsOf!SelectPrompt, ResultsOf!SelectResult, ResultsUi
<1>3. ResultsSettled(ui', net, db.rows)
  BY <1>2 DEF ResultsInv, ResultsSettled
<1> QED BY <1>1, <1>2, <1>3 DEF ResultsInv

\* A request is made: when it overlaps none, the results are the stored ones
\* unless there is an error.
LEMMA ResultsAsk ==
  ASSUME ResultsInv, ui' \in ResultsUi, ui'.results = ui.results, UNCHANGED db,
         NEW q \in ResultsRequest, ResultsWellMade(q), q.step = "sent",
         q.kind \in ResultKinds, net' = net \cup {q},
         ~ui'.mixed => ~ui.mixed /\ \A r \in net : r.kind \notin ResultKinds,
         ui'.error = ui.error \/ q.kind = "results",
         q.kind = "apply" => ui'.applying
  PROVE  ResultsInv'
<1>1. ResultsNetOK(net')
  BY DEF ResultsInv, ResultsNetOK
<1>2. ResultsSettled(ui', net', db.rows)
  <2> SUFFICES ASSUME ~ui'.mixed
               PROVE  /\ \A p \in net' : p.kind \in ResultKinds => p = q
                      /\ q \in net'
                      /\ q.kind # "results" /\ ~ui'.error => ui'.results = db.rows
                      /\ q.kind = "apply" => ui'.applying
    BY DEF ResultsSettled, ResultKinds
  <2> QED BY DEF ResultsInv, ResultsSettled
<1> QED BY <1>1, <1>2 DEF ResultsInv

LEMMA ResultsButtons ==
  ASSUME ResultsInv,
         \/ ResultsOf!RefreshPromptResults \/ ResultsOf!ApplyPrompt
         \/ ResultsOf!DeletePromptResult
  PROVE  ResultsInv'
<1>1. ui \in ResultsUi
  BY DEF ResultsInv
<1>2. CASE ResultsOf!RefreshPromptResults
  <2> DEFINE q == ResultsOf!GetResults("user")
  <2>1. PICK b \in BOOLEAN :
          b = (ui.mixed \/ ResultsOf!InFlight({"results", "apply", "delete"}) # {})
    OBVIOUS
  <2>2. /\ UNCHANGED db /\ net' = net \cup {q}
        /\ ui' = [ui EXCEPT !.loading = TRUE, !.error = FALSE, !.mixed = b]
    BY <1>2, <2>1 DEF ResultsOf!RefreshPromptResults
  <2>3. ui' \in ResultsUi /\ ui'.results = ui.results /\ ui'.mixed = b
    BY <1>1, <2>2 DEF ResultsUi
  <2>4. /\ q \in ResultsRequest /\ ResultsWellMade(q) /\ q.step = "sent"
        /\ q.kind = "results"
    BY DEF ResultsOf!GetResults, ResultsOf!Request, ResultsRequest, Requests, Steps,
           ResultKinds, ResultsWellMade
  <2> HIDE DEF q
  <2>5. ~b => ~ui.mixed /\ \A r \in net : r.kind \notin ResultKinds
    BY <2>1 DEF ResultsOf!InFlight, ResultKinds
  <2>6. q.kind \in ResultKinds
    BY <2>4 DEF ResultKinds
  <2> QED BY <2>2, <2>3, <2>4, <2>5, <2>6, ResultsAsk
<1>3. CASE ResultsOf!ApplyPrompt
  <2> DEFINE q == ResultsOf!Request("apply", ui.selected, None)
  <2>1. PICK b \in BOOLEAN :
          b = (ui.mixed \/ ResultsOf!InFlight({"results", "delete"}) # {})
    OBVIOUS
  <2>2. /\ UNCHANGED db /\ net' = net \cup {q} /\ ~ui.applying
        /\ ui.selected \in Prompts \cup {None}
        /\ ui' = [ui EXCEPT !.applying = TRUE, !.mixed = b]
    BY <1>1, <1>3, <2>1 DEF ResultsOf!ApplyPrompt, ResultsUi
  <2>3. /\ ui' \in ResultsUi /\ ui'.results = ui.results /\ ui'.mixed = b
        /\ ui'.error = ui.error /\ ui'.applying
    BY <1>1, <2>2 DEF ResultsUi
  <2>4. q \in ResultsRequest /\ ResultsWellMade(q) /\ q.step = "sent" /\ q.kind = "apply"
    BY <2>2 DEF ResultsOf!Request, ResultsRequest, Requests, Steps, ResultKinds,
                ResultsWellMade
  <2> HIDE DEF q
  <2>5. ~b => ~ui.mixed /\ \A r \in net : r.kind \notin {"results", "delete"}
    BY <2>1 DEF ResultsOf!InFlight
  <2>6. ~ui.mixed => \A r \in net : r.kind # "apply"
    BY <2>2 DEF ResultsInv, ResultsSettled
  <2>7. ~b => \A r \in net : r.kind \notin ResultKinds
    BY <2>5, <2>6 DEF ResultKinds
  <2>8. q.kind \in ResultKinds
    BY <2>4 DEF ResultKinds
  <2> QED BY <2>2, <2>3, <2>4, <2>5, <2>7, <2>8, ResultsAsk
<1>4. CASE ResultsOf!DeletePromptResult
  <2> DEFINE q == ResultsOf!Request("delete", "user", ui.active)
  <2>1. PICK b \in BOOLEAN :
          b = (ui.mixed \/ ResultsOf!InFlight({"results", "apply", "delete"}) # {})
    OBVIOUS
  <2>2. /\ UNCHANGED db /\ net' = net \cup {q} /\ ui.active \in ResultsOf!Results
        /\ ui' = [ui EXCEPT !.deleting = ui.active, !.mixed = b]
    BY <1>1, <1>4, <2>1 DEF ResultsOf!DeletePromptResult, ResultsUi
  <2>3. /\ ui' \in ResultsUi /\ ui'.results = ui.results /\ ui'.mixed = b
        /\ ui'.error = ui.error
    BY <1>1, <2>2 DEF ResultsUi
  <2>4. q \in ResultsRequest /\ ResultsWellMade(q) /\ q.step = "sent" /\ q.kind = "delete"
    BY <2>2 DEF ResultsOf!Request, ResultsRequest, Requests, Steps, ResultKinds,
                ResultsWellMade
  <2> HIDE DEF q
  <2>5. ~b => ~ui.mixed /\ \A r \in net : r.kind \notin ResultKinds
    BY <2>1 DEF ResultsOf!InFlight, ResultKinds
  <2>6. q.kind \in ResultKinds
    BY <2>4 DEF ResultKinds
  <2> QED BY <2>2, <2>3, <2>4, <2>5, <2>6, ResultsAsk
<1> QED BY <1>2, <1>3, <1>4

\* What is over is not in flight any more; what it says of the results holds.
LEMMA ResultsOver ==
  ASSUME ResultsInv, NEW r \in net, r.kind \in ResultKinds, net' = net \ {r},
         UNCHANGED db, ui' \in ResultsUi, ui'.mixed = ui.mixed,
         ~ui.mixed /\ ~ui'.error => ui'.results = db.rows
  PROVE  ResultsInv'
<1>1. ResultsNetOK(net')
  BY DEF ResultsInv, ResultsNetOK
<1>2. ~ui'.mixed => \A p \in net' : p.kind \notin ResultKinds
  BY DEF ResultsInv, ResultsSettled
<1>3. ResultsSettled(ui', net', db.rows)
  BY <1>2 DEF ResultsSettled, ResultKinds
<1> QED BY <1>1, <1>3 DEF ResultsInv

LEMMA ResultsAnswers ==
  ASSUME ResultsInv, NEW r \in net,
         \/ ResultsOf!ResultsShown(r) \/ ResultsOf!OptionsShown(r)
         \/ ResultsOf!PromptApplied(r) \/ ResultsOf!PromptResultDeleted(r)
  PROVE  ResultsInv'
<1>1. UNCHANGED db /\ ui \in ResultsUi /\ r \in ResultsRequest /\ ResultsWellMade(r)
  BY DEF ResultsInv, ResultsNetOK, ResultsOf!ResultsShown, ResultsOf!OptionsShown,
         ResultsOf!PromptApplied, ResultsOf!PromptResultDeleted
<1>2. CASE ResultsOf!ResultsShown(r)
  <2>1. net' = net \ {r} /\ r.kind = "results"
    BY <1>2 DEF ResultsOf!ResultsShown
  <2>2. ASSUME NEW u \in ResultsUi, u.mixed = ui.mixed,
               ~ui.mixed /\ ~u.error => u.results = db.rows,
               ui' = IF r.on = "apply" THEN [u EXCEPT !.applying = FALSE] ELSE u
        PROVE  ResultsInv'
    <3>1. ui' \in ResultsUi /\ ui'.mixed = ui.mixed /\ ui'.error = u.error
          /\ ui'.results = u.results
      BY <2>2 DEF ResultsUi
    <3> QED BY <1>1, <2>1, <2>2, <3>1, ResultsOver DEF ResultKinds
  <2>3. CASE r.step = "ok"
    <3> DEFINE a == ResultsOf!ActiveResult(r.answer, ui.active)
               u == [ui EXCEPT !.results = r.answer, !.loading = FALSE, !.active = a]
    <3>1. ui' = IF r.on = "apply" THEN [u EXCEPT !.applying = FALSE] ELSE u
      BY <1>2, <2>3 DEF ResultsOf!ResultsShown
    <3>2. r.answer \in SUBSET ResultsOf!Results
      BY <1>1, <2>1, <2>3 DEF ResultsWellMade
    <3>3. a \in ResultsOf!Results \cup {None}
      BY <3>2, ActiveIsResult
    <3> HIDE DEF a
    <3>4. u \in ResultsUi /\ u.mixed = ui.mixed /\ u.results = r.answer
      BY <1>1, <3>2, <3>3 DEF ResultsUi
    <3> HIDE DEF u
    <3>5. ~ui.mixed => u.results = db.rows
      BY <2>1, <2>3, <3>4 DEF ResultsInv, ResultsSettled
    <3> QED BY <2>2, <3>1, <3>4, <3>5
  <2>4. CASE r.step = "failed"
    <3> DEFINE u == [ui EXCEPT !.error = TRUE, !.loading = FALSE]
    <3>1. ui' = IF r.on = "apply" THEN [u EXCEPT !.applying = FALSE] ELSE u
      BY <1>2, <2>4 DEF ResultsOf!ResultsShown
    <3>2. u \in ResultsUi /\ u.mixed = ui.mixed /\ u.error
      BY <1>1 DEF ResultsUi
    <3> HIDE DEF u
    <3> QED BY <2>2, <3>1, <3>2
  <2> QED BY <1>2, <2>3, <2>4 DEF ResultsOf!ResultsShown
<1>3. CASE ResultsOf!OptionsShown(r)
  <2>1. net' = net \ {r} /\ r.kind = "options"
    BY <1>3 DEF ResultsOf!OptionsShown
  <2>4. /\ ui' \in ResultsUi
        /\ UNCHANGED <<ui.results, ui.error, ui.applying, ui.mixed>>
    <3>1. CASE r.step = "ok"
      <4>1. ui' = [ui EXCEPT !.options = r.answer]
        BY <1>3, <3>1 DEF ResultsOf!OptionsShown, ResultsOf!Refused
      <4>2. r.answer \in SUBSET Prompts
        BY <1>1, <2>1, <3>1 DEF ResultsWellMade
      <4> QED BY <1>1, <4>1, <4>2 DEF ResultsUi
    <3>2. CASE r.step # "ok"
      <4>1. ui' = ui
        BY <1>3, <3>2 DEF ResultsOf!OptionsShown, ResultsOf!Answered
      <4> QED BY <1>1, <4>1
    <3> QED BY <3>1, <3>2
  <2>5. \A p \in net : p.kind \in ResultKinds => p \in net'
    BY <2>1 DEF ResultKinds
  <2>6. ResultsSettled(ui', net', db.rows)
    BY <2>1, <2>4, <2>5 DEF ResultsInv, ResultsSettled
  <2> QED BY <1>1, <2>1, <2>4, <2>6 DEF ResultsInv, ResultsNetOK
<1>4. CASE ResultsOf!PromptApplied(r) /\ r.step = "ok"
  <2> DEFINE q == ResultsOf!GetResults("apply")
  <2>1. PICK b \in BOOLEAN : b = (ui.mixed \/ ResultsOf!InFlight({"results"}) # {})
    OBVIOUS
  <2>2. /\ net' = (net \ {r}) \cup {q} /\ r.kind = "apply"
        /\ ui' = [ui EXCEPT !.selected = None, !.loading = TRUE, !.error = FALSE,
                            !.mixed = b]
    BY <1>4, <2>1 DEF ResultsOf!PromptApplied
  <2>3. ui' \in ResultsUi /\ ui'.mixed = b
    BY <1>1, <2>2 DEF ResultsUi
  <2>4. /\ q \in ResultsRequest /\ ResultsWellMade(q) /\ q.step = "sent"
        /\ q.kind = "results"
    BY DEF ResultsOf!GetResults, ResultsOf!Request, ResultsRequest, Requests, Steps,
           ResultKinds, ResultsWellMade
  <2> HIDE DEF q
  <2>5. ResultsNetOK(net')
    BY <2>2, <2>4 DEF ResultsInv, ResultsNetOK
  <2>6. ResultsSettled(ui', net', db.rows)
    <3>1. ~ui'.mixed => \A p \in net' : p.kind \in ResultKinds => p = q
      BY <2>1, <2>2, <2>3 DEF ResultsInv, ResultsSettled, ResultKinds
    <3>2. q \in net'
      BY <2>2
    <3> QED BY <2>4, <3>1, <3>2 DEF ResultsSettled, ResultKinds
  <2> QED BY <1>1, <2>3, <2>5, <2>6 DEF ResultsInv
<1>5. CASE ResultsOf!PromptApplied(r) /\ r.step = "failed"
  <2>1. net' = net \ {r} /\ r.kind = "apply" /\ ui' = [ui EXCEPT !.applying = FALSE]
    BY <1>5 DEF ResultsOf!PromptApplied
  <2>2. /\ ui' \in ResultsUi
        /\ UNCHANGED <<ui.results, ui.error, ui.mixed>>
    BY <1>1, <2>1 DEF ResultsUi
  <2>3. ~ui.mixed /\ ~ui.error => ui.results = db.rows
    BY <1>5, <2>1 DEF ResultsInv, ResultsSettled, ResultKinds
  <2> QED BY <1>1, <2>1, <2>2, <2>3, ResultsOver DEF ResultKinds
<1>6. CASE ResultsOf!PromptResultDeleted(r) /\ r.step = "ok"
  <2> DEFINE s == ui.results \ {r.arg}
             a == ResultsOf!ActiveResult(s, ui.active)
  <2>1. net' = net \ {r} /\ r.kind = "delete"
        /\ ui' = [ui EXCEPT !.results = s, !.deleting = None, !.active = a]
    BY <1>6 DEF ResultsOf!PromptResultDeleted
  <2>2. s \in SUBSET ResultsOf!Results
    BY <1>1 DEF ResultsUi
  <2>3. a \in ResultsOf!Results \cup {None}
    BY <2>2, ActiveIsResult
  <2>4. ~ui.mixed /\ ~ui.error => s = db.rows
    BY <1>6, <2>1 DEF ResultsInv, ResultsSettled
  <2> HIDE DEF s, a
  <2>5. ui' \in ResultsUi /\ ui'.results = s /\ UNCHANGED <<ui.error, ui.mixed>>
    BY <1>1, <2>1, <2>2, <2>3 DEF ResultsUi
  <2> QED BY <1>1, <2>1, <2>4, <2>5, ResultsOver DEF ResultKinds
<1>7. CASE ResultsOf!PromptResultDeleted(r) /\ r.step = "failed"
  <2>1. net' = net \ {r} /\ r.kind = "delete" /\ ui' = [ui EXCEPT !.deleting = None]
    BY <1>7 DEF ResultsOf!PromptResultDeleted
  <2>2. /\ ui' \in ResultsUi
        /\ UNCHANGED <<ui.results, ui.error, ui.mixed>>
    BY <1>1, <2>1 DEF ResultsUi
  <2>3. ~ui.mixed /\ ~ui.error => ui.results = db.rows
    BY <1>7, <2>1 DEF ResultsInv, ResultsSettled, ResultKinds
  <2> QED BY <1>1, <2>1, <2>2, <2>3, ResultsOver DEF ResultKinds
<1> QED BY <1>2, <1>3, <1>4, <1>5, <1>6, <1>7
        DEF ResultsOf!PromptApplied, ResultsOf!PromptResultDeleted

LEMMA ResultsStep ==
  ASSUME ResultsInv, ResultsOf!PromptsNext
  PROVE  ResultsInv'
BY ResultsServedStep, ResultsChosen, ResultsButtons, ResultsAnswers
   DEF ResultsOf!PromptsNext

LEMMA ResultsInitial ==
  ASSUME ResultsOf!PromptsInit
  PROVE  ResultsInv
<1> DEFINE q == ResultsOf!GetResults("page")
           o == ResultsOf!Request("options", "page", None)
<1>1. PICK n \in 0 .. 1, may \in BOOLEAN :
        /\ db = [rows |-> 1 .. n, used |-> n, may |-> may]
        /\ net = {q} \cup (IF may THEN {o} ELSE {})
  BY DEF ResultsOf!PromptsInit
<1>2. db \in ResultsDb
  <2>1. MaxResults \in Nat /\ MaxResults >= 1
    BY PagesAssumption
  <2>2. 1 .. n \subseteq 1 .. MaxResults /\ n \in 0 .. MaxResults
    BY <2>1
  <2> QED BY <1>1, <2>2 DEF ResultsDb, ResultsOf!Results
<1>3. ui \in ResultsUi
  BY DEF ResultsOf!PromptsInit, ResultsUi
<1>4. /\ q \in ResultsRequest /\ ResultsWellMade(q)
      /\ q.kind = "results" /\ q.step = "sent"
      /\ o \in ResultsRequest /\ ResultsWellMade(o) /\ o.kind = "options"
  <2>1. q = [kind |-> "results", on |-> "page", arg |-> None, step |-> "sent",
             answer |-> None]
    BY DEF ResultsOf!GetResults, ResultsOf!Request
  <2>2. o = [kind |-> "options", on |-> "page", arg |-> None, step |-> "sent",
             answer |-> None]
    BY DEF ResultsOf!Request
  <2> HIDE DEF q, o
  <2> QED BY <2>1, <2>2 DEF ResultsRequest, Requests, Steps, ResultKinds, ResultsWellMade
<1>5. q \in net /\ net \subseteq {q, o}
  BY <1>1
<1> HIDE DEF q, o
<1>6. ResultsSettled(ui, net, db.rows)
  BY <1>4, <1>5 DEF ResultsSettled, ResultKinds
<1> QED BY <1>2, <1>3, <1>4, <1>5, <1>6 DEF ResultsInv, ResultsNetOK

ResultsPageInv == page = "prompts" => ResultsInv

LEMMA ResultsHold ==
  /\ Init => ResultsPageInv
  /\ ResultsPageInv /\ [Next]_vars => ResultsPageInv'
<1>1. Init => ResultsPageInv
  BY ResultsInitial DEF Init, ResultsPageInv
<1>2. ASSUME ResultsInv, UNCHANGED <<ui, net, db>>
      PROVE  ResultsInv'
  BY <1>2 DEF ResultsInv
<1>3. ResultsPageInv /\ [Next]_vars => ResultsPageInv'
  BY <1>2, ResultsStep DEF ResultsPageInv, Next, vars, pageVars
<1> QED BY <1>1, <1>3

\* The results on the page are the stored ones when nothing is under way
\* (refreshPromptResults, applyPrompt, deletePromptResult), for any number of
\* them, unless requests overlapped or the last fetch failed.
THEOREM ResultsAreStored == Spec => []ResultsShownAreStored
<1>1. ResultsPageInv => ResultsShownAreStored
  BY DEF ResultsPageInv, ResultsInv, ResultsSettled, ResultKinds, ResultsShownAreStored,
         ResultsOf!ResultsShownAreStored, ResultsOf!InFlight
<1> QED BY <1>1, ResultsHold, PTL DEF Spec

-----------------------------------------------------------------------------
(* Files are uploaded one after another, so that at most one upload is in   *)
(* flight; a file that the server has is one the list says is sent, or is   *)
(* that upload; and nothing stored is still to be sent by the loop.         *)

Item == [file : Files, status : Upload!ItemStatus]

UploadUi == [purposes : {"loading", "loaded", "failed"}, chosen : BOOLEAN,
             created : BOOLEAN, status : Upload!Statuses, items : Seq(Item),
             loop : SUBSET (1 .. MaxItems),
             creating : BOOLEAN, uploading : BOOLEAN, finishing : BOOLEAN,
             twice : BOOLEAN]

UploadDb == [status : Upload!Statuses, stored : [Files -> Nat]]

UploadRequest ==
  Requests({"purposes", "create", "upload", "finish"}, Files \cup {None}, {None}, {None})

FilesOf(n) == \A r \in n : r.kind = "upload" => r.on \in Files

\* The loop and the uploads in flight.
OneUpload(u, n) ==
  /\ Len(u.items) <= MaxItems /\ u.loop \subseteq DOMAIN u.items
  /\ ~u.uploading => u.loop = {} /\ \A r \in n : r.kind # "upload"
  /\ \A q, r \in n : q.kind = "upload" /\ r.kind = "upload" => q = r

ChosenOnce(items) ==
  \A i, j \in DOMAIN items : items[i].file = items[j].file => i = j

Queued(items, f) ==
  \E i \in DOMAIN items : items[i].file = f /\ items[i].status = "queued"

\* What is stored is known to be sent, or about to be.
SentOnce(u, n, stored) ==
  ~u.twice =>
    /\ ChosenOnce(u.items)
    /\ \A f \in Files : stored[f] <= 1
    /\ \A i \in u.loop : stored[u.items[i].file] = 0
    /\ \A r \in n : r.kind = "upload" =>
         /\ r.step # "ok" => stored[r.on] = 0
         /\ \A i \in u.loop : u.items[i].file # r.on
         /\ \E i \in DOMAIN u.items : u.items[i].file = r.on
    /\ \A f \in Files : stored[f] # 0 =>
         Queued(u.items, f) \/ \E r \in n : r.kind = "upload" /\ r.on = f /\ r.step = "ok"

UploadInv ==
  /\ ui \in UploadUi /\ db \in UploadDb
  /\ net \subseteq UploadRequest /\ FilesOf(net)
  /\ OneUpload(ui, net) /\ SentOnce(ui, net, db.stored)

USE DEF Upload!Sent, Upload!Answered, Upload!Refused, Upload!Others, Upload!Act

LEMMA ListedFiles ==
  ASSUME NEW s \in Seq(Item)
  PROVE  \A i \in DOMAIN s : s[i].file \in Files
<1>1. DOMAIN s = 1 .. Len(s) /\ \A i \in 1 .. Len(s) : s[i] \in Item
  OBVIOUS
<1> QED BY <1>1 DEF Item

\* Setting the status of a file changes no other, and no file's place.
LEMMA StatusSet ==
  ASSUME NEW s \in Seq(Item), NEW f, NEW st \in Upload!ItemStatus
  PROVE  LET t == Upload!SetStatus(s, f, st)
         IN /\ t \in Seq(Item) /\ Len(t) = Len(s) /\ DOMAIN t = DOMAIN s
            /\ \A i \in DOMAIN s :
                 /\ t[i].file = s[i].file
                 /\ s[i].file = f => t[i].status = st
                 /\ s[i].file # f => t[i] = s[i]
<1> DEFINE t == Upload!SetStatus(s, f, st)
<1>1. /\ Len(s) \in Nat /\ DOMAIN s = 1 .. Len(s)
      /\ \A i \in 1 .. Len(s) : s[i] \in Item
  OBVIOUS
<1>2. \A i \in 1 .. Len(s) : t[i] \in Item
  BY <1>1 DEF Upload!SetStatus, Item
<1>3. t = [i \in 1 .. Len(s) |-> t[i]]
  BY <1>1 DEF Upload!SetStatus
<1>4. DOMAIN t = 1 .. Len(s)
  BY <1>1 DEF Upload!SetStatus
<1>5. \A i \in DOMAIN s : t[i].file = s[i].file
  BY <1>1 DEF Upload!SetStatus, Item
<1>6. \A i \in DOMAIN s : s[i].file = f => t[i].status = st
  BY <1>1 DEF Upload!SetStatus, Item
<1>7. \A i \in DOMAIN s : s[i].file # f => t[i] = s[i]
  BY <1>1 DEF Upload!SetStatus, Item
<1> HIDE DEF t
<1>8. t \in Seq(Item)
  BY <1>1, <1>2, <1>3
<1>9. Len(t) = Len(s)
  BY <1>1, <1>3, <1>8
<1>10. /\ t \in Seq(Item) /\ Len(t) = Len(s) /\ DOMAIN t = DOMAIN s
       /\ \A i \in DOMAIN s :
            /\ t[i].file = s[i].file
            /\ s[i].file = f => t[i].status = st
            /\ s[i].file # f => t[i] = s[i]
  BY <1>1, <1>4, <1>5, <1>6, <1>7, <1>8, <1>9
<1> QED BY <1>10 DEF t

\* The next of the loop, or its end.
LEMMA UploadNextOne ==
  ASSUME NEW u \in UploadUi, NEW rest \in SUBSET DOMAIN u.items,
         NEW others \in SUBSET UploadRequest, NEW stored,
         Len(u.items) <= MaxItems, \A r \in others : r.kind # "upload",
         ~u.twice => /\ ChosenOnce(u.items)
                     /\ \A f \in Files : stored[f] <= 1
                     /\ \A i \in rest : stored[u.items[i].file] = 0
                     /\ \A f \in Files : stored[f] # 0 => Queued(u.items, f),
         Upload!NextUpload(u, rest, others)
  PROVE  /\ ui' \in UploadUi /\ net' \subseteq UploadRequest /\ FilesOf(net')
         /\ OneUpload(ui', net') /\ SentOnce(ui', net', stored)
<1>1. u.items \in Seq(Item) /\ DOMAIN u.items = 1 .. Len(u.items) /\ Len(u.items) \in Nat
  BY DEF UploadUi
<1>2. CASE rest = {}
  <2>1. ui' = [u EXCEPT !.uploading = FALSE, !.loop = {}] /\ net' = others
    BY <1>2 DEF Upload!NextUpload
  <2>2. /\ ui' \in UploadUi /\ ui'.items = u.items /\ ui'.loop = {}
        /\ ui'.twice = u.twice /\ ~ui'.uploading
    BY <2>1 DEF UploadUi
  <2>3. OneUpload(ui', net') /\ FilesOf(net')
    BY <2>1, <2>2 DEF OneUpload, FilesOf
  <2>4. SentOnce(ui', net', stored)
    BY <2>1, <2>2 DEF SentOnce
  <2> QED BY <2>1, <2>2, <2>3, <2>4
<1>3. CASE rest # {}
  <2> DEFINE i == Upload!Min(rest)
             f == u.items[i].file
             t == Upload!SetStatus(u.items, f, "uploading")
             q == Upload!Request("upload", f, None)
  <2>1. i \in rest
    <3>1. rest \subseteq Nat
      BY <1>1
    <3>2. \E x \in rest : \A y \in rest : x <= y
      BY <1>3, <3>1, LeastIn
    <3> QED BY <3>2 DEF Upload!Min
  <2>2. /\ ui' = [u EXCEPT !.uploading = TRUE, !.loop = rest \ {i}, !.items = t]
        /\ net' = others \cup {q}
    BY <1>3 DEF Upload!NextUpload
  <2> HIDE DEF i
  <2>3. i \in DOMAIN u.items /\ u.items[i] \in Item /\ f \in Files
    <3>1. i \in 1 .. Len(u.items)
      BY <1>1, <2>1
    <3>2. u.items[i] \in Item
      BY <1>1, <3>1
    <3> QED BY <1>1, <3>1, <3>2 DEF Item
  <2>4. q \in UploadRequest /\ q.kind = "upload" /\ q.on = f /\ q.step = "sent"
    BY <2>3 DEF Upload!Request, UploadRequest, Requests, Steps
  <2> HIDE DEF f
  <2>5. /\ t \in Seq(Item) /\ Len(t) = Len(u.items) /\ DOMAIN t = DOMAIN u.items
        /\ \A j \in DOMAIN u.items :
             /\ t[j].file = u.items[j].file
             /\ u.items[j].file # f => t[j] = u.items[j]
    BY <1>1, StatusSet DEF Upload!ItemStatus
  <2> HIDE DEF t, q
  <2>6. rest \ {i} \in SUBSET (1 .. MaxItems)
    BY <1>1, PagesAssumption
  <2>7. /\ ui' \in UploadUi /\ ui'.items = t /\ ui'.loop = rest \ {i}
        /\ ui'.twice = u.twice /\ ui'.uploading
    BY <2>2, <2>5, <2>6 DEF UploadUi
  <2>8. net' \subseteq UploadRequest /\ FilesOf(net')
    BY <2>2, <2>3, <2>4 DEF FilesOf
  <2>9. OneUpload(ui', net')
    BY <2>2, <2>4, <2>5, <2>7 DEF OneUpload
  <2>10. ASSUME ~u.twice
         PROVE  SentOnce(ui', net', stored)
    <3>1. f = u.items[i].file
      BY DEF f
    <3>2. ChosenOnce(t)
      BY <2>5, <2>10 DEF ChosenOnce
    <3>3. \A j \in rest \ {i} : stored[t[j].file] = 0 /\ t[j].file # f
      BY <2>3, <2>5, <2>10, <3>1 DEF ChosenOnce
    <3>4. stored[f] = 0
      BY <2>1, <2>10, <3>1
    <3>5. \A g \in Files : stored[g] # 0 => Queued(t, g)
      BY <2>5, <2>10, <3>4 DEF Queued
    <3>6. \A r \in net' : r.kind = "upload" => r = q
      BY <2>2
    <3>7. \E j \in DOMAIN t : t[j].file = f
      BY <2>3, <2>5, <3>1
    <3> QED BY <2>4, <2>7, <2>10, <3>2, <3>3, <3>4, <3>5, <3>6, <3>7 DEF SentOnce
  <2>11. SentOnce(ui', net', stored)
    BY <2>7, <2>10 DEF SentOnce
  <2> QED BY <2>7, <2>8, <2>9, <2>11
<1> QED BY <1>2, <1>3

\* The server: an upload is stored, answered or not.
LEMMA UploadServedStep ==
  ASSUME UploadInv, NEW r \in net, Upload!UploadServed(r)
  PROVE  UploadInv'
<1>1. /\ ui \in UploadUi /\ db \in UploadDb /\ r \in UploadRequest /\ r.step = "sent"
      /\ r.kind = "upload" => r.on \in Files
  BY DEF UploadInv, Upload!UploadServed, FilesOf
<1>2. ASSUME NEW q \in UploadRequest, q.kind = r.kind, q.on = r.on,
             net' = (net \ {r}) \cup {q}, ui' = ui, db' \in UploadDb,
             \/ db'.stored = db.stored
             \/ /\ r.kind = "upload" /\ q.step = "ok"
                /\ db'.stored = [db.stored EXCEPT ![r.on] = @ + 1]
      PROVE  UploadInv'
  <2>1. net' \subseteq UploadRequest /\ FilesOf(net')
    BY <1>2 DEF UploadInv, FilesOf
  <2>2. OneUpload(ui', net')
    BY <1>2 DEF UploadInv, OneUpload
  <2>3. ASSUME ~ui.twice
        PROVE  SentOnce(ui', net', db'.stored)
    <3>1. CASE db'.stored = db.stored
      <4>1. \A p \in net' : p = q \/ p \in net
        BY <1>2
      <4>2. \A f \in Files : db.stored[f] # 0 =>
              \/ Queued(ui.items, f)
              \/ \E p \in net' : p.kind = "upload" /\ p.on = f /\ p.step = "ok"
        BY <1>1, <1>2, <2>3 DEF UploadInv, SentOnce
      <4> QED BY <1>1, <1>2, <2>3, <3>1, <4>1, <4>2 DEF UploadInv, SentOnce
    <3>2. CASE /\ r.kind = "upload" /\ q.step = "ok"
               /\ db'.stored = [db.stored EXCEPT ![r.on] = @ + 1]
      <4>1. /\ r.on \in Files /\ db.stored[r.on] = 0
            /\ \A i \in ui.loop : ui.items[i].file # r.on
        BY <1>1, <2>3, <3>2 DEF UploadInv, SentOnce
      <4>2. /\ db'.stored[r.on] = 1
            /\ \A f \in Files \ {r.on} : db'.stored[f] = db.stored[f]
        BY <1>1, <3>2, <4>1 DEF UploadDb
      <4>3. \A p \in net' : p.kind = "upload" => p = q
        BY <1>2, <3>2 DEF UploadInv, OneUpload
      <4>4. \A i \in ui.loop : db'.stored[ui.items[i].file] = 0
        <5>1. \A i \in DOMAIN ui.items : ui.items[i].file \in Files
          BY <1>1, ListedFiles DEF UploadUi
        <5>2. \A i \in ui.loop : ui.items[i].file \in Files
          BY <5>1 DEF UploadInv, OneUpload
        <5>3. \A i \in ui.loop : db.stored[ui.items[i].file] = 0
          BY <2>3 DEF UploadInv, SentOnce
        <5> QED BY <4>1, <4>2, <5>2, <5>3
      <4>5. \A f \in Files : db'.stored[f] <= 1
        BY <2>3, <4>2 DEF UploadInv, SentOnce
      <4>6. \A f \in Files : db'.stored[f] # 0 =>
              \/ Queued(ui.items, f)
              \/ \E p \in net' : p.kind = "upload" /\ p.on = f /\ p.step = "ok"
        <5> TAKE f \in Files
        <5>1. CASE f = r.on
          BY <1>2, <3>2, <5>1
        <5>2. CASE f # r.on
          BY <1>2, <2>3, <4>2, <5>2 DEF UploadInv, SentOnce
        <5> QED BY <5>1, <5>2
      <4> QED BY <1>2, <2>3, <3>2, <4>1, <4>3, <4>4, <4>5, <4>6 DEF UploadInv, SentOnce
    <3> QED BY <1>2, <3>1, <3>2
  <2>4. SentOnce(ui', net', db'.stored)
    BY <1>2, <2>3 DEF SentOnce
  <2> QED BY <1>1, <1>2, <2>1, <2>2, <2>4 DEF UploadInv
<1>3. ASSUME Upload!Answer(r, None), ui' = ui, db' \in UploadDb,
             \/ db'.stored = db.stored
             \/ /\ r.kind = "upload"
                /\ db'.stored = [db.stored EXCEPT ![r.on] = @ + 1]
      PROVE  UploadInv'
  <2> DEFINE q == [r EXCEPT !.step = "ok", !.answer = None]
  <2>1. net' = (net \ {r}) \cup {q}
    BY <1>3 DEF Upload!Answer
  <2>2. q \in UploadRequest /\ q.kind = r.kind /\ q.on = r.on /\ q.step = "ok"
    BY <1>1 DEF UploadRequest, Requests, Steps
  <2> HIDE DEF q
  <2> QED BY <1>2, <1>3, <2>1, <2>2
<1>4. CASE r.kind = "purposes" /\ Upload!Answer(r, None) /\ UNCHANGED <<db, ui>>
  BY <1>1, <1>3, <1>4
<1>5. CASE /\ r.kind = "create" /\ db' = [db EXCEPT !.status = "new"]
           /\ Upload!Answer(r, None) /\ UNCHANGED ui
  <2>1. db' \in UploadDb /\ db'.stored = db.stored
    BY <1>1, <1>5 DEF UploadDb, Upload!Statuses
  <2> QED BY <1>3, <1>5, <2>1
<1>6. CASE /\ r.kind = "upload" /\ db' = [db EXCEPT !.stored[r.on] = @ + 1]
           /\ \/ Upload!Answer(r, None) /\ UNCHANGED ui
              \/ Upload!Refuse(r) /\ ui' = [ui EXCEPT !.twice = TRUE]
  <2>1. /\ db' \in UploadDb
        /\ db'.stored = [db.stored EXCEPT ![r.on] = @ + 1]
    BY <1>1, <1>6 DEF UploadDb
  <2>2. CASE Upload!Answer(r, None) /\ UNCHANGED ui
    BY <1>3, <1>6, <2>1, <2>2
  <2>3. CASE Upload!Refuse(r) /\ ui' = [ui EXCEPT !.twice = TRUE]
    <3> DEFINE q == [r EXCEPT !.step = "failed"]
    <3>1. net' = (net \ {r}) \cup {q}
      BY <2>3 DEF Upload!Refuse
    <3>2. q \in UploadRequest /\ q.kind = r.kind /\ q.on = r.on
      BY <1>1 DEF UploadRequest, Requests, Steps
    <3>3. /\ ui' \in UploadUi /\ ui'.twice
          /\ UNCHANGED <<ui.items, ui.loop, ui.uploading>>
      BY <1>1, <2>3 DEF UploadUi
    <3> HIDE DEF q
    <3>4. net' \subseteq UploadRequest /\ FilesOf(net')
      BY <3>1, <3>2 DEF UploadInv, FilesOf
    <3>5. OneUpload(ui', net')
      BY <3>1, <3>2, <3>3 DEF UploadInv, OneUpload
    <3>6. SentOnce(ui', net', db'.stored)
      BY <3>3 DEF SentOnce
    <3> QED BY <2>1, <3>3, <3>4, <3>5, <3>6 DEF UploadInv
  <2> QED BY <1>6, <2>2, <2>3
<1>7. CASE /\ r.kind = "finish" /\ db' = [db EXCEPT !.status = "transcribing"]
           /\ Upload!Answer(r, None) /\ UNCHANGED ui
  <2>1. db' \in UploadDb /\ db'.stored = db.stored
    BY <1>1, <1>7 DEF UploadDb, Upload!Statuses
  <2> QED BY <1>3, <1>7, <2>1
<1>8. CASE Upload!Refuse(r) /\ UNCHANGED <<db, ui>>
  <2> DEFINE q == [r EXCEPT !.step = "failed"]
  <2>1. net' = (net \ {r}) \cup {q}
    BY <1>8 DEF Upload!Refuse
  <2>2. q \in UploadRequest /\ q.kind = r.kind /\ q.on = r.on
    BY <1>1 DEF UploadRequest, Requests, Steps
  <2> HIDE DEF q
  <2> QED BY <1>1, <1>2, <1>8, <2>1, <2>2
<1> QED BY <1>4, <1>5, <1>6, <1>7, <1>8 DEF Upload!UploadServed

\* Steps that do not touch the list or the uploads.
LEMMA UploadStays ==
  ASSUME UploadInv, UNCHANGED db, ui' \in UploadUi,
         UNCHANGED <<ui.items, ui.loop, ui.uploading, ui.twice>>,
         net' \subseteq UploadRequest,
         \A r \in net' : r \in net \/ r.kind # "upload",
         \A r \in net : r.kind = "upload" => r \in net'
  PROVE  UploadInv'
<1>1. FilesOf(net') /\ OneUpload(ui', net')
  BY DEF UploadInv, FilesOf, OneUpload
<1>2. SentOnce(ui', net', db.stored)
  BY DEF UploadInv, SentOnce
<1> QED BY <1>1, <1>2 DEF UploadInv

LEMMA UploadMade ==
  ASSUME NEW kind \in {"create", "finish"}
  PROVE  LET q == Upload!Request(kind, None, None)
         IN q \in UploadRequest /\ q.kind # "upload"
  BY DEF Upload!Request, UploadRequest, Requests, Steps

LEMMA UploadButtons ==
  ASSUME UploadInv,
         Upload!ChoosePurpose \/ Upload!HandleCreateSession \/ Upload!HandleFinishSession
  PROVE  UploadInv'
<1>1. ui \in UploadUi /\ net \subseteq UploadRequest
  BY DEF UploadInv
<1>2. CASE Upload!ChoosePurpose
  <2>1. ui' = [ui EXCEPT !.chosen = TRUE] /\ UNCHANGED <<net, db>>
    BY <1>2 DEF Upload!ChoosePurpose
  <2>2. ui' \in UploadUi /\ UNCHANGED <<ui.items, ui.loop, ui.uploading, ui.twice>>
    BY <1>1, <2>1 DEF UploadUi
  <2> QED BY <1>1, <2>1, <2>2, UploadStays
<1>3. CASE Upload!HandleCreateSession
  <2> DEFINE q == Upload!Request("create", None, None)
  <2>1. ui' = [ui EXCEPT !.creating = TRUE] /\ net' = net \cup {q} /\ UNCHANGED db
    BY <1>3 DEF Upload!HandleCreateSession
  <2>2. ui' \in UploadUi /\ UNCHANGED <<ui.items, ui.loop, ui.uploading, ui.twice>>
    BY <1>1, <2>1 DEF UploadUi
  <2>3. q \in UploadRequest /\ q.kind # "upload"
    BY UploadMade
  <2> HIDE DEF q
  <2> QED BY <1>1, <2>1, <2>2, <2>3, UploadStays
<1>4. CASE Upload!HandleFinishSession
  <2> DEFINE q == Upload!Request("finish", None, None)
  <2>1. ui' = [ui EXCEPT !.finishing = TRUE] /\ net' = net \cup {q} /\ UNCHANGED db
    BY <1>4 DEF Upload!HandleFinishSession
  <2>2. ui' \in UploadUi /\ UNCHANGED <<ui.items, ui.loop, ui.uploading, ui.twice>>
    BY <1>1, <2>1 DEF UploadUi
  <2>3. q \in UploadRequest /\ q.kind # "upload"
    BY UploadMade
  <2> HIDE DEF q
  <2> QED BY <1>1, <2>1, <2>2, <2>3, UploadStays
<1> QED BY <1>2, <1>3, <1>4

\* A file is added to the list, when nothing is being sent.
LEMMA FileAdded ==
  ASSUME UploadInv, NEW f \in Files, Upload!HandleFileChange(f)
  PROVE  UploadInv'
<1> DEFINE x == [file |-> f, status |-> "pending"]
           s == ui.items
           t == Append(s, x)
<1>1. /\ ui \in UploadUi /\ s \in Seq(Item) /\ ~ui.uploading /\ UNCHANGED <<net, db>>
      /\ Len(s) < MaxItems
  BY DEF UploadInv, UploadUi, Upload!HandleFileChange
<1>2. x \in Item /\ x.file = f
  BY DEF Item, Upload!ItemStatus
<1>3. PICK b \in BOOLEAN : b = (ui.twice \/ \E i \in DOMAIN s : s[i].file = f)
  OBVIOUS
<1>4. ui' = [ui EXCEPT !.items = t, !.twice = b]
  BY <1>3 DEF Upload!HandleFileChange
<1> HIDE DEF x
<1>5. /\ t \in Seq(Item) /\ Len(t) = Len(s) + 1 /\ t[Len(s) + 1] = x
      /\ DOMAIN t = 1 .. Len(s) + 1 /\ DOMAIN s = 1 .. Len(s) /\ Len(s) \in Nat
      /\ \A i \in 1 .. Len(s) : t[i] = s[i]
  BY <1>1, <1>2
<1> HIDE DEF t
<1>6. /\ ui' \in UploadUi /\ ui'.items = t /\ ui'.twice = b
      /\ UNCHANGED <<ui.loop, ui.uploading>>
  BY <1>1, <1>4, <1>5 DEF UploadUi
<1>7. ui.loop = {} /\ \A r \in net : r.kind # "upload"
  BY <1>1 DEF UploadInv, OneUpload
<1>8. OneUpload(ui', net')
  <2>1. Len(t) <= MaxItems
    BY <1>1, <1>5, PagesAssumption
  <2> QED BY <1>1, <1>6, <1>7, <2>1 DEF OneUpload
<1>9. ASSUME ~b
      PROVE  SentOnce(ui', net', db.stored)
  <2>1. ~ui.twice /\ \A i \in DOMAIN s : s[i].file # f
    BY <1>3, <1>9
  <2>2. ChosenOnce(t)
    <3>1. ChosenOnce(s)
      BY <2>1 DEF UploadInv, SentOnce
    <3> QED BY <1>2, <1>5, <2>1, <3>1 DEF ChosenOnce
  <2>3. \A g \in Files : db.stored[g] # 0 => Queued(s, g)
    BY <1>7, <2>1 DEF UploadInv, SentOnce
  <2>4. \A g \in Files : Queued(s, g) => Queued(t, g)
    BY <1>5 DEF Queued
  <2>5. \A g \in Files : db.stored[g] <= 1
    BY <2>1 DEF UploadInv, SentOnce
  <2> QED BY <1>1, <1>6, <1>7, <2>2, <2>3, <2>4, <2>5 DEF SentOnce
<1>10. SentOnce(ui', net', db.stored)
  BY <1>6, <1>9 DEF SentOnce
<1> QED BY <1>1, <1>6, <1>8, <1>10 DEF UploadInv

\* The button: what the list says is sent is not sent again.
LEMMA UploadPressed ==
  ASSUME UploadInv, Upload!HandleUpload
  PROVE  UploadInv'
<1> DEFINE rest == Upload!ToSend(ui.items)
<1>1. /\ ui \in UploadUi /\ net \in SUBSET UploadRequest /\ db \in UploadDb
      /\ ~ui.uploading /\ UNCHANGED db
      /\ Upload!NextUpload(ui, rest, net)
  BY DEF UploadInv, Upload!HandleUpload
<1>2. /\ \A r \in net : r.kind # "upload"
      /\ Len(ui.items) <= MaxItems
  BY <1>1 DEF UploadInv, OneUpload
<1>3. /\ rest \in SUBSET DOMAIN ui.items
      /\ \A i \in rest : ui.items[i].status # "queued"
  BY DEF Upload!ToSend
<1> HIDE DEF rest
<1>4. ASSUME ~ui.twice
      PROVE  /\ ChosenOnce(ui.items)
             /\ \A f \in Files : db.stored[f] <= 1
             /\ \A i \in rest : db.stored[ui.items[i].file] = 0
             /\ \A f \in Files : db.stored[f] # 0 => Queued(ui.items, f)
  <2>1. /\ ChosenOnce(ui.items)
        /\ \A f \in Files : db.stored[f] <= 1
        /\ \A f \in Files : db.stored[f] # 0 => Queued(ui.items, f)
    BY <1>2, <1>4 DEF UploadInv, SentOnce
  <2>2. \A i \in rest : db.stored[ui.items[i].file] = 0
    <3>1. \A i \in DOMAIN ui.items : ui.items[i].file \in Files
      BY <1>1, ListedFiles DEF UploadUi
    <3>2. \A i \in rest : ui.items[i].file \in Files
      BY <1>3, <3>1
    <3>3. ASSUME NEW i \in rest
          PROVE  ~Queued(ui.items, ui.items[i].file)
      <4>1. i \in DOMAIN ui.items /\ ui.items[i].status # "queued"
        BY <1>3, <3>3
      <4>2. \A j \in DOMAIN ui.items : ui.items[j].file = ui.items[i].file => j = i
        BY <2>1, <4>1 DEF ChosenOnce
      <4> QED BY <4>1, <4>2 DEF Queued
    <3> QED BY <2>1, <3>2, <3>3
  <2> QED BY <2>1, <2>2
<1> QED BY <1>1, <1>2, <1>3, <1>4, UploadNextOne DEF UploadInv

\* onload, onerror: the status of the file, and the next one.
LEMMA UploadOver ==
  ASSUME UploadInv, NEW r \in net, Upload!UploadEnded(r)
  PROVE  UploadInv'
<1> DEFINE st == IF r.step = "ok" THEN "queued" ELSE "error"
           t == Upload!SetStatus(ui.items, r.on, st)
           u == [ui EXCEPT !.items = t]
           others == net \ {r}
<1>1. /\ ui \in UploadUi /\ net \subseteq UploadRequest /\ db \in UploadDb /\ UNCHANGED db
      /\ r.kind = "upload" /\ r.on \in Files
      /\ r.step \in {"ok", "failed"}
  BY DEF UploadInv, Upload!UploadEnded, FilesOf
<1>2. Upload!NextUpload(u, ui.loop, others)
  BY DEF Upload!UploadEnded
<1>3. st \in Upload!ItemStatus /\ (r.step = "ok" => st = "queued")
  BY DEF Upload!ItemStatus
<1>4. ui.items \in Seq(Item)
  BY <1>1 DEF UploadUi
<1> HIDE DEF st
<1>5. /\ t \in Seq(Item) /\ Len(t) = Len(ui.items) /\ DOMAIN t = DOMAIN ui.items
      /\ \A i \in DOMAIN ui.items :
           /\ t[i].file = ui.items[i].file
           /\ ui.items[i].file = r.on => t[i].status = st
           /\ ui.items[i].file # r.on => t[i] = ui.items[i]
  BY <1>3, <1>4, StatusSet
<1> HIDE DEF t
<1>6. u \in UploadUi /\ u.items = t /\ u.twice = ui.twice
  BY <1>1, <1>5 DEF UploadUi
<1> HIDE DEF u
<1>7. /\ Len(u.items) <= MaxItems /\ ui.loop \in SUBSET DOMAIN u.items
      /\ others \in SUBSET UploadRequest
      /\ \A q \in others : q.kind # "upload"
  BY <1>1, <1>5, <1>6 DEF UploadInv, OneUpload
<1>8. ASSUME ~u.twice
      PROVE  /\ ChosenOnce(u.items)
             /\ \A f \in Files : db.stored[f] <= 1
             /\ \A i \in ui.loop : db.stored[u.items[i].file] = 0
             /\ \A f \in Files : db.stored[f] # 0 => Queued(u.items, f)
  <2>1. ChosenOnce(u.items)
    BY <1>5, <1>6, <1>8 DEF UploadInv, SentOnce, ChosenOnce
  <2>2. \A f \in Files : db.stored[f] <= 1
    BY <1>6, <1>8 DEF UploadInv, SentOnce
  <2>3. \A i \in ui.loop : db.stored[u.items[i].file] = 0
    BY <1>5, <1>6, <1>7, <1>8 DEF UploadInv, SentOnce
  <2>4. ASSUME NEW f \in Files, db.stored[f] # 0
        PROVE  Queued(u.items, f)
    <3>1. CASE Queued(ui.items, f)
      <4>1. PICK i \in DOMAIN ui.items :
              ui.items[i].file = f /\ ui.items[i].status = "queued"
        BY <3>1 DEF Queued
      <4>2. f = r.on => r.step = "ok"
        BY <1>1, <1>6, <1>8, <2>4 DEF UploadInv, SentOnce
      <4>3. t[i].file = f /\ t[i].status = "queued"
        BY <1>3, <1>5, <4>1, <4>2
      <4> QED BY <1>5, <1>6, <4>1, <4>3 DEF Queued
    <3>2. CASE \E q \in net : q.kind = "upload" /\ q.on = f /\ q.step = "ok"
      <4>1. r.on = f /\ r.step = "ok"
        BY <1>1, <3>2 DEF UploadInv, OneUpload
      <4>2. \E i \in DOMAIN ui.items : ui.items[i].file = f
        BY <1>1, <1>6, <1>8, <4>1 DEF UploadInv, SentOnce
      <4> QED BY <1>3, <1>5, <1>6, <4>1, <4>2 DEF Queued
    <3> QED BY <1>6, <1>8, <2>4, <3>1, <3>2 DEF UploadInv, SentOnce
  <2> QED BY <2>1, <2>2, <2>3, <2>4
<1> HIDE DEF others
<1> QED BY <1>1, <1>2, <1>6, <1>7, <1>8, UploadNextOne DEF UploadInv

\* The other answers.
LEMMA UploadAnswers ==
  ASSUME UploadInv, NEW r \in net,
         Upload!PurposesLoaded(r) \/ Upload!SessionMade(r) \/ Upload!SessionFinished(r)
  PROVE  UploadInv'
<1>1. /\ ui \in UploadUi /\ net \subseteq UploadRequest /\ UNCHANGED db
      /\ net' = net \ {r} /\ r.kind # "upload"
  BY DEF UploadInv, Upload!PurposesLoaded, Upload!SessionMade, Upload!SessionFinished,
         Upload!Ready
<1>2. /\ ui' \in UploadUi
      /\ UNCHANGED <<ui.items, ui.loop, ui.uploading, ui.twice>>
  <2>1. CASE Upload!PurposesLoaded(r)
    <3>1. ui' = [ui EXCEPT !.purposes = "loaded"] \/ ui' = [ui EXCEPT !.purposes = "failed"]
      BY <2>1 DEF Upload!PurposesLoaded
    <3> QED BY <1>1, <3>1 DEF UploadUi
  <2>2. CASE Upload!SessionMade(r)
    <3>1. \/ ui' = [ui EXCEPT !.created = TRUE, !.status = "new", !.creating = FALSE]
          \/ ui' = [ui EXCEPT !.creating = FALSE]
      BY <2>2 DEF Upload!SessionMade
    <3> QED BY <1>1, <3>1 DEF UploadUi, Upload!Statuses
  <2>3. CASE Upload!SessionFinished(r)
    <3>1. \/ ui' = [ui EXCEPT !.status = "transcribing", !.finishing = FALSE]
          \/ ui' = [ui EXCEPT !.finishing = FALSE]
      BY <2>3 DEF Upload!SessionFinished
    <3> QED BY <1>1, <3>1 DEF UploadUi, Upload!Statuses
  <2> QED BY <2>1, <2>2, <2>3
<1> QED BY <1>1, <1>2, UploadStays

LEMMA UploadStep ==
  ASSUME UploadInv, Upload!UploadNext
  PROVE  UploadInv'
BY UploadServedStep, UploadAnswers, UploadOver, UploadPressed, UploadButtons, FileAdded
   DEF Upload!UploadNext

LEMMA UploadInitial ==
  ASSUME Upload!UploadInit
  PROVE  UploadInv
<1> DEFINE q == Upload!Request("purposes", None, None)
<1>1. /\ net = {q} /\ db = [status |-> None, stored |-> [f \in Files |-> 0]]
      /\ ui.items = <<>> /\ ui.loop = {} /\ ~ui.uploading /\ ~ui.twice
  BY DEF Upload!UploadInit
<1>2. q \in UploadRequest /\ q.kind = "purposes"
  BY DEF Upload!Request, UploadRequest, Requests, Steps
<1> HIDE DEF q
<1>3. db \in UploadDb /\ \A f \in Files : db.stored[f] = 0
  BY <1>1 DEF UploadDb, Upload!Statuses
<1>4. ui \in UploadUi
  BY DEF Upload!UploadInit, UploadUi, Upload!Statuses
<1>5. OneUpload(ui, net) /\ FilesOf(net)
  BY <1>1, <1>2, PagesAssumption DEF OneUpload, FilesOf
<1>6. SentOnce(ui, net, db.stored)
  BY <1>1, <1>2, <1>3 DEF SentOnce, ChosenOnce
<1> QED BY <1>1, <1>2, <1>3, <1>4, <1>5, <1>6 DEF UploadInv

UploadPageInv == page = "upload" => UploadInv

LEMMA UploadHolds ==
  /\ Init => UploadPageInv
  /\ UploadPageInv /\ [Next]_vars => UploadPageInv'
<1>1. Init => UploadPageInv
  BY UploadInitial DEF Init, UploadPageInv
<1>2. ASSUME UploadInv, UNCHANGED <<ui, net, db>>
      PROVE  UploadInv'
  BY <1>2 DEF UploadInv
<1>3. UploadPageInv /\ [Next]_vars => UploadPageInv'
  BY <1>2, UploadStep DEF UploadPageInv, Next, vars, pageVars
<1> QED BY <1>1, <1>3

\* The server stores a file once, however often the button is pressed while
\* others fail (handleUpload), unless it was chosen twice or the answer to an
\* upload that was stored was lost.
THEOREM UploadsAreOnce == Spec => []StoredOnce
<1>1. UploadPageInv => StoredOnce
  BY DEF UploadPageInv, UploadInv, SentOnce, StoredOnce, Upload!StoredOnce
<1> QED BY <1>1, UploadHolds, PTL DEF Spec

-----------------------------------------------------------------------------
(* While the requests for accounts do not overlap there is one in flight:   *)
(* for the page named above the list, for the role of the account shown     *)
(* there, or for a new account.                                             *)

UsersUi == [tab : Managed!AccountSources, page : 1 .. MaxPages,
            total : 0 .. MaxPages, loading : BOOLEAN,
            shown : {None} \cup [at : Managed!Places, role : Managed!PlatformRoles \cup {None}],
            updating : Managed!Places \cup {None},
            modal : BOOLEAN, creating : BOOLEAN, online : BOOLEAN,
            missed : BOOLEAN, mixed : BOOLEAN]

UsersDb == [total : [Managed!AccountSources -> 0 .. MaxPages],
            role : [Managed!Places -> Managed!PlatformRoles]]

UsersKinds == {"users", "role", "account"}

UsersAnswers == [role : Managed!PlatformRoles \cup {None}, total : 0 .. MaxPages]

UsersRequest ==
  Requests(UsersKinds \cup {"online"}, {"page", "user", "account", None} \cup Managed!Places,
           Managed!Places \cup Managed!PlatformRoles \cup {None}, UsersAnswers \cup {None})

UsersWellMade(r) ==
  /\ r.kind = "users" => /\ r.arg \in Managed!Places
                         /\ r.step = "ok" => r.answer \in UsersAnswers
  /\ r.kind = "role" => r.on \in Managed!Places /\ r.arg \in Managed!PlatformRoles

UsersNetOK(n) == n \subseteq UsersRequest /\ \A r \in n : UsersWellMade(r)

Exists(d, place) == place.page <= d.total[place.source]
RoleIn(d, place) == IF Exists(d, place) THEN d.role[place] ELSE None
Named(u) == Managed!At(u.tab, u.page)

UsersSettled(u, n, d) ==
  ~u.mixed =>
    /\ \A q, r \in n : q.kind \in UsersKinds /\ r.kind \in UsersKinds => q = r
    /\ \A r \in n : r.kind = "users" =>
         /\ r.arg = Named(u)
         /\ r.step = "ok" => r.answer.role = RoleIn(d, r.arg)
    /\ ~u.missed =>
         \A r \in n : r.kind = "role" =>
           /\ u.shown # None /\ u.shown.at = Named(u) /\ r.on = Named(u)
           /\ Exists(d, r.on)
           /\ r.step = "ok" => d.role[r.on] = r.arg
    /\ /\ ~u.missed
       /\ \A r \in n : r.kind \in UsersKinds => r.kind # "users" /\ r.step # "ok"
       => u.shown = [at |-> Named(u), role |-> RoleIn(d, Named(u))]

UsersInv ==
  /\ ui \in UsersUi /\ db \in UsersDb /\ UsersNetOK(net)
  /\ UsersSettled(ui, net, db)

USE DEF Managed!Sent, Managed!Answered, Managed!Refused, Managed!Others, Managed!Act

\* The server.
LEMMA UsersAnswered ==
  ASSUME UsersInv, NEW r \in net, r.step = "sent",
         NEW q \in UsersRequest, UsersWellMade(q),
         q.kind = r.kind, q.on = r.on, q.arg = r.arg,
         net' = (net \ {r}) \cup {q}, UNCHANGED ui, db' \in UsersDb,
         \A p \in Managed!Places : Exists(db, p) => Exists(db', p),
         r.kind \notin {"role", "account"} => db' = db,
         r.kind = "users" /\ q.step = "ok" => q.answer.role = RoleIn(db, r.arg),
         r.kind = "role" => \/ q.step # "ok" /\ db' = db
                            \/ /\ q.step = "ok" /\ db'.total = db.total
                               /\ db'.role = [db.role EXCEPT ![r.on] = r.arg],
         r.kind = "account" => q.step = "ok" \/ db' = db
  PROVE  UsersInv'
<1>1. UsersNetOK(net') /\ r \in UsersRequest /\ UsersWellMade(r)
  BY DEF UsersInv, UsersNetOK
<1>2. ASSUME ~ui.mixed
      PROVE  UsersSettled(ui, net', db')
  <2>1. CASE r.kind \in UsersKinds
    <3>1. \A p \in net' : p.kind \in UsersKinds => p = q
      BY <1>2, <2>1 DEF UsersInv, UsersSettled
    <3>2. CASE r.kind = "users"
      <4>1. r.arg = Named(ui) /\ db' = db
        BY <1>2, <3>2 DEF UsersInv, UsersSettled
      <4> QED BY <3>1, <3>2, <4>1 DEF UsersSettled, UsersKinds
    <3>3. CASE r.kind = "role"
      <4>1. ASSUME ~ui.missed
            PROVE  /\ ui.shown # None /\ ui.shown.at = Named(ui) /\ r.on = Named(ui)
                   /\ Exists(db, r.on)
                   /\ ui.shown = [at |-> Named(ui), role |-> RoleIn(db, Named(ui))]
        <5>1. \A p \in net : p.kind \in UsersKinds => p.kind # "users" /\ p.step # "ok"
          BY <1>2, <3>3 DEF UsersInv, UsersSettled, UsersKinds
        <5> QED BY <1>2, <3>3, <4>1, <5>1 DEF UsersInv, UsersSettled
      <4>2. r.on \in Managed!Places
        BY <1>1, <3>3 DEF UsersWellMade
      <4>3. CASE q.step # "ok" /\ db' = db
        BY <3>1, <3>3, <4>1, <4>3 DEF UsersSettled, UsersKinds
      <4>4. CASE /\ q.step = "ok" /\ db'.total = db.total
                 /\ db'.role = [db.role EXCEPT ![r.on] = r.arg]
        <5>1. db'.role[r.on] = r.arg
          BY <4>2, <4>4 DEF UsersInv, UsersDb
        <5>2. q \in net'
          OBVIOUS
        <5> QED BY <3>1, <3>3, <4>1, <4>2, <4>4, <5>1, <5>2 DEF UsersSettled, UsersKinds
      <4> QED BY <3>3, <4>3, <4>4
    <3>4. CASE r.kind = "account"
      <4>1. q \in net'
        OBVIOUS
      <4>2. CASE q.step = "ok"
        BY <3>1, <3>4, <4>1, <4>2 DEF UsersSettled, UsersKinds
      <4>3. CASE db' = db /\ q.step # "ok"
        <5>1. \A p \in net : p.kind \in UsersKinds => p.kind # "users" /\ p.step # "ok"
          BY <1>2, <3>4 DEF UsersInv, UsersSettled, UsersKinds
        <5>2. ~ui.missed => ui.shown = [at |-> Named(ui), role |-> RoleIn(db, Named(ui))]
          BY <1>2, <5>1 DEF UsersInv, UsersSettled
        <5> QED BY <3>1, <3>4, <4>3, <5>2 DEF UsersSettled, UsersKinds
      <4> QED BY <3>4, <4>2, <4>3
    <3> QED BY <2>1, <3>2, <3>3, <3>4 DEF UsersKinds
  <2>2. CASE r.kind \notin UsersKinds
    <3>1. db' = db
      BY <2>2 DEF UsersKinds
    <3>2. \A p : p.kind \in UsersKinds => (p \in net' <=> p \in net)
      BY <2>2
    <3> QED BY <1>2, <3>1, <3>2 DEF UsersInv, UsersSettled, UsersKinds
  <2> QED BY <2>1, <2>2
<1>3. UsersSettled(ui, net', db')
  BY <1>2 DEF UsersSettled
<1> QED BY <1>1, <1>3 DEF UsersInv

LEMMA UsersServedStep ==
  ASSUME UsersInv, NEW r \in net, Managed!UsersServed(r)
  PROVE  UsersInv'
<1>1. /\ ui \in UsersUi /\ db \in UsersDb /\ r \in UsersRequest /\ UsersWellMade(r)
      /\ UNCHANGED ui /\ r.step = "sent"
  BY DEF UsersInv, UsersNetOK, Managed!UsersServed
<1>2. ASSUME NEW a \in UsersAnswers \cup {None}, r.kind = "users" => a \in UsersAnswers,
             Managed!Answer(r, a)
      PROVE  \E q \in UsersRequest :
               /\ UsersWellMade(q) /\ q.kind = r.kind /\ q.on = r.on /\ q.arg = r.arg
               /\ q.step = "ok" /\ q.answer = a
               /\ net' = (net \ {r}) \cup {q}
  <2> DEFINE q == [r EXCEPT !.step = "ok", !.answer = a]
  <2>1. net' = (net \ {r}) \cup {q}
    BY <1>2 DEF Managed!Answer
  <2>2. /\ q \in UsersRequest /\ q.kind = r.kind /\ q.on = r.on /\ q.arg = r.arg
        /\ q.step = "ok" /\ q.answer = a
    BY <1>1, <1>2 DEF UsersRequest, Requests, Steps
  <2> HIDE DEF q
  <2>3. UsersWellMade(q)
    BY <1>1, <1>2, <2>2 DEF UsersWellMade
  <2> QED BY <2>1, <2>2, <2>3
<1>3. CASE /\ r.kind = "users" /\ UNCHANGED db
           /\ Managed!Answer(r, [role |-> Managed!RoleAt(r.arg),
                                 total |-> db.total[r.arg.source]])
  <2> DEFINE a == [role |-> Managed!RoleAt(r.arg), total |-> db.total[r.arg.source]]
  <2>1. r.arg \in Managed!Places /\ r.arg.source \in Managed!AccountSources
    BY <1>1, <1>3 DEF UsersWellMade, Managed!Places
  <2>2. a \in UsersAnswers /\ a.role = RoleIn(db, r.arg)
    BY <1>1, <2>1 DEF Managed!RoleAt, RoleIn, Exists, UsersAnswers, UsersDb
  <2>3. Managed!Answer(r, a)
    BY <1>3
  <2> HIDE DEF a
  <2>4. PICK q \in UsersRequest :
          /\ UsersWellMade(q) /\ q.kind = r.kind /\ q.on = r.on /\ q.arg = r.arg
          /\ q.step = "ok" /\ q.answer = a /\ net' = (net \ {r}) \cup {q}
    BY <1>2, <2>2, <2>3
  <2> QED BY <1>1, <1>3, <2>2, <2>4, UsersAnswered
<1>4. CASE r.kind = "online" /\ Managed!Answer(r, None) /\ UNCHANGED db
  <2>1. PICK q \in UsersRequest :
          /\ UsersWellMade(q) /\ q.kind = r.kind /\ q.on = r.on /\ q.arg = r.arg
          /\ q.step = "ok" /\ net' = (net \ {r}) \cup {q}
    BY <1>2, <1>4
  <2> QED BY <1>1, <1>4, <2>1, UsersAnswered
<1>5. CASE /\ r.kind = "role" /\ db' = [db EXCEPT !.role[r.on] = r.arg]
           /\ Managed!Answer(r, None)
  <2>1. PICK q \in UsersRequest :
          /\ UsersWellMade(q) /\ q.kind = r.kind /\ q.on = r.on /\ q.arg = r.arg
          /\ q.step = "ok" /\ net' = (net \ {r}) \cup {q}
    BY <1>2, <1>5
  <2>2. r.on \in Managed!Places /\ r.arg \in Managed!PlatformRoles
    BY <1>1, <1>5 DEF UsersWellMade
  <2>3. /\ db' \in UsersDb /\ db'.total = db.total
        /\ db'.role = [db.role EXCEPT ![r.on] = r.arg]
    BY <1>1, <1>5, <2>2 DEF UsersDb
  <2>4. \A p \in Managed!Places : Exists(db, p) => Exists(db', p)
    BY <2>3 DEF Exists
  <2> QED BY <1>1, <1>5, <2>1, <2>3, <2>4, UsersAnswered
<1>6. CASE /\ r.kind = "account" /\ db.total.local < MaxPages
           /\ db' = [db EXCEPT !.total.local = @ + 1]
           /\ Managed!Answer(r, None)
  <2>1. PICK q \in UsersRequest :
          /\ UsersWellMade(q) /\ q.kind = r.kind /\ q.on = r.on /\ q.arg = r.arg
          /\ q.step = "ok" /\ net' = (net \ {r}) \cup {q}
    BY <1>2, <1>6
  <2>2. /\ db.total["local"] \in Nat /\ db.total["local"] + 1 \in 0 .. MaxPages
        /\ db.total["local"] < MaxPages
    BY <1>1, <1>6, PagesAssumption DEF UsersDb, Managed!AccountSources
  <2>3. /\ db' \in UsersDb /\ db'.role = db.role
        /\ db'.total = [db.total EXCEPT !["local"] = @ + 1]
    BY <1>1, <1>6, <2>2 DEF UsersDb, Managed!AccountSources
  <2>4. \A p \in Managed!Places : Exists(db, p) => Exists(db', p)
    <3>1. \A s \in Managed!AccountSources : db.total[s] <= db'.total[s] /\ db'.total[s] \in Nat
                                            /\ db.total[s] \in Nat
      BY <1>1, <2>2, <2>3, PagesAssumption DEF UsersDb, Managed!AccountSources
    <3> QED BY <3>1, PagesAssumption DEF Exists, Managed!Places
  <2> QED BY <1>1, <1>6, <2>1, <2>3, <2>4, UsersAnswered
<1>7. CASE Managed!Refuse(r) /\ UNCHANGED db
  <2> DEFINE q == [r EXCEPT !.step = "failed"]
  <2>1. net' = (net \ {r}) \cup {q}
    BY <1>7 DEF Managed!Refuse
  <2>2. /\ q \in UsersRequest /\ q.kind = r.kind /\ q.on = r.on /\ q.arg = r.arg
        /\ q.step = "failed"
    BY <1>1 DEF UsersRequest, Requests, Steps
  <2> HIDE DEF q
  <2>3. UsersWellMade(q)
    BY <1>1, <2>2 DEF UsersWellMade
  <2> QED BY <1>1, <1>7, <2>1, <2>2, <2>3, UsersAnswered
<1> QED BY <1>3, <1>4, <1>5, <1>6, <1>7 DEF Managed!UsersServed

\* Steps that do not touch the list or a request about it.
LEMMA UsersStay ==
  ASSUME UsersInv, UNCHANGED db, ui' \in UsersUi,
         UNCHANGED <<ui.tab, ui.page, ui.shown, ui.missed, ui.mixed>>,
         UsersNetOK(net'),
         \A r : r.kind \in UsersKinds => (r \in net' <=> r \in net)
  PROVE  UsersInv'
<1>1. Named(ui') = Named(ui)
  BY DEF Named
<1>2. UsersSettled(ui', net', db)
  BY <1>1 DEF UsersInv, UsersSettled, UsersKinds
<1> QED BY <1>2 DEF UsersInv

\* A request about the list is made.
LEMMA UsersAsk ==
  ASSUME UsersInv, UNCHANGED db, ui' \in UsersUi,
         UNCHANGED <<ui.shown, ui.missed>>,
         ui'.mixed = Managed!UsersMixed,
         NEW q \in UsersRequest, UsersWellMade(q), q.step = "sent",
         q.kind \in UsersKinds, net' = net \cup {q},
         q.kind = "users" => q.arg = Named(ui'),
         q.kind # "users" => Named(ui') = Named(ui),
         q.kind = "role" => /\ ui.shown # None /\ q.on = ui.shown.at
                            /\ ui.shown.role # None
  PROVE  UsersInv'
<1>1. UsersNetOK(net')
  BY DEF UsersInv, UsersNetOK
<1>2. ASSUME ~ui'.mixed
      PROVE  UsersSettled(ui', net', db)
  <2>1. ~ui.mixed /\ \A p \in net : p.kind \notin UsersKinds
    BY <1>2 DEF Managed!UsersMixed, Managed!InFlight, Managed!ChangingKinds, UsersKinds
  <2>2. \A p \in net' : p.kind \in UsersKinds => p = q
    BY <2>1
  <2>3. ~ui.missed => ui.shown = [at |-> Named(ui), role |-> RoleIn(db, Named(ui))]
    BY <2>1 DEF UsersInv, UsersSettled
  <2>4. CASE q.kind = "users"
    BY <2>2, <2>4 DEF UsersSettled, UsersKinds
  <2>5. CASE q.kind = "account"
    BY <2>2, <2>3, <2>5 DEF UsersSettled, UsersKinds
  <2>6. CASE q.kind = "role"
    <3>1. ASSUME ~ui.missed
          PROVE  q.on = Named(ui) /\ ui.shown.at = Named(ui) /\ Exists(db, q.on)
      BY <2>3, <2>6, <3>1 DEF RoleIn
    <3> QED BY <2>2, <2>3, <2>6, <3>1 DEF UsersSettled, UsersKinds
  <2> QED BY <2>4, <2>5, <2>6 DEF UsersKinds
<1>3. UsersSettled(ui', net', db)
  BY <1>2 DEF UsersSettled
<1> QED BY <1>1, <1>3 DEF UsersInv

LEMMA UsersMade ==
  ASSUME NEW by \in {"page", "user", "account"},
         NEW tab \in Managed!AccountSources, NEW p \in 1 .. MaxPages
  PROVE  LET q == Managed!GetUsers(by, tab, p)
         IN /\ q \in UsersRequest /\ UsersWellMade(q) /\ q.step = "sent"
            /\ q.kind = "users" /\ q.arg = Managed!At(tab, p)
<1>1. Managed!At(tab, p) \in Managed!Places
  BY DEF Managed!At, Managed!Places
<1> QED BY <1>1 DEF Managed!GetUsers, Managed!Request, UsersRequest, Requests, Steps,
                    UsersKinds, UsersWellMade

\* Whether requests overlap.
LEMMA UsersMixing ==
  \E b \in BOOLEAN : b = Managed!UsersMixed
BY DEF Managed!UsersMixed

\* The buttons of the sources and of the pages.
LEMMA UsersTurned ==
  ASSUME UsersInv, NEW tab \in Managed!AccountSources, NEW p \in 1 .. MaxPages,
         Managed!Turned(tab, p)
  PROVE  UsersInv'
<1> DEFINE q == Managed!GetUsers("page", tab, p)
<1>1. ui \in UsersUi /\ UNCHANGED db
  BY DEF UsersInv, Managed!Turned
<1>2. CASE <<tab, p>> = <<ui.tab, ui.page>>
  <2>1. ui' = ui /\ net' = net
    BY <1>2 DEF Managed!Turned
  <2> QED BY <1>1, <2>1 DEF UsersInv
<1>3. CASE <<tab, p>> # <<ui.tab, ui.page>>
  <2>1. PICK b \in BOOLEAN : b = Managed!UsersMixed
    BY UsersMixing
  <2>2. /\ ui' = [ui EXCEPT !.tab = tab, !.page = p, !.loading = TRUE, !.mixed = b]
        /\ net' = net \cup {q}
    BY <1>3, <2>1 DEF Managed!Turned
  <2>3. /\ ui' \in UsersUi /\ ui'.mixed = b /\ ui'.tab = tab /\ ui'.page = p
        /\ UNCHANGED <<ui.shown, ui.missed>>
    BY <1>1, <2>2 DEF UsersUi
  <2>4. /\ q \in UsersRequest /\ UsersWellMade(q) /\ q.step = "sent"
        /\ q.kind = "users" /\ q.arg = Managed!At(tab, p)
    BY UsersMade
  <2> HIDE DEF q
  <2>5. q.arg = Named(ui') /\ q.kind \in UsersKinds
    BY <2>3, <2>4 DEF Named, UsersKinds
  <2> QED BY <1>1, <2>1, <2>2, <2>3, <2>4, <2>5, UsersAsk
<1> QED BY <1>2, <1>3

\* The dialogue, the reload and the button on the card of an account.
LEMMA UsersButtons ==
  ASSUME UsersInv,
         \/ Managed!RefreshUsers \/ Managed!OpenCreateModal \/ Managed!CloseCreateModal
         \/ Managed!HandleCreateAccount \/ Managed!RefreshOnlineUsers
         \/ \E role \in Managed!PlatformRoles : Managed!HandleRoleUpdate(role)
  PROVE  UsersInv'
<1>1. ui \in UsersUi /\ UsersNetOK(net)
  BY DEF UsersInv
<1>2. CASE Managed!RefreshUsers
  <2> DEFINE q == Managed!GetUsers("user", ui.tab, ui.page)
  <2>1. PICK b \in BOOLEAN : b = Managed!UsersMixed
    BY UsersMixing
  <2>2. /\ ui' = [ui EXCEPT !.loading = TRUE, !.mixed = b]
        /\ net' = net \cup {q} /\ UNCHANGED db
    BY <1>2, <2>1 DEF Managed!RefreshUsers
  <2>3. /\ ui' \in UsersUi /\ ui'.mixed = b
        /\ UNCHANGED <<ui.tab, ui.page, ui.shown, ui.missed>>
    BY <1>1, <2>2 DEF UsersUi
  <2>4. ui.tab \in Managed!AccountSources /\ ui.page \in 1 .. MaxPages
    BY <1>1 DEF UsersUi
  <2>5. /\ q \in UsersRequest /\ UsersWellMade(q) /\ q.step = "sent"
        /\ q.kind = "users" /\ q.arg = Managed!At(ui.tab, ui.page)
    BY <2>4, UsersMade
  <2> HIDE DEF q
  <2>6. q.arg = Named(ui') /\ q.kind \in UsersKinds
    BY <2>3, <2>5 DEF Named, UsersKinds
  <2> QED BY <2>1, <2>2, <2>3, <2>5, <2>6, UsersAsk
<1>3. CASE Managed!OpenCreateModal \/ Managed!CloseCreateModal
  <2>1. PICK b \in BOOLEAN : ui' = [ui EXCEPT !.modal = b]
    BY <1>3 DEF Managed!OpenCreateModal, Managed!CloseCreateModal
  <2>2. UNCHANGED <<net, db>>
    BY <1>3 DEF Managed!OpenCreateModal, Managed!CloseCreateModal
  <2>3. /\ ui' \in UsersUi
        /\ UNCHANGED <<ui.tab, ui.page, ui.shown, ui.missed, ui.mixed>>
    BY <1>1, <2>1 DEF UsersUi
  <2> QED BY <1>1, <2>2, <2>3, UsersStay
<1>4. CASE Managed!HandleCreateAccount
  <2> DEFINE q == Managed!PostAccount
  <2>1. PICK b \in BOOLEAN : b = Managed!UsersMixed
    BY UsersMixing
  <2>2. /\ ui' = [ui EXCEPT !.creating = TRUE, !.mixed = b]
        /\ net' = net \cup {q} /\ UNCHANGED db
    BY <1>4, <2>1 DEF Managed!HandleCreateAccount
  <2>3. /\ ui' \in UsersUi /\ ui'.mixed = b
        /\ UNCHANGED <<ui.tab, ui.page, ui.shown, ui.missed>>
    BY <1>1, <2>2 DEF UsersUi
  <2>4. q \in UsersRequest /\ UsersWellMade(q) /\ q.step = "sent" /\ q.kind = "account"
    BY DEF Managed!PostAccount, Managed!Request, UsersRequest, Requests, Steps,
           UsersKinds, UsersWellMade
  <2> HIDE DEF q
  <2>5. Named(ui') = Named(ui) /\ q.kind \in UsersKinds
    BY <2>3, <2>4 DEF Named, UsersKinds
  <2> QED BY <2>1, <2>2, <2>3, <2>4, <2>5, UsersAsk
<1>5. CASE Managed!RefreshOnlineUsers
  <2> DEFINE q == Managed!GetOnline
  <2>1. net' = net \cup {q} /\ UNCHANGED <<ui, db>>
    BY <1>5 DEF Managed!RefreshOnlineUsers
  <2>2. q \in UsersRequest /\ UsersWellMade(q) /\ q.kind = "online"
    BY DEF Managed!GetOnline, Managed!Request, UsersRequest, Requests, Steps,
           UsersKinds, UsersWellMade
  <2> HIDE DEF q
  <2>3. UsersNetOK(net') /\ \A r : r.kind \in UsersKinds => (r \in net' <=> r \in net)
    BY <1>1, <2>1, <2>2 DEF UsersNetOK, UsersKinds
  <2> QED BY <1>1, <2>1, <2>3, UsersStay
<1>6. ASSUME NEW role \in Managed!PlatformRoles, Managed!HandleRoleUpdate(role)
      PROVE  UsersInv'
  <2> DEFINE q == Managed!PutRole(ui.shown.at, role)
  <2>1. PICK b \in BOOLEAN : b = Managed!UsersMixed
    BY UsersMixing
  <2>2. /\ ui' = [ui EXCEPT !.updating = ui.shown.at, !.mixed = b]
        /\ net' = net \cup {q} /\ UNCHANGED db
        /\ ui.shown # None /\ ui.shown.role # None
    BY <1>6, <2>1 DEF Managed!HandleRoleUpdate
  <2>3. ui.shown.at \in Managed!Places
    BY <1>1, <2>2 DEF UsersUi
  <2>4. /\ ui' \in UsersUi /\ ui'.mixed = b
        /\ UNCHANGED <<ui.tab, ui.page, ui.shown, ui.missed>>
    BY <1>1, <2>2, <2>3 DEF UsersUi
  <2>5. /\ q \in UsersRequest /\ UsersWellMade(q) /\ q.step = "sent" /\ q.kind = "role"
        /\ q.on = ui.shown.at
    BY <1>6, <2>3 DEF Managed!PutRole, Managed!Request, UsersRequest, Requests, Steps,
           UsersKinds, UsersWellMade
  <2> HIDE DEF q
  <2>6. Named(ui') = Named(ui) /\ q.kind \in UsersKinds
    BY <2>4, <2>5 DEF Named, UsersKinds
  <2> QED BY <2>1, <2>2, <2>4, <2>5, <2>6, UsersAsk
<1> QED BY <1>2, <1>3, <1>4, <1>5, <1>6

\* The answer that is the last one in flight.
LEMMA UsersOver ==
  ASSUME UsersInv, UNCHANGED db, NEW r \in net, net' = net \ {r},
         r.kind \in UsersKinds, ui' \in UsersUi,
         UNCHANGED ui.mixed,
         ~ui.mixed /\ ~ui'.missed
           => ui'.shown = [at |-> Named(ui'), role |-> RoleIn(db, Named(ui'))]
  PROVE  UsersInv'
<1>1. UsersNetOK(net')
  BY DEF UsersInv, UsersNetOK
<1>2. ~ui.mixed => \A p \in net' : p.kind \notin UsersKinds
  BY DEF UsersInv, UsersSettled
<1>3. UsersSettled(ui', net', db)
  BY <1>2 DEF UsersSettled, UsersKinds
<1> QED BY <1>1, <1>3 DEF UsersInv

LEMMA UsersListed ==
  ASSUME UsersInv, NEW r \in net, Managed!UsersShown(r)
  PROVE  UsersInv'
<1>1. /\ ui \in UsersUi /\ db \in UsersDb /\ r \in UsersRequest /\ UsersWellMade(r)
      /\ UNCHANGED db /\ r.kind = "users" /\ r.kind \in UsersKinds
  BY DEF UsersInv, UsersNetOK, UsersKinds, Managed!UsersShown
<1>2. ~ui.mixed => /\ r.arg = Named(ui)
                   /\ r.step = "ok" => r.answer.role = RoleIn(db, r.arg)
  BY <1>1 DEF UsersInv, UsersSettled
<1>3. r.arg \in Managed!Places /\ r.arg.page \in 1 .. MaxPages
      /\ (r.step = "ok" => r.answer \in UsersAnswers)
  BY <1>1 DEF UsersWellMade, Managed!Places
<1>4. CASE r.step = "ok"
  <2>1. PICK back \in BOOLEAN : back = (r.arg.page # ui.page)
    OBVIOUS
  <2> DEFINE x == [at |-> r.arg, role |-> r.answer.role]
             u == [ui EXCEPT !.shown = x, !.page = r.arg.page, !.total = r.answer.total,
                             !.loading = back, !.missed = FALSE]
             q == Managed!GetUsers("page", ui.tab, r.arg.page)
  <2>2. /\ ui' = IF r.on = "account" THEN [u EXCEPT !.creating = FALSE] ELSE u
        /\ net' = (net \ {r}) \cup (IF back THEN {q} ELSE {})
    BY <1>1, <1>4, <2>1 DEF Managed!UsersShown
  <2>3. x \in [at : Managed!Places, role : Managed!PlatformRoles \cup {None}]
        /\ r.answer.total \in 0 .. MaxPages /\ x.at = r.arg /\ x.role = r.answer.role
    BY <1>3, <1>4 DEF UsersAnswers
  <2> HIDE DEF x
  <2>4. /\ u \in UsersUi /\ u.shown = x /\ u.tab = ui.tab /\ u.page = r.arg.page
        /\ ~u.missed /\ u.mixed = ui.mixed
    BY <1>1, <1>3, <2>3 DEF UsersUi
  <2> HIDE DEF u
  <2>5. /\ ui' \in UsersUi /\ ui'.shown = x /\ ui'.tab = ui.tab /\ ui'.page = r.arg.page
        /\ ~ui'.missed /\ ui'.mixed = ui.mixed
    BY <2>2, <2>4 DEF UsersUi
  <2>6. q \in UsersRequest /\ UsersWellMade(q)
    BY <1>1, <1>3, UsersMade DEF UsersUi
  <2> HIDE DEF q
  <2>7. CASE ui.mixed
    <3>1. UsersNetOK(net')
      BY <2>2, <2>6 DEF UsersInv, UsersNetOK
    <3> QED BY <1>1, <2>5, <2>7, <3>1 DEF UsersInv, UsersSettled
  <2>8. CASE ~ui.mixed
    <3>1. r.arg = Managed!At(ui.tab, ui.page) /\ r.arg.page = ui.page
      BY <1>2, <2>8 DEF Named, Managed!At
    <3>2. net' = net \ {r} /\ Named(ui') = r.arg
      BY <2>1, <2>2, <2>5, <3>1 DEF Named
    <3>3. ui'.shown = [at |-> Named(ui'), role |-> RoleIn(db, Named(ui'))]
      BY <1>2, <1>4, <2>5, <2>8, <3>2 DEF x
    <3> QED BY <1>1, <2>5, <3>2, <3>3, UsersOver
  <2> QED BY <2>7, <2>8
<1>5. CASE r.step # "ok"
  <2> DEFINE u == [ui EXCEPT !.loading = FALSE, !.missed = TRUE]
  <2>1. /\ ui' = IF r.on = "account" THEN [u EXCEPT !.creating = FALSE] ELSE u
        /\ net' = net \ {r}
    BY <1>5 DEF Managed!UsersShown
  <2>2. u \in UsersUi /\ u.missed /\ u.mixed = ui.mixed
    BY <1>1 DEF UsersUi
  <2> HIDE DEF u
  <2>3. ui' \in UsersUi /\ ui'.missed /\ ui'.mixed = ui.mixed
    BY <2>1, <2>2 DEF UsersUi
  <2> QED BY <1>1, <2>1, <2>3, UsersOver
<1> QED BY <1>4, <1>5

LEMMA UsersOthers ==
  ASSUME UsersInv, NEW r \in net,
         Managed!OnlineShown(r) \/ Managed!AccountCreated(r) \/ Managed!RoleUpdated(r)
  PROVE  UsersInv'
<1>1. /\ ui \in UsersUi /\ db \in UsersDb /\ r \in UsersRequest /\ UsersWellMade(r)
      /\ UNCHANGED db
  BY DEF UsersInv, UsersNetOK, Managed!OnlineShown, Managed!AccountCreated,
         Managed!RoleUpdated
<1>2. CASE Managed!OnlineShown(r)
  <2>1. PICK b \in BOOLEAN : b = (ui.online \/ r.step = "ok")
    OBVIOUS
  <2>2. ui' = [ui EXCEPT !.online = b] /\ net' = net \ {r} /\ r.kind = "online"
    BY <1>2, <2>1 DEF Managed!OnlineShown
  <2>3. /\ ui' \in UsersUi
        /\ UNCHANGED <<ui.tab, ui.page, ui.shown, ui.missed, ui.mixed>>
    BY <1>1, <2>2 DEF UsersUi
  <2>4. UsersNetOK(net') /\ \A p : p.kind \in UsersKinds => (p \in net' <=> p \in net)
    BY <2>2 DEF UsersInv, UsersNetOK, UsersKinds
  <2> QED BY <1>1, <2>3, <2>4, UsersStay
<1>3. CASE Managed!AccountCreated(r) /\ r.step = "ok"
  <2> DEFINE q == Managed!GetUsers("account", "local", 1)
             p == Managed!GetUsers("page", "local", 1)
  <2>1. PICK b \in BOOLEAN : b = (ui.mixed \/ net \ {r} # {} \/ ui.tab # "local"
                                           \/ ui.page # 1)
    OBVIOUS
  <2>2. /\ ui' = [ui EXCEPT !.modal = FALSE, !.tab = "local", !.page = 1,
                            !.loading = TRUE, !.mixed = b]
        /\ net' = (net \ {r}) \cup {q} \cup
             (IF <<ui.tab, ui.page>> = <<"local", 1>> THEN {} ELSE {p})
    BY <1>3, <2>1 DEF Managed!AccountCreated
  <2>3. 1 \in 1 .. MaxPages /\ "local" \in Managed!AccountSources
    <3>1. ui.page \in 1 .. MaxPages /\ MaxPages \in Nat
      BY <1>1, PagesAssumption DEF UsersUi
    <3> QED BY <3>1 DEF Managed!AccountSources
  <2>4. /\ ui' \in UsersUi /\ ui'.mixed = b /\ ui'.tab = "local" /\ ui'.page = 1
    BY <1>1, <2>2, <2>3 DEF UsersUi
  <2>5. /\ q \in UsersRequest /\ UsersWellMade(q) /\ q.step = "sent"
        /\ q.kind = "users" /\ q.arg = Managed!At("local", 1)
        /\ p \in UsersRequest /\ UsersWellMade(p)
    BY <2>3, UsersMade
  <2> HIDE DEF q, p
  <2>6. UsersNetOK(net')
    BY <2>2, <2>5 DEF UsersInv, UsersNetOK
  <2>7. ASSUME ~b
        PROVE  UsersSettled(ui', net', db)
    <3>1. net' = {q}
      BY <2>1, <2>2, <2>7
    <3> QED BY <2>4, <2>5, <3>1 DEF UsersSettled, UsersKinds, Named
  <2>8. UsersSettled(ui', net', db)
    BY <2>4, <2>7 DEF UsersSettled
  <2> QED BY <1>1, <2>4, <2>6, <2>8 DEF UsersInv
<1>4. ASSUME net' = net \ {r}, r.step # "ok", r.kind \in {"role", "account"},
             ui' \in UsersUi,
             UNCHANGED <<ui.tab, ui.page, ui.shown, ui.missed, ui.mixed>>
      PROVE  UsersInv'
  <2>1. ~ui.mixed => \A p \in net : p.kind \in UsersKinds => p = r
    BY <1>4 DEF UsersInv, UsersSettled, UsersKinds
  <2>2. ~ui.mixed /\ ~ui.missed
          => ui.shown = [at |-> Named(ui), role |-> RoleIn(db, Named(ui))]
    BY <1>4, <2>1 DEF UsersInv, UsersSettled
  <2>3. Named(ui') = Named(ui) /\ r.kind \in UsersKinds
    BY <1>4 DEF Named, UsersKinds
  <2> QED BY <1>1, <1>4, <2>2, <2>3, UsersOver
<1>5. CASE Managed!AccountCreated(r) /\ r.step # "ok"
  <2>1. ui' = [ui EXCEPT !.creating = FALSE] /\ net' = net \ {r} /\ r.kind = "account"
    BY <1>5 DEF Managed!AccountCreated
  <2>2. /\ ui' \in UsersUi
        /\ UNCHANGED <<ui.tab, ui.page, ui.shown, ui.missed, ui.mixed>>
    BY <1>1, <2>1 DEF UsersUi
  <2> QED BY <1>4, <1>5, <2>1, <2>2
<1>6. CASE Managed!RoleUpdated(r) /\ r.step # "ok"
  <2>1. ui' = [ui EXCEPT !.updating = None] /\ net' = net \ {r} /\ r.kind = "role"
    BY <1>6 DEF Managed!RoleUpdated
  <2>2. /\ ui' \in UsersUi
        /\ UNCHANGED <<ui.tab, ui.page, ui.shown, ui.missed, ui.mixed>>
    BY <1>1, <2>1 DEF UsersUi
  <2> QED BY <1>4, <1>6, <2>1, <2>2
<1>7. CASE Managed!RoleUpdated(r) /\ r.step = "ok"
  <2>1. /\ net' = net \ {r} /\ r.kind = "role" /\ r.kind \in UsersKinds
        /\ r.on \in Managed!Places /\ r.arg \in Managed!PlatformRoles
    BY <1>1, <1>7 DEF Managed!RoleUpdated, UsersWellMade, UsersKinds
  <2>2. ~ui.mixed /\ ~ui.missed =>
          /\ ui.shown # None /\ ui.shown.at = Named(ui) /\ r.on = Named(ui)
          /\ RoleIn(db, Named(ui)) = r.arg
    BY <1>7, <2>1 DEF UsersInv, UsersSettled, RoleIn
  <2>3. CASE ui.shown # None /\ ui.shown.at = r.on
    <3> DEFINE x == [ui.shown EXCEPT !.role = r.arg]
    <3>1. ui' = [ui EXCEPT !.updating = None, !.shown = x]
      BY <1>7, <2>1, <2>3 DEF Managed!RoleUpdated
    <3>2. ui.shown \in [at : Managed!Places, role : Managed!PlatformRoles \cup {None}]
      BY <1>1, <2>3 DEF UsersUi
    <3>3. /\ x \in [at : Managed!Places, role : Managed!PlatformRoles \cup {None}]
          /\ x = [at |-> ui.shown.at, role |-> r.arg]
      BY <2>1, <3>2
    <3> HIDE DEF x
    <3>4. ui' \in UsersUi /\ ui'.shown = x /\ UNCHANGED <<ui.tab, ui.page, ui.missed, ui.mixed>>
      BY <1>1, <3>1, <3>3 DEF UsersUi
    <3>5. Named(ui') = Named(ui)
      BY <3>4 DEF Named
    <3> QED BY <1>1, <2>1, <2>2, <3>3, <3>4, <3>5, UsersOver
  <2>4. CASE ~(ui.shown # None /\ ui.shown.at = r.on)
    <3>1. ui.mixed \/ ui.missed
      BY <2>2, <2>4
    <3>2. ui' = [ui EXCEPT !.updating = None, !.shown = ui.shown]
      BY <1>7, <2>1, <2>4 DEF Managed!RoleUpdated
    <3>3. ui' \in UsersUi /\ UNCHANGED <<ui.missed, ui.mixed>>
      BY <1>1, <3>2 DEF UsersUi
    <3> QED BY <1>1, <2>1, <3>1, <3>3, UsersOver
  <2> QED BY <2>3, <2>4
<1> QED BY <1>2, <1>3, <1>5, <1>6, <1>7

LEMMA UsersStep ==
  ASSUME UsersInv, Managed!UsersNext
  PROVE  UsersInv'
<1>1. CASE \E tab \in Managed!AccountSources : Managed!SelectSource(tab)
  <2>1. PICK tab \in Managed!AccountSources : Managed!Turned(tab, 1)
    BY <1>1 DEF Managed!SelectSource
  <2>2. ui.page \in 1 .. MaxPages /\ MaxPages \in Nat
    BY PagesAssumption DEF UsersInv, UsersUi
  <2>3. 1 \in 1 .. MaxPages
    BY <2>2
  <2> QED BY <2>1, <2>3, UsersTurned
<1>2. CASE \E p \in 1 .. MaxPages : Managed!SetUserPage(p)
  <2>1. PICK p \in 1 .. MaxPages : Managed!Turned(ui.tab, p)
    BY <1>2 DEF Managed!SetUserPage
  <2>2. ui.tab \in Managed!AccountSources
    BY DEF UsersInv, UsersUi
  <2> QED BY <2>1, <2>2, UsersTurned
<1> QED BY <1>1, <1>2, UsersServedStep, UsersListed, UsersOthers, UsersButtons
        DEF Managed!UsersNext

LEMMA UsersInitial ==
  ASSUME Managed!UsersInit
  PROVE  UsersInv
<1> DEFINE q == Managed!GetUsers("page", "local", 1)
<1>1. net = {q}
  BY DEF Managed!UsersInit
<1>2. PICK n \in 1 .. MaxPages :
        /\ db.total = [s \in Managed!AccountSources |-> n]
        /\ db.role = [p \in Managed!Places |-> IF p = Managed!OwnPlace THEN "admin" ELSE "user"]
        /\ db = [total |-> db.total, role |-> db.role]
  BY DEF Managed!UsersInit
<1>3. MaxPages \in Nat /\ 1 \in 1 .. MaxPages /\ n \in 0 .. MaxPages
  <2>1. MaxPages \in Nat /\ n \in 1 .. MaxPages
    BY <1>2, PagesAssumption
  <2> QED BY <2>1
<1>4. db \in UsersDb
  <2>1. /\ db.total \in [Managed!AccountSources -> 0 .. MaxPages]
        /\ db.role \in [Managed!Places -> Managed!PlatformRoles]
    BY <1>2, <1>3 DEF Managed!PlatformRoles
  <2> QED BY <1>2, <2>1 DEF UsersDb
<1>5. ui \in UsersUi /\ ui.tab = "local" /\ ui.page = 1
  BY <1>3, PagesAssumption DEF Managed!UsersInit, UsersUi, Managed!AccountSources
<1>6. /\ q \in UsersRequest /\ UsersWellMade(q) /\ q.step = "sent"
      /\ q.kind = "users" /\ q.arg = Managed!At("local", 1)
  BY <1>3, UsersMade DEF Managed!AccountSources
<1> HIDE DEF q
<1>7. UsersSettled(ui, net, db)
  BY <1>1, <1>5, <1>6 DEF UsersSettled, UsersKinds, Named
<1> QED BY <1>1, <1>4, <1>5, <1>6, <1>7 DEF UsersInv, UsersNetOK

UsersPageInv == page = "users" => UsersInv

LEMMA UsersHold ==
  /\ Init => UsersPageInv
  /\ UsersPageInv /\ [Next]_vars => UsersPageInv'
<1>1. Init => UsersPageInv
  BY UsersInitial DEF Init, UsersPageInv
<1>2. ASSUME UsersInv, UNCHANGED <<ui, net, db>>
      PROVE  UsersInv'
  BY <1>2 DEF UsersInv
<1>3. UsersPageInv /\ [Next]_vars => UsersPageInv'
  BY <1>2, UsersStep DEF UsersPageInv, Next, vars, pageVars
<1> QED BY <1>1, <1>3

\* The accounts shown are those of the source and the page named above them,
\* with the roles they have (fetchUsers, handleRoleUpdate), unless requests
\* overlapped or the last fetch failed.
THEOREM UsersAreStored == Spec => []UsersShownAreStored
<1>1. UsersPageInv => UsersShownAreStored
  <2>1. ASSUME UsersInv
        PROVE  Managed!UsersShownAreStored
    <3>1. Managed!RoleAt(Named(ui)) = RoleIn(db, Named(ui))
      BY DEF Managed!RoleAt, RoleIn, Exists
    <3>2. Managed!InFlight(Managed!ChangingKinds) = {}
            => \A p \in net : p.kind \notin UsersKinds
      BY DEF Managed!InFlight, Managed!ChangingKinds, UsersKinds
    <3> QED BY <2>1, <3>1, <3>2 DEF UsersInv, UsersSettled, Managed!UsersShownAreStored, Named
  <2> QED BY <2>1 DEF UsersPageInv, UsersShownAreStored
<1> QED BY <1>1, UsersHold, PTL DEF Spec

-----------------------------------------------------------------------------
(* The types of all pages: those above, and that of the messages.          *)

MessagesUi == [filled : BOOLEAN, target : {"all", "specific"},
               selected : SUBSET Accounts, users : SUBSET Accounts,
               page : 1 .. MaxPages, total : 0 .. MaxPages, search : BOOLEAN,
               loading : BOOLEAN, sending : BOOLEAN]

MessagesDb == [reached : SUBSET Accounts, pages : 1 .. MaxPages]

UserLists == [users : SUBSET Accounts, total : 1 .. MaxPages]

MessagesRequest ==
  Requests({"users", "notify"}, (1 .. MaxPages) \cup {None}, BOOLEAN \cup (SUBSET Accounts),
           UserLists \cup {None})

MessagesWellMade(r) ==
  /\ r.kind = "users" /\ r.step = "ok" => r.answer \in UserLists
  /\ r.kind = "notify" => r.arg \in SUBSET Accounts

MessagesNetOK(n) == n \subseteq MessagesRequest /\ \A r \in n : MessagesWellMade(r)

MessagesInv == ui \in MessagesUi /\ db \in MessagesDb /\ MessagesNetOK(net)

USE DEF Messages!Sent, Messages!Answered, Messages!Refused, Messages!Others, Messages!Act

LEMMA MessagesServedStep ==
  ASSUME MessagesInv, NEW r \in net, Messages!MessagesServed(r)
  PROVE  MessagesInv'
<1>1. /\ UNCHANGED ui /\ ui \in MessagesUi /\ db \in MessagesDb
      /\ r \in MessagesRequest /\ MessagesWellMade(r)
  BY DEF MessagesInv, MessagesNetOK, Messages!MessagesServed
<1>2. ASSUME NEW q \in MessagesRequest, MessagesWellMade(q), db' \in MessagesDb,
             net' = (net \ {r}) \cup {q}
      PROVE  MessagesInv'
  BY <1>1, <1>2 DEF MessagesInv, MessagesNetOK
<1>3. ASSUME NEW a \in UserLists \cup {None}, Messages!Answer(r, a), db' \in MessagesDb,
             r.kind = "users" => a \in UserLists
      PROVE  MessagesInv'
  <2> DEFINE q == [r EXCEPT !.step = "ok", !.answer = a]
  <2>1. net' = (net \ {r}) \cup {q}
    BY <1>3 DEF Messages!Answer
  <2>2. q \in MessagesRequest /\ q.kind = r.kind /\ q.arg = r.arg /\ q.answer = a
    BY <1>1, <1>3 DEF MessagesRequest, Requests, Steps
  <2> HIDE DEF q
  <2>3. MessagesWellMade(q)
    BY <1>1, <1>3, <2>2 DEF MessagesWellMade
  <2> QED BY <1>2, <1>3, <2>1, <2>2, <2>3
<1>4. ASSUME NEW users \in SUBSET Accounts, UNCHANGED db,
             Messages!Answer(r, [users |-> users, total |-> db.pages])
      PROVE  MessagesInv'
  <2>1. [users |-> users, total |-> db.pages] \in UserLists
    BY <1>1 DEF UserLists, MessagesDb
  <2> QED BY <1>1, <1>3, <1>4, <2>1
<1>5. CASE /\ r.kind = "notify" /\ Messages!Answer(r, None)
           /\ db' = [db EXCEPT !.reached = @ \cup Messages!Recipients(r.arg)]
  <2>1. Messages!Recipients(r.arg) \in SUBSET Accounts
    BY <1>1, <1>5 DEF MessagesWellMade, Messages!Recipients
  <2>2. db' \in MessagesDb
    BY <1>1, <1>5, <2>1 DEF MessagesDb
  <2> QED BY <1>3, <1>5, <2>2
<1>6. CASE Messages!Refuse(r) /\ UNCHANGED db
  <2> DEFINE q == [r EXCEPT !.step = "failed"]
  <2>1. net' = (net \ {r}) \cup {q}
    BY <1>6 DEF Messages!Refuse
  <2>2. q \in MessagesRequest /\ q.kind = r.kind /\ q.arg = r.arg /\ q.step = "failed"
    BY <1>1 DEF MessagesRequest, Requests, Steps
  <2> HIDE DEF q
  <2>3. MessagesWellMade(q)
    BY <1>1, <2>2 DEF MessagesWellMade
  <2> QED BY <1>1, <1>2, <1>6, <2>1, <2>2, <2>3
<1> QED BY <1>4, <1>5, <1>6 DEF Messages!MessagesServed

LEMMA MessagesChosen ==
  ASSUME MessagesInv, NEW target \in {"all", "specific"}, NEW search \in BOOLEAN,
         NEW p \in 1 .. MaxPages, Messages!Choosing(target, search, p)
  PROVE  MessagesInv'
<1> DEFINE q == Messages!GetMessageUsers(p, search)
<1>1. ui \in MessagesUi /\ db \in MessagesDb /\ MessagesNetOK(net) /\ UNCHANGED db
  BY DEF MessagesInv, Messages!Choosing
<1>2. PICK b \in BOOLEAN : b = (ui.loading \/ target = "specific")
  OBVIOUS
<1>3. /\ ui' = [ui EXCEPT !.target = target, !.search = search, !.page = p, !.loading = b]
      /\ net' = net \cup (IF target = "specific" THEN {q} ELSE {})
  BY <1>2 DEF Messages!Choosing
<1>4. ui' \in MessagesUi
  BY <1>1, <1>3 DEF MessagesUi
<1>5. q \in MessagesRequest /\ MessagesWellMade(q)
  BY DEF Messages!GetMessageUsers, Messages!Request, MessagesRequest, Requests, Steps,
         MessagesWellMade
<1> HIDE DEF q
<1> QED BY <1>1, <1>3, <1>4, <1>5 DEF MessagesInv, MessagesNetOK

LEMMA MessagesButtons ==
  ASSUME MessagesInv,
         \/ Messages!Fill \/ Messages!SetSearch \/ Messages!SendAdminMessage
         \/ \E target \in {"all", "specific"} : Messages!SetTarget(target)
         \/ \E p \in 1 .. MaxPages : Messages!SetMessagePage(p)
         \/ \E a \in Accounts : Messages!Tick(a)
  PROVE  MessagesInv'
<1>1. /\ ui \in MessagesUi /\ db \in MessagesDb /\ MessagesNetOK(net)
      /\ ui.target \in {"all", "specific"} /\ ui.search \in BOOLEAN
      /\ ui.page \in 1 .. MaxPages /\ ui.selected \in SUBSET Accounts
  BY DEF MessagesInv, MessagesUi
<1>2. CASE Messages!Fill
  <2>1. PICK b \in BOOLEAN : b = ~ui.filled
    OBVIOUS
  <2>2. ui' = [ui EXCEPT !.filled = b] /\ UNCHANGED <<net, db>>
    BY <1>2, <2>1 DEF Messages!Fill
  <2>3. ui' \in MessagesUi
    BY <1>1, <2>2 DEF MessagesUi
  <2> QED BY <1>1, <2>2, <2>3 DEF MessagesInv
<1>3. CASE Messages!SetSearch
  <2>1. PICK b \in BOOLEAN : b = ~ui.search
    OBVIOUS
  <2>2. Messages!Choosing(ui.target, b, 1) /\ 1 \in 1 .. MaxPages
    BY <1>1, <1>3, <2>1, PagesAssumption DEF Messages!SetSearch
  <2> QED BY <1>1, <2>2, MessagesChosen
<1>4. ASSUME NEW target \in {"all", "specific"}, Messages!SetTarget(target)
      PROVE  MessagesInv'
  BY <1>1, <1>4, MessagesChosen DEF Messages!SetTarget
<1>5. ASSUME NEW p \in 1 .. MaxPages, Messages!SetMessagePage(p)
      PROVE  MessagesInv'
  BY <1>1, <1>5, MessagesChosen DEF Messages!SetMessagePage
<1>6. ASSUME NEW a \in Accounts, Messages!Tick(a)
      PROVE  MessagesInv'
  <2> DEFINE s == IF a \in ui.selected THEN ui.selected \ {a} ELSE ui.selected \cup {a}
  <2>1. ui' = [ui EXCEPT !.selected = s] /\ UNCHANGED <<net, db>>
    BY <1>6 DEF Messages!Tick
  <2>2. s \in SUBSET Accounts
    BY <1>1
  <2> HIDE DEF s
  <2>3. ui' \in MessagesUi
    BY <1>1, <2>1, <2>2 DEF MessagesUi
  <2> QED BY <1>1, <2>1, <2>3 DEF MessagesInv
<1>7. CASE Messages!SendAdminMessage
  <2> DEFINE ids == IF ui.target = "specific" THEN ui.selected ELSE {}
             q == Messages!PostMessage(ids)
  <2>1. ui' = [ui EXCEPT !.sending = TRUE] /\ net' = net \cup {q} /\ UNCHANGED db
    BY <1>7 DEF Messages!SendAdminMessage
  <2>2. ids \in SUBSET Accounts
    BY <1>1
  <2> HIDE DEF ids
  <2>3. q \in MessagesRequest /\ MessagesWellMade(q)
    BY <2>2 DEF Messages!PostMessage, Messages!Request, MessagesRequest, Requests, Steps,
                MessagesWellMade
  <2> HIDE DEF q
  <2>4. ui' \in MessagesUi
    BY <1>1, <2>1 DEF MessagesUi
  <2> QED BY <1>1, <2>1, <2>3, <2>4 DEF MessagesInv, MessagesNetOK
<1> QED BY <1>2, <1>3, <1>4, <1>5, <1>6, <1>7

LEMMA MessagesAnswered ==
  ASSUME MessagesInv, NEW r \in net,
         Messages!MessageUsersShown(r) \/ Messages!MessageSent(r)
  PROVE  MessagesInv'
<1>1. /\ ui \in MessagesUi /\ db \in MessagesDb /\ MessagesNetOK(net)
      /\ MessagesWellMade(r) /\ UNCHANGED db /\ net' = net \ {r}
  BY DEF MessagesInv, MessagesNetOK, Messages!MessageUsersShown, Messages!MessageSent
<1>2. ui' \in MessagesUi
  <2>1. CASE Messages!MessageUsersShown(r) /\ r.step = "ok"
    <3>1. r.answer.users \in SUBSET Accounts /\ r.answer.total \in 1 .. MaxPages
      BY <1>1, <2>1 DEF Messages!MessageUsersShown, MessagesWellMade, UserLists
    <3>2. r.answer.total \in 0 .. MaxPages
      BY <3>1, PagesAssumption
    <3>3. ui' = [ui EXCEPT !.users = r.answer.users, !.total = r.answer.total,
                           !.loading = FALSE]
      BY <2>1 DEF Messages!MessageUsersShown
    <3> QED BY <1>1, <3>1, <3>2, <3>3 DEF MessagesUi
  <2>2. CASE Messages!MessageUsersShown(r) /\ r.step # "ok"
    <3>1. ui' = [ui EXCEPT !.users = {}, !.loading = FALSE]
      BY <2>2 DEF Messages!MessageUsersShown
    <3> QED BY <1>1, <3>1 DEF MessagesUi
  <2>3. CASE Messages!MessageSent(r)
    <3>1. \/ ui' = [ui EXCEPT !.filled = FALSE, !.selected = {}, !.sending = FALSE]
          \/ ui' = [ui EXCEPT !.sending = FALSE]
      BY <2>3 DEF Messages!MessageSent
    <3> QED BY <1>1, <3>1 DEF MessagesUi
  <2> QED BY <2>1, <2>2, <2>3
<1> QED BY <1>1, <1>2 DEF MessagesInv, MessagesNetOK

LEMMA MessagesStep ==
  ASSUME MessagesInv, Messages!MessagesNext
  PROVE  MessagesInv'
BY MessagesServedStep, MessagesButtons, MessagesAnswered DEF Messages!MessagesNext

LEMMA MessagesInitial ==
  ASSUME Messages!MessagesInit
  PROVE  MessagesInv
<1>1. db \in MessagesDb
  BY DEF Messages!MessagesInit, MessagesDb
<1>2. db.pages \in 1 .. MaxPages /\ MaxPages \in Nat
  BY <1>1, PagesAssumption DEF MessagesDb
<1>3. 1 \in 1 .. MaxPages /\ 0 \in 0 .. MaxPages
  BY <1>2
<1>4. ui \in MessagesUi /\ net = {}
  BY <1>3 DEF Messages!MessagesInit, MessagesUi
<1> QED BY <1>1, <1>4 DEF MessagesInv, MessagesNetOK

MessagesPageInv == page = "messages" => MessagesInv

LEMMA MessagesHold ==
  /\ Init => MessagesPageInv
  /\ MessagesPageInv /\ [Next]_vars => MessagesPageInv'
<1>1. Init => MessagesPageInv
  BY MessagesInitial DEF Init, MessagesPageInv
<1>2. ASSUME MessagesInv, UNCHANGED <<ui, net, db>>
      PROVE  MessagesInv'
  BY <1>2 DEF MessagesInv
<1>3. MessagesPageInv /\ [Next]_vars => MessagesPageInv'
  BY <1>2, MessagesStep DEF MessagesPageInv, Next, vars, pageVars
<1> QED BY <1>1, <1>3

\* Each page keeps the type of its state, whichever page the router mounts: the
\* invariants of the pages, of which these types are a part, hold together.
THEOREM PagesAreTyped == Spec => []TypeOK
<1> DEFINE AllInv ==
      /\ DetailPageInv /\ Inv /\ AccessInv /\ HomePageInv /\ ToolsPageInv
      /\ ManagerPageInv /\ PurposesPageInv /\ ResultsPageInv /\ UploadPageInv
      /\ UsersPageInv /\ MessagesPageInv
<1>1. Init => AllInv
  BY DetailInitial, PanelInit, AccessInit, HomeHolds, ToolsHold, ManagerHolds,
     PurposesHold, ResultsHold, UploadHolds, UsersHold, MessagesHold
<1>2. AllInv /\ [Next]_vars => AllInv'
  BY DetailPreserved, PanelNext, AccessNext, HomeHolds, ToolsHold, ManagerHolds,
     PurposesHold, ResultsHold, UploadHolds, UsersHold, MessagesHold
<1>3. AllInv => TypeOK
  <2> SUFFICES ASSUME AllInv PROVE TypeOK
    OBVIOUS
  <2>1. page = "detail" => Detail!DetailTypeOK
    BY DEF DetailPageInv, DetailInv, DetailUiType, StoreType, NamesOf, Detail!DetailTypeOK
  <2>2. page = "prompts" => ResultsOf!PromptsTypeOK
    BY DEF ResultsPageInv, ResultsInv, ResultsUi, ResultsDb, ResultsOf!PromptsTypeOK
  <2>3. page = "upload" => Upload!UploadTypeOK
    BY DEF UploadPageInv, UploadInv, UploadUi, UploadDb, Item, Upload!UploadTypeOK
  <2>4. page = "overview" => Overview!OverviewTypeOK
    BY DEF Inv, PanelInv
  <2>5. page = "home" => Start!HomeTypeOK
    BY DEF HomePageInv, HomeInv, HomeUi, HomeDb, Start!HomeTypeOK
  <2>6. page = "access" => Access!AccountTypeOK
    BY DEF AccessInv, AccountInv
  <2>7. page = "manager" => Manager!ManagerTypeOK
    BY DEF ManagerPageInv, ManagerInv, ManagerUi, ManagerDb, EditedUi, Rows,
           Manager!ManagerTypeOK, Manager!ListType
  <2>8. page = "purposes" => Purposes!PurposesTypeOK
    BY DEF PurposesPageInv, PurposesInv, PurposesUi, PurposeRows, StoredPurpose, EditedUi,
           Purposes!PurposesTypeOK, Purposes!ListType
  <2>9. page = "tools" => Tools!ToolsTypeOK
    BY DEF ToolsPageInv, ToolsInv, ToolsUi, Tools!ToolsTypeOK
  <2>10. page = "messages" => Messages!MessagesTypeOK
    BY DEF MessagesPageInv, MessagesInv, MessagesUi, MessagesDb, Messages!MessagesTypeOK
  <2>11. page = "users" => Managed!UsersTypeOK
    BY DEF UsersPageInv, UsersInv, UsersUi, UsersDb, Managed!UsersTypeOK
  <2> QED BY <2>1, <2>2, <2>3, <2>4, <2>5, <2>6, <2>7, <2>8, <2>9, <2>10, <2>11 DEF TypeOK
<1> QED BY <1>1, <1>2, <1>3, PTL DEF Spec
=============================================================================
