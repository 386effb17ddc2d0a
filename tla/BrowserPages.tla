---------------------------- MODULE BrowserPages ----------------------------
(***************************************************************************)
(* The pages of the browser application, of which the router mounts one.   *)
(***************************************************************************)
EXTENDS Page

CONSTANTS Ids, Users, Speakers, Names, Prompts, MaxResults, Files, MaxItems,
          MaxPages, Accounts, Things,
          Queues

CONSTANT FewActs   \* MaxActs of the pages with the most state

ASSUME PagesAssumption ==
  /\ {FewActs, MaxPages, MaxItems} \subseteq Nat /\ MaxResults \in Nat \ {0}
  /\ None \notin Ids /\ None \notin Accounts /\ None \notin Nat
  /\ Names # {}

VARIABLE page

vars == <<page, pageVars>>

Detail == INSTANCE SessionDetailPage WITH MaxActs <- FewActs
ResultsOf == INSTANCE DetailPrompts
Upload == INSTANCE SessionUploadPage
Overview == INSTANCE SessionOverviewPage
Start == INSTANCE HomePage
Access == INSTANCE Account
Manager == INSTANCE PromptManager WITH MaxActs <- FewActs
Purposes == INSTANCE AdminPurposes WITH MaxActs <- FewActs
Tools == INSTANCE AdminTools
Messages == INSTANCE AdminMessages
Managed == INSTANCE AdminUsers

\* Nothing shown is not a session.
ASSUME DetailAssumption == None \notin Detail!Details

\* Nor is no purpose a purpose, or no source of sound a source.
ASSUME HomeAssumption == None \notin Start!HomePurposes \cup Start!Sources

Init ==
  \/ page = "detail" /\ Detail!DetailInit
  \/ page = "prompts" /\ ResultsOf!PromptsInit
  \/ page = "upload" /\ Upload!UploadInit
  \/ page = "overview" /\ Overview!OverviewInit
  \/ page = "home" /\ Start!HomeInit
  \/ page = "access" /\ Access!AccountInit
  \/ page = "manager" /\ Manager!ManagerInit
  \/ page = "purposes" /\ Purposes!PurposesInit
  \/ page = "tools" /\ Tools!ToolsInit
  \/ page = "messages" /\ Messages!MessagesInit
  \/ page = "users" /\ Managed!UsersInit

Next ==
  /\ \/ page = "detail" /\ Detail!DetailNext
     \/ page = "prompts" /\ ResultsOf!PromptsNext
     \/ page = "upload" /\ Upload!UploadNext
     \/ page = "overview" /\ Overview!OverviewNext
     \/ page = "home" /\ Start!HomeNext
     \/ page = "access" /\ Access!AccountNext
     \/ page = "manager" /\ Manager!ManagerNext
     \/ page = "purposes" /\ Purposes!PurposesNext
     \/ page = "tools" /\ Tools!ToolsNext
     \/ page = "messages" /\ Messages!MessagesNext
     \/ page = "users" /\ Managed!UsersNext
  /\ UNCHANGED page

Spec == Init /\ [][Next]_vars

-----------------------------------------------------------------------------
On(p, value, otherwise) == IF page = p THEN value ELSE otherwise

DetailView ==
  INSTANCE LatestView WITH
    Keys <- Ids,
    key <- On("detail", Detail!DetailKey, None),
    shown <- On("detail", Detail!DetailShown, None),
    state <- On("detail", Detail!DetailState, "ready")

PanelView ==
  INSTANCE LatestView WITH
    Keys <- Ids,
    key <- On("overview", ui.selected, None),
    shown <- On("overview", ui.detail, None),
    state <- On("overview", Overview!PanelState, "ready")

OwnView ==
  INSTANCE LatestView WITH
    Keys <- 1 .. MaxPages,
    key <- On("overview", ui.buckets.owner.page, None),
    shown <- On("overview", ui.buckets.owner.shown, None),
    state <- On("overview", Overview!BucketState("owner"), "ready")

GuestView ==
  INSTANCE LatestView WITH
    Keys <- 1 .. MaxPages,
    key <- On("overview", ui.buckets.guest.page, None),
    shown <- On("overview", ui.buckets.guest.shown, None),
    state <- On("overview", Overview!BucketState("guest"), "ready")

TypeOK ==
  /\ page = "detail" => Detail!DetailTypeOK
  /\ page = "prompts" => ResultsOf!PromptsTypeOK
  /\ page = "upload" => Upload!UploadTypeOK
  /\ page = "overview" => Overview!OverviewTypeOK
  /\ page = "home" => Start!HomeTypeOK
  /\ page = "access" => Access!AccountTypeOK
  /\ page = "manager" => Manager!ManagerTypeOK
  /\ page = "purposes" => Purposes!PurposesTypeOK
  /\ page = "tools" => Tools!ToolsTypeOK
  /\ page = "messages" => Messages!MessagesTypeOK
  /\ page = "users" => Managed!UsersTypeOK

\* useSessionDetailData: a page that says neither loading nor error shows the
\* session of its address, whatever jump cancelled which request.
DetailIsLatest == DetailView!ViewSpec

\* useSessionOverviewDetail: the panel shows the session selected last.
PanelIsLatest == PanelView!ViewSpec

\* useSessionBuckets: each list shows the page its pager names.
BucketsAreLatest == OwnView!ViewSpec /\ GuestView!ViewSpec

\* renameSpeaker: a refused rename is undone on the page.
NamesShownAreStored == page = "detail" => Detail!NamesShownAreStored

\* inviteMember, removeMember: the members listed, on the page of a session and
\* in the panel, are those of the session shown.
MembersShownAreStored ==
  /\ page = "detail" => Detail!MembersShownAreStored
  /\ page = "overview" => Overview!PanelMembersAreStored

\* applyPrompt, deletePromptResult: the results listed are the stored ones.
ResultsShownAreStored == page = "prompts" => ResultsOf!ResultsShownAreStored

\* handleUpload: pressed again it does not store a file a second time.
StoredOnce == page = "upload" => Upload!StoredOnce

\* Home: a tab's sound is recorded only where the purpose allows it.
AppOnlyWhereAllowed == page = "home" => Start!AppOnlyWhereAllowed

\* AuthProvider: the profile shown is the one of the token in use.
UserIsTokens == page = "access" => Access!UserIsTokens

\* AuthProvider: only a logout, a refused profile or a changed password ends a
\* login.
EndsByItself == [][page = "access" => Access!EndsByItself]_vars

\* handleSavePrompt: a prompt is saved from the form opened for it.
PromptFormsAreOwn == page = "manager" => Manager!PromptFormsAreOwn

\* refreshPrompts, refreshPurposeList: the card shows the prompts the server has
\* for the user, the tab shows the purposes there are.
EditedAreStored ==
  /\ page = "manager" => Manager!PromptsShownAreStored
  /\ page = "purposes" => Purposes!PurposesShownAreStored

\* fetchPromptPage: two answers never make each other fetch without end.
PagesDoNotChase == page = "tools" => Tools!PagesDoNotChase

\* handleRoleUpdate, fetchUsers: the accounts shown are those of the tab and the
\* page named above them.
UsersShownAreStored == page = "users" => Managed!UsersShownAreStored
=============================================================================
