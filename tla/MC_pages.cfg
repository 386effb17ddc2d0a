SPECIFICATION Spec
CONSTANTS
  None = None
  MaxActs = 3
  FewActs = 2
  Ids = {i1, i2}
  Users = {u1, u2}
  Speakers = {a, b}
  Names = {n1, n2}
  Prompts = {p1, p2}
  MaxResults = 3
  Files = {f1, f2}
  MaxItems = 3
  MaxPages = 2
  Things = {t1, t2}
  Queues = {q1, q2}
  Accounts = {acc1, acc2}
INVARIANTS
  TypeOK
  NamesShownAreStored
  MembersShownAreStored
  ResultsShownAreStored
  StoredOnce
  AppOnlyWhereAllowed
  UserIsTokens
  PromptFormsAreOwn
  EditedAreStored
  PagesDoNotChase
  UsersShownAreStored
PROPERTIES
  DetailIsLatest
  PanelIsLatest
  BucketsAreLatest
  EndsByItself
CHECK_DEADLOCK FALSE
