CONSTANTS
  c1 = c1
  c2 = c2
  c3 = c3
  ann = ann
  bob = bob
  cas = cas
  Sessions = {s1}
  Users = {ann, bob, cas}
  Clients = {c1, c2, c3}
  Posts = {p1}
  UserOf <- ThreeTabs
  Invitable = {s1}
  None = None
SPECIFICATION Spec
SYMMETRY Symmetry
CHECK_DEADLOCK FALSE
INVARIANT TypeOK
INVARIANT OneOwner
INVARIANT LinkKnowsOwner
PROPERTY RolesAreGivenOnce
