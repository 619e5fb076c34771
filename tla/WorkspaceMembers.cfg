\* Any calls on one workspace, two in flight.
SPECIFICATION Spec

CONSTANTS
  Workspaces = {w1}
  Users = {u1, u2, u3}
  Calls = {c1, c2}
  MemberIds = {m1, m2, m3, m4, m5}

SYMMETRY Symmetric

INVARIANT TypeOK
INVARIANT OwnerIsMember
INVARIANT RemovedStaysOut
INVARIANT NobodyPromotesThemselves
PROPERTY ImplementsMembership

\* The workspace may be deleted for good.
CHECK_DEADLOCK FALSE
