\* Handlers of two users interleave, those of one user do not.
SPECIFICATION Spec

CONSTANTS
  s1 = s1
  s2 = s2
  s3 = s3
  u1 = u1
  u2 = u2
  Sockets = {s1, s2, s3}
  Users = {u1, u2}
  Workspaces = {w1, w2}
  UserOf <- TwoUsers
  Handlers = {h1, h2}
  Behaviours = {"users"}

SYMMETRY HandlerSymmetry

INVARIANT ActiveUsersAreListed
INVARIANT ListedUsersAreActive

\* Every connection may be closed and every key expired.
CHECK_DEADLOCK FALSE
