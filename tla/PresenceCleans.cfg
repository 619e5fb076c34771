\* One connection whose handlers overlap, and every fault.
SPECIFICATION FairSpec

CONSTANTS
  s1 = s1
  s2 = s2
  s3 = s3
  u1 = u1
  u2 = u2
  Sockets = {s1}
  Users = {u1}
  Workspaces = {w1}
  UserOf <- OneSocket
  Handlers = {h1, h2}
  Behaviours = {"sockets", "expire", "redis", "crash", "leave"}

INVARIANT TypeOK
PROPERTY EventuallyNobody

\* Every connection may be closed and every key expired.
CHECK_DEADLOCK FALSE
