\* Two instances with a client each, two events, any connection may fail.
SPECIFICATION Spec

CONSTANTS
  i1 = i1
  i2 = i2
  c1 = c1
  c2 = c2
  Instances = {i1, i2}
  Clients = {c1, c2}
  home <- TwoHomes
  MaxEvents = 2

SYMMETRY Symmetric

INVARIANT TypeOK
INVARIANT CopiesAreBounded
INVARIANT PublishedReachesAll
INVARIANT ClientsAgree

\* Every event may have been emitted.
CHECK_DEADLOCK FALSE
