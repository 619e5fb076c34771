\* Two projects, five events on pages of at most three.
SPECIFICATION Spec

CONSTANTS
  Projects = {p1, p2}
  MaxEvents = 5
  MaxLimit = 3
  Pages <- SomePages
  Limits <- SomeLimits

INVARIANT TypeOK
INVARIANT NoEventIsSkipped
INVARIANT RepeatsAreFew

\* All projects may be deleted.
CHECK_DEADLOCK FALSE
