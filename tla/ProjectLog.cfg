\* Any calls on one project, two in flight, while membership changes.
SPECIFICATION Spec

CONSTANTS
  Workspaces = {w1}
  Users = {u1, u2}
  Callers = {u2}
  Projects = {p1}
  Paths = {x1}
  FileIds = {f1, f2}
  Keys = {k1}
  Calls = {c1, c2}

SYMMETRY Symmetric

INVARIANT TypeOK
INVARIANT LogTellsFiles
INVARIANT DeletedProjectsStayDeleted
INVARIANT WritersWereEntitled
PROPERTY KeysAreKept

\* The workspace may be deleted for good.
CHECK_DEADLOCK FALSE
