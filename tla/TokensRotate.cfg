\* Two instances, an address in two spellings, overlapping requests, expiry, restarts.
SPECIFICATION Spec

CONSTANTS
  ann = ann
  Ann = Ann
  Spellings = {ann, Ann}
  Lower <- OneUser
  Passwords = {w1, w2}
  Instances = {i1, i2}
  Requests = {r1, r2}
  Tokens = {t1, t2, t3}
  UserIds = {u1, u2}
  MaxOverlaps = 1

SYMMETRY Symmetric

INVARIANT TypeOK
INVARIANT RegistrationIsKept
INVARIANT ExtraTokensAreOverlaps
PROPERTY EndedSessionsStayEnded
PROPERTY SpentTokensStaySpent

\* Every token may be issued and expired.
CHECK_DEADLOCK FALSE
