SPECIFICATION Spec
CONSTANTS
  None = None
  ka = ka
  kb = kb
  login = login
  Ids = {s1, s2}
  Users = {alice}
  Challenges = {c1, c2, c3, c4}
  Jwks = {ka, kb}
  JwkKind <- MCJwkKind
  Authorizations = {login}
  Authorization = login
  Ttl = 1
  I64Max = 7
  OverflowChecks = TRUE
  Workers = {w1, w2}
  Shapes <- MCShapes
  MaxTime = 1
  Overlap = TRUE
  StoreMayFail = FALSE
  ClockStepsBack = FALSE
SYMMETRY Symmetry
INVARIANTS
  TypeOK
  StoredChallengeUnspent
  ProofsStayInTheirSession
  KeysAreProved
  NeverUnbound
  ExpiryHonoursTtl
PROPERTIES
  DeadStaysDead
