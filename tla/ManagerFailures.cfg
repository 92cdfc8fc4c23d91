SPECIFICATION Spec
CONSTANTS
  None = None
  ka = ka
  kb = kb
  login = login
  Ids = {s1}
  Users = {alice}
  Challenges = {c1, c2, c3, c4}
  Jwks = {ka, kb}
  JwkKind <- MCJwkKind
  Authorizations = {login}
  Authorization = login
  Ttl = 2
  I64Max = 3
  OverflowChecks = TRUE
  Workers = {w1, w2}
  Shapes <- MCShapesUnsigned
  MaxTime = 2
  Overlap = TRUE
  StoreMayFail = TRUE
  ClockStepsBack = TRUE
SYMMETRY Symmetry
INVARIANTS
  StoredChallengeUnspent
  NeverUnbound
  KeysAreProved
  KeylessIsUnsigned
