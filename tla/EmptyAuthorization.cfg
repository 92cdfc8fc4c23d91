SPECIFICATION Spec
CONSTANTS
  None = None
  Ids = {i1, i2}
  Users = {u}
  User = u
  Challenges = {c1, c2, c3, c4}
  DeviceKey = ka
  Jwks = {ka}
  JwkKind <- MCJwkKind
  login = login
  EmptyText = EmptyText
  Authorizations = {login, EmptyText}
  Authorization = EmptyText
  CookieName = CookieName
  RefreshPath = RefreshPath
  Texts <- MCTexts
  Ttl = 2
  CookieTtl = 1
  I64Max = 1000
  OverflowChecks = TRUE
  Workers = {w1, w2}
  MaxBack = 0
PROPERTIES
  GetsBound
