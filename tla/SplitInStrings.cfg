SPECIFICATION Spec
CONSTANTS
  None = None
  Symbols <- MCSymbols
  Pieces <- MCPieces
  MaxSize = 4
  EmptyText = EmptyText
  word = word
  Texts <- MCTexts
  Scopes <- MCScopes
  CredentialLists <- MCCredentialLists
  Initiators <- MCInitiators
  kec = kec
  krsa = krsa
  kbad = kbad
  c1 = c1
  login = login
  Ids = {}
  Users = {}
  Challenges = {c1, c2}
  Jwks = {kec, krsa, kbad}
  JwkKind <- MCJwkKind
  Authorizations = {login}
  Originals <- MCOriginals
INVARIANTS
  SkippedReadBack
CHECK_DEADLOCK FALSE
