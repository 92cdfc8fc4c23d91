SPECIFICATION MemorySpec
CONSTANTS
  None = None
  alice = alice
  bob = bob
  Ids = {i1, i2}
  Users = {alice, bob}
  Challenges = {}
  Jwks = {}
  JwkKind <- MCJwkKind
  Authorizations = {}
  Ttl = None
  I64Max = 1000
  OverflowChecks = TRUE
  Threads = {t1, t2}
  Stored <- MCStored
  MaxTime = 1
PROPERTIES
  ImplementsAtomicStore
  SomeCallReturns
