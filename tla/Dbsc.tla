-------------------------------- MODULE Dbsc --------------------------------
(***************************************************************************)
(* The vocabulary the modules of this project share: the values that move  *)
(* between src/src/session.rs, jwt.rs, store.rs and manager.rs.  Names,    *)
(* identifiers and random values are drawn from sets; only what the code   *)
(* compares or selects on is kept.                                         *)
(***************************************************************************)
EXTENDS Integers, Optional

CONSTANTS
  Ids,              \* session identifiers (UUID v4)
  Users,            \* user identifiers
  Challenges,       \* values generate_challenge may return
  Jwks,             \* public keys in JWK form, as compared after decoding
  JwkKind,          \* for each JWK: "EC", "RSA", or "malformed"
  Authorizations    \* authorization strings

(***************************************************************************)
(* None is a value of its own.                                             *)
(***************************************************************************)
ASSUME NoneAssumption ==
  None \notin Ids \cup Users \cup Challenges \cup Jwks \cup Authorizations

ASSUME JwkKindAssumption == JwkKind \in [Jwks -> {"EC", "RSA", "malformed"}]

(* The `alg` header values the code tells apart. *)
Algorithms == {"ES256", "RS256", "none", "other"}

=============================================================================
