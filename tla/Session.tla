------------------------------ MODULE Session -------------------------------
(***************************************************************************)
(* The session model of src/src/session.rs and the expiry arithmetic of    *)
(* Manager::apply_ttl.  A session's `id` is the key it is stored under, so *)
(* the record leaves it out.  Times are seconds since the epoch.           *)
(***************************************************************************)
EXTENDS Dbsc

CONSTANTS
  Ttl,              \* ManagerConfig::session_ttl_seconds, an Option<u64>
  I64Max,           \* i64::MAX (scaled down for model checking)
  OverflowChecks    \* TRUE: debug build, `+` panics on overflow; FALSE: wraps

ASSUME I64Assumption == I64Max \in Nat /\ OverflowChecks \in BOOLEAN

(* The TTL is a u64, whose range is twice that of the positive i64. *)
ASSUME TtlAssumption == Ttl \in Option(0 .. 2 * I64Max + 1)

SessionState == {"Active", "Bound"}

Session ==
  [ user_id    : Users,
    state      : SessionState,
    public_key : Option(Jwks),
    algorithm  : Option(Algorithms),
    challenge  : Option(Challenges),
    expires_at : Option(Int),
    created_at : Int ]

(* None is no session, no time. *)
ASSUME NoSessionAssumption == None \notin Session /\ None \notin Int
                              /\ None \notin Algorithms

(* Session::new, called at time t. *)
NewSession(user, t) ==
  [ user_id |-> user, state |-> "Active", public_key |-> None,
    algorithm |-> None, challenge |-> None, expires_at |-> None,
    created_at |-> t ]

(* Expired from the very second named by expires_at. *)
is_expired(s, t) == s.expires_at # None /\ t >= s.expires_at

-----------------------------------------------------------------------------
(***************************************************************************)
(* apply_ttl computes `now_unix() + ttl as i64`: the cast reinterprets the *)
(* upper half of u64 as negative, and the sum may leave the range of i64.  *)
(***************************************************************************)
I64Range == 2 * (I64Max + 1)

AsI64(n) == IF n > I64Max THEN n - I64Range ELSE n

TtlOverflows(t) == Ttl # None /\ t + AsI64(Ttl) > I64Max

(* The sum as stored by a build without overflow checks. *)
ExpiryAt(t) ==
  LET sum == t + AsI64(Ttl)
  IN  IF sum > I64Max THEN sum - I64Range ELSE sum

(* Mutant: a new proof adds the TTL to the expiry there was. *)
ApplyTtlAccumulates(s, t) ==
  IF Ttl = None THEN s
  ELSE [s EXCEPT !.expires_at = ExpiryAt(IF @ = None THEN t ELSE @)]

(* The session after apply_ttl at time t, where it does not panic. *)
apply_ttl(s, t) ==
  IF Ttl = None THEN s ELSE [s EXCEPT !.expires_at = ExpiryAt(t)]

=============================================================================
