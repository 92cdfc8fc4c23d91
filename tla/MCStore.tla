------------------------------ MODULE MCStore -------------------------------
(***************************************************************************)
(* A small instance of MemoryStore: two sessions of one user that expire,  *)
(* one that does not, one of another user.                                 *)
(***************************************************************************)
EXTENDS MemoryStore, TLC

CONSTANTS alice, bob

Lasting(user, t) == [NewSession(user, 0) EXCEPT !.expires_at = t]

MCStored == {Lasting(alice, 1), Lasting(alice, None), Lasting(bob, None)}

MCJwkKind == [k \in Jwks |-> "EC"]

=============================================================================
