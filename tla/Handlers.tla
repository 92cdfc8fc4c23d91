------------------------------ MODULE Handlers ------------------------------
(***************************************************************************)
(* What the handlers of src/src/manager.rs decide and compute on the clone *)
(* that store.get returned: the status of the reply, and the session as it *)
(* goes on to apply_ttl.  Nothing here reads or writes shared state; the   *)
(* modules that use it say when the store and the clock are touched.       *)
(***************************************************************************)
EXTENDS SessionStore, ProofJwt

CONSTANT Authorization    \* ManagerConfig::authorization

ASSUME AuthorizationAssumption == Authorization \in Option(Authorizations)

(* The status of a call that returns Err or panics. *)
Failed == 0

Statuses == {Failed, 200, 400, 401, 403}

-----------------------------------------------------------------------------
(* The checks *)

(* Mutant: register does not ask. *)
RegistrableAlways(s) == TRUE

(* The lifecycle state register asks for. *)
Registrable(s) == s.state = "Active"

(* Mutant: any challenge the server ever sent will do. *)
ChallengeUnchecked(s, proof) == TRUE

ChallengeMatches(s, proof) == s.challenge = proof.jti

AuthorizationMatches(proof) ==
  Authorization # None => proof.authorization = Authorization

(***************************************************************************)
(* A proof of None stands for a missing header and for one that            *)
(* parse_session_response refuses.                                         *)
(***************************************************************************)
RegistrationAccepted(s, proof) ==
  /\ proof # None
  /\ verify_registration(proof) = "ok"
  /\ ChallengeMatches(s, proof)
  /\ AuthorizationMatches(proof)

RefreshAccepted(s, proof) ==
  /\ verify_refresh(proof, s.public_key) = "ok"
  /\ ChallengeMatches(s, proof)

(* The early returns of register, in their order; s is what get returned. *)
RegisterStatus(s, proof) ==
  IF s = None THEN 401
  ELSE IF ~Registrable(s) THEN 400
  ELSE IF ~RegistrationAccepted(s, proof) THEN 403
  ELSE 200

(* Those of refresh; Err is "bound session without public key". *)
RefreshStatus(s, proof) ==
  IF s = None THEN 401
  ELSE IF s.state # "Bound" THEN 400
  ELSE IF proof = None THEN 403
  ELSE IF s.public_key = None THEN Failed
  ELSE IF ~RefreshAccepted(s, proof) THEN 403
  ELSE 200

(* Mutant: a refusal does not say what to sign. *)
NothingToRetryWith(status, s) == None

(* The challenge in a reply that refuses: challenge_failure, with_status. *)
RetryWith(status, s) == IF status = 403 THEN s.challenge ELSE None

-----------------------------------------------------------------------------
(* The new session *)

(* Mutants: the challenge is not rotated; the state is not advanced; the   *)
(* key is not stored.                                                      *)
BindKeepsChallenge(s, proof, c) ==
  [s EXCEPT !.state = "Bound", !.public_key = proof.jwk, !.algorithm = proof.alg]

BindStaysActive(s, proof, c) ==
  [s EXCEPT !.public_key = proof.jwk, !.algorithm = proof.alg, !.challenge = c]

BindForgetsKey(s, proof, c) ==
  [s EXCEPT !.state = "Bound", !.algorithm = proof.alg, !.challenge = c]

(* The session after a registration: bound to the key, challenge rotated. *)
Bind(s, proof, c) ==
  [s EXCEPT !.state = "Bound", !.public_key = proof.jwk,
            !.algorithm = proof.alg, !.challenge = c]

(* Mutant: the new challenge is not stored. *)
RotateForgotten(s, c) == s

Rotate(s, c) == [s EXCEPT !.challenge = c]

=============================================================================
