----------------------------- MODULE MCManager ------------------------------
(***************************************************************************)
(* Small instances of Manager for TLC.                                     *)
(***************************************************************************)
EXTENDS ManagerRefinement, TLC

CONSTANTS ka, kb, login

MCJwkKind == (ka :> "EC") @@ (kb :> "EC")

(* A proof signed by k, as sign_proof of examples/demo.rs builds it. *)
RegistrationBy(k) ==
  [form |-> "ok", typ |-> DBSC_TYP, alg |-> "ES256", jwk |-> k, jti |-> None,
   authorization |-> login, signer |-> k]

RefreshBy(k) ==
  [RegistrationBy(k) EXCEPT !.jwk = None, !.authorization = None]

(* The unsigned registration of test registration_none_alg_rules. *)
Unsigned ==
  [RegistrationBy(ka) EXCEPT !.alg = "none", !.jwk = None, !.signer = None]

(* Claims changed after signing, as in test registration_wrong_jti_fails. *)
Tampered(shape) == [shape EXCEPT !.signer = None]

(* Two devices, one of which refreshes, and registrations that must be     *)
(* refused: claims that do not fit the signature, and no authorization.    *)
MCShapes ==
  {RegistrationBy(ka), RegistrationBy(kb), RefreshBy(ka),
   Tampered(RegistrationBy(ka)), [RegistrationBy(ka) EXCEPT !.authorization = None]}

(* One device, well behaved. *)
MCShapesOneDevice == {RegistrationBy(ka), RefreshBy(ka)}

(* Two devices, well behaved. *)
MCShapesTwoDevices == {RegistrationBy(ka), RegistrationBy(kb), RefreshBy(ka), RefreshBy(kb)}

(* A device and a client that registers without a key. *)
MCShapesUnsigned == {RegistrationBy(ka), RefreshBy(ka), Unsigned}

Symmetry ==
  Permutations(Workers) \cup Permutations(Challenges) \cup Permutations(Ids)

=============================================================================
