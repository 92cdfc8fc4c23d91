------------------------------ MODULE ProofJwt ------------------------------
(***************************************************************************)
(* Decoding and verification of proof JWTs, src/src/jwt.rs.                *)
(*                                                                         *)
(* A token is abstracted to what the code looks at: the first part that    *)
(* does not parse (`form`), the header and payload claims, and the key     *)
(* under which the signature bytes verify for exactly this header and      *)
(* payload (`signer`, None if there is no such key).  Unforgeability of    *)
(* ES256 and RS256 is the reading of `signer`: a token carries signer = k  *)
(* only if the holder of k's private key signed these very claims.         *)
(***************************************************************************)
EXTENDS Dbsc

DBSC_TYP == "dbsc+jwt"

Token ==
  [ form          : {"ok", "segments", "header", "payload", "signature"},
    typ           : {DBSC_TYP, "JWT"},
    alg           : Algorithms,
    jwk           : Option(Jwks),
    jti           : Option(Challenges),
    authorization : Option(Authorizations),
    signer        : Option(Jwks) ]

ASSUME NoTokenAssumption == None \notin Token

(***************************************************************************)
(* The results of the three functions: "ok", or the variant of error.rs    *)
(* the first failing check returns.  "Decoding" stands for the variants    *)
(* Base64 and Json.                                                        *)
(***************************************************************************)
decode(t) ==
  CASE t.form = "segments"                                -> "MalformedJwt"
    [] t.form = "header"                                  -> "Decoding"
    [] t.form \notin {"segments", "header"} /\ t.typ # DBSC_TYP
                                                          -> "InvalidTyp"
    [] t.form \in {"payload", "signature"} /\ t.typ = DBSC_TYP
                                                          -> "Decoding"
    [] t.form = "ok" /\ t.typ = DBSC_TYP                  ->
         IF t.jti = None THEN "MalformedJwt" ELSE "ok"

(* The key type a JWK must have for an algorithm (verify_es256, _rs256). *)
KeyKindFor(alg) == IF alg = "ES256" THEN "EC" ELSE "RSA"

(* Mutant: the signature bytes are not looked at. *)
SignatureUnchecked(alg, jwk, t) ==
  IF alg \in {"ES256", "RS256"} /\ JwkKind[jwk] # KeyKindFor(alg) THEN "InvalidKey"
  ELSE IF alg = "other" THEN "UnsupportedAlgorithm"
  ELSE "ok"

(* verify_signature for a JWK and a token; `none` always succeeds. *)
verify_signature(alg, jwk, t) ==
  CASE alg = "none"               -> "ok"
    [] alg = "other"              -> "UnsupportedAlgorithm"
    [] alg \in {"ES256", "RS256"} ->
         IF JwkKind[jwk] # KeyKindFor(alg) THEN "InvalidKey"
         ELSE IF t.signer # jwk THEN "InvalidSignature"
         ELSE "ok"

verify_registration(t) ==
  IF decode(t) # "ok" THEN decode(t)
  ELSE CASE t.alg = "none"  -> IF t.jwk # None THEN "InvalidJwkClaim" ELSE "ok"
         [] t.alg = "other" -> "UnsupportedAlgorithm"
         [] t.alg \in {"ES256", "RS256"} ->
              IF t.jwk = None THEN "InvalidJwkClaim"
              ELSE verify_signature(t.alg, t.jwk, t)

(* Mutant: a refresh, like a registration, may go unsigned. *)
RefreshMayBeUnsigned(t, registered) ==
  IF decode(t) # "ok" THEN decode(t)
  ELSE IF t.jwk # None THEN "InvalidJwkClaim"
  ELSE verify_signature(t.alg, registered, t)

verify_refresh(t, registered) ==
  IF decode(t) # "ok" THEN decode(t)
  ELSE IF t.jwk # None THEN "InvalidJwkClaim"
  ELSE IF t.alg = "none" THEN "UnsupportedAlgorithm"
  ELSE verify_signature(t.alg, registered, t)

=============================================================================
