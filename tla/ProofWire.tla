----------------------------- MODULE ProofWire ------------------------------
(***************************************************************************)
(* A proof on its way to the server: signed once, then changed in any of   *)
(* its parts, damaged, and perhaps restored, as the tests of jwt.rs do one *)
(* change at a time.  The header and the payload are the signed content,   *)
(* so the signature bytes verify only for the claims it was made for.      *)
(***************************************************************************)
EXTENDS ProofJwt

CONSTANT Originals    \* proofs as signers make them

ASSUME OriginalsAssumption == Originals \subseteq {t \in Token : t.form = "ok"}

VARIABLES original, token

proofVars == <<original, token>>

Claims == {"typ", "alg", "jwk", "jti", "authorization"}

ClaimValues ==
  [ form |-> {"ok", "segments", "header", "payload", "signature"},
    typ |-> {DBSC_TYP, "JWT"}, alg |-> Algorithms, jwk |-> Option(Jwks),
    jti |-> Option(Challenges), authorization |-> Option(Authorizations) ]

Intact(t) == t.form = "ok" /\ \A f \in Claims : t[f] = original[f]

ProofInit == original = None /\ token = None

Sign ==
  /\ original = None
  /\ original' \in Originals
  /\ token' = original'

Change(f) ==
  /\ original # None
  /\ \E v \in ClaimValues[f] :
       LET t == [token EXCEPT ![f] = v]
       IN  token' = [t EXCEPT !.signer = IF Intact(t) THEN original.signer ELSE None]
  /\ UNCHANGED original

ProofNext == Sign \/ \E f \in Claims \cup {"form"} : Change(f)

ProofSpec == ProofInit /\ [][ProofNext]_proofVars

-----------------------------------------------------------------------------
(***************************************************************************)
(* The two checks accept only what was signed: a refresh is the proof that *)
(* the registered key signed, unchanged, and so is a registration that     *)
(* carries a key, for that key.  Without a key nothing is checked: the     *)
(* claims of an unsigned registration are whatever arrived.                *)
(***************************************************************************)
SignedClaimsOnly == token # None =>
  /\ \A k \in Jwks :
       verify_refresh(token, k) = "ok" => token = original /\ original.signer = k
  /\ verify_registration(token) = "ok" /\ token.jwk # None
       => token = original /\ original.signer = token.jwk

(***************************************************************************)
(* A proof has one purpose: none that would register a session would also  *)
(* refresh one, under any key, so a proof sent to the wrong endpoint, or   *)
(* twice, cannot do both.                                                  *)
(***************************************************************************)
OnePurpose ==
  token # None /\ verify_registration(token) = "ok"
    => \A k \in Jwks : verify_refresh(token, k) # "ok"

=============================================================================
