-------------------------- MODULE ProofWireProofs ---------------------------
(***************************************************************************)
(* What the checks of jwt.rs accept, for any keys, challenges and          *)
(* authorizations and any sequence of changes to a proof.                  *)
(***************************************************************************)
EXTENDS ProofWire, TLAPS

(* The signature verifies only for the claims it was made for. *)
WireInv == original # None \/ token # None =>
  /\ original \in Token /\ original.form = "ok"
  /\ token \in Token
  /\ token.signer # None => Intact(token) /\ token.signer = original.signer

Changed(t, f, v, s) == [[t EXCEPT ![f] = v] EXCEPT !.signer = s]

(* A change of one part leaves a token, with the signer it is given. *)
LEMMA ChangeType ==
  ASSUME NEW t \in Token, NEW f \in Claims \cup {"form"}, NEW v \in ClaimValues[f],
         NEW s \in Option(Jwks)
  PROVE  /\ Changed(t, f, v, s) \in Token
         /\ Changed(t, f, v, s).signer = s
         /\ Intact(Changed(t, f, v, s)) <=> Intact([t EXCEPT ![f] = v])
<1>1. f \in {"form", "typ", "alg", "jwk", "jti", "authorization"}
  BY DEF Claims
<1>2. [t EXCEPT ![f] = v] \in Token
  BY <1>1 DEF Token, ClaimValues
<1> DEFINE u == [t EXCEPT ![f] = v]
<1> HIDE DEF u
<1>3. u \in Token => /\ [u EXCEPT !.signer = s] \in Token
                     /\ [u EXCEPT !.signer = s].signer = s
                     /\ Intact([u EXCEPT !.signer = s]) <=> Intact(u)
  BY DEF Token, Intact, Claims
<1> QED
  BY <1>2, <1>3 DEF u, Changed

LEMMA WireInvHolds == ProofSpec => []WireInv
<1>1. ProofInit => WireInv
  BY DEF ProofInit, WireInv
<1>2. ASSUME WireInv, NEW f \in Claims \cup {"form"}, Change(f)
      PROVE  WireInv'
  <2>1. PICK v \in ClaimValues[f] :
          token' = [[token EXCEPT ![f] = v] EXCEPT
                      !.signer = IF Intact([token EXCEPT ![f] = v])
                                 THEN original.signer ELSE None]
    BY <1>2 DEF Change
  <2>0. original \in Token /\ token \in Token
    BY <1>2 DEF WireInv, Change
  <2> DEFINE s == IF Intact([token EXCEPT ![f] = v]) THEN original.signer ELSE None
  <2>2. s \in Option(Jwks)
    BY <2>0 DEF Token, Option
  <2>3. token' \in Token /\ token'.signer = s
    <3>1. token' = Changed(token, f, v, s)
      BY <2>1 DEF Changed
    <3> QED
      BY <2>0, <2>2, <3>1, ChangeType
  <2>4. Intact(token') <=> Intact([token EXCEPT ![f] = v])
    <3>1. token' = Changed(token, f, v, s)
      BY <2>1 DEF Changed
    <3> QED
      BY <2>0, <2>2, <3>1, ChangeType
  <2> QED
    BY <1>2, <2>0, <2>3, <2>4 DEF WireInv, Intact, Change
<1>3. Sign => WireInv'
  BY OriginalsAssumption DEF Sign, WireInv, Intact
<1>4. WireInv /\ UNCHANGED proofVars => WireInv'
  BY DEF WireInv, Intact, proofVars
<1>5. WireInv /\ [ProofNext]_proofVars => WireInv'
  BY <1>2, <1>3, <1>4 DEF ProofNext
<1> QED
  BY <1>1, <1>5, PTL DEF ProofSpec

-----------------------------------------------------------------------------
(* What is signed by somebody is the original. *)
LEMMA SignedIsOriginal ==
  ASSUME WireInv, token # None, token.signer # None
  PROVE  token = original
<1>1. /\ token \in Token /\ original \in Token
      /\ token.form = original.form /\ token.signer = original.signer
  BY DEF WireInv, Intact
<1>2. /\ token.typ = original.typ /\ token.alg = original.alg
      /\ token.jwk = original.jwk /\ token.jti = original.jti
      /\ token.authorization = original.authorization
  BY DEF WireInv, Intact, Claims
<1> QED
  BY <1>1, <1>2 DEF Token

(* A signature that verifies is by the key given. *)
LEMMA VerifiesUnder ==
  ASSUME NEW t \in Token, NEW k, t.alg # "none", verify_signature(t.alg, k, t) = "ok"
  PROVE  t.signer = k
BY DEF verify_signature, Token, Algorithms

(***************************************************************************)
(* No change to a signed proof survives the checks: verify_refresh under   *)
(* the registered key, and verify_registration under the key it carries,   *)
(* accept the very proof that this key signed.                             *)
(***************************************************************************)
THEOREM OnlySignedClaims == ProofSpec => []SignedClaimsOnly
<1>1. WireInv => SignedClaimsOnly
  <2> SUFFICES ASSUME WireInv, token # None PROVE SignedClaimsOnly
    BY DEF SignedClaimsOnly
  <2>1. token \in Token
    BY DEF WireInv
  <2>2. ASSUME NEW k \in Jwks, verify_refresh(token, k) = "ok"
        PROVE  token = original /\ original.signer = k
    <3>1. token.alg # "none" /\ verify_signature(token.alg, k, token) = "ok"
      BY <2>2 DEF verify_refresh
    <3>2. token.signer = k /\ k # None
      BY <2>1, <3>1, VerifiesUnder, NoneAssumption
    <3> QED
      BY <3>2, SignedIsOriginal
  <2>3. ASSUME verify_registration(token) = "ok", token.jwk # None
        PROVE  token = original /\ original.signer = token.jwk
    <3>1. token.alg \in {"ES256", "RS256"}
      BY <2>1, <2>3 DEF verify_registration, Token, Algorithms
    <3>2. verify_signature(token.alg, token.jwk, token) = "ok"
      BY <2>3, <3>1 DEF verify_registration
    <3>3. token.signer = token.jwk
      BY <2>1, <3>1, <3>2, VerifiesUnder
    <3> QED
      BY <2>3, <3>3, SignedIsOriginal
  <2> QED
    BY <2>2, <2>3 DEF SignedClaimsOnly
<1> QED
  BY <1>1, WireInvHolds, PTL

(***************************************************************************)
(* No proof both registers and refreshes: what registration demands of the *)
(* jwk claim for a signed proof, and of the signature, refresh forbids.    *)
(***************************************************************************)
THEOREM OnePurposeOnly == ProofSpec => []OnePurpose
<1>1. WireInv => OnePurpose
  <2> SUFFICES ASSUME WireInv, token # None,
                      verify_registration(token) = "ok", NEW k \in Jwks
               PROVE  verify_refresh(token, k) # "ok"
    BY DEF OnePurpose
  <2>1. token.alg \in Algorithms
    BY DEF WireInv, Token
  <2>2. CASE token.alg = "none"
    BY <2>2 DEF verify_refresh
  <2>3. CASE token.alg = "other"
    BY <2>3 DEF verify_registration
  <2>4. CASE token.alg \in {"ES256", "RS256"}
    <3>1. token.jwk # None
      BY <2>4 DEF verify_registration
    <3> QED
      BY <3>1 DEF verify_refresh
  <2> QED
    BY <2>1, <2>2, <2>3, <2>4 DEF Algorithms
<1> QED
  BY <1>1, WireInvHolds, PTL

=============================================================================
