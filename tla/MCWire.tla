------------------------------- MODULE MCWire -------------------------------
(***************************************************************************)
(* A small instance of Wire for TLC.                                       *)
(***************************************************************************)
EXTENDS Wire

CONSTANTS kec, krsa, kbad, c1, login, word

(***************************************************************************)
(* Headers: each character the parsers look for, one they do not, and two  *)
(* pieces from which an identifier can imitate an entry of the list.       *)
(***************************************************************************)
MCPieces ==
  { <<c>> : c \in {Quote, Backslash, ",", ";", "=", Space, "a"} }
    \cup { <<",", "unreachable">>, <<";", "session_identifier", "=">> }

MCSymbols == Syntax \cup {"a", "ES256"}

(***************************************************************************)
(* Instructions: scopes with and without each optional part, one of them   *)
(* without the required include_site, one with a rule of no type;          *)
(* credentials with and without attributes, one of them of no name.        *)
(***************************************************************************)
MCTexts == {EmptyText, word}

Rule == [type |-> "exclude", path |-> word]

MCScopes ==
  { [include_site |-> TRUE],
    [origin |-> word],
    [origin |-> EmptyText, include_site |-> FALSE, scope_specification |-> <<>>],
    [include_site |-> TRUE, scope_specification |-> <<Rule, [path |-> word]>>],
    [include_site |-> FALSE,
     scope_specification |-> <<Rule, [type |-> "include", domain |-> word, path |-> EmptyText]>>] }

MCCredentialLists ==
  { <<>>,
    <<[type |-> "cookie", name |-> word], [type |-> "cookie"]>>,
    <<[type |-> "cookie", name |-> word],
      [type |-> "cookie", name |-> word, attributes |-> EmptyText]>> }

MCInitiators == {<<>>, <<word>>}

(***************************************************************************)
(* Proofs of a device with an EC key and of one with an RSA key, for       *)
(* registration and for refresh, and a registration without a key.         *)
(***************************************************************************)
MCJwkKind == (kec :> "EC") @@ (krsa :> "RSA") @@ (kbad :> "malformed")

Proof(alg, jwk, authorization, signer) ==
  [form |-> "ok", typ |-> DBSC_TYP, alg |-> alg, jwk |-> jwk, jti |-> c1,
   authorization |-> authorization, signer |-> signer]

MCOriginals ==
  { Proof("ES256", kec, login, kec), Proof("ES256", None, None, kec),
    Proof("RS256", krsa, None, krsa), Proof("RS256", None, None, krsa),
    Proof("none", None, login, None) }

=============================================================================
