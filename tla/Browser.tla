------------------------------ MODULE Browser -------------------------------
(***************************************************************************)
(* The client of src/examples/demo.rs: a browser with a device key that    *)
(* logs in, registers, refreshes and closes, signs what the responses tell *)
(* it to sign, and goes by their status as the README of the crate has it. *)
(***************************************************************************)
EXTENDS Responses

CONSTANT DeviceKey        \* the public JWK of the browser's key pair

(***************************************************************************)
(* phase          out, registering the session it was given, or bound      *)
(* id             the session, from the cookie and from the instruction    *)
(* cookie         when the session cookie runs out, None without one       *)
(* challenge      the last challenge it was sent and has not discarded     *)
(* authorization  what the registration header carried                     *)
(***************************************************************************)
LoggedOut ==
  [phase |-> "out", id |-> None, cookie |-> None, challenge |-> None,
   authorization |-> None]

(* sign_proof: None if there is nothing to sign. *)
SignProof(b, jwk, authorization) ==
  IF b.challenge = None THEN None
  ELSE [form |-> "ok", typ |-> DBSC_TYP, alg |-> "ES256", jwk |-> jwk,
        jti |-> b.challenge, authorization |-> authorization, signer |-> DeviceKey]

RegistrationProof(b) == SignProof(b, DeviceKey, b.authorization)

RefreshProof(b) == SignProof(b, None, None)

(* The cookie is sent until it runs out, at time t or earlier. *)
HasCookie(b, t) == b.cookie # None /\ t < b.cookie

(* Set-Cookie with Max-Age, received at time t. *)
StoreCookie(b, r, t) ==
  IF r.set_cookie = None THEN b.cookie ELSE t + r.set_cookie.max_age

(***************************************************************************)
(* What the browser may be after response r to an operation, at time t.    *)
(* After a 200 it may sign the challenge in it next time, or forget it and *)
(* ask without a proof, as the demo does.  After a 400 to a registration   *)
(* it may try to refresh, in case an earlier answer was lost, or log in    *)
(* again; after any other refusal it logs in again.                        *)
(***************************************************************************)
After(b, op, r, t) ==
  CASE r.status_code = 200 /\ op = "initiate" ->
         { [phase |-> "registering", id |-> r.set_cookie.value,
            cookie |-> StoreCookie(b, r, t),
            challenge |-> r.registration_header.challenge,
            authorization |-> r.registration_header.authorization] }
    [] r.status_code = 200 /\ op \in {"register", "refresh"} ->
         { [b EXCEPT !.phase = "bound", !.id = FromJson(r.body).session_identifier,
                     !.cookie = StoreCookie(b, r, t), !.challenge = c]
           : c \in {None, r.challenge_header} }
    [] r.status_code = 200 /\ op = "close" -> {LoggedOut}
    [] r.status_code = 403 -> { [b EXCEPT !.challenge = r.challenge_header] }
    [] r.status_code = 400 /\ op = "register" ->
         { LoggedOut, [b EXCEPT !.phase = "bound", !.challenge = None] }
    [] r.status_code = 401 \/ (r.status_code = 400 /\ op = "refresh") -> {LoggedOut}

=============================================================================
