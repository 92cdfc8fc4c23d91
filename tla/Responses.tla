----------------------------- MODULE Responses ------------------------------
(***************************************************************************)
(* The responses of src/src/manager.rs: the status, the cookie, the two    *)
(* headers and the instruction a browser gets.  The cookie's name, path,   *)
(* domain and flags are the same in all of them and are left out, as are   *)
(* the algorithms and the path in the registration header.                 *)
(***************************************************************************)
EXTENDS Handlers, Instruction

CONSTANTS
  CookieTtl,        \* ManagerConfig::cookie_ttl_seconds
  CookieName,       \* ManagerConfig::cookie_name
  RefreshPath       \* ManagerConfig::refresh_path

ASSUME CookieAssumption == CookieTtl \in Nat

(* Session identifiers and authorizations are texts. *)
ASSUME TextAssumption ==
  /\ Ids \cup Authorizations \cup {CookieName, RefreshPath} \subseteq Texts

with_status(status) ==
  [ status_code |-> status, set_cookie |-> None, registration_header |-> None,
    challenge_header |-> None, body |-> None ]

build_cookie(value, max_age) == [value |-> value, max_age |-> max_age]

(* A parameter of the registration header: None and "" are both omitted. *)
Param(v) == IF v = EmptyText THEN None ELSE v

instruction_body(id) ==
  [ session_identifier |-> id, refresh_url |-> RefreshPath,
    continue_session |-> TRUE, scope |-> DefaultScope,
    credentials |-> <<[type |-> "cookie", name |-> CookieName, attributes |-> None]>>,
    allowed_refresh_initiators |-> <<>> ]

(* Mutant: the new cookie comes with the Max-Age of close. *)
InitiateExpiresCookie(id, s) ==
  [with_status(200) EXCEPT
     !.set_cookie = build_cookie(id, 0),
     !.registration_header = [challenge     |-> Param(s.challenge),
                              authorization |-> Param(Authorization)]]

InitiateResponse(id, s) ==
  [with_status(200) EXCEPT
     !.set_cookie = build_cookie(id, CookieTtl),
     !.registration_header = [challenge     |-> Param(s.challenge),
                              authorization |-> Param(Authorization)]]

RegisterResponse(id, s) ==
  [with_status(200) EXCEPT
     !.set_cookie = build_cookie(id, CookieTtl),
     !.challenge_header = s.challenge,
     !.body = ToJson(instruction_body(id))]

RefreshResponse(id, s) ==
  [with_status(200) EXCEPT
     !.challenge_header = s.challenge,
     !.body = ToJson(instruction_body(id))]

CloseResponse ==
  [with_status(200) EXCEPT
     !.set_cookie = build_cookie(EmptyText, 0),
     !.body = ToJson(terminate)]

(* with_status and challenge_failure; s is what get returned. *)
RefusalResponse(status, s) ==
  [with_status(status) EXCEPT !.challenge_header = RetryWith(status, s)]

=============================================================================
