---------------------------- MODULE Instruction -----------------------------
(***************************************************************************)
(* Session instructions and their JSON form, src/src/instruction.rs.       *)
(*                                                                         *)
(* A JSON object is a record with those of its fields that are written;    *)
(* parsing looks fields up by name, so order and layout do not appear.  A  *)
(* null where an Option is expected is the same as no field at all; null   *)
(* anywhere else is of the wrong type, as is a text for a flag, and such   *)
(* values, which serde refuses, do not appear.  Texts are values of a set; *)
(* a Vec is a sequence.                                                    *)
(***************************************************************************)
EXTENDS Optional, Sequences

CONSTANTS
  Texts,            \* strings
  EmptyText         \* String::new()

ASSUME TextsAssumption == EmptyText \in Texts /\ None \notin Texts

ScopeRule ==
  [type : {"include", "exclude"}, domain : Option(Texts), path : Option(Texts)]

SessionScope ==
  [origin : Option(Texts), include_site : BOOLEAN,
   scope_specification : Seq(ScopeRule)]

DefaultScope ==
  [origin |-> None, include_site |-> FALSE, scope_specification |-> <<>>]

SessionCredential ==
  [type : {"cookie"}, name : Texts, attributes : Option(Texts)]

SessionInstruction ==
  [ session_identifier         : Texts,
    refresh_url                : Option(Texts),
    continue_session           : BOOLEAN,
    scope                      : SessionScope,
    credentials                : Seq(SessionCredential),
    allowed_refresh_initiators : Seq(Texts) ]

terminate ==
  [ session_identifier |-> EmptyText, refresh_url |-> None,
    continue_session |-> FALSE, scope |-> DefaultScope,
    credentials |-> <<>>, allowed_refresh_initiators |-> <<>> ]

-----------------------------------------------------------------------------
(* The two From conversions *)

SessionInstructionRepr ==
  [ continue                   : BOOLEAN,
    session_identifier         : Option(Texts),
    refresh_url                : Option(Texts),
    scope                      : Option(SessionScope),
    credentials                : Option(Seq(SessionCredential)),
    allowed_refresh_initiators : Seq(Texts) ]

(* None is no compound value either. *)
ASSUME NoScopeAssumption == None \notin SessionScope
ASSUME NoCredentialsAssumption == None \notin Seq(SessionCredential)

(* Mutant: a terminating instruction still says where to refresh. *)
ToReprKeepsUrl(i) ==
  [ continue |-> i.continue_session,
    session_identifier |-> IF i.continue_session THEN i.session_identifier ELSE None,
    refresh_url |-> i.refresh_url,
    scope |-> IF i.continue_session THEN i.scope ELSE None,
    credentials |-> IF i.continue_session THEN i.credentials ELSE None,
    allowed_refresh_initiators |-> i.allowed_refresh_initiators ]

ToRepr(i) ==
  IF i.continue_session
  THEN [ continue |-> TRUE, session_identifier |-> i.session_identifier,
         refresh_url |-> i.refresh_url, scope |-> i.scope,
         credentials |-> i.credentials,
         allowed_refresh_initiators |-> i.allowed_refresh_initiators ]
  ELSE [ continue |-> FALSE, session_identifier |-> None, refresh_url |-> None,
         scope |-> None, credentials |-> None, allowed_refresh_initiators |-> <<>> ]

(* unwrap_or, with the default given. *)
OrElse(v, default) == IF v = None THEN default ELSE v

FromRepr(r) ==
  [ session_identifier |-> OrElse(r.session_identifier, EmptyText),
    refresh_url |-> r.refresh_url, continue_session |-> r.continue,
    scope |-> OrElse(r.scope, DefaultScope),
    credentials |-> OrElse(r.credentials, <<>>),
    allowed_refresh_initiators |-> r.allowed_refresh_initiators ]

-----------------------------------------------------------------------------
(* The JSON form, as the derived Serialize and Deserialize have it *)

(***************************************************************************)
(* An object with the fields of r but for optional ones that are None and  *)
(* lists that are empty (skip_serializing_if).                             *)
(***************************************************************************)
Object(r, optional, lists) ==
  [k \in {k \in DOMAIN r : /\ k \in optional => r[k] # None
                           /\ k \in lists => r[k] # <<>>} |-> r[k]]

WriteRule(r) == Object(r, {"domain", "path"}, {})

(* Mutant: a flag that is not set is not written. *)
WriteScopeSkipsSite(s) ==
  [k \in {k \in DOMAIN s : k = "include_site" => s[k]} |-> s[k]]

WriteScope(s) ==
  Object([s EXCEPT !.scope_specification = [n \in DOMAIN @ |-> WriteRule(@[n])]],
         {"origin"}, {"scope_specification"})

WriteCredential(c) == Object(c, {"attributes"}, {})

ToJson(i) ==
  LET r == Object(ToRepr(i), {"session_identifier", "refresh_url", "scope", "credentials"},
                  {"allowed_refresh_initiators"})
  IN  [k \in DOMAIN r |->
         CASE k = "scope"       -> WriteScope(r[k])
           [] k = "credentials" -> [n \in DOMAIN r[k] |-> WriteCredential(r[k][n])]
           [] k \notin {"scope", "credentials"} -> r[k]]

(* A field, or the default of one that may be missing. *)
Field(j, k, default) == IF k \in DOMAIN j THEN j[k] ELSE default

ParseRule(j) ==
  [type |-> j.type, domain |-> Field(j, "domain", None), path |-> Field(j, "path", None)]

ParseScope(j) ==
  LET rules == Field(j, "scope_specification", <<>>)
  IN  [origin |-> Field(j, "origin", None), include_site |-> j.include_site,
       scope_specification |-> [n \in DOMAIN rules |-> ParseRule(rules[n])]]

ParseCredential(j) ==
  [type |-> j.type, name |-> j.name, attributes |-> Field(j, "attributes", None)]

(***************************************************************************)
(* What is required of an instruction and of its parts: without these      *)
(* fields parsing returns Error::Json, even where `continue` is false and  *)
(* nothing would become of the part.                                       *)
(***************************************************************************)
ParsesRule(j) == "type" \in DOMAIN j

ParsesScope(j) ==
  LET rules == Field(j, "scope_specification", <<>>)
  IN  "include_site" \in DOMAIN j /\ \A n \in DOMAIN rules : ParsesRule(rules[n])

ParsesCredential(j) == {"type", "name"} \subseteq DOMAIN j

Parses(j) ==
  /\ "continue" \in DOMAIN j
  /\ "scope" \in DOMAIN j => ParsesScope(j.scope)
  /\ "credentials" \in DOMAIN j =>
       \A n \in DOMAIN j.credentials : ParsesCredential(j.credentials[n])

FromJson(j) ==
  FromRepr(
    [ continue           |-> j.continue,
      session_identifier |-> Field(j, "session_identifier", None),
      refresh_url        |-> Field(j, "refresh_url", None),
      scope              |-> IF "scope" \in DOMAIN j THEN ParseScope(j.scope) ELSE None,
      credentials        |-> IF "credentials" \in DOMAIN j
                             THEN [n \in DOMAIN j.credentials |-> ParseCredential(j.credentials[n])]
                             ELSE None,
      allowed_refresh_initiators |-> Field(j, "allowed_refresh_initiators", <<>>) ])

=============================================================================
