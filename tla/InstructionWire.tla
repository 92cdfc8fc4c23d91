-------------------------- MODULE InstructionWire ---------------------------
(***************************************************************************)
(* A JSON object as some sender builds it, one field after the other, with *)
(* any of the fields of a session instruction present or missing.          *)
(***************************************************************************)
EXTENDS Instruction

CONSTANTS
  Scopes,           \* scopes in JSON form
  CredentialLists,  \* credential lists in JSON form
  Initiators        \* lists of origins

(* What parses is of the types of the fields. *)
ASSUME WireAssumption ==
  /\ \A s \in Scopes : ParsesScope(s) => ParseScope(s) \in SessionScope
  /\ \A cs \in CredentialLists :
       (\A n \in DOMAIN cs : ParsesCredential(cs[n])) =>
       [n \in DOMAIN cs |-> ParseCredential(cs[n])] \in Seq(SessionCredential)
  /\ Initiators \subseteq Seq(Texts)

VARIABLE json

(* The values a field can have. *)
FieldValues ==
  [ continue                   |-> BOOLEAN,
    session_identifier         |-> Texts,
    refresh_url                |-> Texts,
    scope                      |-> Scopes,
    credentials                |-> CredentialLists,
    allowed_refresh_initiators |-> Initiators ]

InstructionInit == json = [k \in {} |-> None]

AddField(k) ==
  /\ k \notin DOMAIN json
  /\ \E v \in FieldValues[k] :
       json' = [f \in DOMAIN json \cup {k} |-> IF f = k THEN v ELSE json[f]]

InstructionNext == \E k \in DOMAIN FieldValues : AddField(k)

InstructionSpec == InstructionInit /\ [][InstructionNext]_json

-----------------------------------------------------------------------------
(* What an instruction is after one trip over the wire. *)
AfterTheWire(i) == IF i.continue_session THEN i ELSE terminate

(***************************************************************************)
(* Whatever the sender left out, an instruction that was parsed once       *)
(* serializes to JSON that parses again and to the same instruction, or to *)
(* `terminate()` if it does not continue: no default that parsing fills in *)
(* (an empty list, an empty identifier) is lost or told from an absent     *)
(* field on the way back.                                                  *)
(***************************************************************************)
ParsedSurvives ==
  Parses(json) =>
    LET i == FromJson(json)
    IN  Parses(ToJson(i)) /\ FromJson(ToJson(i)) = AfterTheWire(i)

(***************************************************************************)
(* "When continue_session is false, serialization produces only            *)
(* {"continue": false}" (SessionInstruction), also for an instruction that *)
(* arrived with more than that.                                            *)
(***************************************************************************)
TerminationIsMinimal ==
  Parses(json) /\ ~json.continue => ToJson(FromJson(json)) = [continue |-> FALSE]

=============================================================================
