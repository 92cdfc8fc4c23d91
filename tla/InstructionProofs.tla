-------------------------- MODULE InstructionProofs -------------------------
(***************************************************************************)
(* Proofs about Instruction and InstructionWire, for any texts and lists   *)
(* of any length.                                                          *)
(***************************************************************************)
EXTENDS InstructionWire, TLAPS

(* Writing a rule and parsing it gives the rule. *)
LEMMA RuleTrip ==
  ASSUME NEW r \in ScopeRule
  PROVE  ParseRule(WriteRule(r)) = r /\ ParsesRule(WriteRule(r))
<1> DEFINE j == WriteRule(r)
<1>1. DOMAIN j = {k \in {"type", "domain", "path"} :
                    k \in {"domain", "path"} => r[k] # None}
  BY DEF WriteRule, Object, ScopeRule
<1>2. \A k \in DOMAIN j : j[k] = r[k]
  BY DEF WriteRule, Object
<1> HIDE DEF j
<1>3. /\ j.type = r.type
      /\ Field(j, "domain", None) = r.domain
      /\ Field(j, "path", None) = r.path
  BY <1>1, <1>2 DEF Field
<1>4. QED
  BY <1>1, <1>3 DEF ParseRule, ParsesRule, ScopeRule, j

(* So does a credential. *)
LEMMA CredentialTrip ==
  ASSUME NEW c \in SessionCredential
  PROVE  ParseCredential(WriteCredential(c)) = c /\ ParsesCredential(WriteCredential(c))
<1> DEFINE j == WriteCredential(c)
<1>1. DOMAIN j = {k \in {"type", "name", "attributes"} :
                    k \in {"attributes"} => c[k] # None}
  BY DEF WriteCredential, Object, SessionCredential
<1>2. \A k \in DOMAIN j : j[k] = c[k]
  BY DEF WriteCredential, Object
<1> HIDE DEF j
<1>3. /\ j.type = c.type
      /\ j.name = c.name
      /\ Field(j, "attributes", None) = c.attributes
  BY <1>1, <1>2 DEF Field
<1>4. QED
  BY <1>1, <1>3 DEF ParseCredential, ParsesCredential, SessionCredential, j

(* A scope survives: a list of rules that is left out comes back empty. *)
LEMMA ScopeTrip ==
  ASSUME NEW s \in SessionScope
  PROVE  /\ ParseScope(WriteScope(s)) = s
         /\ ParsesScope(WriteScope(s))
<1> DEFINE rules   == s.scope_specification
           written == [n \in DOMAIN rules |-> WriteRule(rules[n])]
           w       == [s EXCEPT !.scope_specification = written]
           j       == WriteScope(s)
           back    == Field(j, "scope_specification", <<>>)
<1>1. rules \in Seq(ScopeRule)
  BY DEF SessionScope
<1>2. /\ DOMAIN w = {"origin", "include_site", "scope_specification"}
      /\ w.origin = s.origin /\ w.include_site = s.include_site
      /\ w.scope_specification = written
  BY DEF SessionScope
<1>3. j = Object(w, {"origin"}, {"scope_specification"})
  BY DEF WriteScope
<1> HIDE DEF w, j, written
<1>4. /\ DOMAIN j = {k \in {"origin", "include_site", "scope_specification"} :
                      /\ k \in {"origin"} => w[k] # None
                      /\ k \in {"scope_specification"} => w[k] # <<>>}
      /\ \A k \in DOMAIN j : j[k] = w[k]
  BY <1>2, <1>3 DEF Object
<1>5. back = written
  BY <1>2, <1>4 DEF Field
<1>6. /\ [n \in DOMAIN back |-> ParseRule(back[n])] = rules
      /\ \A n \in DOMAIN back : ParsesRule(back[n])
  <2>1. DOMAIN back = DOMAIN rules /\ \A n \in DOMAIN rules : back[n] = WriteRule(rules[n])
    BY <1>5 DEF written
  <2>2. \A n \in DOMAIN rules : rules[n] \in ScopeRule
    BY <1>1
  <2>3. \A n \in DOMAIN rules : ParseRule(back[n]) = rules[n] /\ ParsesRule(back[n])
    BY <2>1, <2>2, RuleTrip
  <2>4. rules = [n \in DOMAIN rules |-> rules[n]]
    BY <1>1
  <2>5. QED
    BY <2>1, <2>3, <2>4
<1>7. Field(j, "origin", None) = s.origin /\ j.include_site = s.include_site
  BY <1>2, <1>4 DEF Field
<1>8. ParseScope(j) = [origin |-> s.origin, include_site |-> s.include_site,
                       scope_specification |-> rules]
  BY <1>6, <1>7 DEF ParseScope
<1>9. ParsesScope(j)
  BY <1>2, <1>4, <1>6 DEF ParsesScope
<1>10. QED
  BY <1>8, <1>9 DEF SessionScope, j

(***************************************************************************)
(* The two From conversions: a continuing instruction survives, any other  *)
(* becomes terminate().                                                    *)
(***************************************************************************)
LEMMA ReprTrip ==
  ASSUME NEW i \in SessionInstruction
  PROVE  FromRepr(ToRepr(i)) = AfterTheWire(i)
<1>1. CASE ~i.continue_session
  BY <1>1 DEF FromRepr, ToRepr, OrElse, AfterTheWire, terminate
<1>2. CASE i.continue_session
  <2>1. /\ i.session_identifier # None /\ i.scope # None /\ i.credentials # None
        /\ i.continue_session = TRUE
    BY <1>2, TextsAssumption, NoScopeAssumption, NoCredentialsAssumption
       DEF SessionInstruction
  <2>2. QED
    BY <1>2, <2>1 DEF FromRepr, ToRepr, OrElse, AfterTheWire, SessionInstruction
<1>3. QED
  BY <1>1, <1>2

(* Credentials survive, an empty list included. *)
LEMMA CredentialsTrip ==
  ASSUME NEW cs \in Seq(SessionCredential),
         NEW written, written = [n \in DOMAIN cs |-> WriteCredential(cs[n])]
  PROVE  /\ [n \in DOMAIN written |-> ParseCredential(written[n])] = cs
         /\ \A n \in DOMAIN written : ParsesCredential(written[n])
<1>1. DOMAIN written = DOMAIN cs /\ \A n \in DOMAIN cs : written[n] = WriteCredential(cs[n])
  OBVIOUS
<1>2. \A n \in DOMAIN cs : ParseCredential(written[n]) = cs[n] /\ ParsesCredential(written[n])
  BY <1>1, CredentialTrip
<1>3. cs = [n \in DOMAIN cs |-> cs[n]]
  OBVIOUS
<1>4. QED
  BY <1>1, <1>2, <1>3

(***************************************************************************)
(* An instruction serializes to JSON that parses, and to the instruction   *)
(* itself or, if it does not continue, to `terminate()`: the derived       *)
(* Serialize and Deserialize of SessionInstruction fit together.           *)
(***************************************************************************)
THEOREM WireTrip ==
  ASSUME NEW i \in SessionInstruction
  PROVE  Parses(ToJson(i)) /\ FromJson(ToJson(i)) = AfterTheWire(i)
<1> DEFINE r       == ToRepr(i)
           cs      == [n \in DOMAIN r.credentials |-> WriteCredential(r.credentials[n])]
           options == {"session_identifier", "refresh_url", "scope", "credentials"}
           lists   == {"allowed_refresh_initiators"}
           o       == Object(r, options, lists)
           j       == ToJson(i)
           parsed  == [ continue           |-> j.continue,
                        session_identifier |-> Field(j, "session_identifier", None),
                        refresh_url        |-> Field(j, "refresh_url", None),
                        scope              |-> IF "scope" \in DOMAIN j THEN ParseScope(j.scope) ELSE None,
                        credentials        |-> IF "credentials" \in DOMAIN j
                                               THEN [n \in DOMAIN j.credentials |-> ParseCredential(j.credentials[n])]
                                               ELSE None,
                        allowed_refresh_initiators |-> Field(j, "allowed_refresh_initiators", <<>>) ]
<1>1. /\ r \in SessionInstructionRepr
      /\ r = [ continue |-> r.continue, session_identifier |-> r.session_identifier,
               refresh_url |-> r.refresh_url, scope |-> r.scope,
               credentials |-> r.credentials,
               allowed_refresh_initiators |-> r.allowed_refresh_initiators ]
  <2>1. CASE i.continue_session
    BY <2>1 DEF ToRepr, SessionInstruction, SessionInstructionRepr, Option
  <2>2. CASE ~i.continue_session
    BY <2>2 DEF ToRepr, SessionInstruction, SessionInstructionRepr, Option
  <2>3. QED
    BY <2>1, <2>2
<1>2. j = [k \in DOMAIN o |->
             CASE k = "scope"       -> WriteScope(o[k])
               [] k = "credentials" -> [n \in DOMAIN o[k] |-> WriteCredential(o[k][n])]
               [] k \notin {"scope", "credentials"} -> o[k]]
  BY DEF ToJson
<1> HIDE DEF r, j
<1>3. DOMAIN r = {"continue", "session_identifier", "refresh_url", "scope",
                  "credentials", "allowed_refresh_initiators"}
  BY <1>1
<1>4. /\ DOMAIN o = {k \in DOMAIN r : /\ (k \in options => r[k] # None)
                                     /\ (k \in lists => r[k] # <<>>)}
      /\ \A k \in DOMAIN o : o[k] = r[k]
  BY DEF Object
<1> HIDE DEF o
<1>5. /\ j.continue = r.continue /\ "continue" \in DOMAIN j
      /\ Field(j, "session_identifier", None) = r.session_identifier
      /\ Field(j, "refresh_url", None) = r.refresh_url
      /\ Field(j, "allowed_refresh_initiators", <<>>) = r.allowed_refresh_initiators
  BY <1>2, <1>3, <1>4 DEF Field
<1>6. /\ ("scope" \in DOMAIN j) <=> (r.scope # None)
      /\ "scope" \in DOMAIN j => j.scope = WriteScope(r.scope)
      /\ ("credentials" \in DOMAIN j) <=> (r.credentials # None)
      /\ "credentials" \in DOMAIN j => j.credentials = cs
  BY <1>2, <1>3, <1>4
<1>7. /\ parsed.scope = r.scope
      /\ "scope" \in DOMAIN j => ParsesScope(j.scope)
  <2>1. r.scope # None => r.scope \in SessionScope
    BY <1>1 DEF SessionInstructionRepr, Option
  <2>2. QED
    BY <1>6, <2>1, ScopeTrip
<1>8. /\ parsed.credentials = r.credentials
      /\ "credentials" \in DOMAIN j =>
           \A n \in DOMAIN j.credentials : ParsesCredential(j.credentials[n])
  <2>1. r.credentials # None => r.credentials \in Seq(SessionCredential)
    BY <1>1 DEF SessionInstructionRepr, Option
  <2>2. QED
    BY <1>6, <2>1, CredentialsTrip
<1>9. parsed = r
  BY <1>1, <1>5, <1>7, <1>8
<1>10. FromJson(j) = FromRepr(r)
  BY <1>9 DEF FromJson
<1>11. QED
  BY <1>5, <1>7, <1>8, <1>10, ReprTrip DEF Parses, j, r

(* An instruction that does not continue is one field of JSON. *)
LEMMA TerminationJson ==
  ASSUME NEW i \in SessionInstruction, ~i.continue_session
  PROVE  ToJson(i) = [continue |-> FALSE]
<1> DEFINE r == ToRepr(i)
           o == Object(r, {"session_identifier", "refresh_url", "scope", "credentials"},
                       {"allowed_refresh_initiators"})
<1>1. r = [ continue |-> FALSE, session_identifier |-> None, refresh_url |-> None,
            scope |-> None, credentials |-> None, allowed_refresh_initiators |-> <<>> ]
  BY DEF ToRepr
<1> HIDE DEF r
<1>2. DOMAIN o = {"continue"} /\ o["continue"] = FALSE
  BY <1>1 DEF Object
<1>3. ToJson(i) = [k \in DOMAIN o |->
                     CASE k = "scope"       -> WriteScope(o[k])
                       [] k = "credentials" -> [n \in DOMAIN o[k] |-> WriteCredential(o[k][n])]
                       [] k \notin {"scope", "credentials"} -> o[k]]
  BY DEF ToJson, r
<1> HIDE DEF o
<1>4. ToJson(i) = [k \in {"continue"} |-> FALSE]
  BY <1>2, <1>3
<1>5. QED
  BY <1>4

-----------------------------------------------------------------------------
(* The fields that are there hold values senders use. *)
FieldsOK ==
  /\ DOMAIN json \subseteq DOMAIN FieldValues
  /\ \A k \in DOMAIN json : json[k] \in FieldValues[k]

LEMMA FieldsCorrect == InstructionSpec => []FieldsOK
<1>1. InstructionInit => FieldsOK
  BY DEF InstructionInit, FieldsOK
<1>2. FieldsOK /\ [InstructionNext]_json => FieldsOK'
  <2>1. ASSUME FieldsOK, NEW k \in DOMAIN FieldValues, AddField(k)
        PROVE  FieldsOK'
    <3>1. PICK v \in FieldValues[k] :
            json' = [f \in DOMAIN json \cup {k} |-> IF f = k THEN v ELSE json[f]]
      BY <2>1 DEF AddField
    <3> HIDE DEF FieldValues
    <3>2. QED
      BY <2>1, <3>1 DEF FieldsOK
  <2>2. QED
    BY <2>1 DEF InstructionNext, FieldsOK
<1>3. QED
  BY <1>1, <1>2, PTL DEF InstructionSpec

(* What parses is an instruction. *)
LEMMA ParsedType ==
  ASSUME FieldsOK, Parses(json)
  PROVE  /\ FromJson(json) \in SessionInstruction
         /\ FromJson(json).continue_session = json.continue
<1> DEFINE sid   == Field(json, "session_identifier", None)
           url   == Field(json, "refresh_url", None)
           scope == IF "scope" \in DOMAIN json THEN ParseScope(json.scope) ELSE None
           creds == IF "credentials" \in DOMAIN json
                    THEN [n \in DOMAIN json.credentials |-> ParseCredential(json.credentials[n])]
                    ELSE None
           inits == Field(json, "allowed_refresh_initiators", <<>>)
<1>1. json.continue \in BOOLEAN
  BY DEF FieldsOK, Parses, FieldValues
<1>2. sid \in Option(Texts) /\ url \in Option(Texts)
  BY DEF FieldsOK, FieldValues, Field, Option
<1>3. scope \in Option(SessionScope)
  BY WireAssumption DEF FieldsOK, Parses, FieldValues, Option
<1>4. creds \in Option(Seq(SessionCredential))
  BY WireAssumption DEF FieldsOK, Parses, FieldValues, Option
<1>5. inits \in Seq(Texts)
  BY WireAssumption DEF FieldsOK, FieldValues, Field
<1>6. DefaultScope \in SessionScope
  BY DEF DefaultScope, SessionScope, Option
<1>7. FromJson(json) =
        FromRepr([continue |-> json.continue, session_identifier |-> sid,
                  refresh_url |-> url, scope |-> scope, credentials |-> creds,
                  allowed_refresh_initiators |-> inits])
  BY DEF FromJson
<1> HIDE DEF sid, url, scope, creds, inits
<1>8. QED
  BY <1>1, <1>2, <1>3, <1>4, <1>5, <1>6, <1>7, TextsAssumption
     DEF FromRepr, OrElse, SessionInstruction, Option

(***************************************************************************)
(* Whatever a sender left out, what was parsed once survives the way back  *)
(* over the wire, or becomes `terminate()`.                                *)
(***************************************************************************)
THEOREM ParsingIsStable == InstructionSpec => []ParsedSurvives
<1>1. FieldsOK => ParsedSurvives
  BY ParsedType, WireTrip DEF ParsedSurvives
<1>2. QED
  BY <1>1, FieldsCorrect, PTL

(***************************************************************************)
(* An instruction that does not continue serializes to `continue` alone,   *)
(* whatever it was parsed from.                                            *)
(***************************************************************************)
THEOREM TerminationStaysMinimal == InstructionSpec => []TerminationIsMinimal
<1>1. FieldsOK => TerminationIsMinimal
  BY ParsedType, TerminationJson DEF TerminationIsMinimal
<1>2. QED
  BY <1>1, FieldsCorrect, PTL

=============================================================================
