------------------------------- MODULE Header -------------------------------
(***************************************************************************)
(* Structured field serialization and parsing, src/src/header.rs.  A text  *)
(* is a sequence of symbols: the characters that quoting and splitting     *)
(* tell apart, and as one symbol each the words the code compares, none of *)
(* which contains such a character.                                        *)
(***************************************************************************)
EXTENDS Optional, SequencesExt

CONSTANT Symbols

Quote == "\""
Backslash == "\\"
Space == " "

SkipReason == {"unreachable", "server_error", "quota_exceeded"}

(* What the serializers write around the values. *)
Syntax ==
  {Quote, Backslash, Space, "(", ")", ",", ";", "=", "id", "session_identifier"}
    \cup {"path", "challenge", "authorization"}
    \cup {"provider_key", "provider_session_id", "provider_url"}
    \cup SkipReason \cup {"ES256"}

ASSUME SymbolsAssumption ==
  Syntax \subseteq Symbols /\ None \notin Symbols \cup Seq(Symbols)

SkippedEntry == [reason : SkipReason, session_id : Seq(Symbols)]

(* SkipReason::from_token; as_token is <<reason>>. *)
from_token(token) ==
  IF \E r \in SkipReason : token = <<r>> THEN token[1] ELSE None

-----------------------------------------------------------------------------
(* Serialization. *)

(* Mutant: a backslash is written as it is. *)
EscapeQuotesOnly(value) ==
  FlattenSeq([i \in DOMAIN value |->
                IF value[i] = Quote THEN <<Backslash, value[i]>> ELSE <<value[i]>>])

sf_escape(value) ==
  FlattenSeq([i \in DOMAIN value |->
                IF value[i] \in {Quote, Backslash}
                THEN <<Backslash, value[i]>> ELSE <<value[i]>>])

(* session_response_header and session_id_header. *)
Quoted(value) == <<Quote>> \o sf_escape(value) \o <<Quote>>

Joined(texts, separator) ==
  FlattenSeq([i \in DOMAIN texts |-> IF i = 1 THEN texts[i] ELSE separator \o texts[i]])

param(key, value) ==
  IF value \in {None, <<>>} THEN <<>> ELSE <<";", key, "=">> \o Quoted(value)

registration_header(algs, path, challenge, authorization, provider_key, provider_id, provider_url) ==
  <<"(">> \o Joined(algs, <<Space>>) \o <<")">>
    \o param("path", path) \o param("challenge", challenge)
    \o param("authorization", authorization) \o param("provider_key", provider_key)
    \o param("provider_session_id", provider_id)
    \o param("provider_url", provider_url)

challenge_header(value, session_id) ==
  Quoted(value) \o <<";", "id", "=">> \o Quoted(session_id)

session_skipped_header(entries) ==
  Joined([i \in DOMAIN entries |->
            <<entries[i].reason, ";", "session_identifier", "=">>
              \o Quoted(entries[i].session_id)],
         <<",", Space>>)

-----------------------------------------------------------------------------
(* Parsing. *)

trim(text) ==
  LET solid == {i \in DOMAIN text : text[i] # Space}
  IN  IF solid = {} THEN <<>> ELSE SubSeq(text, Min(solid), Max(solid))

(* c starts a new piece or goes into the last one. *)
Placed(pieces, c, cuts) ==
  IF cuts THEN Append(pieces, <<>>)
  ELSE [pieces EXCEPT ![Len(pieces)] = Append(@, c)]

(* The pieces between the separators, str::split. *)
split(text, separator) ==
  FoldLeft(LAMBDA pieces, c : Placed(pieces, c, c = separator), << <<>> >>, text)

(* Mutant: what follows the closing quote is ignored. *)
ReadToTheQuote(reader, c) ==
  LET within == [at |-> "string", out |-> Append(reader.out, c)]
  IN  CASE reader.at = "string" ->
             IF c = Quote THEN [reader EXCEPT !.at = "end"]
             ELSE IF c = Backslash THEN [reader EXCEPT !.at = "escape"] ELSE within
        [] reader.at = "escape" -> within
        [] reader.at \notin {"string", "escape"} ->
             reader

(* One turn of the loop of parse_quoted. *)
Read(reader, c) ==
  LET within == [at |-> "string", out |-> Append(reader.out, c)]
  IN  CASE reader.at = "string" ->
             IF c = Quote THEN [reader EXCEPT !.at = "end"]
             ELSE IF c = Backslash THEN [reader EXCEPT !.at = "escape"] ELSE within
        [] reader.at = "escape" -> within
        [] reader.at \notin {"string", "escape"} ->
             IF c = Space THEN reader ELSE [reader EXCEPT !.at = "failed"]

(* parse_session_response and parse_session_id. *)
parse_quoted(value) ==
  LET text == trim(value)
  IN  IF text = <<>> \/ text[1] # Quote THEN None
      ELSE LET reader == FoldLeft(Read, [at |-> "string", out |-> <<>>], Tail(text))
           IN  IF reader.at = "end" THEN reader.out ELSE None

(* Mutant: split('=') in place of splitn(2, '='). *)
KeyValueAtEvery(text) == [i \in DOMAIN split(text, "=") \cap {1, 2} |-> trim(split(text, "=")[i])]

(* splitn(2, '='), trimmed: a key, and a value if there is a '='. *)
KeyValue(text) ==
  LET at == {i \in DOMAIN text : text[i] = "="}
  IN  IF at = {} THEN <<trim(text)>>
      ELSE <<trim(SubSeq(text, 1, Min(at) - 1)), trim(SubSeq(text, Min(at) + 1, Len(text)))>>

(* The last session_identifier counts, whether it parses or not. *)
SessionIdentifier(params) ==
  LET named == {i \in DOMAIN params :
                  /\ Len(KeyValue(params[i])) = 2
                  /\ KeyValue(params[i])[1] = <<"session_identifier">>}
  IN  IF named = {} THEN None ELSE parse_quoted(KeyValue(params[Max(named)])[2])

(* An item of the list; an empty one has no reason either. *)
ParseItem(item) ==
  LET parts == split(trim(item), ";")
      reason == from_token(trim(parts[1]))
      id == SessionIdentifier(Tail(parts))
  IN  IF None \in {reason, id} THEN <<>> ELSE <<[reason |-> reason, session_id |-> id]>>

parse_session_skipped(header) ==
  LET items == split(header, ",")
  IN  FlattenSeq([i \in DOMAIN items |-> ParseItem(items[i])])

=============================================================================
