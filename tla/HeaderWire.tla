----------------------------- MODULE HeaderWire -----------------------------
(***************************************************************************)
(* A browser reports the sessions it skipped; their identifiers grow piece *)
(* by piece to whatever an embedding server may have chosen.  The same     *)
(* texts serve as values of the other headers, and as headers that no      *)
(* serializer made.                                                        *)
(***************************************************************************)
EXTENDS Header

CONSTANTS
  Pieces,       \* texts that identifiers are put together from
  MaxSize       \* bound on entries and pieces together

ASSUME PiecesAssumption == Pieces \subseteq Seq(Symbols) /\ MaxSize \in Nat

VARIABLES entries, size

headerVars == <<entries, size>>

HeaderInit == entries = <<>> /\ size = 0

Skip ==
  \E r \in SkipReason :
    entries' = Append(entries, [reason |-> r, session_id |-> <<>>])

Extend ==
  /\ entries # <<>>
  /\ \E p \in Pieces :
       entries' = [entries EXCEPT ![Len(entries)].session_id = @ \o p]

HeaderNext == size < MaxSize /\ size' = size + 1 /\ (Skip \/ Extend)

HeaderSpec == HeaderInit /\ [][HeaderNext]_headerVars

IdOf(i) == entries[i].session_id

-----------------------------------------------------------------------------
(* How a structured field is read by its grammar (RFC 9651): a separator   *)
(* counts only outside of quotes.                                          *)

Outside == "outside"

(* Where a reader of the grammar is after c. *)
Quoting(at, c) ==
  CASE at = "escape" -> "string"
    [] at = "string" -> IF c = Quote THEN Outside
                        ELSE IF c = Backslash THEN "escape" ELSE "string"
    [] at = Outside  -> IF c = Quote THEN "string" ELSE Outside

CutTurn(cut, c, separator) ==
  [at |-> Quoting(cut.at, c),
   pieces |-> Placed(cut.pieces, c, cut.at = Outside /\ c = separator)]

SplitOutside(text, separator) ==
  FoldLeft(LAMBDA cut, c : CutTurn(cut, c, separator),
           [at |-> Outside, pieces |-> << <<>> >>], text).pieces

(***************************************************************************)
(* What a string of the grammar says, in any spaces: between its first and *)
(* its last quote it falls into units, one for each symbol of what it      *)
(* says, that are the symbol itself or the symbol after a backslash.  No   *)
(* text says more than one thing; one that is no string says nothing.      *)
(***************************************************************************)
Units(text, inner, U) ==
  \A i \in inner :
    IF i \in U THEN text[i] \in {Quote, Backslash} => i - 1 \in inner \ U
    ELSE text[i] = Backslash /\ i + 1 \in U

(* The symbols of the text at U, before the last quote. *)
At(text, last, U) ==
  FlattenSeq([i \in 1 .. last - 1 |-> IF i \in U THEN <<text[i]>> ELSE <<>>])

Says(text) ==
  LET solid == {i \in DOMAIN text : text[i] # Space}
      first == Min(solid)
      last  == Max(solid)
      inner == first + 1 .. last - 1
  IN  IF solid = {} \/ first = last \/ text[first] # Quote \/ text[last] # Quote
      THEN {}
      ELSE {At(text, last, U) : U \in {V \in SUBSET inner : Units(text, inner, V)}}

(***************************************************************************)
(* parse_quoted reads a string of the grammar and nothing else: it stops   *)
(* at the first quote that is not escaped, and refuses a header with a     *)
(* quote too many, an escape that ends it, or an unquoted part.            *)
(***************************************************************************)
ParsesAsString ==
  \A i \in DOMAIN entries, before, after \in {<<>>, <<Quote>>} :
    LET text == before \o IdOf(i) \o after
    IN  Says(text) = {parse_quoted(text)} \ {None}

ReadParam(text) ==
  LET kv == KeyValue(text) IN <<kv[1], parse_quoted(kv[2])>>

Sent(key, value) == IF value = <<>> THEN <<>> ELSE << << <<key>>, value>> >>

(***************************************************************************)
(* What the server sends in the registration and challenge headers is what *)
(* a browser reads in them, whatever it contains: no quote, backslash or   *)
(* separator in one value changes it, ends it or starts another parameter. *)
(***************************************************************************)
HeadersReadBack ==
  entries # <<>> =>
    LET a == IdOf(1)
        b == IdOf(Len(entries))
        registration == SplitOutside(
          registration_header(<< <<"ES256">> >>, a, b, a, None, b, <<>>), ";")
        challenge == SplitOutside(challenge_header(a, b), ";")
    IN  /\ [n \in DOMAIN Tail(registration) |-> ReadParam(Tail(registration)[n])]
             = Sent("path", a) \o Sent("challenge", b)
                 \o Sent("authorization", a) \o Sent("provider_session_id", b)
        /\ Len(challenge) = 2
        /\ parse_quoted(challenge[1]) = a
        /\ ReadParam(challenge[2]) = << <<"id">>, b>>

(***************************************************************************)
(* A report is never misread, although the parser splits the list with no  *)
(* regard to the quotes: whatever imitates an entry inside an identifier,  *)
(* no entry is read that was not sent, none twice or out of order, and     *)
(* every entry without a separator in its identifier is read.              *)
(***************************************************************************)
EntriesNotMisread ==
  \E kept \in SUBSET DOMAIN entries :
    /\ \A i \in DOMAIN entries : {",", ";"} \cap ToSet(IdOf(i)) = {} => i \in kept
    /\ parse_session_skipped(session_skipped_header(entries))
         = FlattenSeq([i \in DOMAIN entries |-> IF i \in kept THEN <<entries[i]>> ELSE <<>>])

(***************************************************************************)
(* "RFC 9651 structured field serialization and parsing for DBSC headers"  *)
(* (header.rs), and of the entries of Secure-Session-Skipped only "items   *)
(* with unknown tokens or without a session_identifier parameter are       *)
(* skipped" (parse_session_skipped): what was serialized is read back.     *)
(***************************************************************************)
SkippedReadBack ==
  parse_session_skipped(session_skipped_header(entries)) = entries

=============================================================================
