--------------------------- MODULE CanonicalJson ---------------------------
(***************************************************************************)
(* The canonical form of a JSON text that a run's identity is made of: the *)
(* text is parsed, a scanner of its own refuses a key that occurs twice in *)
(* one object at any depth, and the value is written with its keys in      *)
(* order.                                                                  *)
(*                                                                         *)
(* A text is a sequence of tokens: punctuation, whitespace, scalars, and   *)
(* string literals, several of which may spell the same string.            *)
(***************************************************************************)
EXTENDS Integers, Sequences, SequencesExt, FiniteSetsExt, Results

CONSTANTS
    Spelled,                \* the string that each literal spells
    Ordered,                \* those strings, in order
    MAX_JSON_INPUT_BYTES

Token(input, i) == IF i \in DOMAIN input THEN input[i] ELSE "end"

(* Where the next token is that satisfies the condition. *)
Skip(input, i, over) == Min({j \in i .. Len(input) + 1 : Token(input, j) \notin over})

ws(input, i) == Skip(input, i, {" "})
Delimiters == {",", "]", "}", " ", "end"}

-----------------------------------------------------------------------------
(* The scanner: the index behind a value, or 0 when it is refused. *)

RECURSIVE Scan(_, _)


(* string: a key is what its literal decodes to. *)
Decoded(literal) == Spelled[literal]

RECURSIVE ScanMembers(_, _, _)
ScanMembers(input, i, keys) ==
    LET at == ws(input, i)
        colon == ws(input, at + 1)
        value == Scan(input, colon + 1)
        end == ws(input, value)
    IN  IF Token(input, at) = "}" THEN at + 1
        ELSE IF Token(input, at) \notin DOMAIN Spelled THEN 0
        ELSE IF Decoded(Token(input, at)) \in keys \/ Token(input, colon) # ":" THEN 0
        ELSE IF value = 0 THEN 0
        ELSE IF Token(input, end) = "," THEN
               ScanMembers(input, end + 1, keys \cup {Decoded(Token(input, at))})
        ELSE IF Token(input, end) = "}" THEN end + 1 ELSE 0

RECURSIVE ScanElements(_, _)
ScanElements(input, i) ==
    LET value == Scan(input, i)
        end == ws(input, value)
    IN  IF value = 0 THEN 0
        ELSE IF Token(input, end) = "," THEN ScanElements(input, end + 1)
        ELSE IF Token(input, end) = "]" THEN end + 1 ELSE 0

ScanScalar(input, i) ==
    LET end == Min({j \in i .. Len(input) + 1 : Token(input, j) \in Delimiters})
    IN  IF end = i THEN 0 ELSE end

Scan(input, i) ==
    LET at == ws(input, i)
    IN  CASE Token(input, at) \in DOMAIN Spelled -> at + 1
          [] Token(input, at) = "{" -> ScanMembers(input, at + 1, {})
          [] Token(input, at) = "[" ->
               IF Token(input, ws(input, at + 1)) = "]" THEN ws(input, at + 1) + 1
               ELSE ScanElements(input, at + 1)
          [] OTHER -> ScanScalar(input, at)

reject_duplicate_keys(input) ==
    LET end == Scan(input, 1) IN end # 0 /\ ws(input, end) = Len(input) + 1

-----------------------------------------------------------------------------
(* The parser of serde_json, with the canonical text of what it reads; of   *)
(* two equal keys the last one counts.                                     *)

Joined(parts) ==
    FoldLeft(LAMBDA text, part : IF text = <<>> THEN part ELSE text \o <<",">> \o part, <<>>, parts)

Parsed(text, next) == [text |-> text, next |-> next]
Malformed == Parsed(<<>>, 0)

RECURSIVE Parse(_, _)

(* canonical_value of an object: its members in the order of the keys. *)
CanonicalObject(members) ==
    LET keys == SelectSeq(Ordered, LAMBDA k : k \in DOMAIN members)
    IN  <<"{">> \o Joined([n \in DOMAIN keys |-> <<keys[n], ":">> \o members[keys[n]]]) \o <<"}">>

RECURSIVE ParseMembers(_, _, _)
ParseMembers(input, i, members) ==
    LET at == ws(input, i)
        colon == ws(input, at + 1)
        value == Parse(input, colon + 1)
        end == ws(input, value.next)
        all == (Spelled[Token(input, at)] :> value.text) @@ members
    IN  IF Token(input, at) \notin DOMAIN Spelled \/ Token(input, colon) # ":" THEN Malformed
        ELSE IF value.next = 0 THEN Malformed
        ELSE IF Token(input, end) = "," THEN ParseMembers(input, end + 1, all)
        ELSE IF Token(input, end) = "}" THEN Parsed(CanonicalObject(all), end + 1)
        ELSE Malformed

RECURSIVE ParseElements(_, _, _)
ParseElements(input, i, elements) ==
    LET value == Parse(input, i)
        end == ws(input, value.next)
        all == Append(elements, value.text)
    IN  IF value.next = 0 THEN Malformed
        ELSE IF Token(input, end) = "," THEN ParseElements(input, end + 1, all)
        ELSE IF Token(input, end) = "]" THEN Parsed(<<"[">> \o Joined(all) \o <<"]">>, end + 1)
        ELSE Malformed

Parse(input, i) ==
    LET at == ws(input, i)
        token == Token(input, at)
        closing == ws(input, at + 1)
    IN  CASE token \in DOMAIN Spelled -> Parsed(<<Spelled[token]>>, at + 1)
          [] token = "{" -> IF Token(input, closing) = "}" THEN Parsed(<<"{", "}">>, closing + 1)
                            ELSE ParseMembers(input, at + 1, <<>>)
          [] token = "[" -> IF Token(input, closing) = "]" THEN Parsed(<<"[", "]">>, closing + 1)
                            ELSE ParseElements(input, at + 1, <<>>)
          [] OTHER -> IF token \in Delimiters \cup {":"} THEN Malformed ELSE Parsed(<<token>>, at + 1)

canonical_json(input, max_bytes) ==
    LET parsed == Parse(input, 1)
    IN  IF Len(input) > max_bytes \/ Len(input) > MAX_JSON_INPUT_BYTES THEN Err("LimitExceeded")
        ELSE IF parsed.next = 0 THEN Err("InvalidRequest")
        ELSE IF ws(input, parsed.next) # Len(input) + 1 THEN Err("InvalidRequest")
        ELSE IF ~reject_duplicate_keys(input) THEN Err("InvalidRequest")
        ELSE Ok(parsed.text)

(* SHA-256 of the text, taken to be injective. *)
input_digest(canonical) == [sha256 |-> canonical]

=============================================================================
