------------------------------- MODULE Codec -------------------------------
(***************************************************************************)
(* Codec (libraries/vscp/src/vscp_codec.cpp): requests and responses as    *)
(* text.  A text is a sequence of characters, a character a string of      *)
(* length one; keys and values are texts, the fields of a message are a    *)
(* function from keys to values.                                           *)
(***************************************************************************)
EXTENDS Naturals, Sequences, FiniteSetsExt

CONSTANTS
  Character,     \* every character
  Unprintable,   \* characters outside 32..126
  Terminator,    \* what ends a line: \n, \r and 0
  MaxLine        \* MAX_MESSAGE_SIZE

ASSUME CodecAssumption == Terminator \subseteq Unprintable /\ MaxLine \in Nat \ {0}

Blank == " "
Question == "?"
Ampersand == "&"
Equals == "="
NewLine == "\n"

TypeKey == <<"t">>
StatusKey == <<"s">>
ErrorKey == <<"e">>
Succeeded == <<"1">>
Failed == <<"0">>

Text == Seq(Character)

Keep(text, c) == IF c \in Unprintable THEN text ELSE Append(text, c)

Printable(text) ==
  LET kept[i \in 0..Len(text)] == IF i = 0 THEN <<>> ELSE Keep(kept[i - 1], text[i])
  IN kept[Len(text)]

Trim(text) ==
  LET solid == {i \in DOMAIN text : text[i] # Blank}
  IN IF solid = {} THEN <<>> ELSE SubSeq(text, Min(solid), Max(solid))

(* stripMessage, on every line that is written or read.                     *)
Strip(text) == Trim(Printable(text))

-----------------------------------------------------------------------------
(* buildParameters, in the order of std::map: "&" and the field for each.   *)
AddField(text, fields, key) ==
  IF key \in DOMAIN fields THEN text \o <<Ampersand>> \o key \o <<Equals>> \o fields[key]
  ELSE text

Fields(fields, keys) ==
  LET text[i \in 0..Len(keys)] == IF i = 0 THEN <<>> ELSE AddField(text[i - 1], fields, keys[i])
  IN text[Len(keys)]

(* buildRequest: the type comes first.                                      *)
BuildRequest(request, keys) ==
  LET others == [k \in DOMAIN request \ {TypeKey} |-> request[k]]
  IN <<Question>> \o TypeKey \o <<Equals>> \o request[TypeKey] \o Fields(others, keys)

(* A response is a record of its status, error text and parameters; the     *)
(* status, and the error of a failure, override parameters of that name.    *)
ResponseFields(response) ==
  LET error == IF ~response.ok /\ response.error # <<>> THEN {ErrorKey} ELSE {}
  IN [k \in DOMAIN response.parameters \cup {StatusKey} \cup error |->
        IF k \in error THEN response.error
        ELSE IF k = StatusKey THEN (IF response.ok THEN Succeeded ELSE Failed)
        ELSE response.parameters[k]]

BuildResponse(response, keys) == <<Question>> \o Tail(Fields(ResponseFields(response), keys))

(* What a parser makes of a text.                                           *)
Refused == [kind |-> "malformed", fields |-> <<>>]
Parsed(fields) == [kind |-> "parsed", fields |-> fields]

(* stringFind from a cursor on: the end of the text if it is not there.     *)
Find(text, c, cursor) ==
  Min({i \in DOMAIN text : i >= cursor /\ text[i] = c} \cup {Len(text) + 1})

(* A field before others, of which one with the same key replaces it.       *)
Before(key, value, fields) ==
  [k \in {key} \cup DOMAIN fields |-> IF k \in DOMAIN fields THEN fields[k] ELSE value]

(* A round of parseParameters' loop at the cursor, and those after it.      *)
Round(text, cursor, rest) ==
  LET separator == Find(text, Ampersand, cursor)
      equals == Find(text, Equals, cursor)
      key == Trim(SubSeq(text, cursor, equals - 1))
      value == Trim(SubSeq(text, equals + 1, separator - 1))
  IN IF equals <= cursor \/ equals >= separator \/ key = <<>> \/ rest = Refused
     THEN Refused ELSE Parsed(Before(key, value, rest.fields))

Rounds(text) ==
  LET from[cursor \in 1..Len(text) + 2] ==
        IF cursor > Len(text) THEN Parsed(<<>>)
        ELSE Round(text, cursor, from[Find(text, Ampersand, cursor) + 1])
  IN from

ParseParameters(text) ==
  IF text = <<>> \/ Head(text) # Question \/ Len(text) > MaxLine THEN Refused ELSE Rounds(text)[2]

ParseRequest(text) ==
  LET parsed == ParseParameters(text)
  IN IF TypeKey \in DOMAIN parsed.fields THEN parsed ELSE Refused

(* Any status but "1" is a failure; kind is what transact returns of it.    *)
ParseResponse(text) ==
  LET fields == ParseParameters(text).fields
  IN IF StatusKey \notin DOMAIN fields THEN Refused
     ELSE [kind |-> IF fields[StatusKey] = Succeeded THEN "ok" ELSE "failed", fields |-> fields]
=============================================================================
