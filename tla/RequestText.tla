---------------------------- MODULE RequestText ----------------------------
(***************************************************************************)
(* The text of requests: the query strings of Crow (query_string.h), the   *)
(* bodies that server.cpp takes apart by hand, the numbers and texts in    *)
(* them (Utils.hpp, Models.hpp) and the names of static files (utility.h). *)
(*                                                                         *)
(* A text is a sequence of characters; the name of a field or parameter is *)
(* one character and is never written with escapes.  Numbers have few      *)
(* digits and an int few bits, so that both overflow.                      *)
(***************************************************************************)
EXTENDS Routing

CONSTANTS MaxPairs,     \* MAX_KEY_VALUE_PAIRS_COUNT
          IntModulus,   \* how many values an int has
          MaxFileName   \* the 255 characters sanitize_filename keeps

ASSUME TextAssumption ==
  MaxPairs \in Nat \ {0} /\ IntModulus \in Nat \ {0} /\ MaxFileName \in Nat \ {0}

\* The number of characters before the first of stops.
strcspn(text, stops) == Span(text, {text[i] : i \in DOMAIN text} \ stops)

\* The entries at these places, in their order.
Selected(entries, places) ==
  LET taken[i \in 0..Len(entries)] ==
        IF i = 0 THEN <<>> ELSE IF i \in places THEN Append(taken[i - 1], entries[i]) ELSE taken[i - 1]
  IN taken[Len(entries)]

\* The pieces between the separators.
Pieces(text) ==
  LET n    == Len(text) + 1
      ends == Selected([i \in 1..n |-> i], {i \in 1..n : i = n \/ text[i] = "&"})
  IN [j \in DOMAIN ends |-> SubSeq(text, (IF j = 1 THEN 0 ELSE ends[j - 1]) + 1, ends[j] - 1)]

-----------------------------------------------------------------------------
(* Escapes. *)

HexDigit == {"0", "1", "2", "3", "5", "6", "B", "C", "D"}

Space == " "
Quote == "\""

Escape == [c \in {Space, Quote, "#", "%", "&", "+", "<", "="} |->
             CASE c = Space -> <<"2", "0">> [] c = Quote -> <<"2", "2">> [] c = "#" -> <<"2", "3">>
               [] c = "%"   -> <<"2", "5">> [] c = "&"   -> <<"2", "6">> [] c = "+" -> <<"2", "B">>
               [] c = "<"   -> <<"3", "C">> [] c = "="   -> <<"3", "D">>]

\* Every byte that is no character of the texts here is "other".
Byte(high, low) ==
  IF \E c \in DOMAIN Escape : Escape[c] = <<high, low>>
  THEN CHOOSE c \in DOMAIN Escape : Escape[c] = <<high, low>>
  ELSE "other"

\* What the pages put into the bodies they send.
encodeURIComponent(text) ==
  FlattenSeq([i \in DOMAIN text |->
    IF text[i] \in DOMAIN Escape THEN <<"%">> \o Escape[text[i]] ELSE <<text[i]>>])

\* The url_decode of the registration and the login, which reads two characters as a stream reads
\* a number: with a sign, and "0x" opens one that never comes.
url_decode(text) ==
  LET Escapes(i) == /\ text[i] = "%" /\ i + 2 <= Len(text)
                    /\ \/ text[i + 1] \in HexDigit /\ SubSeq(text, i + 1, i + 2) # <<"0", "x">>
                       \/ text[i + 1] \in Sign \cup {Space} /\ text[i + 2] \in HexDigit
      decoded[i \in 1..(Len(text) + 1)] ==
        IF i > Len(text) THEN <<>>
        ELSE IF Escapes(i) THEN <<Byte(text[i + 1], text[i + 2])>> \o decoded[i + 3]
        ELSE <<IF text[i] = "+" THEN Space ELSE text[i]>> \o decoded[i + 1]
  IN decoded[1]

-----------------------------------------------------------------------------
(* Query strings. *)

\* qs_decode ends at a separator, and at an escape that is none.
qs_decode(text) ==
  LET Escapes(i) == i + 2 <= Len(text) /\ {text[i + 1], text[i + 2]} \subseteq HexDigit
      decoded[i \in 1..(Len(text) + 1)] ==
        IF i > Len(text) \/ text[i] \in {"=", "#", "&"} THEN <<>>
        ELSE IF text[i] # "%" THEN <<IF text[i] = "+" THEN Space ELSE text[i]>> \o decoded[i + 1]
        ELSE IF Escapes(i) THEN <<Byte(text[i + 1], text[i + 2])>> \o decoded[i + 3] ELSE <<>>
  IN decoded[1]

\* One pair, with its value decoded in place.
DecodedPair(pair) ==
  LET n == strcspn(pair, {"=", "#"})
  IN IF n = Len(pair) THEN pair ELSE SubSeq(pair, 1, n + 1) \o qs_decode(From(pair, n + 2))

\* qs_parse of a URL: the pairs after its first "?" or "#".
qs_parse(url) ==
  LET n     == strcspn(url, {"?", "#"})
      pairs == Pieces(From(url, n + 2))
  IN IF n = Len(url) THEN <<>>
     ELSE [i \in 1..(IF Len(pairs) < MaxPairs THEN Len(pairs) ELSE MaxPairs) |-> DecodedPair(pairs[i])]

\* qs_strncmp: the pair has this key, with or without a value.
KeyIs(pair, key) ==
  pair # <<>> /\ Head(pair) = key /\ (Len(pair) = 1 \/ pair[2] \in {"=", "#"})

Keyed(pairs, key) == {i \in DOMAIN pairs : KeyIs(pairs[i], key)}
Has(pairs, key)   == Keyed(pairs, key) # {}

\* qs_k2v: the value of the first pair with the key.
get(pairs, key) ==
  LET pair == pairs[CHOOSE i \in Keyed(pairs, key) : \A j \in Keyed(pairs, key) : i <= j]
  IN From(pair, strcspn(pair, {"="}) + 2)

-----------------------------------------------------------------------------
(* The bodies of posts. *)

\* std::map of the pieces with an "=": the last one with the name counts, up to the next "&".
PostParam(body, name, default) ==
  LET places == {i \in 1..(Len(body) - 1) : /\ i = 1 \/ body[i - 1] = "&"
                                           /\ body[i] = name /\ body[i + 1] = "="}
      rest   == From(body, (CHOOSE i \in places : \A j \in places : j <= i) + 2)
  IN IF places = {} THEN default ELSE SubSeq(rest, 1, strcspn(rest, {"&"}))

\* Mutant: a value goes on to the end of the body.
FieldOf_toTheEnd(body, name) ==
  LET places == {i \in 1..(Len(body) - 1) : body[i] = name /\ body[i + 1] = "="}
      rest   == From(body, (CHOOSE i \in places : \A j \in places : i <= j) + 2)
  IN IF places = {} THEN <<>> ELSE rest

\* body.find("name="), wherever in the body it stands, and up to the next "&".
FieldOf(body, name) ==
  LET places == {i \in 1..(Len(body) - 1) : body[i] = name /\ body[i + 1] = "="}
      rest   == From(body, (CHOOSE i \in places : \A j \in places : i <= j) + 2)
  IN IF places = {} THEN <<>> ELSE SubSeq(rest, 1, strcspn(rest, {"&"}))

-----------------------------------------------------------------------------
(* Numbers. *)

DigitValue == [d \in Digit |-> CASE d = "0" -> 0 [] d = "1" -> 1 [] d = "2" -> 2]

Number(digits) == FoldLeft(LAMBDA n, d : 10 * n + DigitValue[d], 0, digits)

\* What the C functions read: blanks, a sign, and digits as long as they are in range.
Numeral(text) ==
  LET rest == From(text, Span(text, {Space}) + 1)
  IN IF rest = <<>> THEN <<>> ELSE SubSeq(rest, 1, IntegerSpan(rest, Sign))

ValueOf(numeral) ==
  CASE Head(numeral) = "-" -> -Number(Tail(numeral))
    [] Head(numeral) = "+" -> Number(Tail(numeral))
    [] OTHER               -> Number(numeral)

MaxInt == IntModulus \div 2 - 1

\* std::stoi, and when it throws.
stoi(text)       == ValueOf(Numeral(text))
StoiThrows(text) == Numeral(text) = <<>> \/ stoi(text) \notin (-MaxInt - 1)..MaxInt

\* std::stoull of 64 bits, and 0 for what it throws at.
stoull(text) ==
  LET Value(numeral) == IF numeral = <<>> THEN 0 ELSE ValueOf(numeral)
      Unsigned(n)    == IF n < 0 THEN n + 10^MaxDigits ELSE n
  IN Unsigned(Value(Numeral(text)))

\* An int64_t of the router, given to a handler that takes an int.
ToInt(n) == ((n + MaxInt + 1) % IntModulus) - (MaxInt + 1)

-----------------------------------------------------------------------------
(* Texts that are stored. *)

Semicolon == ";"

Markup == [c \in {"<", Quote, "&"} |-> CASE c = "<"   -> <<"&", "l", "t", Semicolon>>
                                        [] c = Quote -> <<"&", "q", "u", "o", "t", Semicolon>>
                                        [] c = "&"   -> <<"&", "a", "m", "p", Semicolon>>]
Dropped == {"%", "+", "=", "#", "?", Semicolon, "*", "BACKSLASH", "other"}

Shortened(text, length) == SubSeq(text, 1, IF Len(text) < length THEN Len(text) ELSE length)

\* sanitize_string: what is escaped may be longer than max_length.
sanitize_string(text, max_length) ==
  LET kept == Shortened(text, max_length)
  IN FlattenSeq([i \in DOMAIN kept |->
       IF kept[i] \in DOMAIN Markup THEN Markup[kept[i]]
       ELSE IF kept[i] \in Dropped THEN <<>> ELSE <<kept[i]>>])

\* strncpy into a field of this size, and its closing zero.
Field(text, size) == Shortened(text, size - 1)

-----------------------------------------------------------------------------
(* Names of files. *)

Separator == {"/", "BACKSLASH"}
Device    == {"AUX", "CON"}
Forbidden == {"?", "<", ":", "*", "\"", "other"}

\* How much of a name from a place on is special if an entry begins there: a device, or "..".
SpecialLength(rest) ==
  IF Head(rest) \in Device THEN 1 ELSE IF IsPrefix(<<".", ".">>, rest) THEN 2 ELSE 0

IsSpecial(rest) ==
  LET length == SpecialLength(rest)
  IN length > 0 /\ (Len(rest) > length => rest[length + 1] \in {".", ":"} \cup Separator)

Replaced(data, i) == data[i] \in Forbidden \/ (i = 1 /\ data[i] \in Separator)

\* What is made of a name from place i on; entry: the name of a file or directory begins there.
SanitizedFrom(data) ==
  LET made[i \in 1..(Len(data) + 1)] ==
        [entry \in BOOLEAN |->
           IF i > Len(data) THEN <<>>
           ELSE IF entry /\ IsSpecial(From(data, i))
           THEN <<"_">> \o made[i + SpecialLength(From(data, i))][FALSE]
           ELSE IF Replaced(data, i) THEN <<"_">> \o made[i + 1][FALSE]
           ELSE <<data[i]>> \o made[i + 1][data[i] \in Separator]]
  IN made

\* Mutant: the beginning of the name is not checked for special entries.
sanitize_filename_unchecked(data) == SanitizedFrom(Shortened(data, MaxFileName))[1][FALSE]

sanitize_filename(data) == SanitizedFrom(Shortened(data, MaxFileName))[1][TRUE]
=============================================================================
