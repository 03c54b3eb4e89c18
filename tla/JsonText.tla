------------------------------- MODULE JsonText -------------------------------
(***************************************************************************)
(* Reading and writing JSON (src/json.cpp).                                *)
(*                                                                         *)
(* A value is a tuple: its kind, then what it holds.  A number is a sign,  *)
(* a mantissa without a trailing zero and a decimal exponent: exact for    *)
(* the few digits that are modelled.  A parse is where it ended and the    *)
(* value; it ends at Failed when the parser throws.                        *)
(***************************************************************************)
EXTENDS Utf8Text

CONSTANTS
  MaxNesting,   \* maximum_depth (128)
  MaxExponent   \* of a finite double (308)

Null == <<"null">>
Bool(b) == <<"boolean", b>>
Number(n) == <<"number", n>>
Str(text) == <<"string", text>>
Arr(items) == <<"array", items>>
Obj(members) == <<"object", members>>
Is(value, kind) == value[1] = kind

\* Json::find, as a sequence of at most one
Member(value, key) ==
  IF ~Is(value, "object") THEN <<>>
  ELSE LET found == SelectSeq(value[2], LAMBDA member : member[1] = key)
       IN IF found = <<>> THEN <<>> ELSE <<found[1][2]>>
Has(value, key, kind) == Member(value, key) # <<>> /\ Is(Member(value, key)[1], kind)
Get(value, key) == Member(value, key)[1][2]

Failed == 0
Fail == [p |-> Failed, value |-> Null]

Quote == 34
Backslash == 92
Comma == 44
Colon == 58
Minus == 45
Plus == 43
Dot == 46
Zero == 48
White == {32, 9, 13, 10}
IsDigit(byte) == byte \in 48 .. 57

RECURSIVE Whitespace(_, _)
Whitespace(text, p) == IF At(text, p) \in White THEN Whitespace(text, p + 1) ELSE p

\* take(): past the byte, or Failed
Take(text, p, byte) == LET q == Whitespace(text, p) IN IF At(text, q) = byte THEN q + 1 ELSE Failed

-----------------------------------------------------------------------------
(* Strings *)

HexDigit(byte) ==
  CASE byte \in 48 .. 57 -> byte - 48
    [] byte \in 97 .. 102 -> byte - 87
    [] byte \in 65 .. 70 -> byte - 55
    [] OTHER -> -1

Hex4(text, p) ==
  LET Of(digits) == IF -1 \in Range(digits) THEN -1
                    ELSE digits[1] * 4096 + digits[2] * 256 + digits[3] * 16 + digits[4]
  IN Of(Eager([i \in 1 .. 4 |-> HexDigit(At(text, p + i - 1))]))

HighSurrogate(c) == c \in 55296 .. 56319
LowSurrogate(c) == c \in 56320 .. 57343

NoEscape == [p |-> Failed, bytes |-> <<>>]

\* what \u at p stands for, and where it ends
UnicodeEscape(text, p) ==
  LET Of(first, second) ==
        CASE first = -1 \/ LowSurrogate(first) -> NoEscape
          [] HighSurrogate(first) ->
               IF SubSeq(text, p + 4, p + 5) = <<Backslash, 117>> /\ LowSurrogate(second)
               THEN [p |-> p + 10, bytes |-> Utf8(65536 + (first - 55296) * 1024 + second - 56320)]
               ELSE NoEscape
          [] OTHER -> [p |-> p + 4, bytes |-> Utf8(first)]
  IN Of(Hex4(text, p), Hex4(text, p + 6))

Escapes == << <<34, 34>>, <<92, 92>>, <<47, 47>>, <<98, 8>>, <<102, 12>>, <<110, 10>>, <<114, 13>>, <<116, 9>> >>
EscapedBy(letter) == SelectSeq(Escapes, LAMBDA e : e[1] = letter)

RECURSIVE PlainEnd(_, _)
\* past the bytes that stand for themselves in a string
PlainEnd(text, p) ==
  LET First(ends) == IF ends = {} THEN PlainEnd(text, p + 16) ELSE Min(ends)
  IN First({q \in p .. p + 15 : At(text, q) < 32 \/ At(text, q) \in {Quote, Backslash}})

RECURSIVE StringRest(_, _, _)
\* a string after `plain`, from end on
StringEnd(text, plain, end) ==
  LET Unicode(escape) ==
        IF escape.p = Failed THEN Fail ELSE StringRest(text, escape.p, plain \o escape.bytes)
      Short(escapes) ==
        IF escapes = <<>> THEN Fail ELSE StringRest(text, end + 2, Append(plain, escapes[1][2]))
  IN CASE At(text, end) = Quote -> IF ValidUtf8(plain) THEN [p |-> end + 1, value |-> Str(plain)] ELSE Fail
       [] SubSeq(text, end, end + 1) = <<Backslash, 117>> -> Unicode(UnicodeEscape(text, end + 2))
       [] At(text, end) = Backslash /\ At(text, end + 1) # 117 -> Short(EscapedBy(At(text, end + 1)))
       [] OTHER -> Fail

\* inside a string, from p on, after `read`
StringRest(text, p, read) ==
  LET UpTo(end) == StringEnd(text, read \o SubSeq(text, p, end - 1), end) IN UpTo(PlainEnd(text, p))

ParseString(text, p) ==
  IF Take(text, p, Quote) = Failed THEN Fail ELSE StringRest(text, Take(text, p, Quote), <<>>)

-----------------------------------------------------------------------------
(* Numbers *)

RECURSIVE DigitsEnd(_, _)
DigitsEnd(text, p) == IF IsDigit(At(text, p)) THEN DigitsEnd(text, p + 1) ELSE p

Decimal(digits) == FoldLeft(LAMBDA n, digit : n * 10 + (digit - Zero), 0, digits)

RECURSIVE Normal(_, _, _)
Normal(negative, mantissa, exponent) ==
  CASE mantissa = 0 -> [negative |-> negative, mantissa |-> 0, exponent |-> 0]
    [] mantissa # 0 /\ mantissa % 10 = 0 -> Normal(negative, mantissa \div 10, exponent + 1)
    [] OTHER -> [negative |-> negative, mantissa |-> mantissa, exponent |-> exponent]

\* the exponent that may be at e: its power, and where it ends
ExponentAt(text, e) ==
  LET sign == IF At(text, e + 1) \in {Plus, Minus} THEN e + 2 ELSE e + 1
      Of(end) ==
        IF end = sign THEN [p |-> Failed, power |-> 0]
        ELSE [p |-> end, power |-> Decimal(SubSeq(text, sign, end - 1)) * (IF At(text, e + 1) = Minus THEN -1 ELSE 1)]
  IN IF At(text, e) \in {101, 69} THEN Of(DigitsEnd(text, sign)) ELSE [p |-> e, power |-> 0]

\* the number at p, its digits from `whole' on, the point at `point' and the exponent at e
NumberOf(text, p, whole, point, e) ==
  LET fraction == SubSeq(text, point + 1, e - 1)
      Finite(number, end) ==
        IF number.exponent \in -MaxExponent .. MaxExponent THEN [p |-> end, value |-> Number(number)] ELSE Fail
      Of(exponent) ==
        IF ~IsDigit(At(text, whole)) \/ e = point + 1 \/ exponent.p = Failed THEN Fail
        ELSE Finite(Normal(At(text, p) = Minus, Decimal(SubSeq(text, whole, point - 1) \o fraction),
                           exponent.power - Len(fraction)), exponent.p)
  IN Of(ExponentAt(text, e))

ParseNumber(text, start) ==
  LET Pointed(p, whole, point) ==
        NumberOf(text, p, whole, point, IF At(text, point) = Dot THEN DigitsEnd(text, point + 1) ELSE point)
      Signed(p, whole) ==
        Pointed(p, whole, IF At(text, whole) = Zero THEN whole + 1 ELSE DigitsEnd(text, whole))
      Begun(p) == Signed(p, IF At(text, p) = Minus THEN p + 1 ELSE p)
  IN Begun(Whitespace(text, start))

RECURSIVE Digits(_)
Digits(n) == IF n < 10 THEN <<Zero + n>> ELSE Append(Digits(n \div 10), Zero + (n % 10))
Zeros(n) == [i \in 1 .. n |-> Zero]

\* std::to_chars: the shortest text that reads back, plain where both are as short
NumberText(n) ==
  LET Scientific(digits, power, size) ==
        (IF Len(digits) = 1 THEN digits ELSE <<digits[1], Dot>> \o Tail(digits))
        \o <<101, IF power < 0 THEN Minus ELSE Plus>>
        \o (IF size < 10 THEN <<Zero>> ELSE <<>>) \o Digits(size)
      Plain(digits, power) ==
        CASE n.exponent >= 0 -> digits \o Zeros(n.exponent)
          [] n.exponent < 0 /\ power >= 0 ->
               SubSeq(digits, 1, power + 1) \o <<Dot>> \o From(digits, power + 2)
          [] OTHER -> <<Zero, Dot>> \o Zeros(-power - 1) \o digits
      Shorter(scientific, plain) == IF Len(scientific) < Len(plain) THEN scientific ELSE plain
      Of(digits, power) ==
        Shorter(Scientific(digits, power, IF power < 0 THEN -power ELSE power), Plain(digits, power))
      Written(digits) == Of(digits, n.exponent + Len(digits) - 1)
  IN (IF n.negative THEN <<Minus>> ELSE <<>>) \o Written(Digits(n.mantissa))

-----------------------------------------------------------------------------
(* Values *)

Literal(text, p, word, value) ==
  IF SubSeq(text, p, p + Len(word) - 1) = word THEN [p |-> p + Len(word), value |-> value] ELSE Fail

RECURSIVE ValueAt(_, _, _), ParseValue(_, _, _), ParseItems(_, _, _, _), ParseMembers(_, _, _, _)

\* the value at p, which is no space
ValueAt(text, p, depth) ==
  LET byte == At(text, p)
  IN CASE byte = 110 -> Literal(text, p, <<110, 117, 108, 108>>, Null)
       [] byte = 116 -> Literal(text, p, <<116, 114, 117, 101>>, Bool(TRUE))
       [] byte = 102 -> Literal(text, p, <<102, 97, 108, 115, 101>>, Bool(FALSE))
       [] byte = Quote -> ParseString(text, p)
       [] byte = 91 -> IF Take(text, p + 1, 93) # Failed
                       THEN [p |-> Take(text, p + 1, 93), value |-> Arr(<<>>)]
                       ELSE ParseItems(text, p + 1, depth, <<>>)
       [] byte = 123 -> IF Take(text, p + 1, 125) # Failed
                        THEN [p |-> Take(text, p + 1, 125), value |-> Obj(<<>>)]
                        ELSE ParseMembers(text, p + 1, depth, <<>>)
       [] OTHER -> ParseNumber(text, p)

ParseValue(text, start, depth) ==
  IF depth > MaxNesting THEN Fail ELSE ValueAt(text, Whitespace(text, start), depth)

ParseItems(text, p, depth, items) ==
  LET With(item, comma, close) ==
        CASE item.p # Failed /\ comma # Failed -> ParseItems(text, comma, depth, Append(items, item.value))
          [] item.p # Failed /\ close # Failed -> [p |-> close, value |-> Arr(Append(items, item.value))]
          [] OTHER -> Fail
      Of(item) == With(item, Take(text, item.p, Comma), Take(text, item.p, 93))
  IN Of(ParseValue(text, p, depth + 1))

ParseMembers(text, p, depth, members) ==
  LET With(key, value, comma, close) ==
        LET read == Append(members, <<key.value[2], value.value>>)
        IN CASE value.p # Failed /\ comma # Failed -> ParseMembers(text, comma, depth, read)
             [] value.p # Failed /\ close # Failed -> [p |-> close, value |-> Obj(read)]
             [] OTHER -> Fail
      Valued(key, value) == With(key, value, Take(text, value.p, Comma), Take(text, value.p, 125))
      Keyed(key, colon) ==
        IF key.p = Failed \/ colon = Failed \/ \E i \in DOMAIN members : members[i][1] = key.value[2] THEN Fail
        ELSE Valued(key, ParseValue(text, colon, depth + 1))
      Of(key) == Keyed(key, Take(text, key.p, Colon))
  IN Of(ParseString(text, p))

\* parse_json: a sequence of at most one value
ParseJson(text) ==
  LET Whole(parsed) == IF parsed.p # Failed /\ Whitespace(text, parsed.p) = Len(text) + 1
                       THEN <<parsed.value>> ELSE <<>>
  IN Whole(ParseValue(text, 1, 0))

\* Mutant: a backslash is written as it is.
EscapedPlain(byte) == IF byte = Quote THEN <<Backslash, Quote>> ELSE <<byte>>

Escaped(byte) ==
  LET escape == SelectSeq(Escapes, LAMBDA e : e[2] = byte /\ byte # 47)
      Hex(n) == IF n < 10 THEN Zero + n ELSE 87 + n
  IN CASE escape # <<>> -> <<Backslash, escape[1][1]>>
       [] escape = <<>> /\ byte \in 0 .. 31 ->
            <<Backslash, 117, Zero, Zero, Hex(byte \div 16), Hex(byte % 16)>>
       [] OTHER -> <<byte>>

JsonString(text) ==
  LET Quoted(clean) == <<Quote>> \o Flat([i \in DOMAIN clean |-> Escaped(clean[i])]) \o <<Quote>>
  IN Quoted(Sanitized(text, 1))

Separated(texts) ==
  Flat([i \in DOMAIN texts |-> IF i = 1 THEN texts[i] ELSE <<Comma>> \o texts[i]])

RECURSIVE Dump(_)
\* json_dump
Dump(value) ==
  CASE Is(value, "null") -> <<110, 117, 108, 108>>
    [] Is(value, "boolean") -> IF value[2] THEN <<116, 114, 117, 101>> ELSE <<102, 97, 108, 115, 101>>
    [] Is(value, "number") -> NumberText(value[2])
    [] Is(value, "string") -> JsonString(value[2])
    [] Is(value, "array") ->
         <<91>> \o Separated(Eager([i \in DOMAIN value[2] |-> Dump(value[2][i])])) \o <<93>>
    [] OTHER ->
         <<123>> \o Separated(Eager([i \in DOMAIN value[2] |->
                     JsonString(value[2][i][1]) \o <<Colon>> \o Dump(value[2][i][2])])) \o <<125>>
=============================================================================
