----------------------------- MODULE Conversions -----------------------------
(***************************************************************************)
(* What core converts: the spelling of names, uuids and bytes, base64, and  *)
(* the strings made at random. Text is a sequence of characters, since what *)
(* becomes of each is the point; a letter is a pair of its case and its     *)
(* place in the alphabet.                                                   *)
(***************************************************************************)
EXTENDS Integers, Sequences, SequencesExt

Lower(k) == <<"lower", k>>
Upper(k) == <<"upper", k>>
Digit(k) == <<"digit", k>>
Mark(k) == <<"mark", k>>      \* the delimiters - and _, and other characters

IsTitle(c) == c[1] = "upper"
ToLower(c) == IF IsTitle(c) THEN Lower(c[2]) ELSE c
ToUpper(c) == IF c[1] = "lower" THEN Upper(c[2]) ELSE c

-------------------------------------------------------------------------------
\* StringUtility.

\* The result of reduce after i characters; without an initial value the first of them is
\* taken as it is.
Reduce(text, Cb(_, _), initial) ==
  LET startIndex == IF initial = <<>> THEN 1 ELSE 0
      result[i \in startIndex..Len(text)] ==
        IF i > startIndex THEN Cb(result[i - 1], text[i])
        ELSE IF startIndex = 0 THEN initial ELSE <<text[1]>>
  IN IF text = <<>> THEN initial ELSE result[Len(text)]

\* Mutant: the first character of a super name is kept twice.
CamelToDelimitedTwice(text, isSuper, mark) ==
  LET Cb(prev, c) == prev \o (IF IsTitle(c) THEN <<mark, ToLower(c)>> ELSE <<c>>)
  IN IF text = <<>> THEN <<>>
     ELSE IF isSuper THEN Reduce(text, Cb, <<ToLower(Head(text))>>)
     ELSE Reduce(text, Cb, <<>>)

CamelToSnakeKebabCase(text, isSuper, mark) ==
  LET Cb(prev, c) == prev \o (IF IsTitle(c) THEN <<mark, ToLower(c)>> ELSE <<c>>)
  IN IF text = <<>> THEN <<>>
     ELSE IF isSuper THEN Reduce(Tail(text), Cb, <<ToLower(Head(text))>>)
     ELSE Reduce(text, Cb, <<>>)

SnakeKebabToCamelCase(text, isSuper, mark) ==
  LET Cb(prev, c) == IF Last(prev) = mark THEN Append(Front(prev), ToUpper(c))
                     ELSE Append(prev, c)
  IN IF text = <<>> THEN <<>>
     ELSE IF isSuper THEN Reduce(Tail(text), Cb, <<ToUpper(Head(text))>>)
     ELSE Reduce(text, Cb, <<>>)

Dash == Mark(1)
Underscore == Mark(2)

CamelCaseToKebab(text) == CamelToSnakeKebabCase(text, FALSE, Dash)
CamelCaseToSuperKebab(text) == CamelToSnakeKebabCase(text, TRUE, Dash)
CamelCaseToSnake(text) == CamelToSnakeKebabCase(text, FALSE, Underscore)
CamelCaseToSuperSnake(text) == CamelToSnakeKebabCase(text, TRUE, Underscore)
KebabToCamelCase(text) == SnakeKebabToCamelCase(text, FALSE, Dash)
KebabToSuperCamelCase(text) == SnakeKebabToCamelCase(text, TRUE, Dash)
SnakeToCamelCase(text) == SnakeKebabToCamelCase(text, FALSE, Underscore)
SnakeToSuperCamelCase(text) == SnakeKebabToCamelCase(text, TRUE, Underscore)

MakeFirstLetterUppercase(text) ==
  IF text = <<>> THEN text ELSE <<ToUpper(Head(text))>> \o Tail(text)

\* The loops stop at the first character that is not one of chars.
TrimStart(text, chars) ==
  LET start == SelectInSeq(text, LAMBDA c : c \notin chars)
  IN IF start = 0 THEN <<>> ELSE SubSeq(text, start, Len(text))

TrimEnd(text, chars) ==
  LET end == SelectLastInSeq(text, LAMBDA c : c \notin chars)
  IN SubSeq(text, 1, end)

Trim(text, chars) == TrimStart(TrimEnd(text, chars), chars)

\* What random may put in place of a character of its format, by the numbers it draws.
DrawnFor(c) ==
  LET letters(case) == {<<case, k>> : k \in 0..25}
      digits(n) == {Digit(k) : k \in 0..(n - 1)}
  IN CASE c = "h" -> digits(10) \union {Lower(k - 10) : k \in 10..15}
       [] c = "d" -> digits(10)
       [] c = "z" -> letters("lower")
       [] c = "a" -> letters("lower") \union digits(10)
       [] c = "A" -> letters("lower") \union letters("upper") \union digits(10)
       [] c = "Z" -> letters("lower") \union letters("upper")
       [] c = "0" -> digits(1)
       [] c = "3" -> digits(3 + 1)
       [] c = "9" -> digits(9 + 1)

-------------------------------------------------------------------------------
\* UUIDUtility: a uuid is its digits, 0 to 15, in groups of these lengths.

Groups == <<8, 4, 4, 4, 12>>
HexDigits == 0..15

IsValidUuid(uuid) ==
  /\ Len(uuid) = Len(Groups)
  /\ \A g \in DOMAIN Groups : uuid[g] \in [1..Groups[g] -> HexDigits]

\* Of what is valid only.
ToBytes(uuid) ==
  LET sanitized == uuid[1] \o uuid[2] \o uuid[3] \o uuid[4] \o uuid[5]
  IN [i \in 1..16 |-> 16 * sanitized[2 * i - 1] + sanitized[2 * i]]

FromBytes(bytes) ==
  LET hex == [i \in 1..32 |->
                LET byte == bytes[(i + 1) \div 2]
                IN IF i % 2 = 1 THEN byte \div 16 ELSE byte % 16]
  IN <<SubSeq(hex, 1, 8), SubSeq(hex, 9, 12), SubSeq(hex, 13, 16), SubSeq(hex, 17, 20),
       SubSeq(hex, 21, 32)>>

-------------------------------------------------------------------------------
\* UrlUtils: a payload to digits of base 64 and back. JSON and UTF-8 are the platform's.

CONSTANTS
  Texts,        \* the strings that UTF-8 keeps
  Documents,    \* the other values that JSON keeps: null, numbers, objects, arrays
  Utf8,         \* TextEncoder: the bytes of a text
  Stringify,    \* JSON.stringify: the text of a document
  Parse         \* JSON.parse: what a text reads as, of the texts on which it does not throw

\* No two texts have the same bytes, and a document is read of its own text.
ASSUME PlatformAssumption ==
  /\ Texts \intersect Documents = {}
  /\ Utf8 \in [Texts -> Seq(0..255)] /\ IsInjective(Utf8)
  /\ Stringify \in [Documents -> DOMAIN Parse]
  /\ DOMAIN Parse \subseteq Texts
  /\ \A v \in Documents : Parse[Stringify[v]] = v

TextDecode(bytes) == CHOOSE text \in Texts : Utf8[text] = bytes

\* btoa and atob: three bytes are four digits; the padding of the last ones, which is cut
\* off here as there, is not missed by atob.

Byte(bytes, i) == IF i <= Len(bytes) THEN bytes[i] ELSE 0

\* What a digit of base 64, or a byte, counts in the number that three bytes are.
Places64 == <<262144, 4096, 64, 1>>
Places256 == <<65536, 256, 1>>

Btoa(bytes) ==
  LET digits == (8 * Len(bytes) + 5) \div 6
      Word(j) == 65536 * Byte(bytes, 3 * j + 1) + 256 * Byte(bytes, 3 * j + 2)
                 + Byte(bytes, 3 * j + 3)
  IN [d \in 1..digits |-> (Word((d - 1) \div 4) \div Places64[((d - 1) % 4) + 1]) % 64]

Atob(hashed) ==
  LET Word(j) == 262144 * Byte(hashed, 4 * j + 1) + 4096 * Byte(hashed, 4 * j + 2)
                 + 64 * Byte(hashed, 4 * j + 3) + Byte(hashed, 4 * j + 4)
  IN [b \in 1..((6 * Len(hashed)) \div 8) |->
        (Word((b - 1) \div 3) \div Places256[((b - 1) % 3) + 1]) % 256]

EncodeToBase64Url(payload) ==
  LET asJson == IF payload \in Texts THEN payload ELSE Stringify[payload]
  IN Btoa(Utf8[asJson])

DecodeFromBase64Url(hashed) ==
  LET asString == TextDecode(Atob(hashed))
  IN IF asString \in DOMAIN Parse THEN Parse[asString] ELSE asString
===============================================================================
