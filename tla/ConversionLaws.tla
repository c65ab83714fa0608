---------------------------- MODULE ConversionLaws ----------------------------
(***************************************************************************)
(* What the conversions promise one another, of a name, of bytes, of a      *)
(* payload and of a character of a random format.                           *)
(***************************************************************************)
EXTENDS Conversions

VARIABLE sample      \* a name, bytes, a payload or a character, by sample.of, or none of these

Names == Seq({"lower", "upper", "digit"} \X Nat)

SeparateWords(text, mark) ==
  \A i \in DOMAIN text : text[i] = mark =>
    /\ i \notin {1, Len(text)}
    /\ i < Len(text) => text[i + 1][1] = "lower"

\* A camelCase name survives its spelling in kebab- or snake_case, of every form and
\* direction.
NamesInvert(name) ==
  LET capital == MakeFirstLetterUppercase(name)
      small == IF name = <<>> THEN name ELSE <<ToLower(Head(name))>> \o Tail(name)
  IN /\ KebabToCamelCase(CamelCaseToKebab(name)) = name
     /\ SnakeToCamelCase(CamelCaseToSnake(name)) = name
     /\ KebabToSuperCamelCase(CamelCaseToSuperKebab(capital)) = capital
     /\ SnakeToSuperCamelCase(CamelCaseToSuperSnake(capital)) = capital
     /\ CamelCaseToSuperKebab(name) = CamelCaseToKebab(small)
     /\ SeparateWords(CamelCaseToKebab(name), Dash)
     /\ SeparateWords(CamelCaseToSuperSnake(name), Underscore)

\* Trimming takes all it should, and no more.
TrimsExactly(text, chars) ==
  LET trimmed == Trim(text, chars)
  IN /\ trimmed = TrimEnd(TrimStart(text, chars), chars)
     /\ trimmed = Trim(trimmed, chars)
     /\ trimmed # <<>> => Head(trimmed) \notin chars /\ Last(trimmed) \notin chars
     /\ \E i \in 0..Len(text) : \E j \in i..Len(text) :
          /\ trimmed = SubSeq(text, i + 1, j)
          /\ Range(SubSeq(text, 1, i)) \union Range(SubSeq(text, j + 1, Len(text)))
               \subseteq chars

\* Bytes survive base 64, and sixteen of them a uuid; sixteen with these in them here.
BytesInvert(bytes) ==
  /\ Atob(Btoa(bytes)) = bytes
  /\ \A shift \in {0, 3, 12} :
       LET sixteen == [i \in 1..16 |-> IF i > shift THEN Byte(bytes, i - shift) ELSE 255]
       IN IsValidUuid(FromBytes(sixteen)) /\ ToBytes(FromBytes(sixteen)) = sixteen

\* A payload that is not a string is decoded to itself. A string is, unless it reads as
\* JSON: then it comes back as what it reads as, the string 555 as a number.
PayloadInverts(payload) ==
  LET hashed == EncodeToBase64Url(payload)
      read == DecodeFromBase64Url(hashed)
  IN /\ \A d \in DOMAIN hashed : hashed[d] \in 0..63
     /\ payload \notin DOMAIN Parse => read = payload
     /\ payload \in DOMAIN Parse => read = Parse[payload]

\* The characters the comment of random promises (string-utility.ts:43-51).
Formats == {"h", "d", "z", "a", "A", "Z", "0", "3", "9"}

Promised(format) ==
  {Digit(k) : k \in IF format = "0" THEN 0..0
                    ELSE IF format = "3" THEN 0..3
                    ELSE IF format \in {"h", "d", "a", "A", "9"} THEN 0..9
                    ELSE {}}
  \union {Lower(k) : k \in IF format = "h" THEN 0..5
                           ELSE IF format \in {"z", "a", "A", "Z"} THEN 0..25
                           ELSE {}}
  \union {Upper(k) : k \in IF format \in {"A", "Z"} THEN 0..25 ELSE {}}

\* A camelCase name survives its spelling in kebab- or snake_case, of every form and
\* direction; sixteen bytes survive a uuid, and a payload its hash for a url unless it is a
\* string that reads as JSON; trimming takes all it should and no more; random draws what
\* its format promises, all of it (string-utility.ts:43-249, uuid-utility.ts:41-60,
\* url-utils.ts:6-23).
ConversionsInvert ==
  /\ sample.of = "names" =>
       /\ NamesInvert(sample.name)
       /\ \A chars \in {{}, {Lower(1)}, {Upper(1), Digit(3)}} : TrimsExactly(sample.name, chars)
  /\ sample.of = "bytes" => BytesInvert(sample.bytes)
  /\ sample.of = "payloads" => PayloadInverts(sample.payload)
  /\ sample.of = "random" => DrawnFor(sample.char) = Promised(sample.char)
===============================================================================
