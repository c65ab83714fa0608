------------------------------- MODULE DataProofs -------------------------------
(***************************************************************************)
(* Facts about data. Of Conversions: names, bytes and payloads come back    *)
(* from what they are converted to, for any of them. Of ValidationRules:    *)
(* what a validator accepts, whatever its rules and however deep it nests.  *)
(***************************************************************************)
EXTENDS ConversionLaws, SequenceTheorems, WellFoundedInduction, TLAPS

Checked == INSTANCE ValidationRules

-------------------------------------------------------------------------------
\* Sets of naturals.

\* Every nonempty set of naturals has a least element.
LEMMA LeastOf ==
  ASSUME NEW T, T \subseteq Nat, T # {}
  PROVE  \E x \in T : \A y \in T : x <= y
<1>1. PICK x \in T : \A y \in T : ~(<<y, x>> \in OpToRel(<, Nat))
  BY NatLessThanWellFounded, WFMin
<1>2. \A y \in T : ~(y < x)
  BY <1>1 DEF OpToRel
<1> QED BY <1>2

\* Every nonempty set of naturals that has a bound has a greatest element.
LEMMA GreatestOf ==
  ASSUME NEW T, NEW n \in Nat, T \subseteq 0..n, T # {}
  PROVE  \E x \in T : \A y \in T : y <= x
<1> DEFINE U == {n - y : y \in T}
<1>1. U \subseteq Nat /\ U # {}
  <2>1. \A y \in T : n - y \in Nat
    OBVIOUS
  <2> QED BY <2>1
<1>2. PICK u \in U : \A w \in U : u <= w
  <2> HIDE DEF U
  <2> QED BY <1>1, LeastOf
<1>3. PICK x \in T : u = n - x
  OBVIOUS
<1>4. \A y \in T : n - x <= n - y
  BY <1>2, <1>3
<1> QED BY <1>4

\* Max is one of the elements, and the greatest.
LEMMA MaxOf ==
  ASSUME NEW T, NEW n \in Nat, T \subseteq 0..n, T # {}
  PROVE  Max(T) \in T /\ \A y \in T : y <= Max(T)
<1>1. \E x \in T : \A y \in T : x >= y
  BY GreatestOf
<1> QED BY <1>1 DEF Max

-------------------------------------------------------------------------------
\* Base 64.

Bytes == 0..255
Digits == 0..63

\* The number that three bytes are, and that four digits of base 64 are.
OfBytes(x, y, z) == 65536 * x + 256 * y + z
OfDigits(a, b, c, d) == 262144 * a + 4096 * b + 64 * c + d

\* Its digits and bytes.
DigitAt(w, k) == (w \div Places64[k]) % 64
ByteAt(w, k) == (w \div Places256[k]) % 256

\* A byte in the parts that its neighbours' digits take of it.
LEMMA ByteParts ==
  ASSUME NEW n \in 0..255
  PROVE  /\ \E a \in 0..63, b \in 0..3 : n = 4 * a + b
         /\ \E a \in 0..15, b \in 0..15 : n = 16 * a + b
         /\ \E a \in 0..3, b \in 0..63 : n = 64 * a + b
<1>1. n \div 4 \in 0..63 /\ n - 4 * (n \div 4) \in 0..3
  OBVIOUS
<1>2. n \div 16 \in 0..15 /\ n - 16 * (n \div 16) \in 0..15
  OBVIOUS
<1>3. n \div 64 \in 0..3 /\ n - 64 * (n \div 64) \in 0..63
  OBVIOUS
<1> QED BY <1>1, <1>2, <1>3

\* The digits of a number that was made of digits.
LEMMA DigitsBack ==
  ASSUME NEW a \in Digits, NEW b \in Digits, NEW c \in Digits, NEW d \in Digits
  PROVE  /\ DigitAt(OfDigits(a, b, c, d), 1) = a /\ DigitAt(OfDigits(a, b, c, d), 2) = b
         /\ DigitAt(OfDigits(a, b, c, d), 3) = c /\ DigitAt(OfDigits(a, b, c, d), 4) = d
<1> PICK w : w = OfDigits(a, b, c, d)
  OBVIOUS
<1>1. w \div 262144 = a /\ w \div 4096 = 64 * a + b /\ w \div 64 = 4096 * a + 64 * b + c
  BY DEF OfDigits, Digits
<1>2. w \div 1 = w /\ w % 64 = d
  BY DEF OfDigits, Digits
<1>3. a % 64 = a /\ (64 * a + b) % 64 = b /\ (4096 * a + 64 * b + c) % 64 = c
  BY DEF Digits
<1>4. /\ Places64[1] = 262144 /\ Places64[2] = 4096
      /\ Places64[3] = 64 /\ Places64[4] = 1
  BY DEF Places64
<1> QED BY <1>1, <1>2, <1>3, <1>4 DEF DigitAt

\* The bytes of a number that was made of bytes.
LEMMA BytesBack ==
  ASSUME NEW x \in Bytes, NEW y \in Bytes, NEW z \in Bytes
  PROVE  /\ ByteAt(OfBytes(x, y, z), 1) = x
         /\ ByteAt(OfBytes(x, y, z), 2) = y /\ ByteAt(OfBytes(x, y, z), 3) = z
<1> PICK w : w = OfBytes(x, y, z)
  OBVIOUS
<1>1. w \div 65536 = x /\ w \div 256 = 256 * x + y /\ w \div 1 = w
  BY DEF OfBytes, Bytes
<1>2. x % 256 = x /\ (256 * x + y) % 256 = y /\ w % 256 = z
  BY DEF OfBytes, Bytes
<1>3. /\ Places256[1] = 65536 /\ Places256[2] = 256
      /\ Places256[3] = 1
  BY DEF Places256
<1> QED BY <1>1, <1>2, <1>3 DEF ByteAt

\* Three bytes are four digits; bytes that are missing leave zeros at the end.
LEMMA DigitsOfBytes ==
  ASSUME NEW x \in Bytes, NEW y \in Bytes, NEW z \in Bytes, NEW w, w = OfBytes(x, y, z)
  PROVE  /\ /\ DigitAt(w, 1) \in Digits /\ DigitAt(w, 2) \in Digits
            /\ DigitAt(w, 3) \in Digits /\ DigitAt(w, 4) \in Digits
         /\ OfDigits(DigitAt(w, 1), DigitAt(w, 2), DigitAt(w, 3), DigitAt(w, 4)) = w
         /\ z = 0 => DigitAt(w, 4) = 0
         /\ y = 0 /\ z = 0 => DigitAt(w, 3) = 0
         /\ x = 0 /\ y = 0 /\ z = 0 => DigitAt(w, 2) = 0 /\ DigitAt(w, 1) = 0
<1>1. PICK x1 \in 0..63, x2 \in 0..3 : x = 4 * x1 + x2
  BY ByteParts DEF Bytes
<1>2. PICK y1 \in 0..15, y2 \in 0..15 : y = 16 * y1 + y2
  BY ByteParts DEF Bytes
<1>3. PICK z1 \in 0..3, z2 \in 0..63 : z = 64 * z1 + z2
  BY ByteParts DEF Bytes
<1>4. PICK b : b = 16 * x2 + y1
  OBVIOUS
<1>5. PICK c : c = 4 * y2 + z1
  OBVIOUS
<1>6. w = OfDigits(x1, b, c, z2)
  BY <1>1, <1>2, <1>3, <1>4, <1>5 DEF OfBytes, OfDigits
<1>7. x1 \in Digits /\ b \in Digits /\ c \in Digits /\ z2 \in Digits
  BY <1>4, <1>5 DEF Digits
<1>8. DigitAt(w, 1) = x1 /\ DigitAt(w, 2) = b /\ DigitAt(w, 3) = c /\ DigitAt(w, 4) = z2
  BY <1>6, <1>7, DigitsBack
<1>9. /\ z = 0 => z2 = 0
      /\ y = 0 /\ z = 0 => c = 0
      /\ x = 0 /\ y = 0 /\ z = 0 => b = 0 /\ x1 = 0
  BY <1>1, <1>2, <1>3, <1>4, <1>5
<1> QED BY <1>6, <1>7, <1>8, <1>9

\* Where a digit, or a byte, is: in which group of four, or of three, and at which place.
LEMMA Places ==
  ASSUME NEW j \in Nat
  PROVE  /\ \A k \in 1..4 : (4 * j + k - 1) \div 4 = j /\ ((4 * j + k - 1) % 4) + 1 = k
         /\ \A k \in 1..3 : (3 * j + k - 1) \div 3 = j /\ ((3 * j + k - 1) % 3) + 1 = k
<1>1. ASSUME NEW k \in 1..4
      PROVE  (4 * j + k - 1) \div 4 = j /\ ((4 * j + k - 1) % 4) + 1 = k
  OBVIOUS
<1>2. ASSUME NEW k \in 1..3
      PROVE  (3 * j + k - 1) \div 3 = j /\ ((3 * j + k - 1) % 3) + 1 = k
  OBVIOUS
<1> QED BY <1>1, <1>2

\* Every digit and every byte has a group and a place.
LEMMA Placed ==
  ASSUME NEW d \in Nat \ {0}
  PROVE  /\ \E j \in Nat, k \in 1..4 : d = 4 * j + k
         /\ \E j \in Nat, k \in 1..3 : d = 3 * j + k
<1>1. (d - 1) \div 4 \in Nat /\ d - 4 * ((d - 1) \div 4) \in 1..4
  OBVIOUS
<1>2. (d - 1) \div 3 \in Nat /\ d - 3 * ((d - 1) \div 3) \in 1..3
  OBVIOUS
<1> QED BY <1>1, <1>2

\* As many digits as the bits of n bytes need, and again n bytes for these.
HashLength(n) == (8 * n + 5) \div 6

\* The decoder finds the number of bytes from that of the digits.
LEMMA HashLengths ==
  ASSUME NEW n \in Nat
  PROVE  HashLength(n) \in Nat /\ (6 * HashLength(n)) \div 8 = n
BY DEF HashLength

\* A digit that is cut off stands for bytes that are not there.
LEMMA CutOff ==
  ASSUME NEW n \in Nat, NEW j \in Nat
  PROVE  /\ 4 * j + 2 > HashLength(n) => n <= 3 * j
         /\ 4 * j + 3 > HashLength(n) => n <= 3 * j + 1
         /\ 4 * j + 4 > HashLength(n) => n <= 3 * j + 2
BY DEF HashLength

\* Bytes of any number become digits of base 64 only, of which atob makes these bytes again,
\* although the padding is cut off.
LEMMA BytesDigitsBytes ==
  ASSUME NEW bytes \in Seq(Bytes)
  PROVE  /\ Btoa(bytes) \in Seq(Digits)
         /\ Atob(Btoa(bytes)) = bytes
<1> DEFINE n == Len(bytes)
           B(i) == Byte(bytes, i)
           W(j) == OfBytes(B(3 * j + 1), B(3 * j + 2), B(3 * j + 3))
           D == HashLength(n)
           hash == [d \in 1..D |-> DigitAt(W((d - 1) \div 4), ((d - 1) % 4) + 1)]
           H(i) == Byte(hash, i)
           V(j) == OfDigits(H(4 * j + 1), H(4 * j + 2), H(4 * j + 3), H(4 * j + 4))
<1>1. n \in Nat /\ D \in Nat /\ (6 * D) \div 8 = n
  <2>1. n \in Nat
    OBVIOUS
  <2> HIDE DEF n
  <2> QED BY <2>1, HashLengths
<1>2. ASSUME NEW i \in Nat \ {0}
      PROVE  B(i) \in Bytes /\ (i > n => B(i) = 0) /\ (i <= n => B(i) = bytes[i])
  <2>1. 0 \in Bytes
    BY DEF Bytes
  <2>2. i <= n => bytes[i] \in Bytes
    BY <1>1
  <2>3. i > n <=> ~(i <= n)
    BY <1>1
  <2> QED BY <2>1, <2>2, <2>3 DEF Byte
<1>3. Btoa(bytes) = hash
  BY DEF Btoa, HashLength, DigitAt, OfBytes
<1>4. ASSUME NEW j \in Nat
      PROVE  B(3 * j + 1) \in Bytes /\ B(3 * j + 2) \in Bytes /\ B(3 * j + 3) \in Bytes
  BY <1>2
<1> HIDE DEF B
<1>5. ASSUME NEW j \in Nat
      PROVE  /\ DigitAt(W(j), 1) \in Digits /\ DigitAt(W(j), 2) \in Digits
             /\ DigitAt(W(j), 3) \in Digits /\ DigitAt(W(j), 4) \in Digits
             /\ OfDigits(DigitAt(W(j), 1), DigitAt(W(j), 2), DigitAt(W(j), 3), DigitAt(W(j), 4))
                  = W(j)
             /\ 4 * j + 4 > D => DigitAt(W(j), 4) = 0
             /\ 4 * j + 3 > D => DigitAt(W(j), 3) = 0
             /\ 4 * j + 2 > D => DigitAt(W(j), 2) = 0 /\ DigitAt(W(j), 1) = 0
  <2>1. /\ 4 * j + 2 > D => n <= 3 * j
        /\ 4 * j + 3 > D => n <= 3 * j + 1
        /\ 4 * j + 4 > D => n <= 3 * j + 2
    BY <1>1, CutOff
  <2>2. /\ n <= 3 * j => B(3 * j + 1) = 0
        /\ n <= 3 * j + 1 => B(3 * j + 2) = 0
        /\ n <= 3 * j + 2 => B(3 * j + 3) = 0
    BY <1>1, <1>2
  <2>3. (n <= 3 * j => n <= 3 * j + 1) /\ (n <= 3 * j + 1 => n <= 3 * j + 2)
    BY <1>1
  <2> HIDE DEF n, D
  <2> QED BY <1>4, <2>1, <2>2, <2>3, DigitsOfBytes
<1>6. ASSUME NEW d \in 1..D
      PROVE  hash[d] \in Digits
  <2>1. PICK j \in Nat, k \in 1..4 : d = 4 * j + k
    <3>1. d \in Nat \ {0}
      BY <1>1
    <3> QED BY <3>1, Placed
  <2>2. hash[d] = DigitAt(W(j), k)
    BY <2>1, Places
  <2>3. k = 1 \/ k = 2 \/ k = 3 \/ k = 4
    OBVIOUS
  <2> HIDE DEF W, hash
  <2> QED BY <1>5, <2>2, <2>3
<1>7. hash \in Seq(Digits) /\ Len(hash) = D
  <2> HIDE DEF W, D
  <2> QED BY <1>1, <1>6
<1>8. ASSUME NEW j \in Nat
      PROVE  V(j) = W(j)
  <2>1. ASSUME NEW k \in 1..4
        PROVE  H(4 * j + k) = IF 4 * j + k <= D THEN DigitAt(W(j), k) ELSE 0
    <3>1. (4 * j + k - 1) \div 4 = j /\ ((4 * j + k - 1) % 4) + 1 = k
      BY Places
    <3>2. 4 * j + k \in Nat /\ 4 * j + k >= 1
      OBVIOUS
    <3> HIDE DEF W, D
    <3> QED BY <1>1, <1>7, <3>1, <3>2 DEF Byte
  <2>2. /\ 4 * j + 1 > D => 4 * j + 2 > D
    BY <1>1
  <2>3. /\ H(4 * j + 1) = DigitAt(W(j), 1) /\ H(4 * j + 2) = DigitAt(W(j), 2)
        /\ H(4 * j + 3) = DigitAt(W(j), 3) /\ H(4 * j + 4) = DigitAt(W(j), 4)
    <3> HIDE DEF W, H
    <3> QED BY <1>1, <1>5, <2>1, <2>2
  <2> HIDE DEF W, H
  <2> QED BY <1>5, <2>3
<1>9. Atob(hash) =
        [b \in 1..((6 * Len(hash)) \div 8) |-> ByteAt(V((b - 1) \div 3), ((b - 1) % 3) + 1)]
  <2> HIDE DEF hash
  <2> QED BY DEF Atob, ByteAt, OfDigits
<1>10. ASSUME NEW b \in 1..n
       PROVE  ByteAt(V((b - 1) \div 3), ((b - 1) % 3) + 1) = bytes[b]
  <2>1. PICK j \in Nat, k \in 1..3 : b = 3 * j + k
    <3>1. b \in Nat \ {0}
      BY <1>1
    <3> QED BY <3>1, Placed
  <2>2. (b - 1) \div 3 = j /\ ((b - 1) % 3) + 1 = k
    BY <2>1, Places
  <2>3. ByteAt(W(j), k) = B(3 * j + k)
    <3>1. k = 1 \/ k = 2 \/ k = 3
      OBVIOUS
    <3> QED BY <1>4, <3>1, BytesBack
  <2>4. B(b) = bytes[b]
    BY <1>1, <1>2
  <2> HIDE DEF V, W
  <2> QED BY <1>8, <2>1, <2>2, <2>3, <2>4
<1>11. Atob(hash) = bytes
  <2> HIDE DEF V, hash, D
  <2>1. Atob(hash) =
          [b \in 1..n |-> ByteAt(V((b - 1) \div 3), ((b - 1) % 3) + 1)]
    BY <1>1, <1>7, <1>9
  <2>2. bytes = [b \in 1..n |-> bytes[b]]
    OBVIOUS
  <2> QED BY <1>10, <2>1, <2>2
<1> QED BY <1>3, <1>7, <1>11

\* Whatever payload is encoded, its hash has digits of base 64 only, and is decoded to the
\* payload, unless this is a string that reads as JSON: such a one is decoded to what it
\* reads as. In particular no document comes back as another (url-utils.ts:6-23).
THEOREM Base64Inverts ==
  ASSUME NEW payload \in Texts \union Documents
  PROVE  PayloadInverts(payload)
<1> DEFINE text == IF payload \in Texts THEN payload ELSE Stringify[payload]
           bytes == Utf8[text]
           hashed == Btoa(bytes)
<1>1. text \in Texts /\ bytes \in Seq(Bytes)
  BY PlatformAssumption DEF Bytes
<1>2. hashed \in Seq(Digits) /\ Atob(hashed) = bytes
  <2> HIDE DEF bytes
  <2> QED BY <1>1, BytesDigitsBytes
<1>3. TextDecode(bytes) = text
  <2>1. \A other \in Texts : Utf8[other] = bytes => other = text
    BY <1>1, PlatformAssumption DEF IsInjective
  <2> HIDE DEF text
  <2> QED BY <1>1, <2>1 DEF TextDecode
<1>4. EncodeToBase64Url(payload) = hashed
  BY DEF EncodeToBase64Url
<1> HIDE DEF hashed, bytes, text
<1>5. DecodeFromBase64Url(hashed) = IF text \in DOMAIN Parse THEN Parse[text] ELSE text
  BY <1>2, <1>3 DEF DecodeFromBase64Url
<1>6. payload \in Texts => text = payload
  BY DEF text
<1>7. payload \in Documents => /\ text \in DOMAIN Parse /\ Parse[text] = payload
                               /\ payload \notin DOMAIN Parse
  BY PlatformAssumption DEF text
<1>8. \A d \in DOMAIN hashed : hashed[d] \in 0..63
  <2>1. PICK n \in Nat : n = Len(hashed) /\ DOMAIN hashed = 1..n
    BY <1>2
  <2>2. \A d \in 1..n : hashed[d] \in Digits
    BY <1>2, <2>1
  <2> QED BY <2>1, <2>2 DEF Digits
<1> QED BY <1>4, <1>5, <1>6, <1>7, <1>8 DEF PayloadInverts

-------------------------------------------------------------------------------
\* Uuids.

Hex == HexDigits

\* Texts of n digits.
Text(n) == [1..n -> Hex]

\* A byte is two digits of base 16.
LEMMA TwoDigits ==
  /\ \A n \in Bytes : n \div 16 \in Hex /\ n % 16 \in Hex /\ 16 * (n \div 16) + (n % 16) = n
  /\ \A a \in Hex, b \in Hex :
       16 * a + b \in Bytes /\ (16 * a + b) \div 16 = a /\ (16 * a + b) % 16 = b
<1>1. ASSUME NEW a \in 0..15, NEW b \in 0..15
      PROVE  16 * a + b \in 0..255 /\ (16 * a + b) \div 16 = a /\ (16 * a + b) % 16 = b
  OBVIOUS
<1>2. ASSUME NEW n \in 0..255
      PROVE  n \div 16 \in 0..15 /\ n % 16 \in 0..15 /\ 16 * (n \div 16) + (n % 16) = n
  <2>1. n \div 16 \in 0..15 /\ n - 16 * (n \div 16) \in 0..15
    OBVIOUS
  <2>2. PICK a \in 0..15, b \in 0..15 : n = 16 * a + b
    BY <2>1
  <2>3. n \div 16 = a /\ n % 16 = b
    BY <1>1, <2>2
  <2> QED BY <2>2, <2>3
<1> QED BY <1>1, <1>2 DEF Bytes, HexDigits, Hex

\* Where the two digits of a byte are among the 32.
LEMMA PairPlaces ==
  /\ \A i \in 1..16 : /\ 2 * i - 1 \in 1..32 /\ 2 * i \in 1..32
                      /\ (2 * i - 1 + 1) \div 2 = i /\ (2 * i + 1) \div 2 = i
                      /\ (2 * i - 1) % 2 = 1 /\ (2 * i) % 2 = 0
  /\ \A k \in 1..32 : \E i \in 1..16 : k = 2 * i - 1 \/ k = 2 * i
<1>1. ASSUME NEW i \in 1..16
      PROVE  /\ 2 * i - 1 \in 1..32 /\ 2 * i \in 1..32
             /\ (2 * i - 1 + 1) \div 2 = i /\ (2 * i + 1) \div 2 = i
             /\ (2 * i - 1) % 2 = 1 /\ (2 * i) % 2 = 0
  OBVIOUS
<1>2. ASSUME NEW k \in 1..32
      PROVE  \E i \in 1..16 : k = 2 * i - 1 \/ k = 2 * i
  <2>1. (k + 1) \div 2 \in 1..16 /\ (k = 2 * ((k + 1) \div 2) - 1 \/ k = 2 * ((k + 1) \div 2))
    OBVIOUS
  <2> QED BY <2>1
<1> QED BY <1>1, <1>2

\* The digits of sixteen bytes.
HexOf(bytes) ==
  [i \in 1..32 |-> LET byte == bytes[(i + 1) \div 2]
                   IN IF i % 2 = 1 THEN byte \div 16 ELSE byte % 16]

\* The five groups that digits are written in, and the digits of five groups.
Cut(h) == <<SubSeq(h, 1, 8), SubSeq(h, 9, 12), SubSeq(h, 13, 16), SubSeq(h, 17, 20),
            SubSeq(h, 21, 32)>>
Joined(u) == u[1] \o u[2] \o u[3] \o u[4] \o u[5]

\* The bytes that digits stand for.
BytesOf(h) == [i \in 1..16 |-> 16 * h[2 * i - 1] + h[2 * i]]

\* The two conversions go through the digits of all groups.
LEMMA AsDefined ==
  ASSUME NEW x
  PROVE  /\ FromBytes(x) = Cut(HexOf(x))
         /\ ToBytes(x) = BytesOf(Joined(x))
BY DEF FromBytes, ToBytes, Cut, HexOf, Joined, BytesOf

\* The digits of bytes give these bytes.
LEMMA HexOfBytes ==
  ASSUME NEW bytes \in [1..16 -> Bytes]
  PROVE  HexOf(bytes) \in Text(32) /\ BytesOf(HexOf(bytes)) = bytes
<1>1. ASSUME NEW i \in 1..16
      PROVE  /\ HexOf(bytes)[2 * i - 1] = bytes[i] \div 16 /\ HexOf(bytes)[2 * i] = bytes[i] % 16
             /\ bytes[i] \in Bytes
  <2>1. /\ 2 * i - 1 \in 1..32 /\ 2 * i \in 1..32
        /\ (2 * i - 1 + 1) \div 2 = i /\ (2 * i + 1) \div 2 = i
        /\ (2 * i - 1) % 2 = 1 /\ (2 * i) % 2 = 0
    BY PairPlaces
  <2> DEFINE j == 2 * i - 1
             k == 2 * i
  <2>2. (j + 1) \div 2 = i /\ (k + 1) \div 2 = i /\ j % 2 = 1 /\ k % 2 = 0
        /\ j \in 1..32 /\ k \in 1..32
    BY <2>1
  <2> HIDE DEF j, k
  <2>3. HexOf(bytes)[j] = bytes[i] \div 16
    BY <2>2 DEF HexOf
  <2>4. HexOf(bytes)[k] = bytes[i] % 16
    <3>1. ~(k % 2 = 1)
      BY <2>2
    <3> QED BY <2>2, <3>1 DEF HexOf
  <2> QED BY <2>3, <2>4 DEF j, k
<1>2. HexOf(bytes) \in Text(32)
  <2>1. ASSUME NEW k \in 1..32
        PROVE  HexOf(bytes)[k] \in Hex
    <3>1. PICK i \in 1..16 : k = 2 * i - 1 \/ k = 2 * i
      BY PairPlaces
    <3>2. bytes[i] \div 16 \in Hex /\ bytes[i] % 16 \in Hex
      BY <1>1, TwoDigits
    <3> QED BY <1>1, <3>1, <3>2
  <2>2. HexOf(bytes) = [k \in 1..32 |-> HexOf(bytes)[k]]
    BY DEF HexOf
  <2> QED BY <2>1, <2>2 DEF Text
<1>3. BytesOf(HexOf(bytes)) = [i \in 1..16 |-> bytes[i]]
  <2>1. ASSUME NEW i \in 1..16
        PROVE  16 * HexOf(bytes)[2 * i - 1] + HexOf(bytes)[2 * i] = bytes[i]
    <3>1. HexOf(bytes)[2 * i - 1] = bytes[i] \div 16 /\ HexOf(bytes)[2 * i] = bytes[i] % 16
      BY <1>1
    <3>2. 16 * (bytes[i] \div 16) + (bytes[i] % 16) = bytes[i]
      BY <1>1, TwoDigits
    <3> QED BY <3>1, <3>2
  <2> QED BY <2>1 DEF BytesOf
<1> QED BY <1>2, <1>3

\* The bytes of digits have these digits.
LEMMA BytesOfHex ==
  ASSUME NEW h \in Text(32)
  PROVE  BytesOf(h) \in [1..16 -> Bytes] /\ HexOf(BytesOf(h)) = h
<1>1. ASSUME NEW i \in 1..16
      PROVE  /\ h[2 * i - 1] \in Hex /\ h[2 * i] \in Hex
             /\ BytesOf(h)[i] = 16 * h[2 * i - 1] + h[2 * i]
             /\ BytesOf(h)[i] \in Bytes
             /\ BytesOf(h)[i] \div 16 = h[2 * i - 1] /\ BytesOf(h)[i] % 16 = h[2 * i]
  <2>1. 2 * i - 1 \in 1..32 /\ 2 * i \in 1..32
    BY PairPlaces
  <2>2. h[2 * i - 1] \in Hex /\ h[2 * i] \in Hex
    BY <2>1 DEF Text
  <2>3. BytesOf(h)[i] = 16 * h[2 * i - 1] + h[2 * i]
    BY DEF BytesOf
  <2> QED BY <2>2, <2>3, TwoDigits
<1>2. BytesOf(h) \in [1..16 -> Bytes]
  <2>1. BytesOf(h) = [i \in 1..16 |-> BytesOf(h)[i]]
    BY DEF BytesOf
  <2> QED BY <1>1, <2>1
<1>3. ASSUME NEW k \in 1..32
      PROVE  HexOf(BytesOf(h))[k] = h[k]
  <2>1. HexOf(BytesOf(h))[k] =
          LET byte == BytesOf(h)[(k + 1) \div 2]
          IN IF k % 2 = 1 THEN byte \div 16 ELSE byte % 16
    BY DEF HexOf
  <2>2. PICK i \in 1..16 : k = 2 * i - 1 \/ k = 2 * i
    BY PairPlaces
  <2>3. CASE k = 2 * i - 1
    <3>1. (k + 1) \div 2 = i /\ k % 2 = 1
      BY <2>3, PairPlaces
    <3> QED BY <1>1, <2>1, <2>3, <3>1
  <2>4. CASE k = 2 * i
    <3>1. (k + 1) \div 2 = i /\ k % 2 = 0
      BY <2>4, PairPlaces
    <3> QED BY <1>1, <2>1, <2>4, <3>1
  <2> QED BY <2>2, <2>3, <2>4
<1>4. HexOf(BytesOf(h)) = [k \in 1..32 |-> HexOf(BytesOf(h))[k]]
  BY DEF HexOf
<1>5. h = [k \in 1..32 |-> h[k]]
  BY DEF Text
<1> QED BY <1>2, <1>3, <1>4, <1>5

\* A text is a sequence.
LEMMA TextIsSeq ==
  ASSUME NEW n \in Nat, NEW s \in Text(n)
  PROVE  s \in Seq(Hex) /\ Len(s) = n
BY SeqDef, LenProperties DEF Text

\* Two texts joined.
LEMMA Glued ==
  ASSUME NEW k \in Nat \ {0}, NEW n \in Nat \ {0}, NEW s \in Text(k), NEW t \in Text(n)
  PROVE  s \o t \in Text(k + n)
<1>1. s \in Seq(Hex) /\ t \in Seq(Hex) /\ Len(s) = k /\ Len(t) = n
  BY TextIsSeq
<1>2. s \o t \in Seq(Hex) /\ Len(s \o t) = k + n
  BY <1>1, ConcatProperties
<1> QED BY <1>2, LenProperties DEF Text

\* What is cut out of the first of them.
LEMMA GluedStart ==
  ASSUME NEW k \in Nat \ {0}, NEW n \in Nat \ {0}, NEW s \in Text(k), NEW t \in Text(n)
  PROVE  \A i, j \in 1..k : SubSeq(s \o t, i, j) = SubSeq(s, i, j)
<1>1. s \in Seq(Hex) /\ t \in Seq(Hex) /\ Len(s) = k
  BY TextIsSeq
<1> QED BY <1>1, SubSeqOfConcat1

\* The second of them.
LEMMA GluedEnd ==
  ASSUME NEW k \in Nat \ {0}, NEW n \in Nat \ {0}, NEW s \in Text(k), NEW t \in Text(n)
  PROVE  SubSeq(s \o t, k + 1, k + n) = t
<1>1. s \in Seq(Hex) /\ t \in Seq(Hex) /\ Len(s) = k /\ Len(t) = n
  BY TextIsSeq
<1>2. k + 1 \in Len(s) + 1..Len(s) + Len(t) /\ k + n \in Len(s) + 1..Len(s) + Len(t)
  BY <1>1
<1>3. SubSeq(s \o t, k + 1, k + n) = SubSeq(t, k + 1 - Len(s), k + n - Len(s))
  BY <1>1, <1>2, SubSeqOfConcat2
<1>4. k + 1 - Len(s) = 1 /\ k + n - Len(s) = Len(t)
  BY <1>1
<1>5. SubSeq(t, 1, Len(t)) = t
  BY <1>1, SubSeqFull
<1> QED BY <1>3, <1>4, <1>5

\* A part of a text is a text.
LEMMA Part ==
  ASSUME NEW n \in Nat, NEW h \in Text(n), NEW i \in 1..n, NEW j \in i..n
  PROVE  SubSeq(h, i, j) \in Text(j - i + 1)
<1>1. \A k \in i..j : h[k] \in Hex
  BY DEF Text
<1>2. SubSeq(h, i, j) \in Seq(Hex) /\ Len(SubSeq(h, i, j)) = j - i + 1
  BY <1>1, SubSeqProperties
<1> QED BY <1>2, LenProperties DEF Text

\* The first part of a text with the next one.
LEMMA PartsJoined ==
  ASSUME NEW n \in Nat, NEW h \in Text(n), NEW i \in 1..n, NEW j \in i..n, NEW k, k = i + 1
  PROVE  SubSeq(h, 1, i) \o SubSeq(h, k, j) = SubSeq(h, 1, j)
<1>1. h \in Seq(Hex) /\ Len(h) = n
  BY TextIsSeq
<1>2. 1 \in 1..Len(h) + 1 /\ i \in 1 - 1..Len(h) /\ j \in i..Len(h)
  BY <1>1
<1> QED BY <1>1, <1>2, ConcatAdjacentSubSeq

\* The whole text.
LEMMA WholeText ==
  ASSUME NEW n \in Nat, NEW h \in Text(n)
  PROVE  SubSeq(h, 1, n) = h
BY TextIsSeq, SubSeqFull

\* What a valid uuid is.
LEMMA FiveGroups ==
  ASSUME NEW u \in Seq(Seq(Hex))
  PROVE  IsValidUuid(u) <=>
           \E a \in Text(8), b \in Text(4), c \in Text(4),
              d \in Text(4), e \in Text(12) : u = <<a, b, c, d, e>>
<1>1. /\ Len(Groups) = 5 /\ DOMAIN Groups = 1..5
      /\ Groups[1] = 8 /\ Groups[2] = 4 /\ Groups[3] = 4
      /\ Groups[4] = 4 /\ Groups[5] = 12
  BY DEF Groups
<1>2. ASSUME IsValidUuid(u)
      PROVE  /\ u[1] \in Text(8) /\ u[2] \in Text(4) /\ u[3] \in Text(4)
             /\ u[4] \in Text(4) /\ u[5] \in Text(12)
             /\ u = <<u[1], u[2], u[3], u[4], u[5]>>
  <2>1. Len(u) = 5 /\ \A g \in 1..5 : u[g] \in [1..Groups[g] -> Hex]
    BY <1>1, <1>2 DEF IsValidUuid, Hex
  <2>2. u = <<u[1], u[2], u[3], u[4], u[5]>>
    BY <2>1
  <2>3. ASSUME NEW g \in 1..5
        PROVE  u[g] \in Text(Groups[g])
    BY <2>1 DEF Text
  <2> QED BY <1>1, <2>2, <2>3
<1>3. ASSUME NEW a \in Text(8), NEW b \in Text(4), NEW c \in Text(4),
             NEW d \in Text(4), NEW e \in Text(12), u = <<a, b, c, d, e>>
      PROVE  IsValidUuid(u)
  <2>1. Len(u) = 5 /\ u[1] = a /\ u[2] = b /\ u[3] = c /\ u[4] = d /\ u[5] = e
    BY <1>3
  <2>2. ASSUME NEW g \in 1..5
        PROVE  u[g] \in [1..Groups[g] -> Hex]
    <3>1. g = 1 \/ g = 2 \/ g = 3 \/ g = 4 \/ g = 5
      OBVIOUS
    <3> QED BY <1>1, <2>1, <3>1 DEF Text
  <2> QED BY <1>1, <2>1, <2>2 DEF IsValidUuid, Hex
<1> QED BY <1>2, <1>3

\* The parts of 8 digits and of those that follow them.
LEMMA Kept8 ==
  ASSUME NEW s \in Text(8), NEW t \in Text(4)
  PROVE  /\ SubSeq(s \o t, 1, 8) = SubSeq(s, 1, 8)
         /\ SubSeq(s \o t, 9, 12) = t
         /\ s \o t \in Text(12)
<1>1. 8 \in Nat \ {0} /\ 4 \in Nat \ {0}
  OBVIOUS
<1>0. \A i, j \in 1..8 : SubSeq(s \o t, i, j) = SubSeq(s, i, j)
  BY <1>1, GluedStart, Zenon
<1>2. SubSeq(s \o t, 1, 8) = SubSeq(s, 1, 8)
  <2>1. 1 \in 1..8 /\ 8 \in 1..8
    OBVIOUS
  <2> QED BY <1>0, <2>1, Zenon
<1>3. SubSeq(s \o t, 9, 12) = t
  <2>1. SubSeq(s \o t, 8 + 1, 8 + 4) = t
    BY <1>1, GluedEnd, Zenon
  <2>2. 8 + 1 = 9 /\ 8 + 4 = 12
    OBVIOUS
  <2> QED BY <2>1, <2>2
<1>4. s \o t \in Text(12)
  BY Glued
<1> QED BY <1>2, <1>3, <1>4

\* The parts of 12 digits and of those that follow them.
LEMMA Kept12 ==
  ASSUME NEW s \in Text(12), NEW t \in Text(4)
  PROVE  /\ SubSeq(s \o t, 1, 8) = SubSeq(s, 1, 8)
         /\ SubSeq(s \o t, 9, 12) = SubSeq(s, 9, 12)
         /\ SubSeq(s \o t, 13, 16) = t
         /\ s \o t \in Text(16)
<1>1. 12 \in Nat \ {0} /\ 4 \in Nat \ {0}
  OBVIOUS
<1>0. \A i, j \in 1..12 : SubSeq(s \o t, i, j) = SubSeq(s, i, j)
  BY <1>1, GluedStart, Zenon
<1>2. SubSeq(s \o t, 1, 8) = SubSeq(s, 1, 8)
  <2>1. 1 \in 1..12 /\ 8 \in 1..12
    OBVIOUS
  <2> QED BY <1>0, <2>1, Zenon
<1>3. SubSeq(s \o t, 9, 12) = SubSeq(s, 9, 12)
  <2>1. 9 \in 1..12 /\ 12 \in 1..12
    OBVIOUS
  <2> QED BY <1>0, <2>1, Zenon
<1>4. SubSeq(s \o t, 13, 16) = t
  <2>1. SubSeq(s \o t, 12 + 1, 12 + 4) = t
    BY <1>1, GluedEnd, Zenon
  <2>2. 12 + 1 = 13 /\ 12 + 4 = 16
    OBVIOUS
  <2> QED BY <2>1, <2>2
<1>5. s \o t \in Text(16)
  BY Glued
<1> QED BY <1>2, <1>3, <1>4, <1>5

\* The parts of 16 digits and of those that follow them.
LEMMA Kept16 ==
  ASSUME NEW s \in Text(16), NEW t \in Text(4)
  PROVE  /\ SubSeq(s \o t, 1, 8) = SubSeq(s, 1, 8)
         /\ SubSeq(s \o t, 9, 12) = SubSeq(s, 9, 12)
         /\ SubSeq(s \o t, 13, 16) = SubSeq(s, 13, 16)
         /\ SubSeq(s \o t, 17, 20) = t
         /\ s \o t \in Text(20)
<1>1. 16 \in Nat \ {0} /\ 4 \in Nat \ {0}
  OBVIOUS
<1>0. \A i, j \in 1..16 : SubSeq(s \o t, i, j) = SubSeq(s, i, j)
  BY <1>1, GluedStart, Zenon
<1>2. SubSeq(s \o t, 1, 8) = SubSeq(s, 1, 8)
  <2>1. 1 \in 1..16 /\ 8 \in 1..16
    OBVIOUS
  <2> QED BY <1>0, <2>1, Zenon
<1>3. SubSeq(s \o t, 9, 12) = SubSeq(s, 9, 12)
  <2>1. 9 \in 1..16 /\ 12 \in 1..16
    OBVIOUS
  <2> QED BY <1>0, <2>1, Zenon
<1>4. SubSeq(s \o t, 13, 16) = SubSeq(s, 13, 16)
  <2>1. 13 \in 1..16 /\ 16 \in 1..16
    OBVIOUS
  <2> QED BY <1>0, <2>1, Zenon
<1>5. SubSeq(s \o t, 17, 20) = t
  <2>1. SubSeq(s \o t, 16 + 1, 16 + 4) = t
    BY <1>1, GluedEnd, Zenon
  <2>2. 16 + 1 = 17 /\ 16 + 4 = 20
    OBVIOUS
  <2> QED BY <2>1, <2>2
<1>6. s \o t \in Text(20)
  BY Glued
<1> QED BY <1>2, <1>3, <1>4, <1>5, <1>6

\* The parts of 20 digits and of those that follow them.
LEMMA Kept20 ==
  ASSUME NEW s \in Text(20), NEW t \in Text(12)
  PROVE  /\ SubSeq(s \o t, 1, 8) = SubSeq(s, 1, 8)
         /\ SubSeq(s \o t, 9, 12) = SubSeq(s, 9, 12)
         /\ SubSeq(s \o t, 13, 16) = SubSeq(s, 13, 16)
         /\ SubSeq(s \o t, 17, 20) = SubSeq(s, 17, 20)
         /\ SubSeq(s \o t, 21, 32) = t
         /\ s \o t \in Text(32)
<1>1. 20 \in Nat \ {0} /\ 12 \in Nat \ {0}
  OBVIOUS
<1>0. \A i, j \in 1..20 : SubSeq(s \o t, i, j) = SubSeq(s, i, j)
  BY <1>1, GluedStart, Zenon
<1>2. SubSeq(s \o t, 1, 8) = SubSeq(s, 1, 8)
  <2>1. 1 \in 1..20 /\ 8 \in 1..20
    OBVIOUS
  <2> QED BY <1>0, <2>1, Zenon
<1>3. SubSeq(s \o t, 9, 12) = SubSeq(s, 9, 12)
  <2>1. 9 \in 1..20 /\ 12 \in 1..20
    OBVIOUS
  <2> QED BY <1>0, <2>1, Zenon
<1>4. SubSeq(s \o t, 13, 16) = SubSeq(s, 13, 16)
  <2>1. 13 \in 1..20 /\ 16 \in 1..20
    OBVIOUS
  <2> QED BY <1>0, <2>1, Zenon
<1>5. SubSeq(s \o t, 17, 20) = SubSeq(s, 17, 20)
  <2>1. 17 \in 1..20 /\ 20 \in 1..20
    OBVIOUS
  <2> QED BY <1>0, <2>1, Zenon
<1>6. SubSeq(s \o t, 21, 32) = t
  <2>1. SubSeq(s \o t, 20 + 1, 20 + 12) = t
    BY <1>1, GluedEnd, Zenon
  <2>2. 20 + 1 = 21 /\ 20 + 12 = 32
    OBVIOUS
  <2> QED BY <2>1, <2>2
<1>7. s \o t \in Text(32)
  BY Glued
<1> QED BY <1>2, <1>3, <1>4, <1>5, <1>6, <1>7

\* Five groups that are joined are cut where they were.
LEMMA CutJoined ==
  ASSUME NEW a \in Text(8), NEW b \in Text(4), NEW c \in Text(4), NEW d \in Text(4),
         NEW e \in Text(12)
  PROVE  a \o b \o c \o d \o e \in Text(32) /\ Cut(a \o b \o c \o d \o e) = <<a, b, c, d, e>>
<1>1. /\ a \o b \in Text(12)
      /\ SubSeq(a \o b, 9, 12) = b
      /\ SubSeq(a \o b, 1, 8) = SubSeq(a, 1, 8)
  BY Kept8
<1>2. /\ a \o b \o c \in Text(16)
      /\ SubSeq(a \o b \o c, 13, 16) = c
      /\ SubSeq(a \o b \o c, 1, 8) = SubSeq(a \o b, 1, 8)
      /\ SubSeq(a \o b \o c, 9, 12) = SubSeq(a \o b, 9, 12)
  BY <1>1, Kept12
<1>3. /\ a \o b \o c \o d \in Text(20)
      /\ SubSeq(a \o b \o c \o d, 17, 20) = d
      /\ SubSeq(a \o b \o c \o d, 1, 8) = SubSeq(a \o b \o c, 1, 8)
      /\ SubSeq(a \o b \o c \o d, 9, 12) = SubSeq(a \o b \o c, 9, 12)
      /\ SubSeq(a \o b \o c \o d, 13, 16) = SubSeq(a \o b \o c, 13, 16)
  BY <1>2, Kept16
<1>4. /\ a \o b \o c \o d \o e \in Text(32)
      /\ SubSeq(a \o b \o c \o d \o e, 21, 32) = e
      /\ SubSeq(a \o b \o c \o d \o e, 1, 8) = SubSeq(a \o b \o c \o d, 1, 8)
      /\ SubSeq(a \o b \o c \o d \o e, 9, 12) = SubSeq(a \o b \o c \o d, 9, 12)
      /\ SubSeq(a \o b \o c \o d \o e, 13, 16) = SubSeq(a \o b \o c \o d, 13, 16)
      /\ SubSeq(a \o b \o c \o d \o e, 17, 20) = SubSeq(a \o b \o c \o d, 17, 20)
  BY <1>3, Kept20
<1>5. SubSeq(a, 1, 8) = a
  BY WholeText
<1>6. Cut(a \o b \o c \o d \o e) = <<a, b, c, d, e>>
  BY <1>1, <1>2, <1>3, <1>4, <1>5 DEF Cut
<1> QED BY <1>4, <1>6

\* Thirty-two digits that are cut are joined again to what they were.
LEMMA JoinedCut ==
  ASSUME NEW h \in Text(32)
  PROVE  IsValidUuid(Cut(h)) /\ Joined(Cut(h)) = h
<1>1. Joined(Cut(h)) = h
  <2>1. SubSeq(h, 1, 8) \o SubSeq(h, 9, 12) = SubSeq(h, 1, 12)
    BY PartsJoined
  <2>2. SubSeq(h, 1, 12) \o SubSeq(h, 13, 16) = SubSeq(h, 1, 16)
    BY PartsJoined
  <2>3. SubSeq(h, 1, 16) \o SubSeq(h, 17, 20) = SubSeq(h, 1, 20)
    BY PartsJoined
  <2>4. SubSeq(h, 1, 20) \o SubSeq(h, 21, 32) = SubSeq(h, 1, 32)
    BY PartsJoined
  <2>5. SubSeq(h, 1, 32) = h
    BY WholeText
  <2> QED BY <2>1, <2>2, <2>3, <2>4, <2>5 DEF Joined, Cut
<1>2. /\ SubSeq(h, 1, 8) \in Text(8) /\ SubSeq(h, 9, 12) \in Text(4)
      /\ SubSeq(h, 13, 16) \in Text(4) /\ SubSeq(h, 17, 20) \in Text(4)
      /\ SubSeq(h, 21, 32) \in Text(12)
  <2>1. SubSeq(h, 1, 8) \in Text(8)
    BY Part
  <2>2. SubSeq(h, 9, 12) \in Text(4) /\ SubSeq(h, 13, 16) \in Text(4)
    BY Part
  <2>3. SubSeq(h, 17, 20) \in Text(4) /\ SubSeq(h, 21, 32) \in Text(12)
    BY Part
  <2> QED BY <2>1, <2>2, <2>3
<1>3. Cut(h) \in Seq(Seq(Hex))
  <2>1. /\ SubSeq(h, 1, 8) \in Seq(Hex) /\ SubSeq(h, 9, 12) \in Seq(Hex)
        /\ SubSeq(h, 13, 16) \in Seq(Hex) /\ SubSeq(h, 17, 20) \in Seq(Hex)
        /\ SubSeq(h, 21, 32) \in Seq(Hex)
    BY <1>2, TextIsSeq
  <2> QED BY <2>1 DEF Cut
<1>4. IsValidUuid(Cut(h))
  BY <1>2, <1>3, FiveGroups DEF Cut
<1> QED BY <1>1, <1>4

\* Any sixteen bytes make a valid uuid that gives these bytes back, and any valid uuid gives
\* sixteen bytes that make it again (uuid-utility.ts:41-60).
THEOREM UuidInverts ==
  /\ \A bytes \in [1..16 -> Bytes] :
       /\ IsValidUuid(FromBytes(bytes))
       /\ ToBytes(FromBytes(bytes)) = bytes
  /\ \A uuid \in Seq(Seq(HexDigits)) : IsValidUuid(uuid) =>
       /\ ToBytes(uuid) \in [1..16 -> Bytes]
       /\ FromBytes(ToBytes(uuid)) = uuid
<1>1. ASSUME NEW bytes \in [1..16 -> Bytes]
      PROVE  /\ IsValidUuid(FromBytes(bytes))
             /\ ToBytes(FromBytes(bytes)) = bytes
  BY AsDefined, HexOfBytes, JoinedCut
<1>2. ASSUME NEW uuid \in Seq(Seq(Hex)), IsValidUuid(uuid)
      PROVE  /\ ToBytes(uuid) \in [1..16 -> Bytes]
             /\ FromBytes(ToBytes(uuid)) = uuid
  <2>1. PICK a \in Text(8), b \in Text(4), c \in Text(4),
             d \in Text(4), e \in Text(12) : uuid = <<a, b, c, d, e>>
    BY <1>2, FiveGroups
  <2>2. Joined(uuid) = a \o b \o c \o d \o e
    BY <2>1 DEF Joined
  <2>3. Joined(uuid) \in Text(32) /\ Cut(Joined(uuid)) = uuid
    <3>1. /\ a \o b \o c \o d \o e \in Text(32)
          /\ Cut(a \o b \o c \o d \o e) = <<a, b, c, d, e>>
      BY CutJoined
    <3> QED BY <2>1, <2>2, <3>1
  <2> QED BY <2>3, AsDefined, BytesOfHex
<1> QED BY <1>1, <1>2 DEF Hex

-------------------------------------------------------------------------------
\* Trimming.

\* The places of the characters that are not trimmed.
Kept(text, chars) == {i \in 1..Len(text) : text[i] \notin chars}

\* What the loops of trimStart and trimEnd find.
LEMMA TrimsAt ==
  ASSUME NEW S, NEW text \in Seq(S), NEW chars
  PROVE  /\ Kept(text, chars) = {} =>
              TrimStart(text, chars) = <<>> /\ TrimEnd(text, chars) = <<>>
         /\ Kept(text, chars) # {} =>
              \E first, last \in Kept(text, chars) :
                /\ \A i \in Kept(text, chars) : first <= i /\ i <= last
                /\ TrimStart(text, chars) = SubSeq(text, first, Len(text))
                /\ TrimEnd(text, chars) = SubSeq(text, 1, last)
<1> DEFINE K == Kept(text, chars)
<1>1. Len(text) \in Nat /\ K \subseteq 1..Len(text)
  BY DEF Kept
<1>2. /\ TrimStart(text, chars) =
           IF K # {} THEN SubSeq(text, Min(K), Len(text))
           ELSE <<>>
      /\ TrimEnd(text, chars) =
           SubSeq(text, 1, IF K # {} THEN Max(K) ELSE 0)
  <2>1. K # {} => Min(K) # 0
    <3>1. ASSUME K # {}
          PROVE  Min(K) \in K
      <4>1. K \subseteq Nat
        BY <1>1
      <4> HIDE DEF K
      <4> QED BY <3>1, <4>1, LeastOf DEF Min
    <3> QED BY <1>1, <3>1
  <2> QED BY <2>1 DEF TrimStart, TrimEnd, SelectInSeq,
                      SelectLastInSeq, Kept
<1> HIDE DEF K
<1>3. ASSUME K # {}
      PROVE  /\ Min(K) \in K /\ \A i \in K : Min(K) <= i
             /\ Max(K) \in K /\ \A i \in K : i <= Max(K)
  <2>1. K \subseteq Nat /\ K \subseteq 0..Len(text)
    BY <1>1
  <2>2. Min(K) \in K /\ \A i \in K : Min(K) <= i
    BY <1>3, <2>1, LeastOf DEF Min
  <2>3. \E x \in K : \A y \in K : x >= y
    BY <1>1, <1>3, <2>1, GreatestOf
  <2>4. Max(K) \in K /\ \A i \in K : Max(K) >= i
    BY <2>3 DEF Max
  <2> QED BY <2>1, <2>2, <2>4
<1>4. SubSeq(text, 1, 0) = <<>>
  BY SubSeqEmpty
<1>5. ASSUME K # {}
      PROVE  \E first, last \in K :
                /\ \A i \in K : first <= i /\ i <= last
                /\ TrimStart(text, chars) = SubSeq(text, first, Len(text))
                /\ TrimEnd(text, chars) = SubSeq(text, 1, last)
  BY <1>2, <1>3, <1>5
<1> QED BY <1>2, <1>4, <1>5 DEF K

\* From whichever end trimming begins, the same is left: from the first to the last of the
\* characters that are kept.
LEMMA TrimmedFrom ==
  ASSUME NEW S, NEW text \in Seq(S), NEW chars, Kept(text, chars) # {}
  PROVE  \E first, last \in Kept(text, chars) :
           /\ \A i \in Kept(text, chars) : first <= i /\ i <= last
           /\ Trim(text, chars) = SubSeq(text, first, last)
           /\ TrimEnd(TrimStart(text, chars), chars)
                = SubSeq(text, first, last)
<1> DEFINE K == Kept(text, chars)
<1>1. PICK n \in Nat : n = Len(text) /\ K \subseteq 1..n
  BY DEF Kept
<1>2. PICK first, last \in K :
        /\ \A i \in K : first <= i /\ i <= last
        /\ TrimStart(text, chars) = SubSeq(text, first, n)
        /\ TrimEnd(text, chars) = SubSeq(text, 1, last)
  BY <1>1, TrimsAt
<1>3. first \in 1..n /\ last \in 1..n /\ first <= last
  BY <1>1, <1>2
<1>4. \A i \in 1..n : i \in K <=> text[i] \notin chars
  BY <1>1 DEF Kept
<1>5. Trim(text, chars) = SubSeq(text, first, last)
  <2> DEFINE cut == SubSeq(text, 1, last)
  <2>1. cut \in Seq(S) /\ Len(cut) = last /\ \A i \in 1..last : cut[i] = text[i]
    <3>1. \A i \in 1..last : text[i] \in S
      BY <1>1, <1>3
    <3> QED BY <1>1, <1>3, <3>1, SubSeqProperties
  <2> HIDE DEF cut, K
  <2>2. Kept(cut, chars) = K
    <3>1. K \subseteq 1..last
      BY <1>1, <1>2, <1>3
    <3>2. \A i \in 1..last : i \in 1..n
      BY <1>3
    <3>3. \A i \in 1..last : i \in Kept(cut, chars) <=> i \in K
      BY <1>4, <2>1, <3>2 DEF Kept
    <3>4. Kept(cut, chars) \subseteq 1..last
      BY <2>1 DEF Kept
    <3> QED BY <3>1, <3>3, <3>4
  <2>3. PICK f \in K : /\ \A i \in K : f <= i
                       /\ TrimStart(cut, chars) = SubSeq(cut, f, Len(cut))
    BY <1>2, <2>1, <2>2, TrimsAt
  <2>4. f = first
    BY <1>1, <1>2, <1>3, <2>3
  <2>5. SubSeq(cut, first, last) = SubSeq(text, first, last)
    <3>1. 1 \in 1..Len(text) /\ first \in 1..last - 1 + 1 /\ last \in 1..last - 1 + 1
      BY <1>1, <1>3
    <3>2. SubSeq(cut, first, last) = SubSeq(text, 1 + first - 1, 1 + last - 1)
      BY <1>1, <1>3, <3>1, SubSeqOfSubSeq DEF cut
    <3> QED BY <1>3, <3>2
  <2> QED BY <1>2, <2>1, <2>3, <2>4, <2>5 DEF Trim, cut
<1>6. TrimEnd(TrimStart(text, chars), chars) = SubSeq(text, first, last)
  <2> DEFINE cut == SubSeq(text, first, n)
             left == last - first + 1
  <2>1. cut \in Seq(S) /\ Len(cut) = n - first + 1
        /\ \A i \in 1..(n - first + 1) : cut[i] = text[first + i - 1]
    <3>1. \A i \in first..n : text[i] \in S
      BY <1>1, <1>3
    <3> QED BY <1>1, <1>3, <3>1, SubSeqProperties
  <2>2. left \in 1..(n - first + 1) /\ first + left - 1 = last
    BY <1>3
  <2> HIDE DEF cut, K, left
  <2>3. \A i \in 1..(n - first + 1) : i \in Kept(cut, chars) <=> first + i - 1 \in K
    <3> TAKE i \in 1..(n - first + 1)
    <3>1. first + i - 1 \in 1..n
      BY <1>3
    <3> QED BY <1>4, <2>1, <3>1 DEF Kept
  <2>4. Kept(cut, chars) \subseteq 1..(n - first + 1)
    BY <2>1 DEF Kept
  <2>5. left \in Kept(cut, chars) /\ \A i \in Kept(cut, chars) : i <= left
    <3>1. left \in Kept(cut, chars)
      BY <2>2, <2>3
    <3>2. ASSUME NEW i \in Kept(cut, chars) PROVE i <= left
      <4>1. i \in 1..(n - first + 1) /\ first + i - 1 \in K
        BY <2>3, <2>4
      <4>2. first + i - 1 <= last
        BY <1>2, <4>1
      <4> QED BY <1>3, <2>2, <4>1, <4>2
    <3> QED BY <3>1, <3>2
  <2>6. PICK l \in Kept(cut, chars) : /\ \A i \in Kept(cut, chars) : i <= l
                                      /\ TrimEnd(cut, chars) = SubSeq(cut, 1, l)
    BY <2>1, <2>5, TrimsAt
  <2>7. l = left
    BY <1>3, <2>2, <2>4, <2>5, <2>6
  <2>8. SubSeq(cut, 1, left) = SubSeq(text, first, last)
    <3>1. first \in 1..Len(text) /\ 1 \in 1..n - first + 1 /\ left \in 1..n - first + 1
      BY <1>1, <1>3, <2>2
    <3>2. SubSeq(cut, 1, left) = SubSeq(text, first + 1 - 1, first + left - 1)
      BY <1>1, <1>3, <3>1, SubSeqOfSubSeq DEF cut
    <3> QED BY <1>3, <2>2, <3>2
  <2> QED BY <1>2, <2>6, <2>7, <2>8 DEF cut
<1> QED BY <1>2, <1>5, <1>6

\* A text that begins and ends with a character that is kept is not trimmed.
LEMMA TrimmedOnce ==
  ASSUME NEW S, NEW text \in Seq(S), NEW chars, text # <<>>,
         text[1] \notin chars, text[Len(text)] \notin chars
  PROVE  Trim(text, chars) = text
<1>1. PICK n \in Nat : n = Len(text) /\ n >= 1
  BY EmptySeq, LenProperties
<1>2. 1 \in Kept(text, chars) /\ n \in Kept(text, chars) /\ Kept(text, chars) \subseteq 1..n
  BY <1>1 DEF Kept
<1>3. PICK first, last \in Kept(text, chars) :
           /\ \A i \in Kept(text, chars) : first <= i /\ i <= last
           /\ Trim(text, chars) = SubSeq(text, first, last)
  BY <1>2, TrimmedFrom
<1>4. first = 1 /\ last = n
  BY <1>1, <1>2, <1>3
<1>5. SubSeq(text, 1, n) = text
  BY <1>1, SubSeqFull
<1> QED BY <1>3, <1>4, <1>5

\* What is left out at the ends, of what is kept from the first to the last.
LEMMA LeftOut ==
  ASSUME NEW S, NEW text \in Seq(S), NEW chars,
         NEW first \in 1..(Len(text) + 1), NEW last \in (first - 1)..Len(text),
         \A i \in 1..(first - 1) : text[i] \in chars,
         \A i \in (last + 1)..Len(text) : text[i] \in chars
  PROVE  /\ Range(SubSeq(text, 1, first - 1)) \subseteq chars
         /\ Range(SubSeq(text, last + 1, Len(text))) \subseteq chars
<1>1. PICK n \in Nat : n = Len(text)
  OBVIOUS
<1>2. \A i \in 1..n : text[i] \in S
  BY <1>1
<1>3. Range(SubSeq(text, 1, first - 1)) \subseteq chars
  <2>1. PICK part : part = SubSeq(text, 1, first - 1)
    OBVIOUS
  <2>2. \A i \in 1..(first - 1) : text[i] \in S
    BY <1>1, <1>2
  <2>3. DOMAIN part = 1..(first - 1) /\ \A i \in 1..(first - 1) : part[i] = text[i]
    BY <1>1, <2>1, <2>2, SubSeqProperties
  <2> QED BY <2>1, <2>3 DEF Range
<1>4. Range(SubSeq(text, last + 1, n)) \subseteq chars
  <2>1. PICK part : part = SubSeq(text, last + 1, n)
    OBVIOUS
  <2>2. \A i \in (last + 1)..n : text[i] \in S
    BY <1>1, <1>2
  <2>3. /\ DOMAIN part = 1..(n - last)
        /\ \A i \in 1..(n - last) : part[i] = text[last + i]
    BY <1>1, <2>1, <2>2, SubSeqProperties
  <2>4. \A i \in 1..(n - last) : last + i \in (last + 1)..n
    BY <1>1
  <2> QED BY <1>1, <2>1, <2>3, <2>4 DEF Range
<1> QED BY <1>1, <1>3, <1>4

\* What trimming leaves is a part of the text, between characters it should take.
LEMMA TrimmedPart ==
  ASSUME NEW S, NEW text \in Seq(S), NEW chars
  PROVE  \E i \in 0..Len(text) : \E j \in i..Len(text) :
           /\ Trim(text, chars) = SubSeq(text, i + 1, j)
           /\ Range(SubSeq(text, 1, i))
                \union Range(SubSeq(text, j + 1, Len(text))) \subseteq chars
<1> DEFINE K == Kept(text, chars)
<1>1. PICK n \in Nat : n = Len(text) /\ K \subseteq 1..n
  BY DEF Kept
<1>2. \A i \in 1..n : i \in K <=> text[i] \notin chars
  BY <1>1 DEF Kept
<1>3. CASE K = {}
  <2>1. <<>> \in Seq(S) /\ Kept(<<>>, chars) = {}
    BY DEF Kept
  <2>2. Trim(text, chars) = <<>>
    BY <1>3, <2>1, TrimsAt DEF Trim
  <2>3. SubSeq(text, 0 + 1, 0) = <<>>
    BY SubSeqEmpty
  <2>4. Range(SubSeq(text, 1, 0)) \subseteq chars
    BY <2>3 DEF Range
  <2>5. Range(SubSeq(text, 0 + 1, n)) \subseteq chars
    <3>1. \A i \in (0 + 1)..Len(text) : text[i] \in chars
      BY <1>1, <1>2, <1>3
    <3>2. 1 \in 1..(Len(text) + 1) /\ 0 \in (1 - 1)..Len(text)
      BY <1>1
    <3>3. \A i \in 1..(1 - 1) : text[i] \in chars
      OBVIOUS
    <3> QED BY <1>1, <3>1, <3>2, <3>3, LeftOut
  <2>6. 0 \in 0..n
    BY <1>1
  <2> QED BY <1>1, <2>2, <2>3, <2>4, <2>5, <2>6
<1>4. CASE K # {}
  <2>1. PICK first, last \in K :
           /\ \A i \in K : first <= i /\ i <= last
           /\ Trim(text, chars) = SubSeq(text, first, last)
    BY <1>4, TrimmedFrom
  <2>2. first \in 1..n /\ last \in first..n
    BY <1>1, <2>1
  <2>3. PICK i \in 0..n : i + 1 = first /\ i = first - 1
    BY <2>2
  <2>4. last \in i..n
    BY <2>2, <2>3
  <2>5. \A k \in 1..(first - 1) : text[k] \in chars
    <3>1. \A k \in 1..(first - 1) : k \in 1..n /\ ~(first <= k)
      BY <2>2
    <3> QED BY <1>2, <2>1, <3>1
  <2>6. \A k \in (last + 1)..n : text[k] \in chars
    <3>1. \A k \in (last + 1)..n : k \in 1..n /\ ~(k <= last)
      BY <2>2
    <3> QED BY <1>2, <2>1, <3>1
  <2>7. /\ Range(SubSeq(text, 1, i)) \subseteq chars
        /\ Range(SubSeq(text, last + 1, n)) \subseteq chars
    <3>1. first \in 1..(Len(text) + 1) /\ last \in (first - 1)..Len(text)
      BY <1>1, <2>2
    <3> QED BY <1>1, <2>3, <2>5, <2>6, <3>1, LeftOut
  <2>8. Trim(text, chars) = SubSeq(text, i + 1, last)
    BY <2>1, <2>3
  <2> QED BY <1>1, <2>4, <2>7, <2>8
<1> QED BY <1>3, <1>4

\* What trimming leaves begins and ends with characters that are kept.
LEMMA TrimmedEnds ==
  ASSUME NEW S, NEW text \in Seq(S), NEW chars, NEW trimmed,
         trimmed = Trim(text, chars)
  PROVE  /\ trimmed \in Seq(S)
         /\ trimmed = TrimEnd(TrimStart(text, chars), chars)
         /\ trimmed # <<>> =>
              trimmed[1] \notin chars /\ trimmed[Len(trimmed)] \notin chars
<1> DEFINE K == Kept(text, chars)
<1>1. PICK n \in Nat : n = Len(text) /\ K \subseteq 1..n
  BY DEF Kept
<1>2. \A i \in 1..n : text[i] \in S /\ (i \in K <=> text[i] \notin chars)
  BY <1>1 DEF Kept
<1>3. CASE K = {}
  <2>1. <<>> \in Seq(S) /\ Kept(<<>>, chars) = {}
    BY DEF Kept
  <2>2. trimmed = <<>>
    BY <1>3, <2>1, TrimsAt DEF Trim
  <2>3. TrimEnd(TrimStart(text, chars), chars) = <<>>
    BY <1>3, <2>1, TrimsAt
  <2> QED BY <2>1, <2>2, <2>3
<1>4. CASE K # {}
  <2>1. PICK first, last \in K :
           /\ \A i \in K : first <= i /\ i <= last
           /\ trimmed = SubSeq(text, first, last)
           /\ trimmed = TrimEnd(TrimStart(text, chars), chars)
    BY <1>4, TrimmedFrom
  <2>2. first \in 1..n /\ last \in first..n
    BY <1>1, <2>1
  <2>3. /\ trimmed \in Seq(S) /\ Len(trimmed) = last - first + 1
        /\ \A i \in 1..(last - first + 1) : trimmed[i] = text[first + i - 1]
    <3>1. \A i \in first..last : text[i] \in S
      BY <1>2, <2>2
    <3>2. first \in 1..(n + 1) /\ last \in (first - 1)..n
      BY <2>2
    <3>3. PICK part : part = SubSeq(text, first, last)
      OBVIOUS
    <3>4. /\ part \in Seq(S) /\ Len(part) = last - first + 1
          /\ \A i \in 1..(last - first + 1) : part[i] = text[first + i - 1]
      BY <2>2, <3>1, <3>2, <3>3, SubSeqProperties
    <3> QED BY <2>1, <3>3, <3>4
  <2>4. trimmed[1] = text[first] /\ trimmed[Len(trimmed)] = text[last]
    <3>1. Len(trimmed) \in 1..(last - first + 1) /\ 1 \in 1..(last - first + 1)
      BY <2>2, <2>3
    <3>2. first + Len(trimmed) - 1 = last /\ first + 1 - 1 = first
      BY <2>2, <2>3
    <3> QED BY <2>3, <3>1, <3>2
  <2>5. text[first] \notin chars /\ text[last] \notin chars
    BY <1>2, <2>1, <2>2
  <2> QED BY <2>1, <2>3, <2>4, <2>5
<1> QED BY <1>3, <1>4

\* Trimming takes the characters it should from both ends of any text, and nothing else,
\* whichever end it begins with, and all at once (string-utility.ts:73-113).
THEOREM TrimExact ==
  ASSUME NEW S, NEW text \in Seq(S), NEW chars
  PROVE  TrimsExactly(text, chars)
<1>1. PICK trimmed : trimmed = Trim(text, chars)
  OBVIOUS
<1>2. /\ trimmed \in Seq(S)
      /\ trimmed = TrimEnd(TrimStart(text, chars), chars)
      /\ trimmed # <<>> => trimmed[1] \notin chars /\ trimmed[Len(trimmed)] \notin chars
  BY <1>1, TrimmedEnds
<1>3. trimmed = Trim(trimmed, chars)
  <2>1. CASE trimmed = <<>>
    <3>1. <<>> \in Seq(S) /\ Kept(<<>>, chars) = {}
      BY DEF Kept
    <3> QED BY <2>1, <3>1, TrimsAt DEF Trim
  <2>2. CASE trimmed # <<>>
    BY <1>2, <2>2, TrimmedOnce
  <2> QED BY <2>1, <2>2
<1>4. trimmed # <<>> => Head(trimmed) \notin chars /\ Last(trimmed) \notin chars
  BY <1>2 DEF Last
<1>5. \E i \in 0..Len(text) : \E j \in i..Len(text) :
           /\ trimmed = SubSeq(text, i + 1, j)
           /\ Range(SubSeq(text, 1, i))
                \union Range(SubSeq(text, j + 1, Len(text))) \subseteq chars
  BY <1>1, TrimmedPart
<1> QED BY ZenonT(20), <1>1, <1>2, <1>3, <1>4, <1>5 DEF TrimsExactly

-------------------------------------------------------------------------------
\* Names: their spelling in kebab- and snake_case, and back.

\* f[i] is what i characters of t are reduced to, from f[a] on.
Reduces(f, F, t, a, n) == \A i \in (a + 1)..n : f[i] = F[f[i - 1]][t[i]]
Readable(t, T, a, n) == \A i \in (a + 1)..n : t[i] \in T

\* What a reducer makes of a text, step by step.
LEMMA Recursion ==
  ASSUME NEW S, NEW T, NEW F \in [S -> [T -> S]], NEW x \in S,
         NEW a \in Nat, NEW n \in Nat, a <= n, NEW t, Readable(t, T, a, n)
  PROVE  \E f \in [a..n -> S] : f[a] = x /\ Reduces(f, F, t, a, n)
<1> DEFINE Found(f, m) == f[a] = x /\ Reduces(f, F, t, a, m)
           bad == {m \in a..n : ~\E f \in [a..m -> S] : Found(f, m)}
<1> USE DEF Reduces, Readable
<1>1. CASE bad = {}
  <2>1. n \in a..n
    OBVIOUS
  <2> QED BY <1>1, <2>1
<1>2. CASE bad # {}
  <2>1. bad \subseteq Nat
    OBVIOUS
  <2>2. PICK m \in bad : \A k \in bad : m <= k
    <3> HIDE DEF bad
    <3> QED BY <1>2, <2>1, LeastOf
  <2>3. m \in a..n /\ ~\E f \in [a..m -> S] : Found(f, m)
    OBVIOUS
  <2>4. m # a
    <3>1. [i \in a..a |-> x] \in [a..a -> S] /\ Found([i \in a..a |-> x], a)
      OBVIOUS
    <3> QED BY <2>3, <3>1
  <2>5. m - 1 \in a..n /\ m - 1 \notin bad
    <3>1. m - 1 \in a..n /\ ~(m <= m - 1)
      BY <2>3, <2>4
    <3> HIDE DEF bad
    <3> QED BY <2>2, <3>1
  <2>6. PICK f \in [a..(m - 1) -> S] : Found(f, m - 1)
    BY <2>5
  <2> DEFINE g == [i \in a..m |-> IF i = m THEN F[f[m - 1]][t[m]] ELSE f[i]]
  <2>7. g \in [a..m -> S]
    <3>1. t[m] \in T /\ f[m - 1] \in S
      BY <2>3, <2>4
    <3>2. F[f[m - 1]][t[m]] \in S
      BY <3>1
    <3>3. \A i \in a..m : i # m => i \in a..(m - 1)
      BY <2>3
    <3> QED BY <3>2, <3>3
  <2>8. Found(g, m)
    <3>1. g[a] = x
      BY <2>3, <2>4, <2>6
    <3>2. ASSUME NEW i \in (a + 1)..m PROVE g[i] = F[g[i - 1]][t[i]]
      <4>1. i \in a..m /\ i - 1 \in a..m /\ i - 1 # m
        BY <2>3
      <4>2. g[i - 1] = f[i - 1]
        BY <4>1
      <4>3. CASE i = m
        BY <4>1, <4>2, <4>3
      <4>4. CASE i # m
        <5>1. i \in (a + 1)..(m - 1)
          BY <2>3, <4>4
        <5> QED BY <2>6, <4>1, <4>2, <4>4, <5>1
      <4> QED BY <4>3, <4>4
    <3> QED BY <3>1, <3>2
  <2> QED BY <2>3, <2>7, <2>8
<1> QED BY <1>1, <1>2

\* Letters, digits and the other characters.
Signs == {"lower", "upper", "digit", "mark"} \X Nat

\* What one character adds to the spelling with marks, and to the one without.
Delimit(prev, c, mark) ==
  prev \o (IF IsTitle(c) THEN <<mark, ToLower(c)>> ELSE <<c>>)
Undelimit(prev, c, mark) ==
  IF Last(prev) = mark THEN Append(Front(prev), ToUpper(c))
  ELSE Append(prev, c)

\* The recursive functions that reduce is with these.
Delimited(text, mark, initial) ==
  LET startIndex == IF initial = <<>> THEN 1 ELSE 0
  IN CHOOSE r : r = [i \in startIndex..Len(text) |->
                       IF i > startIndex THEN Delimit(r[i - 1], text[i], mark)
                       ELSE IF startIndex = 0 THEN initial ELSE <<text[1]>>]
Undelimited(text, mark, initial) ==
  LET startIndex == IF initial = <<>> THEN 1 ELSE 0
  IN CHOOSE r : r = [i \in startIndex..Len(text) |->
                       IF i > startIndex THEN Undelimit(r[i - 1], text[i], mark)
                       ELSE IF startIndex = 0 THEN initial ELSE <<text[1]>>]

\* r[i] is the spelling of i characters.
Delimits(r, text, mark, start, n) ==
  \A i \in (start + 1)..n : r[i] = Delimit(r[i - 1], text[i], mark)
Undelimits(r, text, mark, start, n) ==
  \A i \in (start + 1)..n : r[i] = Undelimit(r[i - 1], text[i], mark)

LEMMA SignsKept ==
  ASSUME NEW c \in Signs
  PROVE  ToLower(c) \in Signs /\ ToUpper(c) \in Signs
<1>1. c[1] \in {"lower", "upper", "digit", "mark"} /\ c[2] \in Nat
  BY DEF Signs
<1>2. \A k \in Nat : <<"lower", k>> \in Signs /\ <<"upper", k>> \in Signs
  BY DEF Signs
<1> QED BY <1>1, <1>2 DEF ToLower, ToUpper, Lower, Upper

\* Where reduce starts: without an initial value, at the second character.
Starts(text, initial, start, first) ==
  \/ initial = <<>> /\ text # <<>> /\ start = 1 /\ first = <<text[1]>>
  \/ initial # <<>> /\ start = 0 /\ first = initial

\* There are such functions.
LEMMA DelimitedExists ==
  ASSUME NEW text, NEW mark \in Signs, NEW start \in Nat, NEW n \in Nat, start <= n,
         Readable(text, Signs, start, n), NEW first \in Seq(Signs)
  PROVE  \E f : /\ f[start] = first
                /\ Delimits(f, text, mark, start, n)
                /\ f = [i \in start..n |->
                         IF i > start THEN Delimit(f[i - 1], text[i], mark) ELSE first]
<1> DEFINE F == [p \in Seq(Signs) |-> [c \in Signs |-> Delimit(p, c, mark)]]
<1>1. \A p \in Seq(Signs), c \in Signs : Delimit(p, c, mark) \in Seq(Signs)
  <2> TAKE p \in Seq(Signs), c \in Signs
  <2>1. <<mark, ToLower(c)>> \in Seq(Signs) /\ <<c>> \in Seq(Signs)
    BY SignsKept
  <2> QED BY <2>1, ConcatProperties DEF Delimit
<1>2. PICK S : S = Seq(Signs)
  OBVIOUS
<1>3. F \in [S -> [Signs -> S]] /\ first \in S
  BY <1>1, <1>2
<1>4. PICK f \in [start..n -> S] : f[start] = first /\ Reduces(f, F, text, start, n)
  <2> HIDE DEF F
  <2> QED BY <1>3, Recursion
<1>5. \A i \in (start + 1)..n : f[i] = Delimit(f[i - 1], text[i], mark)
  <2> TAKE i \in (start + 1)..n
  <2>1. f[i] = F[f[i - 1]][text[i]]
    BY <1>4 DEF Reduces
  <2>2. f[i - 1] \in S /\ text[i] \in Signs
    <3>1. i - 1 \in start..n
      OBVIOUS
    <3> QED BY <3>1 DEF Readable
  <2>3. \A p \in S, c \in Signs : F[p][c] = Delimit(p, c, mark)
    BY <1>2
  <2> HIDE DEF F
  <2> QED BY <2>1, <2>2, <2>3
<1>6. f = [i \in start..n |-> IF i > start THEN Delimit(f[i - 1], text[i], mark) ELSE first]
  <2>1. \A i \in start..n :
          f[i] = IF i > start THEN Delimit(f[i - 1], text[i], mark) ELSE first
    BY <1>4, <1>5
  <2> QED BY <2>1
<1> QED BY <1>4, <1>5, <1>6 DEF Delimits

LEMMA DelimitedSteps ==
  ASSUME NEW text \in Seq(Signs), NEW mark \in Signs, NEW initial, NEW start,
         NEW first \in Seq(Signs), Starts(text, initial, start, first)
  PROVE  /\ Delimited(text, mark, initial)[start] = first
         /\ Delimits(Delimited(text, mark, initial), text, mark, start, Len(text))
<1>1. PICK n \in Nat : n = Len(text)
  OBVIOUS
<1>2. start \in Nat /\ start <= n /\ Readable(text, Signs, start, n)
  BY <1>1 DEF Readable, Starts
<1> DEFINE startIndex == IF initial = <<>> THEN 1 ELSE 0
           Is(h) == h = [i \in startIndex..Len(text) |->
                           IF i > startIndex THEN Delimit(h[i - 1], text[i], mark)
                           ELSE IF startIndex = 0 THEN initial ELSE <<text[1]>>]
<1>3. startIndex = start /\ first = IF startIndex = 0 THEN initial ELSE <<text[1]>>
  BY DEF Starts
<1>4. \A h : Is(h) <=> h = [i \in start..n |->
                             IF i > start THEN Delimit(h[i - 1], text[i], mark) ELSE first]
  <2> HIDE DEF startIndex
  <2> QED BY <1>1, <1>3
<1>5. Delimited(text, mark, initial) = CHOOSE h : Is(h)
  BY DEF Delimited
<1> HIDE DEF Is, startIndex
<1>6. PICK r : r = Delimited(text, mark, initial)
  OBVIOUS
<1>7. \E h : Is(h)
  <2>1. PICK f : f = [i \in start..n |-> IF i > start THEN Delimit(f[i - 1], text[i], mark)
                                       ELSE first]
    BY <1>2, DelimitedExists
  <2> QED BY <1>4, <2>1
<1>8. r = [i \in start..n |-> IF i > start THEN Delimit(r[i - 1], text[i], mark) ELSE first]
  BY <1>4, <1>5, <1>6, <1>7
<1>9. r[start] = first
  BY <1>2, <1>8
<1>10. Delimits(r, text, mark, start, n)
  <2>1. \A i \in (start + 1)..n : i \in start..n /\ i > start
    BY <1>2
  <2> QED BY <1>8, <2>1 DEF Delimits
<1> QED BY <1>1, <1>6, <1>9, <1>10

LEMMA UndelimitedExists ==
  ASSUME NEW text, NEW mark \in Signs, NEW start \in Nat, NEW n \in Nat, start <= n,
         Readable(text, Signs, start, n), NEW first \in Seq(Signs)
  PROVE  \E f : /\ f[start] = first
                /\ Undelimits(f, text, mark, start, n)
                /\ f = [i \in start..n |->
                         IF i > start THEN Undelimit(f[i - 1], text[i], mark) ELSE first]
<1> DEFINE F == [p \in Seq(Signs) |-> [c \in Signs |-> Undelimit(p, c, mark)]]
<1>1. \A p \in Seq(Signs), c \in Signs : Undelimit(p, c, mark) \in Seq(Signs)
  <2> TAKE p \in Seq(Signs), c \in Signs
  <2>1. ToUpper(c) \in Signs
    BY SignsKept
  <2>2. Front(p) \in Seq(Signs)
    BY DEF Front
  <2>3. \A q \in Seq(Signs), e \in Signs : Append(q, e) \in Seq(Signs)
    OBVIOUS
  <2> QED BY <2>1, <2>2, <2>3 DEF Undelimit
<1>2. PICK S : S = Seq(Signs)
  OBVIOUS
<1>3. F \in [S -> [Signs -> S]] /\ first \in S
  BY <1>1, <1>2
<1>4. PICK f \in [start..n -> S] : f[start] = first /\ Reduces(f, F, text, start, n)
  <2> HIDE DEF F
  <2> QED BY <1>3, Recursion
<1>5. \A i \in (start + 1)..n : f[i] = Undelimit(f[i - 1], text[i], mark)
  <2> TAKE i \in (start + 1)..n
  <2>1. f[i] = F[f[i - 1]][text[i]]
    BY <1>4 DEF Reduces
  <2>2. f[i - 1] \in S /\ text[i] \in Signs
    <3>1. i - 1 \in start..n
      OBVIOUS
    <3> QED BY <3>1 DEF Readable
  <2>3. \A p \in S, c \in Signs : F[p][c] = Undelimit(p, c, mark)
    BY <1>2
  <2> HIDE DEF F
  <2> QED BY <2>1, <2>2, <2>3
<1>6. f = [i \in start..n |-> IF i > start THEN Undelimit(f[i - 1], text[i], mark) ELSE first]
  <2>1. \A i \in start..n :
          f[i] = IF i > start THEN Undelimit(f[i - 1], text[i], mark) ELSE first
    BY <1>4, <1>5
  <2> QED BY <2>1
<1> QED BY <1>4, <1>5, <1>6 DEF Undelimits

LEMMA UndelimitedSteps ==
  ASSUME NEW text \in Seq(Signs), NEW mark \in Signs, NEW initial, NEW start,
         NEW first \in Seq(Signs), Starts(text, initial, start, first)
  PROVE  /\ Undelimited(text, mark, initial)[start] = first
         /\ Undelimits(Undelimited(text, mark, initial), text, mark, start, Len(text))
<1>1. PICK n \in Nat : n = Len(text)
  OBVIOUS
<1>2. start \in Nat /\ start <= n /\ Readable(text, Signs, start, n)
  BY <1>1 DEF Readable, Starts
<1> DEFINE startIndex == IF initial = <<>> THEN 1 ELSE 0
           Is(h) == h = [i \in startIndex..Len(text) |->
                           IF i > startIndex THEN Undelimit(h[i - 1], text[i], mark)
                           ELSE IF startIndex = 0 THEN initial ELSE <<text[1]>>]
<1>3. startIndex = start /\ first = IF startIndex = 0 THEN initial ELSE <<text[1]>>
  BY DEF Starts
<1>4. \A h : Is(h) <=> h = [i \in start..n |->
                             IF i > start THEN Undelimit(h[i - 1], text[i], mark) ELSE first]
  <2> HIDE DEF startIndex
  <2> QED BY <1>1, <1>3
<1>5. Undelimited(text, mark, initial) = CHOOSE h : Is(h)
  BY DEF Undelimited
<1> HIDE DEF Is, startIndex
<1>6. PICK r : r = Undelimited(text, mark, initial)
  OBVIOUS
<1>7. \E h : Is(h)
  <2>1. PICK f : f = [i \in start..n |-> IF i > start THEN Undelimit(f[i - 1], text[i], mark)
                                       ELSE first]
    BY <1>2, UndelimitedExists
  <2> QED BY <1>4, <2>1
<1>8. r = [i \in start..n |-> IF i > start THEN Undelimit(r[i - 1], text[i], mark) ELSE first]
  BY <1>4, <1>5, <1>6, <1>7
<1>9. r[start] = first
  BY <1>2, <1>8
<1>10. Undelimits(r, text, mark, start, n)
  <2>1. \A i \in (start + 1)..n : i \in start..n /\ i > start
    BY <1>2
  <2> QED BY <1>8, <2>1 DEF Undelimits
<1> QED BY <1>1, <1>6, <1>9, <1>10

\* What reduce comes to with the callbacks of camelToSnakeKebabCase.
LEMMA DelimitedNames ==
  ASSUME NEW text, text # <<>>, NEW mark
  PROVE  /\ CamelToSnakeKebabCase(text, FALSE, mark) =
              Delimited(text, mark, <<>>)[Len(text)]
         /\ CamelToSnakeKebabCase(text, TRUE, mark) =
              IF Tail(text) = <<>> THEN <<ToLower(Head(text))>>
              ELSE Delimited(Tail(text), mark, <<ToLower(Head(text))>>)
                     [Len(Tail(text))]
BY DEF CamelToSnakeKebabCase, Reduce, Delimited, Delimit

LEMMA FirstSign ==
  ASSUME NEW text \in Seq(Signs), text # <<>>
  PROVE  /\ text[1] \in Signs /\ <<text[1]>> \in Seq(Signs) /\ Head(text) = text[1]
         /\ Len(text) \in Nat /\ Len(text) >= 1
<1>1. Len(text) \in Nat /\ Len(text) >= 1
  BY EmptySeq, LenProperties
<1>2. text[1] \in Signs
  BY <1>1, LenProperties
<1> QED BY <1>1, <1>2

\* And with those of snakeKebabToCamelCase.
LEMMA UndelimitedNames ==
  ASSUME NEW text, text # <<>>, NEW mark
  PROVE  /\ SnakeKebabToCamelCase(text, FALSE, mark) =
              Undelimited(text, mark, <<>>)[Len(text)]
         /\ SnakeKebabToCamelCase(text, TRUE, mark) =
              IF Tail(text) = <<>> THEN <<ToUpper(Head(text))>>
              ELSE Undelimited(Tail(text), mark, <<ToUpper(Head(text))>>)
                     [Len(Tail(text))]
BY DEF SnakeKebabToCamelCase, Reduce, Undelimited, Undelimit

\* camelToSnakeKebabCase, by the number of characters it has read.
LEMMA DelimitedSmall ==
  ASSUME NEW text \in Seq(Signs), text # <<>>, NEW mark \in Signs
  PROVE  \E K : /\ K[1] = <<text[1]>> /\ Delimits(K, text, mark, 1, Len(text))
                /\ K[Len(text)] = CamelToSnakeKebabCase(text, FALSE, mark)
<1>1. <<text[1]>> \in Seq(Signs)
  BY FirstSign
<1>2. PICK initial, start, first : initial = <<>> /\ start = 1 /\ first = <<text[1]>>
  OBVIOUS
<1>3. PICK K : K = Delimited(text, mark, initial)
  OBVIOUS
<1>4. first \in Seq(Signs) /\ Starts(text, initial, start, first)
  BY <1>1, <1>2 DEF Starts
<1>5. K[start] = first /\ Delimits(K, text, mark, start, Len(text))
  BY <1>3, <1>4, DelimitedSteps
<1>6. CamelToSnakeKebabCase(text, FALSE, mark) = K[Len(text)]
  BY <1>2, <1>3, DelimitedNames
<1> QED BY <1>2, <1>5, <1>6

LEMMA DelimitedSuper ==
  ASSUME NEW text \in Seq(Signs), text # <<>>, NEW mark \in Signs
  PROVE  \E K : /\ K[1] = <<ToLower(text[1])>>
                /\ Delimits(K, text, mark, 1, Len(text))
                /\ K[Len(text)] = CamelToSnakeKebabCase(text, TRUE, mark)
<1>1. text[1] \in Signs /\ Head(text) = text[1] /\ Len(text) \in Nat /\ Len(text) >= 1
  BY FirstSign
<1>2. PICK n, rest, first, start :
        n = Len(text) /\ rest = Tail(text) /\ first = <<ToLower(Head(text))>> /\ start = 0
  OBVIOUS
<1>3. /\ rest \in Seq(Signs) /\ Len(rest) = n - 1 /\ n \in Nat /\ n >= 1
      /\ \A i \in 1..(n - 1) : rest[i] = text[i + 1]
  BY <1>1, <1>2, HeadTailProperties
<1>4. first \in Seq(Signs) /\ first # <<>>
  <2>1. ToLower(Head(text)) \in Signs
    BY <1>1, SignsKept
  <2> QED BY <1>2, <2>1
<1>5. PICK r : r = Delimited(rest, mark, first)
  OBVIOUS
<1>6. r[start] = first /\ Delimits(r, rest, mark, start, Len(rest))
  <2>1. PICK initial : initial = first
    OBVIOUS
  <2>2. Starts(rest, initial, start, first)
    BY <1>2, <1>4, <2>1 DEF Starts
  <2>3. r = Delimited(rest, mark, initial)
    BY <1>5, <2>1
  <2> QED BY <1>3, <1>4, <2>2, <2>3, DelimitedSteps
<1>7. CamelToSnakeKebabCase(text, TRUE, mark)
        = IF rest = <<>> THEN first ELSE r[Len(rest)]
  BY <1>2, <1>5, DelimitedNames
<1>8. CamelToSnakeKebabCase(text, TRUE, mark) = r[n - 1]
  <2>1. rest = <<>> => n - 1 = 0
    BY <1>3
  <2> QED BY <1>2, <1>3, <1>6, <1>7, <2>1
<1>9. \A i \in 2..n : r[i - 1] = Delimit(r[i - 1 - 1], text[i], mark)
  <2> TAKE i \in 2..n
  <2>1. i - 1 \in 1..(n - 1) /\ i - 1 + 1 = i
    BY <1>3
  <2>2. \A j \in 1..(n - 1) : r[j] = Delimit(r[j - 1], rest[j], mark)
    BY <1>2, <1>3, <1>6 DEF Delimits
  <2>3. rest[i - 1] = text[i]
    BY <1>3, <2>1
  <2>4. r[i - 1] = Delimit(r[i - 1 - 1], rest[i - 1], mark)
    BY <2>1, <2>2
  <2> QED BY <2>3, <2>4
<1> DEFINE K == [i \in 1..n |-> r[i - 1]]
<1>10. K[1] = first /\ K[n] = r[n - 1]
  BY <1>2, <1>3, <1>6
<1>11. \A i \in 2..n : K[i] = Delimit(K[i - 1], text[i], mark)
  <2> TAKE i \in 2..n
  <2>1. i \in 1..n /\ i - 1 \in 1..n
    BY <1>3
  <2> QED BY <1>9, <2>1
<1>12. first = <<ToLower(text[1])>>
  BY <1>1, <1>2
<1> HIDE DEF K
<1>13. Delimits(K, text, mark, 1, n)
  BY <1>11 DEF Delimits
<1> QED BY <1>2, <1>8, <1>10, <1>12, <1>13

\* snakeKebabToCamelCase, by the number of characters it has read.
LEMMA UndelimitedSmall ==
  ASSUME NEW text \in Seq(Signs), text # <<>>, NEW mark \in Signs
  PROVE  \E K : /\ K[1] = <<text[1]>> /\ Undelimits(K, text, mark, 1, Len(text))
                /\ K[Len(text)] = SnakeKebabToCamelCase(text, FALSE, mark)
<1>1. <<text[1]>> \in Seq(Signs)
  BY FirstSign
<1>2. PICK initial, start, first : initial = <<>> /\ start = 1 /\ first = <<text[1]>>
  OBVIOUS
<1>3. PICK K : K = Undelimited(text, mark, initial)
  OBVIOUS
<1>4. first \in Seq(Signs) /\ Starts(text, initial, start, first)
  BY <1>1, <1>2 DEF Starts
<1>5. K[start] = first /\ Undelimits(K, text, mark, start, Len(text))
  BY <1>3, <1>4, UndelimitedSteps
<1>6. SnakeKebabToCamelCase(text, FALSE, mark) = K[Len(text)]
  BY <1>2, <1>3, UndelimitedNames
<1> QED BY <1>2, <1>5, <1>6

LEMMA UndelimitedSuper ==
  ASSUME NEW text \in Seq(Signs), text # <<>>, NEW mark \in Signs
  PROVE  \E K : /\ K[1] = <<ToUpper(text[1])>>
                /\ Undelimits(K, text, mark, 1, Len(text))
                /\ K[Len(text)] = SnakeKebabToCamelCase(text, TRUE, mark)
<1>1. text[1] \in Signs /\ Head(text) = text[1] /\ Len(text) \in Nat /\ Len(text) >= 1
  BY FirstSign
<1>2. PICK n, rest, first, start :
        n = Len(text) /\ rest = Tail(text) /\ first = <<ToUpper(Head(text))>> /\ start = 0
  OBVIOUS
<1>3. /\ rest \in Seq(Signs) /\ Len(rest) = n - 1 /\ n \in Nat /\ n >= 1
      /\ \A i \in 1..(n - 1) : rest[i] = text[i + 1]
  BY <1>1, <1>2, HeadTailProperties
<1>4. first \in Seq(Signs) /\ first # <<>>
  <2>1. ToUpper(Head(text)) \in Signs
    BY <1>1, SignsKept
  <2> QED BY <1>2, <2>1
<1>5. PICK r : r = Undelimited(rest, mark, first)
  OBVIOUS
<1>6. r[start] = first /\ Undelimits(r, rest, mark, start, Len(rest))
  <2>1. PICK initial : initial = first
    OBVIOUS
  <2>2. Starts(rest, initial, start, first)
    BY <1>2, <1>4, <2>1 DEF Starts
  <2>3. r = Undelimited(rest, mark, initial)
    BY <1>5, <2>1
  <2> QED BY <1>3, <1>4, <2>2, <2>3, UndelimitedSteps
<1>7. SnakeKebabToCamelCase(text, TRUE, mark)
        = IF rest = <<>> THEN first ELSE r[Len(rest)]
  BY <1>2, <1>5, UndelimitedNames
<1>8. SnakeKebabToCamelCase(text, TRUE, mark) = r[n - 1]
  <2>1. rest = <<>> => n - 1 = 0
    BY <1>3
  <2> QED BY <1>2, <1>3, <1>6, <1>7, <2>1
<1>9. \A i \in 2..n : r[i - 1] = Undelimit(r[i - 1 - 1], text[i], mark)
  <2> TAKE i \in 2..n
  <2>1. i - 1 \in 1..(n - 1) /\ i - 1 + 1 = i
    BY <1>3
  <2>2. \A j \in 1..(n - 1) : r[j] = Undelimit(r[j - 1], rest[j], mark)
    BY <1>2, <1>3, <1>6 DEF Undelimits
  <2>3. rest[i - 1] = text[i]
    BY <1>3, <2>1
  <2>4. r[i - 1] = Undelimit(r[i - 1 - 1], rest[i - 1], mark)
    BY <2>1, <2>2
  <2> QED BY <2>3, <2>4
<1> DEFINE K == [i \in 1..n |-> r[i - 1]]
<1>10. K[1] = first /\ K[n] = r[n - 1]
  BY <1>2, <1>3, <1>6
<1>11. \A i \in 2..n : K[i] = Undelimit(K[i - 1], text[i], mark)
  <2> TAKE i \in 2..n
  <2>1. i \in 1..n /\ i - 1 \in 1..n
    BY <1>3
  <2> QED BY <1>9, <2>1
<1>12. first = <<ToUpper(text[1])>>
  BY <1>1, <1>2
<1> HIDE DEF K
<1>13. Undelimits(K, text, mark, 1, n)
  BY <1>11 DEF Undelimits
<1> QED BY <1>2, <1>8, <1>10, <1>12, <1>13

\* Characters of names, and those that part words.
Alphanumeric == {"lower", "upper", "digit"} \X Nat
Marks == {"mark"} \X Nat

LEMMA SignsAre ==
  /\ Alphanumeric \subseteq Signs /\ Marks \subseteq Signs
  /\ \A c \in Alphanumeric, mark \in Marks : c # mark
  /\ \A c \in Alphanumeric :
       /\ ToLower(c) \in Alphanumeric /\ ToUpper(c) \in Alphanumeric
       /\ IsTitle(c) =>
            ToLower(c)[1] = "lower" /\ ToUpper(ToLower(c)) = c
<1>1. \A c \in Alphanumeric :
        c[1] \in {"lower", "upper", "digit"} /\ c[2] \in Nat /\ c = <<c[1], c[2]>>
  BY DEF Alphanumeric
<1>2. \A mark \in Marks : mark[1] = "mark"
  BY DEF Marks
<1>3. Alphanumeric \subseteq Signs /\ Marks \subseteq Signs
  BY DEF Alphanumeric, Marks, Signs
<1>4. ASSUME NEW c \in Alphanumeric
      PROVE  ToLower(c) \in Alphanumeric /\ ToUpper(c) \in Alphanumeric
  <2>1. <<"lower", c[2]>> \in Alphanumeric /\ <<"upper", c[2]>> \in Alphanumeric
    BY <1>1 DEF Alphanumeric
  <2> QED BY <2>1 DEF ToLower, ToUpper, Lower, Upper
<1>5. ASSUME NEW c \in Alphanumeric, IsTitle(c)
      PROVE  ToLower(c)[1] = "lower" /\ ToUpper(ToLower(c)) = c
  <2>1. c = <<"upper", c[2]>>
    BY <1>1, <1>5 DEF IsTitle
  <2>2. ToLower(c) = <<"lower", c[2]>>
    BY <1>5 DEF ToLower, Lower
  <2>3. ToUpper(<<"lower", c[2]>>) = <<"upper", c[2]>>
    BY DEF ToUpper, Upper
  <2> QED BY <2>1, <2>2, <2>3
<1>6. \A c \in Alphanumeric, mark \in Marks : c # mark
  BY <1>1, <1>2
<1> QED BY <1>3, <1>4, <1>5, <1>6

\* v is the spelling w, of k characters, with that of c added: of a title two characters,
\* of any other one.
Adds(v, w, k, c, mark) ==
  /\ v \in Seq(Signs) /\ k \in Nat /\ \A j \in 1..k : v[j] = w[j]
  /\ IF IsTitle(c)
     THEN Len(v) = k + 2 /\ v[k + 1] = mark /\ v[k + 2] = ToLower(c)
     ELSE Len(v) = k + 1 /\ v[k + 1] = c

LEMMA OneSpelled ==
  ASSUME NEW w \in Seq(Signs), NEW c \in Alphanumeric, NEW mark \in Marks,
         NEW v, v = Delimit(w, c, mark), NEW k, k = Len(w)
  PROVE  Adds(v, w, k, c, mark)
<1>1. c \in Signs /\ mark \in Signs /\ ToLower(c) \in Signs
  BY SignsAre
<1>2. CASE IsTitle(c)
  <2>1. PICK low \in Signs : low = ToLower(c)
    BY <1>1
  <2>2. v = w \o <<mark, low>>
    BY <1>2, <2>1 DEF Delimit
  <2>3. <<mark, low>> \in Seq(Signs) /\ Len(<<mark, low>>) = 2
    BY <1>1
  <2>4. /\ v \in Seq(Signs) /\ Len(v) = k + 2 /\ k \in Nat
        /\ \A j \in 1..(k + 2) : v[j] = IF j <= k THEN w[j] ELSE <<mark, low>>[j - k]
    BY <2>2, <2>3, ConcatProperties
  <2> QED BY <1>2, <2>1, <2>4 DEF Adds
<1>3. CASE ~IsTitle(c)
  <2>1. v = w \o <<c>>
    BY <1>3 DEF Delimit
  <2>2. <<c>> \in Seq(Signs) /\ Len(<<c>>) = 1
    BY <1>1
  <2>3. /\ v \in Seq(Signs) /\ Len(v) = k + 1 /\ k \in Nat
        /\ \A j \in 1..(k + 1) : v[j] = IF j <= k THEN w[j] ELSE <<c>>[j - k]
    BY <2>1, <2>2, ConcatProperties
  <2> QED BY <1>3, <2>3 DEF Adds
<1> QED BY <1>2, <1>3

\* Both are read back.
LEMMA OneRead ==
  ASSUME NEW z \in Seq(Alphanumeric), z # <<>>, NEW c \in Alphanumeric, NEW mark \in Marks
  PROVE  /\ Undelimit(z, c, mark) = Append(z, c)
         /\ IsTitle(c) =>
              Undelimit(Undelimit(z, mark, mark), ToLower(c), mark) = Append(z, c)
<1>1. Len(z) \in Nat /\ Len(z) >= 1
  BY EmptySeq, LenProperties
<1>2. z[Len(z)] \in Alphanumeric
  BY <1>1
<1>3. Last(z) # mark
  BY <1>2, SignsAre DEF Last
<1>4. \A d : Undelimit(z, d, mark) = Append(z, d)
  BY <1>3 DEF Undelimit
<1>5. PICK y : y = Append(z, mark)
  OBVIOUS
<1>6. Last(y) = mark /\ Front(y) = z
  <2>1. z \in Seq(Signs) /\ mark \in Signs
    BY SignsAre
  <2>2. y \in Seq(Signs) /\ Len(y) = Len(z) + 1 /\ y[Len(z) + 1] = mark
    BY <1>5, <2>1, AppendProperties
  <2>3. SubSeq(Append(z, mark), 1, Len(z)) = z
    <3>1. <<mark>> \in Seq(Signs) /\ 1 \in 1..Len(z) /\ Len(z) \in 1..Len(z)
      BY <1>1, <2>1
    <3>2. SubSeq(z \o <<mark>>, 1, Len(z)) = SubSeq(z, 1, Len(z))
      BY <2>1, <3>1, SubSeqOfConcat1
    <3>3. SubSeq(z, 1, Len(z)) = z
      BY SubSeqFull
    <3>4. Append(z, mark) = z \o <<mark>>
      BY <2>1, AppendIsConcat
    <3> QED BY <3>2, <3>3, <3>4
  <2> QED BY <1>1, <1>5, <2>2, <2>3 DEF Last, Front
<1>7. Undelimit(y, ToLower(c), mark) = Append(z, ToUpper(ToLower(c)))
  BY <1>6 DEF Undelimit
<1> QED BY <1>4, <1>5, <1>7, SignsAre

\* A spelling that begins with x, and each of whose marks is followed by a small letter.
WellSpelled(w, mark, x) ==
  /\ w \in Seq(Signs) /\ Len(w) >= 1 /\ w[1] = x
  /\ \A j \in 1..Len(w) : w[j] = mark => j # 1 /\ j # Len(w) /\ w[j + 1][1] = "lower"

\* A spelling that is read as z, if its first character is read as y.
ReadsBack(w, mark, y, z) ==
  \A C : C[1] = <<y>> /\ Undelimits(C, w, mark, 1, Len(w)) => C[Len(w)] = z

ReadSoFar(text, y, m) == [i \in 1..m |-> IF i = 1 THEN y ELSE text[i]]

LEMMA SpelledFurther ==
  ASSUME NEW w, NEW mark \in Marks, NEW x, WellSpelled(w, mark, x), NEW c \in Alphanumeric,
         NEW v, v = Delimit(w, c, mark)
  PROVE  WellSpelled(v, mark, x)
<1>1. PICK k : k = Len(w)
  OBVIOUS
<1>2. w \in Seq(Signs) /\ k >= 1 /\ w[1] = x /\ k \in Nat
      /\ \A j \in 1..k : w[j] = mark => j # 1 /\ j # k /\ w[j + 1][1] = "lower"
  BY <1>1 DEF WellSpelled
<1>3. /\ v \in Seq(Signs) /\ \A j \in 1..k : v[j] = w[j]
      /\ IF IsTitle(c)
         THEN Len(v) = k + 2 /\ v[k + 1] = mark /\ v[k + 2] = ToLower(c)
         ELSE Len(v) = k + 1 /\ v[k + 1] = c
  <2>1. Adds(v, w, k, c, mark)
    BY <1>1, <1>2, OneSpelled
  <2> QED BY <2>1 DEF Adds
<1>4. c # mark /\ ToLower(c) # mark
      /\ (IsTitle(c) => ToLower(c)[1] = "lower")
  BY SignsAre
<1>5. ASSUME NEW j \in 1..Len(v), v[j] = mark
      PROVE  j # 1 /\ j # Len(v) /\ v[j + 1][1] = "lower"
  <2>1. CASE j <= k
    <3>1. j \in 1..k
      BY <1>2, <1>3, <2>1
    <3>2. w[j] = mark /\ j # 1 /\ j # k /\ w[j + 1][1] = "lower"
      BY <1>2, <1>3, <1>5, <3>1
    <3>3. j + 1 \in 1..k /\ j # Len(v)
      BY <1>2, <1>3, <3>1, <3>2
    <3> QED BY <1>3, <3>2, <3>3
  <2>2. CASE j = k + 1
    <3>1. IsTitle(c)
      BY <1>3, <1>4, <1>5, <2>2
    <3> QED BY <1>2, <1>3, <1>4, <2>2, <3>1
  <2>3. CASE j = k + 2
    BY <1>2, <1>3, <1>4, <1>5, <2>3
  <2> QED BY <1>2, <1>3, <2>1, <2>2, <2>3
<1>6. Len(v) >= 1 /\ v[1] = x
  BY <1>2, <1>3
<1> QED BY <1>3, <1>5, <1>6 DEF WellSpelled

LEMMA ReadFurther ==
  ASSUME NEW w \in Seq(Signs), Len(w) >= 1, NEW mark \in Marks, NEW c \in Alphanumeric,
         NEW y, NEW z \in Seq(Alphanumeric), z # <<>>, ReadsBack(w, mark, y, z),
         NEW v, v = Delimit(w, c, mark)
  PROVE  ReadsBack(v, mark, y, Append(z, c))
<1> SUFFICES ASSUME NEW C, C[1] = <<y>>, Undelimits(C, v, mark, 1, Len(v))
             PROVE  C[Len(v)] = Append(z, c)
  BY DEF ReadsBack
<1>1. PICK k : k = Len(w) /\ k \in Nat /\ k >= 1
  OBVIOUS
<1>2. /\ v \in Seq(Signs) /\ \A j \in 1..k : v[j] = w[j]
      /\ IF IsTitle(c)
         THEN Len(v) = k + 2 /\ v[k + 1] = mark /\ v[k + 2] = ToLower(c)
         ELSE Len(v) = k + 1 /\ v[k + 1] = c
  <2>1. Adds(v, w, k, c, mark)
    BY <1>1, OneSpelled
  <2> QED BY <2>1 DEF Adds
<1>3. PICK n \in Nat : n = Len(v) /\ n >= k
  BY <1>1, <1>2
<1>4. \A i \in 2..n : C[i] = Undelimit(C[i - 1], v[i], mark)
  BY <1>3 DEF Undelimits
<1>5. Undelimits(C, w, mark, 1, Len(w))
  <2>1. \A i \in 2..k : i \in 2..n /\ i \in 1..k
    BY <1>1, <1>3
  <2>2. \A i \in 2..k : C[i] = Undelimit(C[i - 1], w[i], mark)
    BY <1>2, <1>4, <2>1
  <2> QED BY <1>1, <2>2 DEF Undelimits
<1>6. C[k] = z
  BY <1>1, <1>5 DEF ReadsBack
<1>7. CASE IsTitle(c)
  <2>1. n = k + 2 /\ k + 1 \in 2..n /\ k + 2 \in 2..n /\ k + 1 - 1 = k /\ k + 2 - 1 = k + 1
    BY <1>1, <1>2, <1>3, <1>7
  <2>2. C[k + 1] = Undelimit(z, mark, mark)
    <3>1. PICK i \in 2..n : i = k + 1
      BY <2>1
    <3>2. C[i] = Undelimit(C[i - 1], v[i], mark)
      BY <1>4
    <3>3. i - 1 = k /\ v[i] = mark
      BY <1>1, <1>2, <1>7, <3>1
    <3> QED BY <1>6, <3>1, <3>2, <3>3
  <2>3. C[k + 2] = Undelimit(C[k + 1], ToLower(c), mark)
    <3>1. PICK i \in 2..n : i = k + 2
      BY <2>1
    <3>2. C[i] = Undelimit(C[i - 1], v[i], mark)
      BY <1>4
    <3>3. i - 1 = k + 1 /\ v[i] = ToLower(c)
      BY <1>1, <1>2, <1>7, <3>1
    <3> QED BY <3>1, <3>2, <3>3
  <2> QED BY <1>3, <1>7, <2>1, <2>2, <2>3, OneRead
<1>8. CASE ~IsTitle(c)
  <2>1. n = k + 1 /\ k + 1 \in 2..n /\ k + 1 - 1 = k
    BY <1>1, <1>2, <1>3, <1>8
  <2>2. C[k + 1] = Undelimit(z, c, mark)
    <3>1. PICK i \in 2..n : i = k + 1
      BY <2>1
    <3>2. C[i] = Undelimit(C[i - 1], v[i], mark)
      BY <1>4
    <3>3. i - 1 = k /\ v[i] = c
      BY <1>1, <1>2, <1>8, <3>1
    <3> QED BY <1>6, <3>1, <3>2, <3>3
  <2> QED BY <1>3, <2>1, <2>2, OneRead
<1> QED BY <1>7, <1>8

\* What is spelled is read back, however long it is.
LEMMA SpelledAndRead ==
  ASSUME NEW n \in Nat, NEW text, \A i \in 2..n : text[i] \in Alphanumeric,
         NEW mark \in Marks, NEW x \in Alphanumeric, NEW y \in Alphanumeric,
         NEW K, K[1] = <<x>>, Delimits(K, text, mark, 1, n)
  PROVE  \A m \in 1..n : /\ WellSpelled(K[m], mark, x)
                         /\ ReadsBack(K[m], mark, y, ReadSoFar(text, y, m))
<1> DEFINE Good(m) == /\ WellSpelled(K[m], mark, x)
                      /\ ReadsBack(K[m], mark, y, ReadSoFar(text, y, m))
           bad == {m \in 1..n : ~Good(m)}
<1>1. Good(1)
  <2>1. PICK w : w = K[1] /\ w = <<x>>
    OBVIOUS
  <2>2. w \in Seq(Signs) /\ Len(w) = 1 /\ w[1] = x /\ x # mark
    BY <2>1, SignsAre
  <2>3. WellSpelled(w, mark, x)
    BY <2>2 DEF WellSpelled
  <2>4. ReadSoFar(text, y, 1) = <<y>>
    BY DEF ReadSoFar
  <2>5. ReadsBack(w, mark, y, <<y>>)
    BY <2>2 DEF ReadsBack
  <2> QED BY <2>1, <2>3, <2>4, <2>5
<1>2. ASSUME NEW m \in 2..n, Good(m - 1) PROVE Good(m)
  <2>1. K[m] = Delimit(K[m - 1], text[m], mark)
    BY DEF Delimits
  <2>2. PICK w, z : w = K[m - 1] /\ z = ReadSoFar(text, y, m - 1)
    OBVIOUS
  <2>3. WellSpelled(w, mark, x) /\ ReadsBack(w, mark, y, z)
    BY <1>2, <2>2
  <2>4. text[m] \in Alphanumeric /\ w \in Seq(Signs) /\ Len(w) >= 1
    BY <2>3 DEF WellSpelled
  <2>5. z \in Seq(Alphanumeric) /\ Len(z) = m - 1 /\ z # <<>>
    BY <2>2 DEF ReadSoFar
  <2>6. WellSpelled(K[m], mark, x)
    BY <2>1, <2>2, <2>3, <2>4, SpelledFurther
  <2>7. ReadsBack(K[m], mark, y, Append(z, text[m]))
    BY <2>1, <2>2, <2>3, <2>4, <2>5, ReadFurther
  <2>8. Append(z, text[m]) = ReadSoFar(text, y, m)
    BY <2>2, <2>4, <2>5 DEF ReadSoFar
  <2> QED BY <2>6, <2>7, <2>8
<1> HIDE DEF Good
<1>3. CASE bad # {}
  <2>1. PICK m \in bad : \A k \in bad : m <= k
    <3>1. bad \subseteq Nat
      OBVIOUS
    <3> HIDE DEF bad
    <3> QED BY <1>3, <3>1, LeastOf
  <2>2. m \in 1..n /\ ~Good(m)
    OBVIOUS
  <2>3. m \in 2..n
    BY <1>1, <2>2
  <2>4. m - 1 \in 1..n /\ ~(m <= m - 1)
    BY <2>3
  <2>5. Good(m - 1)
    BY <2>1, <2>4
  <2> QED BY <1>2, <2>2, <2>3, <2>5
<1>4. CASE bad = {}
  BY <1>4 DEF Good
<1> QED BY <1>3, <1>4

\* Whatever is read back from n characters is the text itself, but for the first of them.
LEMMA WholeRead ==
  ASSUME NEW text \in Seq(Alphanumeric), text # <<>>
  PROVE  ReadSoFar(text, text[1], Len(text)) = text
<1>1. text = [i \in 1..Len(text) |-> text[i]]
  BY LenProperties, SeqDef
<1> QED BY <1>1 DEF ReadSoFar

LEMMA NamesAreSigns ==
  ASSUME NEW text \in Seq(Alphanumeric), text # <<>>
  PROVE  /\ text \in Seq(Signs) /\ text[1] \in Alphanumeric
         /\ Len(text) \in Nat /\ Len(text) >= 1
         /\ \A i \in 2..Len(text) : text[i] \in Alphanumeric
<1>1. Len(text) \in Nat /\ Len(text) >= 1
  BY EmptySeq, LenProperties
<1>2. \A i \in 1..Len(text) : text[i] \in Alphanumeric
  BY <1>1
<1>3. text \in Seq(Signs)
  <2>1. Alphanumeric \subseteq Signs
    BY SignsAre
  <2> QED BY <2>1
<1> QED BY <1>1, <1>2, <1>3

\* The small forms are inverse.
LEMMA SmallInverts ==
  ASSUME NEW text \in Seq(Alphanumeric), text # <<>>, NEW mark \in Marks
  PROVE  LET w == CamelToSnakeKebabCase(text, FALSE, mark)
         IN /\ WellSpelled(w, mark, text[1])
            /\ SnakeKebabToCamelCase(w, FALSE, mark) = text
<1>1. PICK n \in Nat : n = Len(text) /\ n >= 1
  BY NamesAreSigns
<1>2. text \in Seq(Signs) /\ mark \in Signs /\ \A i \in 2..n : text[i] \in Alphanumeric
  BY <1>1, NamesAreSigns, SignsAre
<1>3. PICK x \in Alphanumeric : x = text[1]
  BY NamesAreSigns
<1>4. PICK w : w = CamelToSnakeKebabCase(text, FALSE, mark)
  OBVIOUS
<1>5. PICK K : K[1] = <<x>> /\ Delimits(K, text, mark, 1, n) /\ K[n] = w
  BY <1>1, <1>2, <1>3, <1>4, DelimitedSmall
<1>6. WellSpelled(w, mark, x) /\ ReadsBack(w, mark, x, ReadSoFar(text, x, n))
  BY <1>1, <1>2, <1>5, SpelledAndRead
<1>7. w \in Seq(Signs) /\ w # <<>> /\ w[1] = x
  BY <1>6 DEF WellSpelled
<1>8. PICK C : /\ C[1] = <<w[1]>> /\ Undelimits(C, w, mark, 1, Len(w))
               /\ C[Len(w)] = SnakeKebabToCamelCase(w, FALSE, mark)
  BY <1>2, <1>7, UndelimitedSmall
<1>9. C[Len(w)] = ReadSoFar(text, x, n)
  BY <1>6, <1>7, <1>8 DEF ReadsBack
<1> QED BY <1>1, <1>3, <1>4, <1>6, <1>8, <1>9, WholeRead

\* The super forms are, but for the case of the first letter.
LEMMA SuperInverts ==
  ASSUME NEW text \in Seq(Alphanumeric), text # <<>>, NEW mark \in Marks
  PROVE  LET w == CamelToSnakeKebabCase(text, TRUE, mark)
         IN /\ WellSpelled(w, mark, ToLower(text[1]))
            /\ SnakeKebabToCamelCase(w, TRUE, mark) =
                 ReadSoFar(text, ToUpper(ToLower(text[1])), Len(text))
<1>1. PICK n \in Nat : n = Len(text) /\ n >= 1
  BY NamesAreSigns
<1>2. text \in Seq(Signs) /\ mark \in Signs /\ \A i \in 2..n : text[i] \in Alphanumeric
  BY <1>1, NamesAreSigns, SignsAre
<1>3. PICK x \in Alphanumeric : x = ToLower(text[1])
  BY NamesAreSigns, SignsAre
<1>4. PICK y \in Alphanumeric : y = ToUpper(x)
  BY SignsAre
<1>5. PICK w : w = CamelToSnakeKebabCase(text, TRUE, mark)
  OBVIOUS
<1>6. PICK K : K[1] = <<x>> /\ Delimits(K, text, mark, 1, n) /\ K[n] = w
  BY <1>1, <1>2, <1>3, <1>5, DelimitedSuper
<1>7. WellSpelled(w, mark, x) /\ ReadsBack(w, mark, y, ReadSoFar(text, y, n))
  BY <1>1, <1>2, <1>6, SpelledAndRead
<1>8. w \in Seq(Signs) /\ w # <<>> /\ w[1] = x
  BY <1>7 DEF WellSpelled
<1>9. PICK C : /\ C[1] = <<ToUpper(w[1])>> /\ Undelimits(C, w, mark, 1, Len(w))
               /\ C[Len(w)] = SnakeKebabToCamelCase(w, TRUE, mark)
  BY <1>2, <1>8, UndelimitedSuper
<1>10. C[Len(w)] = ReadSoFar(text, y, n)
  BY <1>4, <1>7, <1>8, <1>9 DEF ReadsBack
<1> QED BY <1>1, <1>3, <1>4, <1>5, <1>7, <1>9, <1>10

\* Two names that differ in their first letter only are spelled alike after it.
SameRest(text, other, n) == \A i \in 2..n : text[i] = other[i]

LEMMA SameSpelling ==
  ASSUME NEW n \in Nat, NEW text, NEW other, SameRest(text, other, n), NEW mark,
         NEW K, Delimits(K, text, mark, 1, n), NEW L, Delimits(L, other, mark, 1, n), K[1] = L[1]
  PROVE  \A m \in 1..n : K[m] = L[m]
<1> DEFINE bad == {m \in 1..n : K[m] # L[m]}
<1>1. \A m \in 2..n : K[m - 1] = L[m - 1] => K[m] = L[m]
  <2> SUFFICES ASSUME NEW m \in 2..n, K[m - 1] = L[m - 1] PROVE K[m] = L[m]
    OBVIOUS
  <2>1. K[m] = Delimit(K[m - 1], text[m], mark) /\ L[m] = Delimit(L[m - 1], other[m], mark)
    BY DEF Delimits
  <2>2. text[m] = other[m]
    BY DEF SameRest
  <2> QED BY <2>1, <2>2
<1>2. CASE bad # {}
  <2>1. PICK m \in bad : \A k \in bad : m <= k
    <3>1. bad \subseteq Nat
      OBVIOUS
    <3> HIDE DEF bad
    <3> QED BY <1>2, <3>1, LeastOf
  <2>2. m \in 2..n /\ K[m] # L[m]
    OBVIOUS
  <2>3. m - 1 \in 1..n /\ ~(m <= m - 1)
    BY <2>2
  <2>4. K[m - 1] = L[m - 1]
    BY <2>1, <2>3
  <2> QED BY <1>1, <2>2, <2>4
<1>3. CASE bad = {}
  BY <1>3
<1> QED BY <1>2, <1>3

LEMMA FirstReplaced ==
  ASSUME NEW S, NEW text \in Seq(S), text # <<>>, NEW e \in S,
         NEW other, other = <<e>> \o Tail(text)
  PROVE  /\ other \in Seq(S) /\ other # <<>> /\ Len(other) = Len(text) /\ other[1] = e
         /\ \A i \in 2..Len(text) : other[i] = text[i]
<1>1. PICK rest : rest = Tail(text)
  OBVIOUS
<1>2. rest \in Seq(S) /\ Len(rest) = Len(text) - 1 /\ \A i \in 1..Len(rest) : rest[i] = text[i + 1]
  BY <1>1, HeadTailProperties
<1>3. Len(text) \in Nat /\ Len(text) >= 1
  BY EmptySeq, LenProperties
<1>4. <<e>> \in Seq(S) /\ Len(<<e>>) = 1
  OBVIOUS
<1>5. /\ other \in Seq(S) /\ Len(other) = 1 + Len(rest)
      /\ \A i \in 1..(1 + Len(rest)) : other[i] = IF i <= 1 THEN <<e>>[i] ELSE rest[i - 1]
  BY <1>1, <1>2, <1>4, ConcatProperties
<1>6. ASSUME NEW i \in 2..Len(text) PROVE other[i] = text[i]
  <2>1. i \in 1..(1 + Len(rest)) /\ ~(i <= 1) /\ i - 1 \in 1..Len(rest) /\ i - 1 + 1 = i
    BY <1>2, <1>3
  <2>2. rest[i - 1] = text[i]
    BY <1>2, <2>1
  <2> QED BY <1>5, <2>1, <2>2
<1> QED BY <1>2, <1>3, <1>5, <1>6

\* A letter made small and capital again is the capital letter.
LEMMA CapitalKept ==
  ASSUME NEW c \in Alphanumeric, NEW e, e = ToUpper(c)
  PROVE  ToUpper(ToLower(e)) = e
<1>1. c[1] \in {"lower", "upper", "digit"} /\ c = <<c[1], c[2]>>
  BY DEF Alphanumeric
<1>2. CASE c[1] = "lower"
  BY <1>2 DEF ToUpper, ToLower, Upper, Lower,
              IsTitle
<1>3. CASE c[1] = "upper"
  BY <1>1, <1>3 DEF ToUpper, ToLower, Upper, Lower,
                    IsTitle
<1>4. CASE c[1] = "digit"
  BY <1>4 DEF ToUpper, ToLower, IsTitle
<1> QED BY <1>1, <1>2, <1>3, <1>4

LEMMA Separated ==
  ASSUME NEW w, NEW mark, NEW x, WellSpelled(w, mark, x)
  PROVE  SeparateWords(w, mark)
<1>1. DOMAIN w = 1..Len(w) /\ Len(w) \in Nat
  BY DEF WellSpelled
<1> QED BY <1>1 DEF WellSpelled, SeparateWords

LEMMA SuperIsSmall ==
  ASSUME NEW text \in Seq(Alphanumeric), text # <<>>, NEW mark \in Marks, NEW other,
         other = <<ToLower(Head(text))>> \o Tail(text)
  PROVE  CamelToSnakeKebabCase(text, TRUE, mark) =
           CamelToSnakeKebabCase(other, FALSE, mark)
<1>1. Head(text) = text[1] /\ text[1] \in Alphanumeric
  BY NamesAreSigns
<1>2. PICK x \in Alphanumeric : x = ToLower(Head(text)) /\ x = ToLower(text[1])
  BY <1>1, SignsAre
<1>3. PICK n \in Nat : n = Len(text) /\ n >= 1
  BY NamesAreSigns
<1>4. /\ other \in Seq(Alphanumeric) /\ other # <<>> /\ Len(other) = n /\ other[1] = x
      /\ \A i \in 2..n : other[i] = text[i]
  BY <1>2, <1>3, FirstReplaced
<1>5. text \in Seq(Signs) /\ other \in Seq(Signs) /\ mark \in Signs
  BY <1>4, NamesAreSigns, SignsAre
<1>6. PICK K : /\ K[1] = <<x>> /\ Delimits(K, text, mark, 1, n)
               /\ K[n] = CamelToSnakeKebabCase(text, TRUE, mark)
  BY <1>2, <1>3, <1>5, DelimitedSuper
<1>7. PICK L : /\ L[1] = <<x>> /\ Delimits(L, other, mark, 1, n)
               /\ L[n] = CamelToSnakeKebabCase(other, FALSE, mark)
  BY <1>4, <1>5, DelimitedSmall
<1>8. K[1] = L[1] /\ n \in 1..n /\ SameRest(text, other, n)
  BY <1>3, <1>4, <1>6, <1>7 DEF SameRest
<1>9. K[n] = L[n]
  <2>1. Delimits(K, text, mark, 1, n) /\ Delimits(L, other, mark, 1, n)
    BY <1>6, <1>7
  <2>2. \A m \in 1..n : K[m] = L[m]
    BY <1>8, <2>1, SameSpelling
  <2> QED BY <1>8, <2>2
<1> QED BY <1>6, <1>7, <1>9

\* A name in camelCase, of whatever letters and digits and however long, survives its
\* spelling in kebab- or snake_case, in every form and direction, and no mark is at an end
\* of the spelling or next to another (string-utility.ts:115-243).
THEOREM NamesSurvive ==
  ASSUME NEW name \in Names
  PROVE  NamesInvert(name)
<1> DEFINE Camel(w, isSuper, mark) == SnakeKebabToCamelCase(w, isSuper, mark)
           Marked(w, isSuper, mark) == CamelToSnakeKebabCase(w, isSuper, mark)
           capital == MakeFirstLetterUppercase(name)
           small == IF name = <<>> THEN name
                    ELSE <<ToLower(Head(name))>> \o Tail(name)
           Good(mark) == /\ Camel(Marked(name, FALSE, mark), FALSE, mark) = name
                         /\ Camel(Marked(capital, TRUE, mark), TRUE, mark) = capital
                         /\ Marked(name, TRUE, mark) = Marked(small, FALSE, mark)
                         /\ SeparateWords(Marked(name, FALSE, mark), mark)
                         /\ SeparateWords(Marked(name, TRUE, mark), mark)
<1>1. Dash \in Marks /\ Underscore \in Marks
  BY DEF Dash, Underscore, Mark, Marks
<1>2. ASSUME NEW mark \in Marks, name = <<>> PROVE Good(mark)
  <2>1. \A isSuper \in BOOLEAN : /\ Marked(<<>>, isSuper, mark) = <<>>
                                 /\ Camel(<<>>, isSuper, mark) = <<>>
    BY DEF CamelToSnakeKebabCase, SnakeKebabToCamelCase
  <2>2. capital = <<>> /\ small = <<>>
    BY <1>2 DEF MakeFirstLetterUppercase
  <2>3. SeparateWords(<<>>, mark)
    BY DEF SeparateWords
  <2> HIDE DEF Camel, Marked, capital, small
  <2> QED BY <1>2, <2>1, <2>2, <2>3
<1>3. ASSUME NEW mark \in Marks, name # <<>> PROVE Good(mark)
  <2>1. name \in Seq(Alphanumeric)
    BY DEF Names, Alphanumeric
  <2>2. Head(name) = name[1] /\ name[1] \in Alphanumeric
    BY <1>3, <2>1, NamesAreSigns
  <2>3. PICK e \in Alphanumeric : e = ToUpper(Head(name))
    BY <2>2, SignsAre
  <2>4. capital = <<e>> \o Tail(name)
    BY <1>3, <2>3 DEF MakeFirstLetterUppercase
  <2>5. capital \in Seq(Alphanumeric) /\ capital # <<>> /\ capital[1] = e
    <3> HIDE DEF capital
    <3> QED BY <1>3, <2>1, <2>4, FirstReplaced
  <2>6. ToUpper(ToLower(e)) = e
    BY <2>2, <2>3, CapitalKept
  <2> HIDE DEF capital
  <2>7. Camel(Marked(capital, TRUE, mark), TRUE, mark) = capital
    <3>1. Camel(Marked(capital, TRUE, mark), TRUE, mark) =
            ReadSoFar(capital, ToUpper(ToLower(capital[1])), Len(capital))
      BY <2>5, SuperInverts
    <3>2. ReadSoFar(capital, capital[1], Len(capital)) = capital
      BY <2>5, WholeRead
    <3> QED BY <2>5, <2>6, <3>1, <3>2
  <2>8. /\ WellSpelled(Marked(name, FALSE, mark), mark, name[1])
        /\ Camel(Marked(name, FALSE, mark), FALSE, mark) = name
    BY <1>3, <2>1, SmallInverts
  <2>9. WellSpelled(Marked(name, TRUE, mark), mark, ToLower(name[1]))
    BY <1>3, <2>1, SuperInverts
  <2>10. Marked(name, TRUE, mark) = Marked(small, FALSE, mark)
    BY <1>3, <2>1, SuperIsSmall
  <2> HIDE DEF Camel, Marked, small
  <2> QED BY <2>7, <2>8, <2>9, <2>10, Separated
<1>4. Good(Dash) /\ Good(Underscore)
  BY <1>1, <1>2, <1>3
<1> QED BY <1>4 DEF NamesInvert, KebabToCamelCase,
         CamelCaseToKebab, SnakeToCamelCase, CamelCaseToSnake,
         KebabToSuperCamelCase, CamelCaseToSuperKebab,
         SnakeToSuperCamelCase, CamelCaseToSuperSnake

-------------------------------------------------------------------------------
\* All that the conversions promise.

\* A byte of a payload, and zero where it has ended.
LEMMA BytesAre ==
  ASSUME NEW bytes \in Seq(Bytes), NEW i \in Nat \ {0}
  PROVE  Byte(bytes, i) \in Bytes
<1>1. PICK n \in Nat : n = Len(bytes)
  OBVIOUS
<1>2. i <= n => bytes[i] \in Bytes
  BY <1>1
<1>3. 0 \in Bytes
  BY DEF Bytes
<1> QED BY <1>1, <1>2, <1>3 DEF Byte

\* Bytes of any number survive their spelling in base 64, and sixteen bytes that begin with
\* some of them the spelling of a uuid (url-utils.ts:8-15, uuid-utility.ts:41-60).
LEMMA BytesSurvive ==
  ASSUME NEW bytes \in Seq(Bytes)
  PROVE  BytesInvert(bytes)
<1>1. Atob(Btoa(bytes)) = bytes
  BY BytesDigitsBytes
<1>2. ASSUME NEW shift \in {0, 3, 12}, NEW sixteen,
             sixteen = [i \in 1..16 |-> IF i > shift THEN Byte(bytes, i - shift)
                                        ELSE 255]
      PROVE  /\ IsValidUuid(FromBytes(sixteen))
             /\ ToBytes(FromBytes(sixteen)) = sixteen
  <2>1. 255 \in Bytes
    BY DEF Bytes
  <2>2. ASSUME NEW i \in 1..16, i > shift
        PROVE  Byte(bytes, i - shift) \in Bytes
    <3>1. i - shift \in Nat \ {0}
      BY <2>2
    <3> QED BY <3>1, BytesAre
  <2>3. sixteen \in [1..16 -> Bytes]
    BY <1>2, <2>1, <2>2
  <2> QED BY <2>3, UuidInverts
<1> QED BY <1>1, <1>2 DEF BytesInvert

\* random draws what the format of a character promises, all of it and nothing else
\* (string-utility.ts:43-71).
LEMMA AsPromised ==
  ASSUME NEW c \in Formats
  PROVE  DrawnFor(c) = Promised(c)
<1> DEFINE Letters(case) == {<<case, k>> : k \in 0..25}
           Digs(n) == {Digit(k) : k \in 0..(n - 1)}
<1>1. CASE c = "h"
  <2>1. DrawnFor(c) = Digs(10) \union {Lower(k - 10) : k \in 10..15}
    BY ZenonT(20), <1>1 DEF DrawnFor
  <2> QED BY <1>1, <2>1 DEF Promised, Lower, Upper
<1>2. CASE c = "d"
  <2>1. DrawnFor(c) = Digs(10)
    BY ZenonT(20), <1>2 DEF DrawnFor
  <2> QED BY <1>2, <2>1 DEF Promised, Lower, Upper
<1>3. CASE c = "z"
  <2>1. DrawnFor(c) = Letters("lower")
    BY ZenonT(20), <1>3 DEF DrawnFor
  <2> QED BY <1>3, <2>1 DEF Promised, Lower, Upper
<1>4. CASE c = "a"
  <2>1. DrawnFor(c) = Letters("lower") \union Digs(10)
    BY ZenonT(20), <1>4 DEF DrawnFor
  <2> QED BY <1>4, <2>1 DEF Promised, Lower, Upper
<1>5. CASE c = "A"
  <2>1. DrawnFor(c) = Letters("lower") \union Letters("upper") \union Digs(10)
    BY ZenonT(20), <1>5 DEF DrawnFor
  <2> QED BY <1>5, <2>1 DEF Promised, Lower, Upper
<1>6. CASE c = "Z"
  <2>1. DrawnFor(c) = Letters("lower") \union Letters("upper")
    BY ZenonT(20), <1>6 DEF DrawnFor
  <2> QED BY <1>6, <2>1 DEF Promised, Lower, Upper
<1>7. CASE c = "0"
  <2>1. DrawnFor(c) = Digs(1)
    BY ZenonT(20), <1>7 DEF DrawnFor
  <2> QED BY <1>7, <2>1 DEF Promised, Lower, Upper
<1>8. CASE c = "3"
  <2>1. DrawnFor(c) = Digs(3 + 1)
    BY ZenonT(20), <1>8 DEF DrawnFor
  <2> QED BY <1>8, <2>1 DEF Promised, Lower, Upper
<1>9. CASE c = "9"
  <2>1. DrawnFor(c) = Digs(9 + 1)
    BY ZenonT(20), <1>9 DEF DrawnFor
  <2> QED BY <1>9, <2>1 DEF Promised, Lower, Upper
<1> QED BY <1>1, <1>2, <1>3, <1>4, <1>5, <1>6, <1>7, <1>8, <1>9 DEF Formats

\* Every camelCase name survives its spelling in kebab- and snake_case and is trimmed of
\* what it should be; every payload that is not a string survives its hash, and a string
\* unless it reads as JSON; any sixteen bytes survive a uuid; and random draws what the
\* comment of it promises of each character of its format (string-utility.ts:43-161,
\* url-utils.ts:6-23, uuid-utility.ts:41-60).
THEOREM ConversionsHold ==
  ASSUME sample.of = "names" => sample.name \in Names,
         sample.of = "bytes" => sample.bytes \in Seq(Bytes),
         sample.of = "payloads" => sample.payload \in Texts \union Documents,
         sample.of = "random" => sample.char \in Formats
  PROVE  ConversionsInvert
<1>1. ASSUME sample.of = "names"
      PROVE  /\ NamesInvert(sample.name)
             /\ \A chars : TrimsExactly(sample.name, chars)
  <2>1. sample.name \in Names
    BY <1>1
  <2>2. PICK S : sample.name \in Seq(S)
    BY <2>1 DEF Names
  <2> QED BY <2>1, <2>2, NamesSurvive, TrimExact
<1>2. ASSUME sample.of = "bytes"
      PROVE  BytesInvert(sample.bytes)
  BY <1>2, BytesSurvive
<1>3. ASSUME sample.of = "payloads"
      PROVE  PayloadInverts(sample.payload)
  BY <1>3, Base64Inverts
<1>4. ASSUME sample.of = "random"
      PROVE  DrawnFor(sample.char) = Promised(sample.char)
  BY <1>4, AsPromised
<1> QED BY <1>1, <1>2, <1>3, <1>4 DEF ConversionsInvert

-------------------------------------------------------------------------------
\* Validators: what the answers of the rules come to.

\* What a rule answers by whether it holds: only a nullable rule ends a validation well.
LEMMA Answers ==
  ASSUME NEW r, NEW v
  PROVE  /\ r.name \in Checked!NullableRules =>
              /\ Checked!Behaviour(r, v) \notin Checked!Saves
              /\ Checked!Behaviour(r, v) \in Checked!Breaks <=> Checked!Holds(r, v)
         /\ r.name \notin Checked!NullableRules =>
              /\ Checked!Behaviour(r, v) \in Checked!Saves <=> ~Checked!Holds(r, v)
              /\ Checked!Holds(r, v) => Checked!Behaviour(r, v) \notin Checked!Breaks
              /\ r.name \notin Checked!ValidateRules =>
                   (Checked!Behaviour(r, v) \in Checked!Breaks <=> ~Checked!Holds(r, v))
BY DEF Checked!Behaviour, Checked!Saves, Checked!Breaks

\* A validation breaks off if some rule breaks it: the first of them runs.
LEMMA Broken ==
  ASSUME NEW v, NEW S, NEW rules \in Seq(S)
  PROVE  Checked!ValidateByRules(v, rules).break <=>
           \E n \in 1..Len(rules) : Checked!Behaviour(rules[n], v) \in Checked!Breaks
<1> DEFINE Ends(n) == Checked!Behaviour(rules[n], v) \in Checked!Breaks
           ends == {n \in 1..Len(rules) : Ends(n)}
           ran == {n \in 1..Len(rules) : \A i \in 1..(n - 1) : ~Ends(i)}
<1>1. Checked!ValidateByRules(v, rules).break <=> \E n \in ran : Ends(n)
  BY DEF Checked!ValidateByRules
<1> HIDE DEF Ends
<1>2. ASSUME ends # {} PROVE \E n \in ran : Ends(n)
  <2>1. PICK n \in ends : \A m \in ends : n <= m
    <3>1. ends \subseteq Nat
      OBVIOUS
    <3> HIDE DEF ends
    <3> QED BY <1>2, <3>1, LeastOf
  <2>2. \A i \in 1..(n - 1) : ~Ends(i)
    BY <2>1
  <2> QED BY <2>1, <2>2
<1> QED BY <1>1, <1>2 DEF Ends

\* Every rule but the nullable one: those a validator adds itself, and those it is given.
OwnRules ==
  {"isString", "isBoolean", "isNumber", "isArray", "isDto", "cannotBeInfinity", "cannotBeNan",
   "cannotBeNullable", "cannotBeEmptyString", "cannotBeEmptyArray", "maxElements",
   "minElements"}
PlainRules == [name : OwnRules \union Checked!ValidateRules, arg : Int]

\* None of them is the nullable rule.
LEMMA NotNullable == \A r \in PlainRules : r.name \notin Checked!NullableRules
<1>1. "canBeNullable" \notin OwnRules
  BY DEF OwnRules
<1>2. "canBeNullable" \notin Checked!ValidateRules
  BY DEF Checked!ValidateRules
<1> QED BY <1>1, <1>2 DEF PlainRules, Checked!NullableRules

\* Every one of the rules holds.
AllHold(rules, v) == \A n \in 1..Len(rules) : Checked!Holds(rules[n], v)

\* Without nullable rules there is no error if and only if every rule holds, those
\* that did not run included.
LEMMA NoErrors ==
  ASSUME NEW v, NEW rules \in Seq(PlainRules)
  PROVE  Checked!ValidateByRules(v, rules).errors = {} <=> AllHold(rules, v)
<1> DEFINE Ends(n) == Checked!Behaviour(rules[n], v) \in Checked!Breaks
           Errs(n) == Checked!Behaviour(rules[n], v) \in Checked!Saves
           Good(n) == Checked!Holds(rules[n], v)
           ran == {n \in 1..Len(rules) : \A i \in 1..(n - 1) : ~Ends(i)}
           bad == {n \in 1..Len(rules) : ~Good(n)}
<1>1. Checked!ValidateByRules(v, rules).errors = {} <=> \A n \in ran : ~Errs(n)
  BY DEF Checked!ValidateByRules
<1>2. \A n \in 1..Len(rules) : (Errs(n) <=> ~Good(n)) /\ (Good(n) => ~Ends(n))
  <2>1. \A n \in 1..Len(rules) : rules[n] \in PlainRules
    OBVIOUS
  <2> QED BY <2>1, NotNullable, Answers
<1> HIDE DEF Ends, Errs, Good
<1>3. ASSUME bad # {} PROVE \E n \in ran : Errs(n)
  <2>1. PICK n \in bad : \A m \in bad : n <= m
    <3>1. bad \subseteq Nat
      OBVIOUS
    <3> HIDE DEF bad
    <3> QED BY <1>3, <3>1, LeastOf
  <2>2. \A i \in 1..(n - 1) : i \in 1..Len(rules) /\ Good(i)
    BY <2>1
  <2>3. n \in ran
    BY <2>1, <2>2, <1>2
  <2> QED BY <2>1, <2>3, <1>2
<1> QED BY <1>1, <1>2, <1>3 DEF Good, AllHold

\* What the rules ask for that come before those of a field itself.
LEMMA RuleHolds ==
  ASSUME NEW v, NEW n
  PROVE  /\ Checked!Holds(Checked!Rule("isString"), v) <=> v.t = "string"
         /\ Checked!Holds(Checked!Rule("isBoolean"), v) <=> v.t = "boolean"
         /\ Checked!Holds(Checked!Rule("isNumber"), v) <=> v.t = "number"
         /\ Checked!Holds(Checked!Rule("isArray"), v) <=> v.t = "array"
         /\ Checked!Holds(Checked!Rule("isDto"), v) <=> v.t = "object"
         /\ Checked!Holds(Checked!Rule("cannotBeInfinity"), v) <=> Checked!CannotBeInfinity(v)
         /\ Checked!Holds(Checked!Rule("cannotBeNan"), v) <=> Checked!CannotBeNan(v)
         /\ Checked!Holds(Checked!Rule("canBeNullable"), v) <=> Checked!CanBeNullable(v)
         /\ Checked!Holds(Checked!Rule("cannotBeNullable"), v) <=> ~Checked!CanBeNullable(v)
         /\ Checked!Holds(Checked!Rule("cannotBeEmptyString"), v)
              <=> Checked!CannotBeEmptyString(v)
         /\ Checked!Holds(Checked!Rule("cannotBeEmptyArray"), v)
              <=> Checked!CannotBeEmptyArray(v)
         /\ Checked!Holds(Checked!Limit("maxElements", n), v)
              <=> Checked!MaxArrayElementsCount(v, n)
         /\ Checked!Holds(Checked!Limit("minElements", n), v)
              <=> Checked!MinArrayElementsCount(v, n)
<1>1. \A name : Checked!Rule(name).name = name
  BY DEF Checked!Rule
<1>2. \A name : Checked!Limit(name, n).name = name /\ Checked!Limit(name, n).arg = n
  BY DEF Checked!Limit
<1>3. /\ Checked!Holds(Checked!Rule("isString"), v) <=> v.t = "string"
      /\ Checked!Holds(Checked!Rule("isBoolean"), v) <=> v.t = "boolean"
      /\ Checked!Holds(Checked!Rule("isNumber"), v) <=> v.t = "number"
  BY <1>1 DEF Checked!Holds, Checked!IsStringType, Checked!IsBooleanType, Checked!IsNumberType
<1>4. /\ Checked!Holds(Checked!Rule("isArray"), v) <=> v.t = "array"
      /\ Checked!Holds(Checked!Rule("isDto"), v) <=> v.t = "object"
  BY <1>1 DEF Checked!Holds, Checked!IsArrayType, Checked!IsDTOType
<1>5. /\ Checked!Holds(Checked!Rule("cannotBeInfinity"), v) <=> Checked!CannotBeInfinity(v)
      /\ Checked!Holds(Checked!Rule("cannotBeNan"), v) <=> Checked!CannotBeNan(v)
  BY <1>1 DEF Checked!Holds
<1>6. /\ Checked!Holds(Checked!Rule("canBeNullable"), v) <=> Checked!CanBeNullable(v)
      /\ Checked!Holds(Checked!Rule("cannotBeNullable"), v) <=> ~Checked!CanBeNullable(v)
  BY <1>1 DEF Checked!Holds, Checked!CannotBeNullable, Checked!CanBeNullable
<1>7. /\ Checked!Holds(Checked!Rule("cannotBeEmptyString"), v)
           <=> Checked!CannotBeEmptyString(v)
      /\ Checked!Holds(Checked!Rule("cannotBeEmptyArray"), v) <=> Checked!CannotBeEmptyArray(v)
  BY <1>1 DEF Checked!Holds
<1>8. /\ Checked!Holds(Checked!Limit("maxElements", n), v)
           <=> Checked!MaxArrayElementsCount(v, n)
      /\ Checked!Holds(Checked!Limit("minElements", n), v)
           <=> Checked!MinArrayElementsCount(v, n)
  BY <1>2 DEF Checked!Holds
<1> QED BY <1>3, <1>4, <1>5, <1>6, <1>7, <1>8

\* A JavaScript number is finite or one of three others.
Value(v) == v.t = "number" => v.sort \in {"finite", "NaN", "Infinity", "-Infinity"}

\* The value has the type that is declared.
HasType(f, v) ==
  IF f.dataType = "dto" THEN v.t = "object"
  ELSE IF f.dataType = "number" THEN v.t = "number" /\ v.sort = "finite"
  ELSE IF f.dataType = "boolean" THEN v.t = "boolean"
  ELSE v.t = "string"

\* A list of one rule.
LEMMA OneRule ==
  ASSUME NEW v, NEW r \in PlainRules
  PROVE  <<r>> \in Seq(PlainRules) /\ (AllHold(<<r>>, v) <=> Checked!Holds(r, v))
BY DEF AllHold

\* Of two lists one after the other all rules hold if those of each do.
LEMMA MoreRules ==
  ASSUME NEW v, NEW s \in Seq(PlainRules), NEW t \in Seq(PlainRules)
  PROVE  /\ s \o t \in Seq(PlainRules)
         /\ AllHold(s \o t, v) <=> AllHold(s, v) /\ AllHold(t, v)
<1>1. s \o t \in Seq(PlainRules) /\ Len(s \o t) = Len(s) + Len(t)
  OBVIOUS
<1>2. \A n \in 1..Len(s) : (s \o t)[n] = s[n]
  OBVIOUS
<1>3. \A n \in 1..Len(t) : (s \o t)[Len(s) + n] = t[n]
  OBVIOUS
<1>4. ASSUME AllHold(s, v), AllHold(t, v), NEW n \in 1..(Len(s) + Len(t))
      PROVE  Checked!Holds((s \o t)[n], v)
  <2>1. CASE n \in 1..Len(s)
    BY <1>2, <1>4, <2>1 DEF AllHold
  <2>2. CASE n - Len(s) \in 1..Len(t)
    BY <1>3, <1>4, <2>2 DEF AllHold
  <2> QED BY <2>1, <2>2
<1>5. ASSUME AllHold(s \o t, v) PROVE AllHold(s, v)
  BY <1>1, <1>2, <1>5 DEF AllHold
<1>6. ASSUME AllHold(s \o t, v), NEW n \in 1..Len(t) PROVE Checked!Holds(t[n], v)
  <2>1. Len(s) + n \in 1..Len(s \o t)
    BY <1>1
  <2> QED BY <2>1, <1>3, <1>6 DEF AllHold
<1> QED BY <1>1, <1>4, <1>5, <1>6 DEF AllHold

\* The rules a validator adds itself are among them.
LEMMA OwnArePlain ==
  \A name \in OwnRules : /\ Checked!Rule(name) \in PlainRules
                         /\ \A n \in Int : Checked!Limit(name, n) \in PlainRules
BY DEF PlainRules, Checked!Rule, Checked!Limit

\* The rules of a type find no error in the values of that type, and in no other; a
\* number must be finite.
LEMMA TypeChecked ==
  ASSUME NEW f, NEW v, Value(v)
  PROVE  Checked!ValidateByRules(v, Checked!TypeCheckRules(f)).errors = {} <=>
           HasType(f, v)
<1> DEFINE Passes(rules) == Checked!ValidateByRules(v, rules).errors = {}
<1>1. \A r \in PlainRules : Passes(<<r>>) <=> Checked!Holds(r, v)
  BY OneRule, NoErrors
<1>2. \A r \in PlainRules, s \in PlainRules, t \in PlainRules :
        Passes(<<r, s, t>>) <=>
          Checked!Holds(r, v) /\ Checked!Holds(s, v) /\ Checked!Holds(t, v)
  <2> TAKE r \in PlainRules, s \in PlainRules, t \in PlainRules
  <2>1. <<r, s, t>> \in Seq(PlainRules)
    OBVIOUS
  <2>2. Passes(<<r, s, t>>) <=> AllHold(<<r, s, t>>, v)
    BY <2>1, NoErrors
  <2> QED BY <2>2 DEF AllHold
<1> HIDE DEF Passes
<1>3. CASE f.dataType = "dto"
  <2>1. Checked!TypeCheckRules(f) = <<Checked!Rule("isDto")>>
    BY <1>3 DEF Checked!TypeCheckRules
  <2>2. Checked!Rule("isDto") \in PlainRules
    BY OwnArePlain DEF OwnRules
  <2>3. HasType(f, v) <=> v.t = "object"
    BY <1>3 DEF HasType
  <2> QED BY <2>1, <2>2, <2>3, <1>1, RuleHolds DEF Passes
<1>4. CASE f.dataType = "boolean"
  <2>1. Checked!TypeCheckRules(f) = <<Checked!Rule("isBoolean")>>
    BY <1>4 DEF Checked!TypeCheckRules
  <2>2. Checked!Rule("isBoolean") \in PlainRules
    BY OwnArePlain DEF OwnRules
  <2>3. HasType(f, v) <=> v.t = "boolean"
    BY <1>4 DEF HasType
  <2> QED BY <2>1, <2>2, <2>3, <1>1, RuleHolds DEF Passes
<1>5. CASE f.dataType \notin {"dto", "boolean", "number"}
  <2>1. Checked!TypeCheckRules(f) = <<Checked!Rule("isString")>>
    BY <1>5 DEF Checked!TypeCheckRules
  <2>2. Checked!Rule("isString") \in PlainRules
    BY OwnArePlain DEF OwnRules
  <2>3. HasType(f, v) <=> v.t = "string"
    BY <1>5 DEF HasType
  <2> QED BY <2>1, <2>2, <2>3, <1>1, RuleHolds DEF Passes
<1>6. CASE f.dataType = "number"
  <2>1. Checked!TypeCheckRules(f) =
          <<Checked!Rule("isNumber"), Checked!Rule("cannotBeInfinity"),
            Checked!Rule("cannotBeNan")>>
    BY <1>6 DEF Checked!TypeCheckRules
  <2>2. /\ Checked!Rule("isNumber") \in PlainRules
        /\ Checked!Rule("cannotBeInfinity") \in PlainRules
        /\ Checked!Rule("cannotBeNan") \in PlainRules
    BY OwnArePlain DEF OwnRules
  <2>3. HasType(f, v) <=> v.t = "number" /\ v.sort = "finite"
    BY <1>6 DEF HasType
  <2>4. HasType(f, v) <=>
          v.t = "number" /\ Checked!CannotBeInfinity(v) /\ Checked!CannotBeNan(v)
    BY <2>3 DEF Value, Checked!CannotBeInfinity, Checked!CannotBeNan
  <2>5. Passes(Checked!TypeCheckRules(f)) <=>
          v.t = "number" /\ Checked!CannotBeInfinity(v) /\ Checked!CannotBeNan(v)
    BY <2>1, <2>2, <1>2, RuleHolds
  <2> QED BY <2>4, <2>5 DEF Passes
<1> QED BY <1>3, <1>4, <1>5, <1>6

\* What is asked of the value of a required field before its type is checked.
NullChecks(f, v) ==
  ~Checked!CanBeNullable(v) /\ (f.dataType = "string" => Checked!CannotBeEmptyString(v))

\* A value that is not there, or that is there and empty, ends the validation: well if
\* the field is not required.
LEMMA NullChecked ==
  ASSUME NEW f, NEW v, NEW answer,
         answer = Checked!ValidateByRules(v, Checked!RequiredOrNullableRules(f))
  PROVE  /\ f.isRequired => /\ answer.errors = {} <=> NullChecks(f, v)
                            /\ answer.break <=> ~NullChecks(f, v)
         /\ ~f.isRequired => /\ answer.errors = {}
                             /\ answer.break <=> Checked!CanBeNullable(v)
<1> DEFINE required == <<Checked!Rule("cannotBeNullable")>>
           filled == <<Checked!Rule("cannotBeEmptyString")>>
           nullable == <<Checked!Rule("canBeNullable")>>
<1>1. ASSUME NEW rules \in Seq(PlainRules), answer = Checked!ValidateByRules(v, rules),
             \A n \in 1..Len(rules) : rules[n].name \notin Checked!ValidateRules
      PROVE  (answer.errors = {} <=> AllHold(rules, v)) /\ (answer.break <=> ~AllHold(rules, v))
  <2>1. \A n \in 1..Len(rules) : Checked!Behaviour(rules[n], v) \in Checked!Breaks
                                    <=> ~Checked!Holds(rules[n], v)
    <3>1. \A n \in 1..Len(rules) : rules[n] \in PlainRules
      OBVIOUS
    <3> QED BY <3>1, <1>1, NotNullable, Answers
  <2> QED BY <2>1, <1>1, NoErrors, Broken DEF AllHold
<1>2. Checked!Rule("cannotBeNullable") \in PlainRules
  BY OwnArePlain DEF OwnRules
<1>3. Checked!Rule("cannotBeEmptyString") \in PlainRules
  BY OwnArePlain DEF OwnRules
<1>4. ASSUME NEW r \in PlainRules PROVE <<r>> \in Seq(PlainRules)
  OBVIOUS
<1>5. required \in Seq(PlainRules) /\ filled \in Seq(PlainRules)
  BY <1>2, <1>3, <1>4
<1>6. /\ AllHold(required, v) <=> ~Checked!CanBeNullable(v)
      /\ AllHold(filled, v) <=> Checked!CannotBeEmptyString(v)
  BY <1>2, <1>3, OneRule, RuleHolds
<1>7. CASE f.isRequired /\ f.dataType = "string"
  <2>1. Checked!RequiredOrNullableRules(f) = required \o filled
    BY <1>7 DEF Checked!RequiredOrNullableRules
  <2>2. \A n \in 1..Len(required \o filled) :
          (required \o filled)[n].name \notin Checked!ValidateRules
    BY DEF Checked!Rule, Checked!ValidateRules
  <2>3. required \o filled \in Seq(PlainRules)
        /\ (AllHold(required \o filled, v) <=> AllHold(required, v) /\ AllHold(filled, v))
    BY <1>5, MoreRules
  <2> QED BY <2>1, <2>2, <2>3, <1>1, <1>6, <1>7 DEF NullChecks
<1>8. CASE f.isRequired /\ f.dataType # "string"
  <2>1. Checked!RequiredOrNullableRules(f) = required
    BY <1>5, <1>8 DEF Checked!RequiredOrNullableRules
  <2>2. \A n \in 1..Len(required) : required[n].name \notin Checked!ValidateRules
    BY DEF Checked!Rule, Checked!ValidateRules
  <2> QED BY <2>1, <2>2, <1>1, <1>5, <1>6, <1>8 DEF NullChecks
<1>9. CASE ~f.isRequired
  <2>1. Checked!RequiredOrNullableRules(f) = nullable
    BY <1>9 DEF Checked!RequiredOrNullableRules
  <2>2. Len(nullable) = 1 /\ nullable[1] = Checked!Rule("canBeNullable")
    OBVIOUS
  <2>3. nullable \in Seq({Checked!Rule("canBeNullable")})
    OBVIOUS
  <2>4. Checked!Rule("canBeNullable").name \in Checked!NullableRules
    BY DEF Checked!Rule, Checked!NullableRules
  <2> HIDE DEF nullable
  <2>5. answer.break <=> Checked!CanBeNullable(v)
    <3>1. answer.break <=> \E n \in 1..Len(nullable) :
                              Checked!Behaviour(nullable[n], v) \in Checked!Breaks
      BY <2>1, <2>3, Broken
    <3>2. answer.break <=> Checked!Behaviour(nullable[1], v) \in Checked!Breaks
      BY <3>1, <2>2
    <3> QED BY <3>2, <2>2, <2>4, Answers, RuleHolds
  <2>6. answer.errors = {}
    BY <2>1, <2>2, <2>4, Answers DEF Checked!ValidateByRules
  <2> QED BY <1>9, <2>5, <2>6
<1> QED BY <1>7, <1>8, <1>9

\* A rule that is there on a condition.
LEMMA OptionalRule ==
  ASSUME NEW v, NEW c, NEW r \in PlainRules
  PROVE  /\ (IF c THEN <<r>> ELSE <<>>) \in Seq(PlainRules)
         /\ AllHold(IF c THEN <<r>> ELSE <<>>, v) <=> (c => Checked!Holds(r, v))
<1>1. CASE c
  BY <1>1, OneRule
<1>2. CASE ~c
  BY <1>2 DEF AllHold
<1> QED BY <1>1, <1>2

\* What the configuration of an array asks of it.
ArrayChecks(c, v) ==
  /\ v.t = "array"
  /\ c.mustBeFilled => v.items # <<>>
  /\ c.max >= 0 => Len(v.items) <= c.max
  /\ c.min >= 0 => Len(v.items) >= c.min

\* The rules of an array say just that.
LEMMA ArrayChecked ==
  ASSUME NEW c, c.max \in Int, c.min \in Int, NEW v
  PROVE  Checked!ValidateByRules(v, Checked!ArrayAssertionRules(c)).errors = {} <=>
           ArrayChecks(c, v)
<1> DEFINE isArray == <<Checked!Rule("isArray")>>
           filled == IF c.mustBeFilled THEN <<Checked!Rule("cannotBeEmptyArray")>> ELSE <<>>
           atMost == IF c.max >= 0 THEN <<Checked!Limit("maxElements", c.max)>> ELSE <<>>
           atLeast == IF c.min >= 0 THEN <<Checked!Limit("minElements", c.min)>> ELSE <<>>
<1>1. Checked!ArrayAssertionRules(c) = isArray \o filled \o atMost \o atLeast
  BY DEF Checked!ArrayAssertionRules
<1>2. /\ Checked!Rule("isArray") \in PlainRules
      /\ Checked!Rule("cannotBeEmptyArray") \in PlainRules
      /\ Checked!Limit("maxElements", c.max) \in PlainRules
      /\ Checked!Limit("minElements", c.min) \in PlainRules
  BY OwnArePlain DEF OwnRules
<1>3. isArray \in Seq(PlainRules) /\ (AllHold(isArray, v) <=> v.t = "array")
  BY <1>2, OneRule, RuleHolds
<1>4. /\ filled \in Seq(PlainRules)
      /\ AllHold(filled, v) <=> (c.mustBeFilled => Checked!CannotBeEmptyArray(v))
  BY <1>2, OptionalRule, RuleHolds
<1>5. /\ atMost \in Seq(PlainRules)
      /\ AllHold(atMost, v) <=> (c.max >= 0 => Checked!MaxArrayElementsCount(v, c.max))
  BY <1>2, OptionalRule, RuleHolds
<1>6. /\ atLeast \in Seq(PlainRules)
      /\ AllHold(atLeast, v) <=> (c.min >= 0 => Checked!MinArrayElementsCount(v, c.min))
  BY <1>2, OptionalRule, RuleHolds
<1> HIDE DEF isArray, filled, atMost, atLeast
<1>7. /\ isArray \o filled \o atMost \o atLeast \in Seq(PlainRules)
      /\ AllHold(isArray \o filled \o atMost \o atLeast, v) <=>
           /\ AllHold(isArray, v) /\ AllHold(filled, v)
           /\ AllHold(atMost, v) /\ AllHold(atLeast, v)
  <2>1. /\ isArray \o filled \in Seq(PlainRules)
        /\ AllHold(isArray \o filled, v) <=> AllHold(isArray, v) /\ AllHold(filled, v)
    BY <1>3, <1>4, MoreRules
  <2>2. /\ (isArray \o filled) \o atMost \in Seq(PlainRules)
        /\ AllHold((isArray \o filled) \o atMost, v)
             <=> AllHold(isArray \o filled, v) /\ AllHold(atMost, v)
    BY <2>1, <1>5, MoreRules
  <2>3. /\ ((isArray \o filled) \o atMost) \o atLeast \in Seq(PlainRules)
        /\ AllHold(((isArray \o filled) \o atMost) \o atLeast, v)
             <=> AllHold((isArray \o filled) \o atMost, v) /\ AllHold(atLeast, v)
    BY <2>2, <1>6, MoreRules
  <2> QED BY <2>1, <2>2, <2>3
<1> QED
  BY <1>1, <1>3, <1>4, <1>5, <1>6, <1>7, NoErrors
  DEF ArrayChecks, Checked!CannotBeEmptyArray, Checked!MaxArrayElementsCount,
      Checked!MinArrayElementsCount

-------------------------------------------------------------------------------
\* What the validator of a field makes of the answers.

\* The results of the fields below: a result is a function.
IsResult(r) == r = [key \in DOMAIN r |-> r[key]]

\* The result without keys is the success.
LEMMA EmptyResult ==
  ASSUME NEW r, IsResult(r)
  PROVE  r = Checked!Success <=> DOMAIN r = {}
<1>1. DOMAIN Checked!Success = {}
  BY DEF Checked!Success
<1>2. ASSUME DOMAIN r = {} PROVE r = Checked!Success
  BY <1>2 DEF IsResult, Checked!Success
<1> QED BY <1>1, <1>2

\* A result with errors is a failure, and one without is not.
LEMMA NoFailure ==
  ASSUME NEW key, NEW errors, NEW r
  PROVE  /\ Checked!RuleErrors(key, errors) = Checked!Success <=> errors = {}
         /\ Checked!FieldErrors(key, r) = Checked!Success <=> r = Checked!Success
<1>1. \A x : [k \in {key} |-> x] # Checked!Success
  <2> TAKE x
  <2>1. DOMAIN [k \in {key} |-> x] = {key}
    OBVIOUS
  <2>2. DOMAIN Checked!Success = {}
    BY DEF Checked!Success
  <2> QED BY <2>1, <2>2
<1> QED BY <1>1 DEF Checked!RuleErrors, Checked!FieldErrors

\* Of the failures of the attributes none is lost, though two of them may have the same
\* key: a key of one is a key of the whole, which holds what that attribute or a later one
\* said, and the whole is a success only if each of them is (dto-field-validator.ts:42-56).
THEOREM MergedResults ==
  ASSUME NEW results, NEW n \in Nat, DOMAIN results = 1..n, \A i \in 1..n : IsResult(results[i])
  PROVE  /\ Checked!Merged(results) = Checked!Success <=>
              \A i \in 1..n : results[i] = Checked!Success
         /\ \A i \in 1..n : \A key \in DOMAIN results[i] :
              /\ key \in DOMAIN Checked!Merged(results)
              /\ \E j \in i..n : /\ key \in DOMAIN results[j]
                                 /\ Checked!Merged(results)[key] = results[j][key]
<1> DEFINE keys == UNION {DOMAIN results[i] : i \in 1..n}
           With(key) == {i \in 1..n : key \in DOMAIN results[i]}
<1>1. Checked!Merged(results) =
        [key \in keys |-> results[Checked!Max(With(key))][key]]
  BY DEF Checked!Merged
<1>2. \A i \in 1..n : results[i] = Checked!Success <=> DOMAIN results[i] = {}
  BY EmptyResult
<1>3. Checked!Merged(results) = Checked!Success <=> keys = {}
  <2> HIDE DEF keys, With
  <2>1. DOMAIN Checked!Merged(results) = keys /\ DOMAIN Checked!Success = {}
    BY <1>1 DEF Checked!Success
  <2>2. ASSUME keys = {} PROVE Checked!Merged(results) = Checked!Success
    BY <1>1, <2>2 DEF Checked!Success
  <2> QED BY <2>1, <2>2
<1>4. ASSUME NEW i \in 1..n, NEW key \in DOMAIN results[i]
      PROVE  \E j \in i..n : /\ key \in DOMAIN results[j]
                             /\ Checked!Merged(results)[key] = results[j][key]
  <2>1. With(key) \subseteq 0..n /\ i \in With(key)
    OBVIOUS
  <2> HIDE DEF With
  <2>2. Max(With(key)) \in With(key) /\ i <= Max(With(key))
    BY <2>1, MaxOf
  <2>3. Max(With(key)) = Checked!Max(With(key))
    BY DEF Max, Checked!Max
  <2>4. PICK j : j = Max(With(key))
    OBVIOUS
  <2>5. j \in i..n /\ key \in DOMAIN results[j] /\ key \in keys
    BY <2>2, <2>4 DEF With
  <2>6. Checked!Merged(results)[key] = results[j][key]
    BY <1>1, <2>3, <2>4, <2>5
  <2> QED BY <2>5, <2>6
<1>5. keys = {} <=> \A i \in 1..n : DOMAIN results[i] = {}
  OBVIOUS
<1>6. DOMAIN Checked!Merged(results) = keys
  BY <1>1
<1>7. \A i \in 1..n : \A key \in DOMAIN results[i] : key \in keys
  OBVIOUS
<1> HIDE DEF keys, With
<1>8. Checked!Merged(results) = Checked!Success <=>
        \A i \in 1..n : results[i] = Checked!Success
  BY <1>2, <1>3, <1>5
<1> QED BY <1>4, <1>6, <1>7, <1>8

\* A value that has a type is there.
LEMMA There ==
  ASSUME NEW v
  PROVE  /\ v.t \in {"object", "number", "boolean", "string", "array"} => ~Checked!CanBeNullable(v)
         /\ v.t = "array" => Checked!CannotBeEmptyString(v)
BY DEF Checked!CanBeNullable, Checked!Undefined, Checked!Null, Checked!CannotBeEmptyString

\* A validator of one value accepts it if and only if it is missing and need not be there,
\* or has the declared type and satisfies every rule of the field, or, if it is an object,
\* those of its attributes accept theirs: in whatever order the rules stand and wherever
\* validateByRules breaks off (literal-field-validator.ts:28-45,
\* dto-field-validator.ts:29-57).
THEOREM FieldsDecide ==
  ASSUME NEW f, f.rules \in Seq(PlainRules), NEW v, Value(v),
         NEW results, NEW n \in Nat, DOMAIN results = 1..n, \A i \in 1..n : IsResult(results[i])
  PROVE  Checked!ValueErrors(f, v, results) = Checked!Success <=>
           \/ ~f.isArray /\ ~f.isRequired /\ Checked!CanBeNullable(v)
           \/ /\ HasType(f, v)
              /\ ~f.isArray /\ f.isRequired /\ f.dataType = "string" => v.s # <<>>
              /\ IF f.dataType = "dto" THEN \A i \in 1..n : results[i] = Checked!Success
                 ELSE AllHold(f.rules, v)
<1> DEFINE null == Checked!ValidateByRules(v, Checked!RequiredOrNullableRules(f))
           type == Checked!ValidateByRules(v, Checked!TypeCheckRules(f))
           own == IF f.dataType = "dto" THEN \A i \in 1..n : results[i] = Checked!Success
                  ELSE AllHold(f.rules, v)
           key == Checked!FailKey(f)
           errors == Checked!ValueErrors(f, v, results)
<1>1. /\ f.isRequired => /\ null.errors = {} <=> NullChecks(f, v)
                         /\ null.break <=> ~NullChecks(f, v)
      /\ ~f.isRequired => null.errors = {} /\ (null.break <=> Checked!CanBeNullable(v))
  BY NullChecked
<1>2. type.errors = {} <=> HasType(f, v)
  BY TypeChecked
<1>3. IF f.dataType = "dto"
      THEN (Checked!FieldErrors(f.attrName, Checked!Merged(results)) = Checked!Success) <=> own
      ELSE (Checked!RuleErrors(f.attrName, Checked!ValidateByRules(v, f.rules).errors)
              = Checked!Success) <=> own
  <2>1. Checked!FieldErrors(f.attrName, Checked!Merged(results)) = Checked!Success <=>
          \A i \in 1..n : results[i] = Checked!Success
    <3>1. Checked!Merged(results) = Checked!Success <=>
            \A i \in 1..n : results[i] = Checked!Success
      BY MergedResults
    <3> QED BY <3>1, NoFailure
  <2>2. (Checked!RuleErrors(f.attrName, Checked!ValidateByRules(v, f.rules).errors)
           = Checked!Success) <=> AllHold(f.rules, v)
    <3>1. PICK set : set = Checked!ValidateByRules(v, f.rules).errors
      OBVIOUS
    <3>2. set = {} <=> AllHold(f.rules, v)
      BY <3>1, NoErrors
    <3>3. Checked!RuleErrors(f.attrName, set) = Checked!Success <=> set = {}
      BY NoFailure
    <3> QED BY <3>1, <3>2, <3>3
  <2> QED BY <2>1, <2>2
<1>4. errors =
        IF ~f.isArray /\ null.break THEN Checked!RuleErrors(key, null.errors)
        ELSE IF type.errors # {} THEN Checked!RuleErrors(key, type.errors)
        ELSE IF f.dataType = "dto"
             THEN Checked!FieldErrors(f.attrName, Checked!Merged(results))
        ELSE Checked!RuleErrors(f.attrName, Checked!ValidateByRules(v, f.rules).errors)
  BY DEF Checked!ValueErrors
<1>5. \A set : Checked!RuleErrors(key, set) = Checked!Success <=> set = {}
  BY NoFailure
<1>6. HasType(f, v) => ~Checked!CanBeNullable(v)
  BY There DEF HasType
<1>7. HasType(f, v) /\ f.dataType = "string" => (Checked!CannotBeEmptyString(v) <=> v.s # <<>>)
  BY DEF HasType, Checked!CannotBeEmptyString
<1> HIDE DEF null, type, own, key, errors
<1>8. errors = Checked!Success <=>
        IF ~f.isArray /\ null.break THEN null.errors = {} ELSE HasType(f, v) /\ own
  BY <1>2, <1>3, <1>4, <1>5
<1>9. CASE ~f.isArray /\ f.isRequired
  BY <1>1, <1>6, <1>7, <1>8, <1>9 DEF NullChecks, own, errors
<1>10. CASE ~f.isArray /\ ~f.isRequired
  BY <1>1, <1>6, <1>8, <1>10 DEF own, errors
<1>11. CASE f.isArray
  BY <1>8, <1>11 DEF own, errors
<1> QED BY <1>9, <1>10, <1>11

\* A validator of an array accepts it if and only if it is missing and need not be there,
\* or is an array of a length its configuration allows, and every element is accepted
\* (field-validator.ts:70-100).
THEOREM ArraysDecide ==
  ASSUME NEW f, f.arrayConfig.max \in Int, f.arrayConfig.min \in Int, NEW v, NEW results
  PROVE  Checked!ArrayErrors(f, v, results) = Checked!Success <=>
           \/ ~f.isRequired /\ Checked!CanBeNullable(v)
           \/ /\ ArrayChecks(f.arrayConfig, v)
              /\ \A i \in DOMAIN results : results[i] = Checked!Success
<1> DEFINE null == Checked!ValidateByRules(v, Checked!RequiredOrNullableRules(f))
           whole == Checked!ValidateByRules(v, Checked!ArrayAssertionRules(f.arrayConfig))
           bad == {i \in DOMAIN results : results[i] # Checked!Success}
           key == Checked!ArrayWhole
           named == {Checked!ToString(i - 1) : i \in bad}
           items == [k \in named |->
                      [rules |-> {},
                       fields |-> results[CHOOSE i \in bad : Checked!ToString(i - 1) = k]]]
           errors == Checked!ArrayErrors(f, v, results)
<1>1. /\ f.isRequired => /\ null.errors = {} <=> NullChecks(f, v)
                         /\ null.break <=> ~NullChecks(f, v)
      /\ ~f.isRequired => null.errors = {} /\ (null.break <=> Checked!CanBeNullable(v))
  BY NullChecked
<1>2. whole.errors = {} <=> ArrayChecks(f.arrayConfig, v)
  BY ArrayChecked
<1>3. items = Checked!Success <=> bad = {}
  <2>1. named = {} <=> bad = {}
    OBVIOUS
  <2> HIDE DEF named, bad
  <2> QED BY <2>1 DEF Checked!Success
<1>4. errors = IF null.break THEN Checked!RuleErrors(key, null.errors)
               ELSE IF whole.errors # {} THEN Checked!RuleErrors(key, whole.errors)
               ELSE items
  BY DEF Checked!ArrayErrors
<1>5. \A set : Checked!RuleErrors(key, set) = Checked!Success <=> set = {}
  BY NoFailure
<1>6. ArrayChecks(f.arrayConfig, v) => NullChecks(f, v)
  BY There DEF ArrayChecks, NullChecks
<1>7. bad = {} <=> \A i \in DOMAIN results : results[i] = Checked!Success
  OBVIOUS
<1> HIDE DEF null, whole, bad, key, items, errors
<1>8. errors = Checked!Success <=>
        IF null.break THEN null.errors = {} ELSE ArrayChecks(f.arrayConfig, v) /\ bad = {}
  BY <1>2, <1>3, <1>4, <1>5
<1>9. CASE f.isRequired
  BY <1>1, <1>6, <1>7, <1>8, <1>9 DEF errors
<1>10. CASE ~f.isRequired
  BY <1>1, <1>6, <1>7, <1>8, <1>10 DEF errors, NullChecks
<1> QED BY <1>9, <1>10

\* An array of literals is accepted, element by element, by its type and its rules: an
\* element that is null or undefined never is, though the field itself may be missing.
THEOREM LiteralArraysDecide ==
  ASSUME NEW f, f.arrayConfig.max \in Int, f.arrayConfig.min \in Int,
         f.isArray, f.dataType # "dto", f.rules \in Seq(PlainRules),
         NEW v, \A i \in DOMAIN v.items : Value(v.items[i])
  PROVE  Checked!ArrayErrors(f, v, [i \in DOMAIN v.items |->
                                      Checked!ValueErrors(f, v.items[i], <<>>)])
           = Checked!Success
         <=> \/ ~f.isRequired /\ Checked!CanBeNullable(v)
             \/ /\ ArrayChecks(f.arrayConfig, v)
                /\ \A i \in DOMAIN v.items :
                     HasType(f, v.items[i]) /\ AllHold(f.rules, v.items[i])
<1> DEFINE results == [i \in DOMAIN v.items |-> Checked!ValueErrors(f, v.items[i], <<>>)]
<1>1. \A x : Value(x) => (Checked!ValueErrors(f, x, <<>>) = Checked!Success <=>
                            HasType(f, x) /\ AllHold(f.rules, x))
  <2> SUFFICES ASSUME NEW x, Value(x)
               PROVE  Checked!ValueErrors(f, x, <<>>) = Checked!Success <=>
                        HasType(f, x) /\ AllHold(f.rules, x)
    OBVIOUS
  <2>1. 0 \in Nat /\ DOMAIN <<>> = 1..0 /\ \A i \in 1..0 : IsResult(<<>>[i])
    OBVIOUS
  <2>2. Checked!ValueErrors(f, x, <<>>) = Checked!Success <=>
           \/ ~f.isArray /\ ~f.isRequired /\ Checked!CanBeNullable(x)
           \/ /\ HasType(f, x)
              /\ ~f.isArray /\ f.isRequired /\ f.dataType = "string" => x.s # <<>>
              /\ IF f.dataType = "dto" THEN \A i \in 1..0 : <<>>[i] = Checked!Success
                 ELSE AllHold(f.rules, x)
    BY <2>1, FieldsDecide
  <2> QED BY <2>2
<1>2. Checked!ArrayErrors(f, v, results) = Checked!Success <=>
           \/ ~f.isRequired /\ Checked!CanBeNullable(v)
           \/ /\ ArrayChecks(f.arrayConfig, v)
              /\ \A i \in DOMAIN results : results[i] = Checked!Success
  <2> HIDE DEF results
  <2> QED BY ArraysDecide
<1>3. (\A i \in DOMAIN results : results[i] = Checked!Success) <=>
        \A i \in DOMAIN v.items : HasType(f, v.items[i]) /\ AllHold(f.rules, v.items[i])
  BY <1>1
<1> QED BY <1>2, <1>3

-------------------------------------------------------------------------------
\* Validators of nested declarations.

\* The result of validate, for each of the declarations F and of the values U: by those of
\* the fields below, as the recursion of Validators has it.
ItemErrors(result, f, v) == Checked!ValidateValue(f, v, LAMBDA g, w : result[g][w])

Validates(result, F, U) ==
  \A f \in F : \A v \in U :
    result[f][v] = Checked!Validated(f, v, LAMBDA g, w : result[g][w])

\* The type a declaration describes, of one value or of an array of them (types.ts), by the
\* types of the fields below: the values of the type and what may be missing of it.
ItemOf(type, f, v) ==
  /\ HasType(f, v)
  /\ IF f.dataType = "dto"
     THEN \A i \in DOMAIN f.dtoMap :
            Checked!Get(v, f.dtoMap[i].attrName) \in type[f.dtoMap[i]]
     ELSE AllHold(f.rules, v)

Described(type, f, v) ==
  \/ ~f.isRequired /\ Checked!CanBeNullable(v)
  \/ /\ f.isArray
     /\ ArrayChecks(f.arrayConfig, v)
     /\ \A i \in DOMAIN v.items : ItemOf(type, f, v.items[i])
  \/ /\ ~f.isArray
     /\ ItemOf(type, f, v)
     /\ f.isRequired /\ f.dataType = "string" => v.s # <<>>

Describes(type, F, U) == \A f \in F : \A v \in U : v \in type[f] <=> Described(type, f, v)

\* Declarations that are nested to a finite depth, and values with all that is in them.
Declared(F, depth) ==
  \A f \in F :
    /\ depth[f] \in Nat
    /\ f.rules \in Seq(PlainRules) /\ f.arrayConfig.max \in Int /\ f.arrayConfig.min \in Int
    /\ \E n \in Nat : DOMAIN f.dtoMap = 1..n
    /\ \A i \in DOMAIN f.dtoMap : f.dtoMap[i] \in F /\ depth[f.dtoMap[i]] < depth[f]

Closed(U) ==
  \A v \in U : /\ Value(v)
               /\ v.t = "object" => \A attr : Checked!Get(v, attr) \in U
               /\ v.t = "array" => \A i \in DOMAIN v.items : v.items[i] \in U

\* A validator returns a result, and accepts the values of the declared type.
Agrees(result, type, f, U) ==
  \A v \in U : /\ IsResult(result[f][v])
               /\ result[f][v] = Checked!Success <=> v \in type[f]

\* Whatever a validator returns is a result.
LEMMA AreResults ==
  ASSUME NEW f, NEW v, NEW results
  PROVE  /\ IsResult(Checked!ValueErrors(f, v, results))
         /\ IsResult(Checked!ArrayErrors(f, v, results))
<1>1. IsResult(Checked!Success)
  BY DEF Checked!Success, IsResult
<1>2. \A key, x : IsResult([k \in {key} |-> x])
  BY DEF IsResult
<1>3. \A key, errors : IsResult(Checked!RuleErrors(key, errors))
  BY <1>1, <1>2 DEF Checked!RuleErrors
<1>4. \A key, r : IsResult(Checked!FieldErrors(key, r))
  BY <1>1, <1>2 DEF Checked!FieldErrors
<1>5. IsResult(Checked!ValueErrors(f, v, results))
  BY <1>3, <1>4 DEF Checked!ValueErrors
<1>6. IsResult(Checked!ArrayErrors(f, v, results))
  <2> DEFINE bad == {i \in DOMAIN results : results[i] # Checked!Success}
             named == {Checked!ToString(i - 1) : i \in bad}
             null == Checked!ValidateByRules(v, Checked!RequiredOrNullableRules(f))
             whole ==
               Checked!ValidateByRules(v, Checked!ArrayAssertionRules(f.arrayConfig))
             items == [k \in named |->
                        [rules |-> {},
                         fields |-> results[CHOOSE i \in bad : Checked!ToString(i - 1) = k]]]
  <2>1. IsResult(items)
    <3> HIDE DEF named, bad
    <3> QED BY DEF IsResult
  <2>2. Checked!ArrayErrors(f, v, results) =
          IF null.break THEN Checked!RuleErrors(Checked!ArrayWhole, null.errors)
          ELSE IF whole.errors # {} THEN Checked!RuleErrors(Checked!ArrayWhole, whole.errors)
          ELSE items
    BY DEF Checked!ArrayErrors
  <2> HIDE DEF items, null, whole
  <2> QED BY <1>3, <2>1, <2>2
<1> QED BY <1>5, <1>6

\* A value that has not the type of an object is judged without the fields below.
LEMMA NotBelow ==
  ASSUME NEW f, NEW v, Value(v), NEW results, ~HasType(f, v) \/ f.dataType # "dto"
  PROVE  Checked!ValueErrors(f, v, results) = Checked!ValueErrors(f, v, <<>>)
<1> DEFINE null == Checked!ValidateByRules(v, Checked!RequiredOrNullableRules(f))
           type == Checked!ValidateByRules(v, Checked!TypeCheckRules(f))
           rest == Checked!RuleErrors(f.attrName, Checked!ValidateByRules(v, f.rules).errors)
<1>1. \A r : Checked!ValueErrors(f, v, r) =
        IF ~f.isArray /\ null.break THEN Checked!RuleErrors(Checked!FailKey(f), null.errors)
        ELSE IF type.errors # {} THEN Checked!RuleErrors(Checked!FailKey(f), type.errors)
        ELSE IF f.dataType = "dto" THEN Checked!FieldErrors(f.attrName, Checked!Merged(r))
        ELSE rest
  BY DEF Checked!ValueErrors
<1>2. type.errors # {} \/ f.dataType # "dto"
  BY TypeChecked
<1> HIDE DEF null, type, rest
<1> QED BY <1>1, <1>2

\* One value, once the validators of the fields below agree with their types.
LEMMA ItemDecided ==
  ASSUME NEW F, NEW U, NEW depth, Declared(F, depth), Closed(U), NEW result, NEW type,
         NEW f \in F, \A i \in DOMAIN f.dtoMap : Agrees(result, type, f.dtoMap[i], U),
         NEW v \in U
  PROVE  ItemErrors(result, f, v) = Checked!Success <=>
           \/ ~f.isArray /\ ~f.isRequired /\ Checked!CanBeNullable(v)
           \/ /\ ItemOf(type, f, v)
              /\ ~f.isArray /\ f.isRequired /\ f.dataType = "string" => v.s # <<>>
<1> DEFINE below == [i \in DOMAIN f.dtoMap |->
                       result[f.dtoMap[i]][Checked!Get(v, f.dtoMap[i].attrName)]]
<1>1. f.rules \in Seq(PlainRules) /\ Value(v)
  BY DEF Declared, Closed
<1>2. CASE HasType(f, v) /\ f.dataType = "dto"
  <2>1. PICK n \in Nat : DOMAIN f.dtoMap = 1..n
    BY DEF Declared
  <2>2. \A attr : Checked!Get(v, attr) \in U
    BY <1>2 DEF HasType, Closed
  <2>3. ASSUME NEW i \in 1..n
        PROVE  /\ IsResult(below[i])
               /\ below[i] = Checked!Success <=>
                    Checked!Get(v, f.dtoMap[i].attrName) \in type[f.dtoMap[i]]
    BY <2>1, <2>2 DEF Agrees
  <2>4. DOMAIN below = 1..n
    BY <2>1
  <2> HIDE DEF below
  <2>5. Checked!ValueErrors(f, v, below) = Checked!Success <=>
           \/ ~f.isArray /\ ~f.isRequired /\ Checked!CanBeNullable(v)
           \/ /\ HasType(f, v)
              /\ ~f.isArray /\ f.isRequired /\ f.dataType = "string" => v.s # <<>>
              /\ IF f.dataType = "dto" THEN \A i \in 1..n : below[i] = Checked!Success
                 ELSE AllHold(f.rules, v)
    BY <1>1, <2>3, <2>4, FieldsDecide
  <2>6. ItemOf(type, f, v) <=> \A i \in 1..n : below[i] = Checked!Success
    BY <1>2, <2>1, <2>3 DEF ItemOf
  <2>7. ItemErrors(result, f, v) = Checked!ValueErrors(f, v, below)
    BY DEF ItemErrors, Checked!ValidateValue, below
  <2> QED BY <1>2, <2>5, <2>6, <2>7
<1>3. CASE ~HasType(f, v) \/ f.dataType # "dto"
  <2>1. ItemErrors(result, f, v) = Checked!ValueErrors(f, v, <<>>)
    BY <1>1, <1>3, NotBelow DEF ItemErrors, Checked!ValidateValue
  <2>2. 0 \in Nat /\ DOMAIN <<>> = 1..0 /\ \A i \in 1..0 : IsResult(<<>>[i])
    OBVIOUS
  <2>3. Checked!ValueErrors(f, v, <<>>) = Checked!Success <=>
           \/ ~f.isArray /\ ~f.isRequired /\ Checked!CanBeNullable(v)
           \/ /\ HasType(f, v)
              /\ ~f.isArray /\ f.isRequired /\ f.dataType = "string" => v.s # <<>>
              /\ IF f.dataType = "dto" THEN \A i \in 1..0 : <<>>[i] = Checked!Success
                 ELSE AllHold(f.rules, v)
    BY <1>1, <2>2, FieldsDecide
  <2> QED BY <1>3, <2>1, <2>3 DEF ItemOf
<1> QED BY <1>2, <1>3

\* One declaration, once the validators of the fields below agree with their types.
LEMMA LevelDecided ==
  ASSUME NEW F, NEW U, NEW depth, Declared(F, depth), Closed(U),
         NEW result, Validates(result, F, U), NEW type, Describes(type, F, U),
         NEW f \in F, \A i \in DOMAIN f.dtoMap : Agrees(result, type, f.dtoMap[i], U)
  PROVE  Agrees(result, type, f, U)
<1> SUFFICES ASSUME NEW v \in U
             PROVE  /\ IsResult(result[f][v])
                    /\ result[f][v] = Checked!Success <=> Described(type, f, v)
  BY DEF Agrees, Describes
<1>1. \A w \in U : ItemErrors(result, f, w) = Checked!Success <=>
           \/ ~f.isArray /\ ~f.isRequired /\ Checked!CanBeNullable(w)
           \/ /\ ItemOf(type, f, w)
              /\ ~f.isArray /\ f.isRequired /\ f.dataType = "string" => w.s # <<>>
  BY ItemDecided
<1>2. CASE ~f.isArray
  <2>1. result[f][v] = ItemErrors(result, f, v)
    BY <1>2 DEF Validates, Checked!Validated, ItemErrors
  <2>2. IsResult(ItemErrors(result, f, v))
    BY AreResults DEF ItemErrors, Checked!ValidateValue
  <2> QED BY <1>1, <1>2, <2>1, <2>2 DEF Described
<1>3. CASE f.isArray
  <2> DEFINE items == [i \in DOMAIN v.items |-> ItemErrors(result, f, v.items[i])]
  <2>1. result[f][v] = Checked!ArrayErrors(f, v, items)
    BY <1>3 DEF Validates, Checked!Validated, Checked!ValidateArray, ItemErrors
  <2>2. DOMAIN items = DOMAIN v.items
    OBVIOUS
  <2>3. \A i \in DOMAIN v.items : items[i] = ItemErrors(result, f, v.items[i])
    OBVIOUS
  <2> HIDE DEF items
  <2>4. Checked!ArrayErrors(f, v, items) = Checked!Success <=>
           \/ ~f.isRequired /\ Checked!CanBeNullable(v)
           \/ /\ ArrayChecks(f.arrayConfig, v)
              /\ \A i \in DOMAIN items : items[i] = Checked!Success
    BY ArraysDecide DEF Declared
  <2>5. ArrayChecks(f.arrayConfig, v) => \A i \in DOMAIN v.items : v.items[i] \in U
    BY DEF ArrayChecks, Closed
  <2>6. ArrayChecks(f.arrayConfig, v) =>
          ((\A i \in DOMAIN items : items[i] = Checked!Success) <=>
             \A i \in DOMAIN v.items : ItemOf(type, f, v.items[i]))
    BY <1>1, <1>3, <2>2, <2>3, <2>5
  <2>7. IsResult(Checked!ArrayErrors(f, v, items))
    BY AreResults
  <2> QED BY <1>3, <2>1, <2>4, <2>6, <2>7 DEF Described
<1> QED BY <1>2, <1>3

\* However deep declarations are nested, their validators accept exactly the values of the
\* types they describe: what validate returns by recursion is the success if and only if
\* the value is in the type (field-validator.ts:40-107, dto-field-validator.ts:29-57).
THEOREM NestedDecide ==
  ASSUME NEW F, NEW U, NEW depth, Declared(F, depth), Closed(U),
         NEW result, Validates(result, F, U), NEW type, Describes(type, F, U)
  PROVE  \A f \in F : \A v \in U : result[f][v] = Checked!Success <=> v \in type[f]
<1> DEFINE wrong == {f \in F : ~Agrees(result, type, f, U)}
           depths == {depth[f] : f \in wrong}
<1>1. \A f \in F : depth[f] \in Nat
  BY DEF Declared
<1>2. ASSUME wrong # {} PROVE FALSE
  <2>1. depths \subseteq Nat /\ depths # {}
    BY <1>1, <1>2
  <2>2. PICK d \in depths : \A e \in depths : d <= e
    <3> HIDE DEF depths
    <3> QED BY <2>1, LeastOf
  <2>3. PICK f \in wrong : d = depth[f]
    OBVIOUS
  <2>4. ASSUME NEW i \in DOMAIN f.dtoMap
        PROVE  Agrees(result, type, f.dtoMap[i], U)
    <3>1. PICK g : g = f.dtoMap[i]
      OBVIOUS
    <3>2. g \in F /\ depth[g] < depth[f] /\ depth[g] \in Nat /\ depth[f] \in Nat
      BY <1>1, <3>1 DEF Declared
    <3>3. depth[g] \notin depths
      <4>1. ~(d <= depth[g])
        BY <2>3, <3>2
      <4> HIDE DEF depths
      <4> QED BY <2>2, <4>1
    <3>4. g \notin wrong
      BY <3>3
    <3> QED BY <3>1, <3>2, <3>4
  <2>5. f \in F
    OBVIOUS
  <2> HIDE DEF wrong, depths
  <2>6. Agrees(result, type, f, U)
    BY <2>4, <2>5, LevelDecided
  <2> QED BY <2>3, <2>6 DEF wrong
<1>3. \A f \in F : Agrees(result, type, f, U)
  BY <1>2
<1> QED BY <1>3 DEF Agrees

=================================================================================
