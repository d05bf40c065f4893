------------------------- MODULE HelperProtocolProofs -------------------------
(***************************************************************************)
(* WireExact for messages of every content: the layouts that Encode writes *)
(* and DecodeRequest and DecodeResponse read are the same, field by field. *)
(* TextsExact for texts of every length.                                   *)
(*                                                                         *)
(* First fields of a text and texts put together (Field, Appended), then   *)
(* numbers, the header, strings and payloads, each written and read; from  *)
(* these RequestExact and ResponseExact (what is encoded is read back) and *)
(* RequestBack and ResponseBack (what is accepted is an encoding).         *)
(*                                                                         *)
(* The proof about texts goes from characters (GoodIs: the tests of a      *)
(* decoded code point against the rows of the table of byte sequences) to  *)
(* whole texts (GoodIsCut and CutIsGood: good at every byte against cut    *)
(* into characters), by the shortest prefix that would be an exception.    *)
(*                                                                         *)
(* Short stands for the values below Large, so that no proof computes with *)
(* numbers of five digits.                                                 *)
(***************************************************************************)
EXTENDS HelperProtocol, SequenceTheorems, WellFoundedInduction, TLAPS

-----------------------------------------------------------------------------
\* The bytes of a field.
LEMMA FieldFacts ==
  ASSUME NEW w \in Seq(Byte), NEW at \in Nat \ {0}, NEW n \in Nat, at + n - 1 <= Len(w)
  PROVE  /\ Field(w, at, n) \in Seq(Byte) /\ Len(Field(w, at, n)) = n
         /\ \A i \in 1..n : Field(w, at, n)[i] = w[at + i - 1]
BY DEF Field

LEMMA FieldSort ==
  ASSUME NEW w \in Seq(Byte), NEW at \in Nat \ {0}, NEW n \in Nat, at + n - 1 <= Len(w)
  PROVE  Field(w, at, n) \in Seq(Byte) /\ Len(Field(w, at, n)) = n
BY FieldFacts

LEMMA SameBytes ==
  ASSUME NEW v \in Seq(Byte), NEW w \in Seq(Byte), Len(v) = Len(w),
         \A i \in 1..Len(v) : v[i] = w[i]
  PROVE  v = w
OBVIOUS

\* Fields of two texts one after the other.
LEMMA FieldInFront ==
  ASSUME NEW u \in Seq(Byte), NEW v \in Seq(Byte), NEW at \in Nat \ {0}, NEW n \in Nat,
         at + n - 1 <= Len(u)
  PROVE  Field(u \o v, at, n) = Field(u, at, n)
<1>1. u \o v \in Seq(Byte) /\ Len(u \o v) = Len(u) + Len(v)
  OBVIOUS
<1>2. /\ Field(u, at, n) \in Seq(Byte) /\ Len(Field(u, at, n)) = n
      /\ \A i \in 1..n : Field(u, at, n)[i] = u[at + i - 1]
  BY FieldFacts
<1>3. at + n - 1 <= Len(u \o v)
  BY <1>1
<1>4. /\ Field(u \o v, at, n) \in Seq(Byte) /\ Len(Field(u \o v, at, n)) = n
      /\ \A i \in 1..n : Field(u \o v, at, n)[i] = (u \o v)[at + i - 1]
  BY <1>1, <1>3, FieldFacts
<1>5. \A i \in 1..n : (u \o v)[at + i - 1] = u[at + i - 1]
  OBVIOUS
<1>6. QED
  BY <1>2, <1>4, <1>5, SameBytes

LEMMA FieldBehind ==
  ASSUME NEW u \in Seq(Byte), NEW v \in Seq(Byte), NEW at \in Nat \ {0}, NEW n \in Nat,
         at + n - 1 <= Len(v)
  PROVE  Field(u \o v, Len(u) + at, n) = Field(v, at, n)
<1>1. u \o v \in Seq(Byte) /\ Len(u \o v) = Len(u) + Len(v)
  OBVIOUS
<1>2. /\ Field(v, at, n) \in Seq(Byte) /\ Len(Field(v, at, n)) = n
      /\ \A i \in 1..n : Field(v, at, n)[i] = v[at + i - 1]
  BY FieldFacts
<1>3. Len(u) + at \in Nat \ {0} /\ Len(u) + at + n - 1 <= Len(u \o v)
  BY <1>1
<1>4. /\ Field(u \o v, Len(u) + at, n) \in Seq(Byte) /\ Len(Field(u \o v, Len(u) + at, n)) = n
      /\ \A i \in 1..n : Field(u \o v, Len(u) + at, n)[i] = (u \o v)[Len(u) + at + i - 1]
  BY <1>1, <1>3, FieldFacts
<1>5. \A i \in 1..n : (u \o v)[Len(u) + at + i - 1] = v[at + i - 1]
  OBVIOUS
<1>6. QED
  BY <1>2, <1>4, <1>5, SameBytes

LEMMA WholeField ==
  ASSUME NEW w \in Seq(Byte)
  PROVE  Field(w, 1, Len(w)) = w
BY DEF Field

\* Two fields in a row are one.
LEMMA FieldsJoin ==
  ASSUME NEW w \in Seq(Byte), NEW at \in Nat \ {0}, NEW n \in Nat, NEW k \in Nat,
         at + n + k - 1 <= Len(w)
  PROVE  Field(w, at, n) \o Field(w, at + n, k) = Field(w, at, n + k)
<1> DEFINE u == Field(w, at, n)
           v == Field(w, at + n, k)
<1>1. /\ u \in Seq(Byte) /\ Len(u) = n /\ \A i \in 1..n : u[i] = w[at + i - 1]
      /\ v \in Seq(Byte) /\ Len(v) = k /\ \A i \in 1..k : v[i] = w[at + n + i - 1]
  <2>1. at + n \in Nat \ {0} /\ at + n + k - 1 <= Len(w) /\ at + n - 1 <= Len(w)
    OBVIOUS
  <2>2. QED
    BY <2>1, FieldFacts
<1>2. /\ Field(w, at, n + k) \in Seq(Byte) /\ Len(Field(w, at, n + k)) = n + k
      /\ \A i \in 1..n + k : Field(w, at, n + k)[i] = w[at + i - 1]
  <2>1. n + k \in Nat /\ at + (n + k) - 1 <= Len(w)
    OBVIOUS
  <2>2. QED
    BY <2>1, FieldFacts
<1> HIDE DEF u, v
<1>3. u \o v \in Seq(Byte) /\ Len(u \o v) = n + k
  BY <1>1, ConcatProperties
<1>4. \A i \in 1..n + k : (u \o v)[i] = w[at + i - 1]
  <2>1. ASSUME NEW i \in 1..n + k
        PROVE  (u \o v)[i] = w[at + i - 1]
    <3>1. CASE i <= n
      <4>1. i \in 1..n /\ (u \o v)[i] = u[i]
        BY <1>1, <3>1
      <4>2. QED
        BY <4>1, <1>1
    <3>2. CASE i > n
      <4>1. i - n \in 1..k /\ (u \o v)[i] = v[i - n] /\ at + n + (i - n) - 1 = at + i - 1
        BY <1>1, <3>2
      <4>2. QED
        BY <4>1, <1>1
    <3>3. i <= n \/ i > n
      OBVIOUS
    <3>4. QED
      BY ONLY <3>1, <3>2, <3>3
  <2>2. QED
    BY <2>1
<1>5. u \o v = Field(w, at, n + k)
  BY <1>2, <1>3, <1>4, SameBytes
<1>6. QED
  BY <1>5 DEF u, v

\* A field within a field.
LEMMA FieldWithin ==
  ASSUME NEW w \in Seq(Byte), NEW at \in Nat \ {0}, NEW n \in Nat,
         NEW from \in Nat \ {0}, NEW k \in Nat,
         at + n - 1 <= Len(w), from + k - 1 <= n
  PROVE  Field(Field(w, at, n), from, k) = Field(w, at + from - 1, k)
<1>1. /\ Field(w, at, n) \in Seq(Byte) /\ Len(Field(w, at, n)) = n
      /\ \A i \in 1..n : Field(w, at, n)[i] = w[at + i - 1]
  BY FieldFacts
<1>2. /\ Field(Field(w, at, n), from, k) \in Seq(Byte) /\ Len(Field(Field(w, at, n), from, k)) = k
      /\ \A i \in 1..k : Field(Field(w, at, n), from, k)[i] = Field(w, at, n)[from + i - 1]
  BY <1>1, FieldFacts
<1>3. /\ Field(w, at + from - 1, k) \in Seq(Byte) /\ Len(Field(w, at + from - 1, k)) = k
      /\ \A i \in 1..k : Field(w, at + from - 1, k)[i] = w[at + from - 1 + i - 1]
  <2>1. at + from - 1 \in Nat \ {0} /\ at + from - 1 + k - 1 <= Len(w)
    OBVIOUS
  <2>2. QED
    BY <2>1, FieldFacts
<1>4. \A i \in 1..k : Field(Field(w, at, n), from, k)[i] = Field(w, at + from - 1, k)[i]
  <2>1. ASSUME NEW i \in 1..k
        PROVE  Field(Field(w, at, n), from, k)[i] = Field(w, at + from - 1, k)[i]
    <3>1. from + i - 1 \in 1..n /\ at + (from + i - 1) - 1 = at + from - 1 + i - 1
      OBVIOUS
    <3>2. Field(w, at, n)[from + i - 1] = w[at + from - 1 + i - 1]
      BY <1>1, <3>1
    <3>3. /\ Field(Field(w, at, n), from, k)[i] = Field(w, at, n)[from + i - 1]
          /\ Field(w, at + from - 1, k)[i] = w[at + from - 1 + i - 1]
      BY <1>2, <1>3
    <3>4. QED
      BY <3>2, <3>3
  <2>2. QED
    BY <2>1
<1>5. QED
  BY <1>2, <1>3, <1>4, SameBytes

\* Numbers of two and of four bytes.
Short == 0..(Large - 1)

LEMMA LargeFacts ==
  Large \in Nat /\ Large > 600
BY DEF Large

LEMMA LargeIs ==
  Large = 256 * 256
BY DEF Large

LEMMA ShortFacts ==
  /\ Large \in Numbers
  /\ \A n \in Short : n \in Numbers /\ n # Large /\ n \in Nat
  /\ \A n \in Numbers : n # Large => n \in Short
  /\ \A n \in Nat : n < Large => n \in Short
<1>1. Large \in Numbers
  BY LargeFacts DEF Numbers
<1>2. \A n \in Short : n \in Numbers /\ n # Large /\ n \in Nat
  BY LargeFacts DEF Numbers, Short
<1>3. \A n \in Numbers : n # Large => n \in Short
  BY LargeFacts DEF Numbers, Short
<1>4. ASSUME NEW n \in Nat, n < Large
      PROVE  n \in Short
  BY <1>4, LargeFacts DEF Short
<1>5. QED
  BY <1>1, <1>2, <1>3, <1>4

\* The two low digits of a number, and the number they make.
Low(n) == n % 256
High(n) == (n \div 256) % 256
Pair(a, b) == a + 256 * b

LEMMA Digits ==
  ASSUME NEW a \in Byte, NEW b \in Byte
  PROVE  Low(Pair(a, b)) = a /\ High(Pair(a, b)) = b /\ Pair(a, b) \in Short
<1>1. a \in 0..255 /\ b \in 0..255
  BY DEF Byte
<1>2. (a + 256 * b) \div 256 = b
  BY ONLY <1>1
<1>3. (a + 256 * b) % 256 = a
  BY ONLY <1>1
<1>4. b % 256 = b
  BY ONLY <1>1
<1>5. a + 256 * b \in Int /\ a + 256 * b >= 0 /\ a + 256 * b < 256 * 256
  BY ONLY <1>1
<1>6. Pair(a, b) \in Int /\ Pair(a, b) >= 0 /\ Pair(a, b) < Large
  BY ONLY <1>5, LargeIs DEF Pair
<1>7. Pair(a, b) \in Short
  BY <1>6, LargeFacts DEF Short
<1>8. ((a + 256 * b) \div 256) % 256 = b
  BY ONLY <1>2, <1>4
<1>9. Low(Pair(a, b)) = a
  BY ONLY <1>3 DEF Low, Pair
<1>10. High(Pair(a, b)) = b
  BY ONLY <1>8 DEF High, Pair
<1>11. QED
  BY ONLY <1>7, <1>9, <1>10

LEMMA DigitsOf ==
  ASSUME NEW n \in Short
  PROVE  \E a \in Byte, b \in Byte : n = Pair(a, b)
<1>1. n \in Int /\ 0 <= n /\ n < 256 * 256
  <2>1. n \in Int /\ 0 <= n /\ n < Large
    BY LargeFacts DEF Short
  <2>2. QED
    BY ONLY <2>1, LargeIs
<1>2. n % 256 \in Byte
  BY ONLY <1>1 DEF Byte
<1>3. n = (n % 256) + 256 * (n \div 256)
  BY ONLY <1>1
<1>4. n \div 256 \in Int /\ n \div 256 >= 0 /\ n \div 256 <= 255
  BY ONLY <1>1
<1>5. n \div 256 \in Byte
  BY ONLY <1>4 DEF Byte
<1>6. n = Pair(n % 256, n \div 256)
  BY ONLY <1>3 DEF Pair
<1>7. QED
  <2>1. PICK a \in Byte : a = n % 256
    BY ONLY <1>2
  <2>2. PICK b \in Byte : b = n \div 256
    BY ONLY <1>5
  <2>3. n = Pair(a, b)
    BY ONLY <1>6, <2>1, <2>2
  <2>4. QED
    BY ONLY <2>3, Zenon

\* LittleEndian and Value in these words.
LEMMA InDigits ==
  /\ \A n, w : LittleEndian(n, w)
       = [i \in 1..w |-> IF i > 2 THEN 0 ELSE IF i = 1 THEN Low(n) ELSE High(n)]
  /\ \A s : (\E i \in 3..Len(s) : s[i] # 0) => Value(s) = Large
  /\ \A s : (~\E i \in 3..Len(s) : s[i] # 0) => Value(s) = Pair(s[1], s[2])
<1>1. \A n, w : LittleEndian(n, w)
       = [i \in 1..w |-> IF i > 2 THEN 0 ELSE IF i = 1 THEN Low(n) ELSE High(n)]
  BY ONLY SMT DEF LittleEndian, Low, High
<1>2. /\ \A s : (\E i \in 3..Len(s) : s[i] # 0) => Value(s) = Large
      /\ \A s : (~\E i \in 3..Len(s) : s[i] # 0) => Value(s) = Pair(s[1], s[2])
  BY ONLY SMT DEF Value, Pair
<1>3. QED
  BY ONLY <1>1, <1>2

LEMMA NumberFacts ==
  ASSUME NEW n \in Short, NEW w \in {2, 4}
  PROVE  /\ LittleEndian(n, w) \in Seq(Byte) /\ Len(LittleEndian(n, w)) = w
         /\ Value(LittleEndian(n, w)) = n
<1> DEFINE bytes == LittleEndian(n, w)
<1>1. PICK a \in Byte, b \in Byte : n = Pair(a, b)
  BY DigitsOf, Zenon
<1>2. Low(n) = a /\ High(n) = b
  BY <1>1, Digits, Zenon
<1>3. bytes = [i \in 1..w |-> IF i > 2 THEN 0 ELSE IF i = 1 THEN a ELSE b]
  BY <1>2, InDigits, Zenon
<1>4. a \in Byte /\ b \in Byte /\ 0 \in Byte /\ w \in Nat /\ 2 \in 1..w /\ 1 \in 1..w
  BY DEF Byte
<1> HIDE DEF bytes
<1>5. bytes \in [1..w -> Byte]
  BY <1>3, <1>4
<1>6. bytes \in Seq(Byte) /\ Len(bytes) = w
  BY <1>4, <1>5
<1>7. bytes[1] = a /\ bytes[2] = b /\ \A i \in 3..w : bytes[i] = 0
  <2>1. bytes[1] = a /\ bytes[2] = b
    BY <1>3, <1>4
  <2>2. ASSUME NEW i \in 3..w
        PROVE  bytes[i] = 0
    <3>1. i \in 1..w /\ i > 2
      BY <1>4
    <3>2. QED
      BY <1>3, <3>1
  <2>3. QED
    BY <2>1, <2>2
<1>8. Value(bytes) = n
  <2>1. ~\E i \in 3..Len(bytes) : bytes[i] # 0
    BY <1>6, <1>7
  <2>2. Value(bytes) = Pair(bytes[1], bytes[2])
    BY <2>1, InDigits, Zenon
  <2>3. QED
    BY ONLY <1>1, <1>7, <2>2
<1>9. QED
  BY <1>6, <1>8 DEF bytes

LEMMA NumberBack ==
  ASSUME NEW bytes \in Seq(Byte), Len(bytes) \in {2, 4}
  PROVE  /\ Value(bytes) \in Numbers
         /\ Len(bytes) = 2 => Value(bytes) # Large
         /\ Value(bytes) # Large => LittleEndian(Value(bytes), Len(bytes)) = bytes
<1>1. 1 \in 1..Len(bytes) /\ 2 \in 1..Len(bytes)
  OBVIOUS
<1>2. PICK a \in Byte : bytes[1] = a
  BY <1>1, ElementOfSeq, Zenon
<1>3. PICK b \in Byte : bytes[2] = b
  BY <1>1, ElementOfSeq, Zenon
<1>4. \/ (\E i \in 3..Len(bytes) : bytes[i] # 0) /\ Value(bytes) = Large
      \/ (~\E i \in 3..Len(bytes) : bytes[i] # 0) /\ Value(bytes) = Pair(a, b)
  BY <1>2, <1>3, InDigits, Zenon
<1>5. Low(Pair(a, b)) = a /\ High(Pair(a, b)) = b /\ Pair(a, b) \in Short
  BY Digits, Zenon
<1>6. Value(bytes) \in Numbers
  <2>1. Value(bytes) = Large \/ Value(bytes) \in Short
    BY ONLY <1>4, <1>5
  <2>2. QED
    BY ONLY <2>1, ShortFacts
<1>7. ASSUME Len(bytes) = 2
      PROVE  Value(bytes) # Large
  <2>1. ~\E i \in 3..Len(bytes) : bytes[i] # 0
    BY <1>7
  <2>2. Value(bytes) \in Short
    BY ONLY <2>1, <1>4, <1>5
  <2>3. QED
    BY ONLY <2>2, ShortFacts
<1>8. ASSUME Value(bytes) # Large
      PROVE  LittleEndian(Value(bytes), Len(bytes)) = bytes
  <2>1. Value(bytes) = Pair(a, b) /\ ~\E i \in 3..Len(bytes) : bytes[i] # 0
    BY <1>4, <1>8, Zenon
  <2>2. Low(Value(bytes)) = a /\ High(Value(bytes)) = b
    BY ONLY <2>1, <1>5
  <2>3. LittleEndian(Value(bytes), Len(bytes))
          = [i \in 1..Len(bytes) |-> IF i > 2 THEN 0 ELSE IF i = 1 THEN a ELSE b]
    BY <2>2, InDigits, Zenon
  <2>4. ASSUME NEW i \in 1..Len(bytes)
        PROVE  bytes[i] = IF i > 2 THEN 0 ELSE IF i = 1 THEN a ELSE b
    <3>1. i = 1 \/ i = 2 \/ i \in 3..Len(bytes)
      OBVIOUS
    <3>2. i \in 3..Len(bytes) => bytes[i] = 0 /\ i > 2
      BY <2>1
    <3>3. QED
      BY <3>1, <3>2, <1>2, <1>3
  <2>5. bytes = [i \in 1..Len(bytes) |-> bytes[i]]
    OBVIOUS
  <2>6. QED
    BY <2>3, <2>4, <2>5
<1>9. QED
  BY <1>6, <1>7, <1>8, Zenon

\* What is appended can be read behind the rest, and leaves the rest as it was.
Keeps(bytes, front, m) ==
  \A at \in Nat \ {0}, n \in Nat : at + n - 1 <= m => Field(bytes, at, n) = Field(front, at, n)

LEMMA Appended ==
  ASSUME NEW u \in Seq(Byte), NEW v \in Seq(Byte), NEW m \in Nat, NEW k \in Nat,
         Len(u) = m, Len(v) = k
  PROVE  /\ u \o v \in Seq(Byte) /\ Len(u \o v) = m + k
         /\ Field(u \o v, m + 1, k) = v
         /\ Keeps(u \o v, u, m)
<1>1. u \o v \in Seq(Byte) /\ Len(u \o v) = m + k
  BY ConcatProperties
<1>2. Field(u \o v, m + 1, k) = v
  <2>1. Len(v) \in Nat /\ 1 \in Nat \ {0} /\ 1 + Len(v) - 1 <= Len(v)
    OBVIOUS
  <2>2. QED
    BY <2>1, FieldBehind, WholeField
<1>3. Keeps(u \o v, u, m)
  BY FieldInFront DEF Keeps
<1>4. QED
  BY <1>1, <1>2, <1>3

-----------------------------------------------------------------------------
\* The header.
HeaderOf(kind, n) ==
  Magic \o LittleEndian(ProtocolVersion, 2) \o LittleEndian(Kinds[kind], 2)
    \o LittleEndian(n, 4)

LEMMA KindFacts ==
  ASSUME NEW kind \in {"request", "response"}
  PROVE  Kinds[kind] \in Short /\ (kind = "request" <=> Kinds[kind] = 1)
<1>1. Kinds[kind] \in 1..2 /\ (kind = "request" <=> Kinds[kind] = 1)
  BY DEF Kinds
<1>2. Kinds[kind] \in Nat /\ Kinds[kind] < Large
  BY <1>1, LargeFacts
<1>3. QED
  BY <1>1, <1>2, ShortFacts

LEMMA MagicFacts ==
  /\ Magic \in Seq(Byte) /\ Len(Magic) = 4
  /\ ProtocolVersion \in Short /\ HeaderBytes = 12
<1>1. 87 \in Byte /\ 66 \in Byte /\ 80 \in Byte /\ 49 \in Byte
  BY DEF Byte
<1>2. Magic \in Seq(Byte) /\ Len(Magic) = 4
  BY <1>1 DEF Magic
<1>3. ProtocolVersion \in Short
  BY LargeFacts DEF ProtocolVersion, Short
<1>4. QED
  BY <1>2, <1>3 DEF HeaderBytes

LEMMA SizeFacts ==
  MaximumMessageBytes \in Nat /\ MaximumMessageBytes > 600 /\ MaximumMessageBytes < Large
BY DEF MaximumMessageBytes, Large

\* What WriteHeader writes, field for field.
LEMMA HeaderFields ==
  ASSUME NEW kind \in {"request", "response"}, NEW n \in Short
  PROVE  /\ HeaderOf(kind, n) \in Seq(Byte) /\ Len(HeaderOf(kind, n)) = 12
         /\ Field(HeaderOf(kind, n), 1, 4) = Magic
         /\ Read(HeaderOf(kind, n), 5, 2) = ProtocolVersion
         /\ Read(HeaderOf(kind, n), 7, 2) = Kinds[kind]
         /\ Read(HeaderOf(kind, n), 9, 4) = n
<1> DEFINE version == LittleEndian(ProtocolVersion, 2)
           number == LittleEndian(Kinds[kind], 2)
           size == LittleEndian(n, 4)
           h2 == Magic \o version
           h3 == h2 \o number
           h4 == h3 \o size
<1>1. /\ version \in Seq(Byte) /\ Len(version) = 2 /\ Value(version) = ProtocolVersion
      /\ number \in Seq(Byte) /\ Len(number) = 2 /\ Value(number) = Kinds[kind]
      /\ size \in Seq(Byte) /\ Len(size) = 4 /\ Value(size) = n
  BY MagicFacts, KindFacts, NumberFacts
<1>2. HeaderOf(kind, n) = h4
  BY DEF HeaderOf
<1> HIDE DEF version, number, size
<1>3. /\ h2 \in Seq(Byte) /\ Len(h2) = 6 /\ Field(h2, 5, 2) = version
      /\ Keeps(h2, Magic, 4)
  <2>1. 4 \in Nat /\ 2 \in Nat
    OBVIOUS
  <2>2. /\ Magic \o version \in Seq(Byte) /\ Len(Magic \o version) = 4 + 2
        /\ Field(Magic \o version, 4 + 1, 2) = version
        /\ Keeps(Magic \o version, Magic, 4)
    BY <1>1, MagicFacts, <2>1, Appended
  <2>3. QED
    BY <2>2
<1> HIDE DEF h2
<1>4. /\ h3 \in Seq(Byte) /\ Len(h3) = 8 /\ Field(h3, 7, 2) = number
      /\ Keeps(h3, h2, 6)
  <2>1. 6 \in Nat /\ 2 \in Nat
    OBVIOUS
  <2>2. /\ h2 \o number \in Seq(Byte) /\ Len(h2 \o number) = 6 + 2
        /\ Field(h2 \o number, 6 + 1, 2) = number
        /\ Keeps(h2 \o number, h2, 6)
    BY <1>1, <1>3, <2>1, Appended
  <2>3. QED
    BY <2>2
<1> HIDE DEF h3
<1>5. /\ h4 \in Seq(Byte) /\ Len(h4) = 12 /\ Field(h4, 9, 4) = size
      /\ Keeps(h4, h3, 8)
  <2>1. 8 \in Nat /\ 4 \in Nat
    OBVIOUS
  <2>2. /\ h3 \o size \in Seq(Byte) /\ Len(h3 \o size) = 8 + 4
        /\ Field(h3 \o size, 8 + 1, 4) = size
        /\ Keeps(h3 \o size, h3, 8)
    BY <1>1, <1>4, <2>1, Appended
  <2>3. QED
    BY <2>2
<1> HIDE DEF h4
<1>6. Field(Magic, 1, 4) = Magic
  BY MagicFacts, WholeField
<1>7. Field(h4, 1, 4) = Magic /\ Field(h4, 5, 2) = version /\ Field(h4, 7, 2) = number
  <2>1. Field(h2, 1, 4) = Magic /\ Field(h3, 1, 4) = Field(h2, 1, 4)
        /\ Field(h4, 1, 4) = Field(h3, 1, 4)
    BY <1>3, <1>4, <1>5, <1>6 DEF Keeps
  <2>2. Field(h3, 5, 2) = version /\ Field(h4, 5, 2) = Field(h3, 5, 2)
    BY <1>3, <1>4, <1>5 DEF Keeps
  <2>3. Field(h4, 7, 2) = number
    BY <1>4, <1>5 DEF Keeps
  <2>4. QED
    BY <2>1, <2>2, <2>3
<1>8. QED
  BY <1>1, <1>2, <1>5, <1>7 DEF Read

\* A message with a header: the header reads as of this kind and of no other,
\* and the payload lies behind it.
LEMMA HeaderWritten ==
  ASSUME NEW kind \in {"request", "response"}, NEW payload \in Seq(Byte),
         12 + Len(payload) <= MaximumMessageBytes
  PROVE  LET bytes == WithHeader(kind, payload)
         IN /\ bytes \in Seq(Byte) /\ Len(bytes) = 12 + Len(payload)
            /\ CheckMessageSize(bytes)
            /\ ReadHeader(bytes, kind)
            /\ \A other \in {"request", "response"} : ReadHeader(bytes, other) => other = kind
            /\ \A at \in Nat \ {0}, n \in Nat :
                 at + n - 1 <= Len(payload) => Field(bytes, 12 + at, n) = Field(payload, at, n)
<1> DEFINE head == HeaderOf(kind, Len(payload))
           bytes == head \o payload
<1>1. Len(payload) \in Short
  <2>1. Len(payload) \in Nat /\ Len(payload) < Large
    BY SizeFacts, LargeFacts
  <2>2. QED
    BY <2>1, ShortFacts
<1>2. /\ head \in Seq(Byte) /\ Len(head) = 12
      /\ Field(head, 1, 4) = Magic
      /\ Read(head, 5, 2) = ProtocolVersion
      /\ Read(head, 7, 2) = Kinds[kind]
      /\ Read(head, 9, 4) = Len(payload)
  BY <1>1, HeaderFields
<1>3. WithHeader(kind, payload) = bytes
  BY DEF WithHeader, HeaderOf
<1> HIDE DEF head
<1>4. /\ bytes \in Seq(Byte) /\ Len(bytes) = 12 + Len(payload)
      /\ Keeps(bytes, head, 12)
  <2>1. Len(payload) \in Nat /\ 12 \in Nat
    OBVIOUS
  <2>2. /\ head \o payload \in Seq(Byte) /\ Len(head \o payload) = 12 + Len(payload)
        /\ Keeps(head \o payload, head, 12)
    BY <1>2, <2>1, Appended
  <2>3. QED
    BY <2>2
<1>5. ASSUME NEW at \in Nat \ {0}, NEW n \in Nat, at + n - 1 <= Len(payload)
      PROVE  Field(bytes, 12 + at, n) = Field(payload, at, n)
  <2>1. Field(head \o payload, Len(head) + at, n) = Field(payload, at, n)
    BY <1>2, <1>5, FieldBehind
  <2>2. QED
    BY <2>1, <1>2
<1> HIDE DEF bytes
<1>6. /\ Field(bytes, 1, 4) = Magic
      /\ Read(bytes, 5, 2) = ProtocolVersion
      /\ Read(bytes, 7, 2) = Kinds[kind]
      /\ Read(bytes, 9, 4) = Len(payload)
  <2>1. /\ Field(bytes, 1, 4) = Field(head, 1, 4) /\ Field(bytes, 5, 2) = Field(head, 5, 2)
        /\ Field(bytes, 7, 2) = Field(head, 7, 2) /\ Field(bytes, 9, 4) = Field(head, 9, 4)
    BY <1>4 DEF Keeps
  <2>2. QED
    BY <1>2, <2>1 DEF Read
<1>7. CheckMessageSize(bytes)
  BY <1>4, MagicFacts, SizeFacts DEF CheckMessageSize
<1>8. ReadHeader(bytes, kind)
  BY <1>4, <1>6, MagicFacts DEF ReadHeader
<1>9. \A other \in {"request", "response"} : ReadHeader(bytes, other) => other = kind
  BY <1>6, KindFacts DEF ReadHeader
<1>10. QED
  BY <1>3, <1>4, <1>5, <1>7, <1>8, <1>9

\* Bytes whose header can be read are those of that header and the rest.
LEMMA HeaderRead ==
  ASSUME NEW kind \in {"request", "response"}, NEW bytes \in Seq(Byte),
         CheckMessageSize(bytes), ReadHeader(bytes, kind)
  PROVE  WithHeader(kind, Field(bytes, 13, Len(bytes) - 12)) = bytes
<1>1. Len(bytes) \in Nat /\ 12 <= Len(bytes) /\ Len(bytes) < Large
  BY MagicFacts, SizeFacts, LargeFacts DEF CheckMessageSize
<1> DEFINE payload == Field(bytes, 13, Len(bytes) - 12)
<1>2. payload \in Seq(Byte) /\ Len(payload) = Len(bytes) - 12
  <2>1. Len(bytes) - 12 \in Nat /\ 13 + (Len(bytes) - 12) - 1 <= Len(bytes)
    BY <1>1
  <2>2. QED
    BY <2>1, FieldFacts
<1>3. /\ Field(bytes, 5, 2) \in Seq(Byte) /\ Len(Field(bytes, 5, 2)) = 2
      /\ Field(bytes, 7, 2) \in Seq(Byte) /\ Len(Field(bytes, 7, 2)) = 2
      /\ Field(bytes, 9, 4) \in Seq(Byte) /\ Len(Field(bytes, 9, 4)) = 4
  <2>1. /\ 2 \in Nat /\ 4 \in Nat /\ 5 \in Nat \ {0} /\ 7 \in Nat \ {0} /\ 9 \in Nat \ {0}
        /\ 5 + 2 - 1 <= Len(bytes) /\ 7 + 2 - 1 <= Len(bytes) /\ 9 + 4 - 1 <= Len(bytes)
    BY <1>1
  <2>2. Field(bytes, 5, 2) \in Seq(Byte) /\ Len(Field(bytes, 5, 2)) = 2
    BY <2>1, FieldSort
  <2>3. Field(bytes, 7, 2) \in Seq(Byte) /\ Len(Field(bytes, 7, 2)) = 2
    BY <2>1, FieldSort
  <2>4. Field(bytes, 9, 4) \in Seq(Byte) /\ Len(Field(bytes, 9, 4)) = 4
    BY <2>1, FieldSort
  <2>5. QED
    BY <2>2, <2>3, <2>4
<1>4. /\ Field(bytes, 1, 4) = Magic
      /\ Value(Field(bytes, 5, 2)) = ProtocolVersion
      /\ Value(Field(bytes, 7, 2)) = Kinds[kind]
      /\ Value(Field(bytes, 9, 4)) = Len(bytes) - 12
  BY MagicFacts DEF ReadHeader, Read
<1>5. ProtocolVersion # Large /\ Kinds[kind] # Large /\ Len(bytes) - 12 # Large
  <2>1. Len(bytes) - 12 \in Short
    <3>1. Len(bytes) - 12 \in Nat /\ Len(bytes) - 12 < Large
      BY <1>1, LargeFacts
    <3>2. QED
      BY <3>1, ShortFacts
  <2>2. QED
    BY <2>1, MagicFacts, KindFacts, ShortFacts
<1>6. /\ LittleEndian(ProtocolVersion, 2) = Field(bytes, 5, 2)
      /\ LittleEndian(Kinds[kind], 2) = Field(bytes, 7, 2)
      /\ LittleEndian(Len(bytes) - 12, 4) = Field(bytes, 9, 4)
  BY <1>3, <1>4, <1>5, NumberBack
<1>7. /\ Field(bytes, 1, 4) \o Field(bytes, 5, 2) = Field(bytes, 1, 6)
      /\ Field(bytes, 1, 6) \o Field(bytes, 7, 2) = Field(bytes, 1, 8)
      /\ Field(bytes, 1, 8) \o Field(bytes, 9, 4) = Field(bytes, 1, 12)
  <2>1. Field(bytes, 1, 4) \o Field(bytes, 1 + 4, 2) = Field(bytes, 1, 4 + 2)
    BY <1>1, FieldsJoin
  <2>2. Field(bytes, 1, 6) \o Field(bytes, 1 + 6, 2) = Field(bytes, 1, 6 + 2)
    <3>1. 1 \in Nat \ {0} /\ 6 \in Nat /\ 2 \in Nat /\ 1 + 6 + 2 - 1 <= Len(bytes)
      BY <1>1
    <3>2. QED
      BY <3>1, FieldsJoin
  <2>3. Field(bytes, 1, 8) \o Field(bytes, 1 + 8, 4) = Field(bytes, 1, 8 + 4)
    <3>1. 1 \in Nat \ {0} /\ 8 \in Nat /\ 4 \in Nat /\ 1 + 8 + 4 - 1 <= Len(bytes)
      BY <1>1
    <3>2. QED
      BY <3>1, FieldsJoin
  <2>4. 1 + 4 = 5 /\ 4 + 2 = 6 /\ 1 + 6 = 7 /\ 6 + 2 = 8 /\ 1 + 8 = 9 /\ 8 + 4 = 12
    OBVIOUS
  <2>5. QED
    BY ONLY <2>1, <2>2, <2>3, <2>4
<1>8. Field(bytes, 1, 12) \o payload = bytes
  <2>1. Len(bytes) - 12 \in Nat /\ 1 + 12 + (Len(bytes) - 12) - 1 <= Len(bytes)
    BY <1>1
  <2>2. Field(bytes, 1, 12) \o Field(bytes, 1 + 12, Len(bytes) - 12)
          = Field(bytes, 1, 12 + (Len(bytes) - 12))
    <3>1. 1 \in Nat \ {0} /\ 12 \in Nat
      OBVIOUS
    <3>2. QED
      BY <2>1, <3>1, FieldsJoin, Zenon
  <2>3. 1 + 12 = 13 /\ 12 + (Len(bytes) - 12) = Len(bytes)
    BY <1>1
  <2>4. QED
    BY <2>2, <2>3, WholeField
<1> HIDE DEF payload
<1>9. WithHeader(kind, payload) = bytes
  BY <1>2, <1>4, <1>6, <1>7, <1>8 DEF WithHeader
<1>10. QED
  BY <1>9 DEF payload

-----------------------------------------------------------------------------
\* Strings.
LEMMA StringFacts ==
  ASSUME NEW s \in Seq(Byte), Len(s) \in Short
  PROVE  /\ AppendString(s) \in Seq(Byte) /\ Len(AppendString(s)) = 2 + Len(s)
         /\ Read(AppendString(s), 1, 2) = Len(s)
         /\ Field(AppendString(s), 3, Len(s)) = s
<1> DEFINE size == LittleEndian(Len(s), 2)
<1>1. size \in Seq(Byte) /\ Len(size) = 2 /\ Value(size) = Len(s)
  BY NumberFacts
<1> HIDE DEF size
<1>2. /\ size \o s \in Seq(Byte) /\ Len(size \o s) = 2 + Len(s)
      /\ Field(size \o s, 3, Len(s)) = s
      /\ Field(size \o s, 1, 2) = Field(size, 1, 2)
  <2>1. Len(s) \in Nat
    OBVIOUS
  <2>2. /\ size \o s \in Seq(Byte) /\ Len(size \o s) = 2 + Len(s)
        /\ Field(size \o s, 2 + 1, Len(s)) = s
        /\ Keeps(size \o s, size, 2)
    BY <1>1, <2>1, Appended
  <2>3. QED
    BY <2>2 DEF Keeps
<1>3. Field(size, 1, 2) = size
  BY <1>1, WholeField
<1>4. AppendString(s) = size \o s
  BY DEF AppendString, size
<1>5. QED
  BY <1>1, <1>2, <1>3, <1>4 DEF Read

LEMMA StringRead ==
  ASSUME NEW w \in Seq(Byte), NEW at \in Nat \ {0}, NEW s \in Seq(Byte), Len(s) \in Short,
         at + Len(s) + 1 <= Len(w), Field(w, at, 2 + Len(s)) = AppendString(s)
  PROVE  ReadString(w, at) = [value |-> s, next |-> at + 2 + Len(s)]
<1>1. Len(s) \in Nat /\ 2 + Len(s) \in Nat /\ at + (2 + Len(s)) - 1 <= Len(w)
  OBVIOUS
<1>2. Field(AppendString(s), 1, 2) = Field(w, at, 2)
  <2>1. Field(Field(w, at, 2 + Len(s)), 1, 2) = Field(w, at + 1 - 1, 2)
    BY <1>1, FieldWithin
  <2>2. at + 1 - 1 = at
    OBVIOUS
  <2>3. QED
    BY <2>1, <2>2
<1>3. Field(AppendString(s), 3, Len(s)) = Field(w, at + 2, Len(s))
  <2>1. Field(Field(w, at, 2 + Len(s)), 3, Len(s)) = Field(w, at + 3 - 1, Len(s))
    <3>1. 3 \in Nat \ {0} /\ 3 + Len(s) - 1 <= 2 + Len(s)
      BY <1>1
    <3>2. QED
      BY <1>1, <3>1, FieldWithin
  <2>2. at + 3 - 1 = at + 2
    OBVIOUS
  <2>3. QED
    BY <2>1, <2>2
<1>4. Read(w, at, 2) = Len(s) /\ Field(w, at + 2, Len(s)) = s
  BY <1>2, <1>3, StringFacts DEF Read
<1>5. Fits(w, at, 2) /\ Fits(w, at + 2, Len(s)) /\ at # 0
  BY <1>1 DEF Fits
<1>6. QED
  BY <1>4, <1>5 DEF ReadString

LEMMA StringBack ==
  ASSUME NEW w \in Seq(Byte), NEW at \in Nat
  PROVE  LET string == ReadString(w, at)
         IN /\ string.next \in Nat
            /\ string.next # 0 =>
                 /\ at # 0 /\ string.value \in Seq(Byte) /\ Len(string.value) \in Short
                 /\ string.next = at + 2 + Len(string.value)
                 /\ string.next <= Len(w) + 1
                 /\ AppendString(string.value) = Field(w, at, 2 + Len(string.value))
<1> DEFINE n == Read(w, at, 2)
           string == ReadString(w, at)
<1>1. CASE at = 0 \/ ~Fits(w, at, 2) \/ ~Fits(w, at + 2, n)
  <2>1. string = [value |-> <<>>, next |-> 0]
    BY <1>1 DEF ReadString
  <2>2. QED
    BY <2>1
<1>2. CASE at # 0 /\ Fits(w, at, 2) /\ Fits(w, at + 2, n)
  <2>1. string = [value |-> Field(w, at + 2, n), next |-> at + 2 + n]
    BY <1>2 DEF ReadString
  <2>2. at \in Nat \ {0} /\ 2 \in Nat /\ at + 2 - 1 <= Len(w)
    BY <1>2 DEF Fits
  <2>3. Field(w, at, 2) \in Seq(Byte) /\ Len(Field(w, at, 2)) = 2
    BY <2>2, FieldFacts, Zenon
  <2>4. n \in Numbers /\ n # Large /\ LittleEndian(n, 2) = Field(w, at, 2)
    BY <2>3, NumberBack DEF Read
  <2>5. n \in Short /\ n \in Nat
    <3>1. n \in Short
      BY <2>4, ShortFacts
    <3>2. QED
      BY <3>1, ShortFacts
  <2> HIDE DEF n, string
  <2>6. at + 2 \in Nat \ {0} /\ at + 2 + n - 1 <= Len(w)
    BY <1>2, <2>5 DEF Fits
  <2>7. Field(w, at + 2, n) \in Seq(Byte) /\ Len(Field(w, at + 2, n)) = n
    BY <2>5, <2>6, FieldFacts
  <2>8. Field(w, at, 2) \o Field(w, at + 2, n) = Field(w, at, 2 + n)
    BY <2>2, <2>5, <2>6, FieldsJoin
  <2>9. AppendString(string.value) = Field(w, at, 2 + n)
    BY <2>1, <2>4, <2>7, <2>8 DEF AppendString
  <2>10. at + 2 + n \in Nat /\ at + 2 + n <= Len(w) + 1
    BY <2>5, <2>6
  <2>11. QED
    BY <1>2, <2>1, <2>5, <2>7, <2>9, <2>10 DEF string
<1>3. QED
  BY <1>1, <1>2

-----------------------------------------------------------------------------
\* The payloads, field for field.
RequestLaid(payload, id, command, zero, timeout, nonce, name, token) ==
  /\ payload \in Seq(Byte) /\ Len(payload) = 66 + Len(name)
  /\ Field(payload, 1, 8) = id
  /\ Field(payload, 9, 2) = command
  /\ Field(payload, 11, 2) = zero
  /\ Field(payload, 13, 4) = timeout
  /\ Field(payload, 17, 32) = nonce
  /\ Field(payload, 49, Len(name)) = name
  /\ Field(payload, 49 + Len(name), 18) = token

RequestOf(id, command, zero, timeout, nonce, name, token) ==
  id \o command \o zero \o timeout \o nonce \o name \o token

LEMMA RequestFields ==
  ASSUME NEW id \in Seq(Byte), NEW command \in Seq(Byte), NEW zero \in Seq(Byte),
         NEW timeout \in Seq(Byte), NEW nonce \in Seq(Byte), NEW name \in Seq(Byte),
         NEW token \in Seq(Byte),
         Len(id) = 8, Len(command) = 2, Len(zero) = 2, Len(timeout) = 4, Len(nonce) = 32,
         Len(token) = 18
  PROVE  RequestLaid(RequestOf(id, command, zero, timeout, nonce, name, token), id, command, zero, timeout, nonce, name, token)
<1> DEFINE p2 == id \o command
           p3 == p2 \o zero
           p4 == p3 \o timeout
           p5 == p4 \o nonce
           p6 == p5 \o name
           p7 == p6 \o token
<1>1. /\ Len(id) = 8 /\ Len(command) = 2 /\ Len(zero) = 2 /\ Len(timeout) = 4 /\ Len(nonce) = 32
      /\ Len(token) = 18 /\ Len(name) \in Nat
  OBVIOUS
<1>2. /\ p2 \in Seq(Byte) /\ Len(p2) = 10
      /\ Field(p2, 1, 8) = id /\ Field(p2, 9, 2) = command
  <2>1. /\ id \in Seq(Byte) /\ Len(id) = 8 /\ 8 \in Nat
        /\ command \in Seq(Byte) /\ Len(command) = 2 /\ 2 \in Nat
    BY <1>1
  <2>2. /\ id \o command \in Seq(Byte) /\ Len(id \o command) = 8 + 2
        /\ Field(id \o command, 8 + 1, 2) = command
        /\ Keeps(id \o command, id, 8)
    BY <2>1, Appended, Zenon
  <2>3. /\ Field(id \o command, 1, 8) = Field(id, 1, 8)
    BY <1>1, <2>2 DEF Keeps
  <2>4. Field(id, 1, 8) = id
    BY <1>1, WholeField
  <2>5. 8 + 2 = 10 /\ 8 + 1 = 9
    BY <1>1
  <2>6. QED
    BY ONLY <2>2, <2>3, <2>4, <2>5 DEF p2
<1> HIDE DEF p2
<1>3. /\ p3 \in Seq(Byte) /\ Len(p3) = 12
      /\ Field(p3, 1, 8) = id /\ Field(p3, 9, 2) = command
      /\ Field(p3, 11, 2) = zero
  <2>1. /\ p2 \in Seq(Byte) /\ Len(p2) = 10 /\ 10 \in Nat
        /\ zero \in Seq(Byte) /\ Len(zero) = 2 /\ 2 \in Nat
    BY <1>1, <1>2
  <2>2. /\ p2 \o zero \in Seq(Byte) /\ Len(p2 \o zero) = 10 + 2
        /\ Field(p2 \o zero, 10 + 1, 2) = zero
        /\ Keeps(p2 \o zero, p2, 10)
    BY <2>1, Appended, Zenon
  <2>3. /\ Field(p2 \o zero, 1, 8) = Field(p2, 1, 8)
        /\ Field(p2 \o zero, 9, 2) = Field(p2, 9, 2)
    BY <1>1, <2>2 DEF Keeps
  <2>4. /\ Field(p2, 1, 8) = id
        /\ Field(p2, 9, 2) = command
    BY <1>2
  <2>5. 10 + 2 = 12 /\ 10 + 1 = 11
    BY <1>1
  <2>6. QED
    BY ONLY <2>2, <2>3, <2>4, <2>5 DEF p3
<1> HIDE DEF p3
<1>4. /\ p4 \in Seq(Byte) /\ Len(p4) = 16
      /\ Field(p4, 1, 8) = id /\ Field(p4, 9, 2) = command
      /\ Field(p4, 11, 2) = zero /\ Field(p4, 13, 4) = timeout
  <2>1. /\ p3 \in Seq(Byte) /\ Len(p3) = 12 /\ 12 \in Nat
        /\ timeout \in Seq(Byte) /\ Len(timeout) = 4 /\ 4 \in Nat
    BY <1>1, <1>3
  <2>2. /\ p3 \o timeout \in Seq(Byte) /\ Len(p3 \o timeout) = 12 + 4
        /\ Field(p3 \o timeout, 12 + 1, 4) = timeout
        /\ Keeps(p3 \o timeout, p3, 12)
    BY <2>1, Appended, Zenon
  <2>3. /\ Field(p3 \o timeout, 1, 8) = Field(p3, 1, 8)
        /\ Field(p3 \o timeout, 9, 2) = Field(p3, 9, 2)
        /\ Field(p3 \o timeout, 11, 2) = Field(p3, 11, 2)
    BY <1>1, <2>2 DEF Keeps
  <2>4. /\ Field(p3, 1, 8) = id
        /\ Field(p3, 9, 2) = command
        /\ Field(p3, 11, 2) = zero
    BY <1>3
  <2>5. 12 + 4 = 16 /\ 12 + 1 = 13
    BY <1>1
  <2>6. QED
    BY ONLY <2>2, <2>3, <2>4, <2>5 DEF p4
<1> HIDE DEF p4
<1>5. /\ p5 \in Seq(Byte) /\ Len(p5) = 48
      /\ Field(p5, 1, 8) = id /\ Field(p5, 9, 2) = command
      /\ Field(p5, 11, 2) = zero /\ Field(p5, 13, 4) = timeout
      /\ Field(p5, 17, 32) = nonce
  <2>1. /\ p4 \in Seq(Byte) /\ Len(p4) = 16 /\ 16 \in Nat
        /\ nonce \in Seq(Byte) /\ Len(nonce) = 32 /\ 32 \in Nat
    BY <1>1, <1>4
  <2>2. /\ p4 \o nonce \in Seq(Byte) /\ Len(p4 \o nonce) = 16 + 32
        /\ Field(p4 \o nonce, 16 + 1, 32) = nonce
        /\ Keeps(p4 \o nonce, p4, 16)
    BY <2>1, Appended, Zenon
  <2>3. /\ Field(p4 \o nonce, 1, 8) = Field(p4, 1, 8)
        /\ Field(p4 \o nonce, 9, 2) = Field(p4, 9, 2)
        /\ Field(p4 \o nonce, 11, 2) = Field(p4, 11, 2)
        /\ Field(p4 \o nonce, 13, 4) = Field(p4, 13, 4)
    BY <1>1, <2>2 DEF Keeps
  <2>4. /\ Field(p4, 1, 8) = id
        /\ Field(p4, 9, 2) = command
        /\ Field(p4, 11, 2) = zero
        /\ Field(p4, 13, 4) = timeout
    BY <1>4
  <2>5. 16 + 32 = 48 /\ 16 + 1 = 17
    BY <1>1
  <2>6. QED
    BY ONLY <2>2, <2>3, <2>4, <2>5 DEF p5
<1> HIDE DEF p5
<1>6. /\ p6 \in Seq(Byte) /\ Len(p6) = 48 + Len(name)
      /\ Field(p6, 1, 8) = id /\ Field(p6, 9, 2) = command
      /\ Field(p6, 11, 2) = zero /\ Field(p6, 13, 4) = timeout
      /\ Field(p6, 17, 32) = nonce /\ Field(p6, 49, Len(name)) = name
  <2>1. /\ p5 \in Seq(Byte) /\ Len(p5) = 48 /\ 48 \in Nat
        /\ name \in Seq(Byte) /\ Len(name) = Len(name) /\ Len(name) \in Nat
    BY <1>1, <1>5
  <2>2. /\ p5 \o name \in Seq(Byte) /\ Len(p5 \o name) = 48 + Len(name)
        /\ Field(p5 \o name, 48 + 1, Len(name)) = name
        /\ Keeps(p5 \o name, p5, 48)
    BY <2>1, Appended, Zenon
  <2>3. /\ Field(p5 \o name, 1, 8) = Field(p5, 1, 8)
        /\ Field(p5 \o name, 9, 2) = Field(p5, 9, 2)
        /\ Field(p5 \o name, 11, 2) = Field(p5, 11, 2)
        /\ Field(p5 \o name, 13, 4) = Field(p5, 13, 4)
        /\ Field(p5 \o name, 17, 32) = Field(p5, 17, 32)
    BY <1>1, <2>2 DEF Keeps
  <2>4. /\ Field(p5, 1, 8) = id
        /\ Field(p5, 9, 2) = command
        /\ Field(p5, 11, 2) = zero
        /\ Field(p5, 13, 4) = timeout
        /\ Field(p5, 17, 32) = nonce
    BY <1>5
  <2>5. 48 + Len(name) = 48 + Len(name) /\ 48 + 1 = 49
    BY <1>1
  <2>6. QED
    BY ONLY <2>2, <2>3, <2>4, <2>5 DEF p6
<1> HIDE DEF p6
<1>7. /\ p7 \in Seq(Byte) /\ Len(p7) = 66 + Len(name)
      /\ Field(p7, 1, 8) = id /\ Field(p7, 9, 2) = command
      /\ Field(p7, 11, 2) = zero /\ Field(p7, 13, 4) = timeout
      /\ Field(p7, 17, 32) = nonce /\ Field(p7, 49, Len(name)) = name
      /\ Field(p7, 49 + Len(name), 18) = token
  <2>1. /\ p6 \in Seq(Byte) /\ Len(p6) = 48 + Len(name) /\ 48 + Len(name) \in Nat
        /\ token \in Seq(Byte) /\ Len(token) = 18 /\ 18 \in Nat
    BY <1>1, <1>6
  <2>2. /\ p6 \o token \in Seq(Byte) /\ Len(p6 \o token) = 48 + Len(name) + 18
        /\ Field(p6 \o token, 48 + Len(name) + 1, 18) = token
        /\ Keeps(p6 \o token, p6, 48 + Len(name))
    BY <2>1, Appended, Zenon
  <2>3. /\ Field(p6 \o token, 1, 8) = Field(p6, 1, 8)
        /\ Field(p6 \o token, 9, 2) = Field(p6, 9, 2)
        /\ Field(p6 \o token, 11, 2) = Field(p6, 11, 2)
        /\ Field(p6 \o token, 13, 4) = Field(p6, 13, 4)
        /\ Field(p6 \o token, 17, 32) = Field(p6, 17, 32)
        /\ Field(p6 \o token, 49, Len(name)) = Field(p6, 49, Len(name))
    <3>1. /\ 1 \in Nat \ {0} /\ 9 \in Nat \ {0} /\ 11 \in Nat \ {0} /\ 13 \in Nat \ {0}
          /\ 17 \in Nat \ {0} /\ 49 \in Nat \ {0}
          /\ 8 \in Nat /\ 2 \in Nat /\ 4 \in Nat /\ 32 \in Nat /\ Len(name) \in Nat
      BY <1>1
    <3>2. /\ 1 + 8 - 1 <= 48 + Len(name) /\ 9 + 2 - 1 <= 48 + Len(name)
          /\ 11 + 2 - 1 <= 48 + Len(name) /\ 13 + 4 - 1 <= 48 + Len(name)
          /\ 17 + 32 - 1 <= 48 + Len(name) /\ 49 + Len(name) - 1 <= 48 + Len(name)
      BY ONLY <3>1
    <3>3. QED
      BY ONLY <2>2, <3>1, <3>2, Zenon DEF Keeps
  <2>4. /\ Field(p6, 1, 8) = id
        /\ Field(p6, 9, 2) = command
        /\ Field(p6, 11, 2) = zero
        /\ Field(p6, 13, 4) = timeout
        /\ Field(p6, 17, 32) = nonce
        /\ Field(p6, 49, Len(name)) = name
    BY <1>6
  <2>5. 48 + Len(name) + 18 = 66 + Len(name) /\ 48 + Len(name) + 1 = 49 + Len(name)
    BY <1>1
  <2>6. QED
    BY ONLY <2>2, <2>3, <2>4, <2>5 DEF p7
<1> HIDE DEF p7
<1>8. QED
  BY <1>7 DEF RequestLaid, RequestOf, p2, p3, p4, p5, p6, p7

ResponseLaid(payload, id, status, before, after, zero, error, nonce, text) ==
  /\ payload \in Seq(Byte) /\ Len(payload) = 52 + Len(text)
  /\ Field(payload, 1, 8) = id
  /\ Field(payload, 9, 2) = status
  /\ Field(payload, 11, 2) = before
  /\ Field(payload, 13, 2) = after
  /\ Field(payload, 15, 2) = zero
  /\ Field(payload, 17, 4) = error
  /\ Field(payload, 21, 32) = nonce
  /\ Field(payload, 53, Len(text)) = text

ResponseOf(id, status, before, after, zero, error, nonce, text) ==
  id \o status \o before \o after \o zero \o error \o nonce \o text

LEMMA ResponseFields ==
  ASSUME NEW id \in Seq(Byte), NEW status \in Seq(Byte), NEW before \in Seq(Byte),
         NEW after \in Seq(Byte), NEW zero \in Seq(Byte), NEW error \in Seq(Byte),
         NEW nonce \in Seq(Byte), NEW text \in Seq(Byte),
         Len(id) = 8, Len(status) = 2, Len(before) = 2, Len(after) = 2, Len(zero) = 2,
         Len(error) = 4, Len(nonce) = 32
  PROVE  ResponseLaid(ResponseOf(id, status, before, after, zero, error, nonce, text), id, status, before, after, zero, error, nonce, text)
<1> DEFINE p2 == id \o status
           p3 == p2 \o before
           p4 == p3 \o after
           p5 == p4 \o zero
           p6 == p5 \o error
           p7 == p6 \o nonce
           p8 == p7 \o text
<1>1. /\ Len(id) = 8 /\ Len(status) = 2 /\ Len(before) = 2 /\ Len(after) = 2 /\ Len(zero) = 2
      /\ Len(error) = 4 /\ Len(nonce) = 32 /\ Len(text) \in Nat
  OBVIOUS
<1>2. /\ p2 \in Seq(Byte) /\ Len(p2) = 10
      /\ Field(p2, 1, 8) = id /\ Field(p2, 9, 2) = status
  <2>1. /\ id \in Seq(Byte) /\ Len(id) = 8 /\ 8 \in Nat
        /\ status \in Seq(Byte) /\ Len(status) = 2 /\ 2 \in Nat
    BY <1>1
  <2>2. /\ id \o status \in Seq(Byte) /\ Len(id \o status) = 8 + 2
        /\ Field(id \o status, 8 + 1, 2) = status
        /\ Keeps(id \o status, id, 8)
    BY <2>1, Appended, Zenon
  <2>3. /\ Field(id \o status, 1, 8) = Field(id, 1, 8)
    BY <1>1, <2>2 DEF Keeps
  <2>4. Field(id, 1, 8) = id
    BY <1>1, WholeField
  <2>5. 8 + 2 = 10 /\ 8 + 1 = 9
    BY <1>1
  <2>6. QED
    BY ONLY <2>2, <2>3, <2>4, <2>5 DEF p2
<1> HIDE DEF p2
<1>3. /\ p3 \in Seq(Byte) /\ Len(p3) = 12
      /\ Field(p3, 1, 8) = id /\ Field(p3, 9, 2) = status
      /\ Field(p3, 11, 2) = before
  <2>1. /\ p2 \in Seq(Byte) /\ Len(p2) = 10 /\ 10 \in Nat
        /\ before \in Seq(Byte) /\ Len(before) = 2 /\ 2 \in Nat
    BY <1>1, <1>2
  <2>2. /\ p2 \o before \in Seq(Byte) /\ Len(p2 \o before) = 10 + 2
        /\ Field(p2 \o before, 10 + 1, 2) = before
        /\ Keeps(p2 \o before, p2, 10)
    BY <2>1, Appended, Zenon
  <2>3. /\ Field(p2 \o before, 1, 8) = Field(p2, 1, 8)
        /\ Field(p2 \o before, 9, 2) = Field(p2, 9, 2)
    BY <1>1, <2>2 DEF Keeps
  <2>4. /\ Field(p2, 1, 8) = id
        /\ Field(p2, 9, 2) = status
    BY <1>2
  <2>5. 10 + 2 = 12 /\ 10 + 1 = 11
    BY <1>1
  <2>6. QED
    BY ONLY <2>2, <2>3, <2>4, <2>5 DEF p3
<1> HIDE DEF p3
<1>4. /\ p4 \in Seq(Byte) /\ Len(p4) = 14
      /\ Field(p4, 1, 8) = id /\ Field(p4, 9, 2) = status
      /\ Field(p4, 11, 2) = before /\ Field(p4, 13, 2) = after
  <2>1. /\ p3 \in Seq(Byte) /\ Len(p3) = 12 /\ 12 \in Nat
        /\ after \in Seq(Byte) /\ Len(after) = 2 /\ 2 \in Nat
    BY <1>1, <1>3
  <2>2. /\ p3 \o after \in Seq(Byte) /\ Len(p3 \o after) = 12 + 2
        /\ Field(p3 \o after, 12 + 1, 2) = after
        /\ Keeps(p3 \o after, p3, 12)
    BY <2>1, Appended, Zenon
  <2>3. /\ Field(p3 \o after, 1, 8) = Field(p3, 1, 8)
        /\ Field(p3 \o after, 9, 2) = Field(p3, 9, 2)
        /\ Field(p3 \o after, 11, 2) = Field(p3, 11, 2)
    BY <1>1, <2>2 DEF Keeps
  <2>4. /\ Field(p3, 1, 8) = id
        /\ Field(p3, 9, 2) = status
        /\ Field(p3, 11, 2) = before
    BY <1>3
  <2>5. 12 + 2 = 14 /\ 12 + 1 = 13
    BY <1>1
  <2>6. QED
    BY ONLY <2>2, <2>3, <2>4, <2>5 DEF p4
<1> HIDE DEF p4
<1>5. /\ p5 \in Seq(Byte) /\ Len(p5) = 16
      /\ Field(p5, 1, 8) = id /\ Field(p5, 9, 2) = status
      /\ Field(p5, 11, 2) = before /\ Field(p5, 13, 2) = after
      /\ Field(p5, 15, 2) = zero
  <2>1. /\ p4 \in Seq(Byte) /\ Len(p4) = 14 /\ 14 \in Nat
        /\ zero \in Seq(Byte) /\ Len(zero) = 2 /\ 2 \in Nat
    BY <1>1, <1>4
  <2>2. /\ p4 \o zero \in Seq(Byte) /\ Len(p4 \o zero) = 14 + 2
        /\ Field(p4 \o zero, 14 + 1, 2) = zero
        /\ Keeps(p4 \o zero, p4, 14)
    BY <2>1, Appended, Zenon
  <2>3. /\ Field(p4 \o zero, 1, 8) = Field(p4, 1, 8)
        /\ Field(p4 \o zero, 9, 2) = Field(p4, 9, 2)
        /\ Field(p4 \o zero, 11, 2) = Field(p4, 11, 2)
        /\ Field(p4 \o zero, 13, 2) = Field(p4, 13, 2)
    BY <1>1, <2>2 DEF Keeps
  <2>4. /\ Field(p4, 1, 8) = id
        /\ Field(p4, 9, 2) = status
        /\ Field(p4, 11, 2) = before
        /\ Field(p4, 13, 2) = after
    BY <1>4
  <2>5. 14 + 2 = 16 /\ 14 + 1 = 15
    BY <1>1
  <2>6. QED
    BY ONLY <2>2, <2>3, <2>4, <2>5 DEF p5
<1> HIDE DEF p5
<1>6. /\ p6 \in Seq(Byte) /\ Len(p6) = 20
      /\ Field(p6, 1, 8) = id /\ Field(p6, 9, 2) = status
      /\ Field(p6, 11, 2) = before /\ Field(p6, 13, 2) = after
      /\ Field(p6, 15, 2) = zero /\ Field(p6, 17, 4) = error
  <2>1. /\ p5 \in Seq(Byte) /\ Len(p5) = 16 /\ 16 \in Nat
        /\ error \in Seq(Byte) /\ Len(error) = 4 /\ 4 \in Nat
    BY <1>1, <1>5
  <2>2. /\ p5 \o error \in Seq(Byte) /\ Len(p5 \o error) = 16 + 4
        /\ Field(p5 \o error, 16 + 1, 4) = error
        /\ Keeps(p5 \o error, p5, 16)
    BY <2>1, Appended, Zenon
  <2>3. /\ Field(p5 \o error, 1, 8) = Field(p5, 1, 8)
        /\ Field(p5 \o error, 9, 2) = Field(p5, 9, 2)
        /\ Field(p5 \o error, 11, 2) = Field(p5, 11, 2)
        /\ Field(p5 \o error, 13, 2) = Field(p5, 13, 2)
        /\ Field(p5 \o error, 15, 2) = Field(p5, 15, 2)
    BY <1>1, <2>2 DEF Keeps
  <2>4. /\ Field(p5, 1, 8) = id
        /\ Field(p5, 9, 2) = status
        /\ Field(p5, 11, 2) = before
        /\ Field(p5, 13, 2) = after
        /\ Field(p5, 15, 2) = zero
    BY <1>5
  <2>5. 16 + 4 = 20 /\ 16 + 1 = 17
    BY <1>1
  <2>6. QED
    BY ONLY <2>2, <2>3, <2>4, <2>5 DEF p6
<1> HIDE DEF p6
<1>7. /\ p7 \in Seq(Byte) /\ Len(p7) = 52
      /\ Field(p7, 1, 8) = id /\ Field(p7, 9, 2) = status
      /\ Field(p7, 11, 2) = before /\ Field(p7, 13, 2) = after
      /\ Field(p7, 15, 2) = zero /\ Field(p7, 17, 4) = error
      /\ Field(p7, 21, 32) = nonce
  <2>1. /\ p6 \in Seq(Byte) /\ Len(p6) = 20 /\ 20 \in Nat
        /\ nonce \in Seq(Byte) /\ Len(nonce) = 32 /\ 32 \in Nat
    BY <1>1, <1>6
  <2>2. /\ p6 \o nonce \in Seq(Byte) /\ Len(p6 \o nonce) = 20 + 32
        /\ Field(p6 \o nonce, 20 + 1, 32) = nonce
        /\ Keeps(p6 \o nonce, p6, 20)
    BY <2>1, Appended, Zenon
  <2>3. /\ Field(p6 \o nonce, 1, 8) = Field(p6, 1, 8)
        /\ Field(p6 \o nonce, 9, 2) = Field(p6, 9, 2)
        /\ Field(p6 \o nonce, 11, 2) = Field(p6, 11, 2)
        /\ Field(p6 \o nonce, 13, 2) = Field(p6, 13, 2)
        /\ Field(p6 \o nonce, 15, 2) = Field(p6, 15, 2)
        /\ Field(p6 \o nonce, 17, 4) = Field(p6, 17, 4)
    BY <1>1, <2>2 DEF Keeps
  <2>4. /\ Field(p6, 1, 8) = id
        /\ Field(p6, 9, 2) = status
        /\ Field(p6, 11, 2) = before
        /\ Field(p6, 13, 2) = after
        /\ Field(p6, 15, 2) = zero
        /\ Field(p6, 17, 4) = error
    BY <1>6
  <2>5. 20 + 32 = 52 /\ 20 + 1 = 21
    BY <1>1
  <2>6. QED
    BY ONLY <2>2, <2>3, <2>4, <2>5 DEF p7
<1> HIDE DEF p7
<1>8. /\ p8 \in Seq(Byte) /\ Len(p8) = 52 + Len(text)
      /\ Field(p8, 1, 8) = id /\ Field(p8, 9, 2) = status
      /\ Field(p8, 11, 2) = before /\ Field(p8, 13, 2) = after
      /\ Field(p8, 15, 2) = zero /\ Field(p8, 17, 4) = error
      /\ Field(p8, 21, 32) = nonce /\ Field(p8, 53, Len(text)) = text
  <2>1. /\ p7 \in Seq(Byte) /\ Len(p7) = 52 /\ 52 \in Nat
        /\ text \in Seq(Byte) /\ Len(text) = Len(text) /\ Len(text) \in Nat
    BY <1>1, <1>7
  <2>2. /\ p7 \o text \in Seq(Byte) /\ Len(p7 \o text) = 52 + Len(text)
        /\ Field(p7 \o text, 52 + 1, Len(text)) = text
        /\ Keeps(p7 \o text, p7, 52)
    BY <2>1, Appended, Zenon
  <2>3. /\ Field(p7 \o text, 1, 8) = Field(p7, 1, 8)
        /\ Field(p7 \o text, 9, 2) = Field(p7, 9, 2)
        /\ Field(p7 \o text, 11, 2) = Field(p7, 11, 2)
        /\ Field(p7 \o text, 13, 2) = Field(p7, 13, 2)
        /\ Field(p7 \o text, 15, 2) = Field(p7, 15, 2)
        /\ Field(p7 \o text, 17, 4) = Field(p7, 17, 4)
        /\ Field(p7 \o text, 21, 32) = Field(p7, 21, 32)
    BY <1>1, <2>2 DEF Keeps
  <2>4. /\ Field(p7, 1, 8) = id
        /\ Field(p7, 9, 2) = status
        /\ Field(p7, 11, 2) = before
        /\ Field(p7, 13, 2) = after
        /\ Field(p7, 15, 2) = zero
        /\ Field(p7, 17, 4) = error
        /\ Field(p7, 21, 32) = nonce
    BY <1>7
  <2>5. 52 + Len(text) = 52 + Len(text) /\ 52 + 1 = 53
    BY <1>1
  <2>6. QED
    BY ONLY <2>2, <2>3, <2>4, <2>5 DEF p8
<1> HIDE DEF p8
<1>9. QED
  BY <1>8 DEF ResponseLaid, ResponseOf, p2, p3, p4, p5, p6, p7, p8

-----------------------------------------------------------------------------
\* Bytes of a fixed number.
LEMMA FixedBytes ==
  ASSUME NEW k \in Nat, NEW f \in [1..k -> Byte]
  PROVE  f \in Seq(Byte) /\ Len(f) = k
OBVIOUS

LEMMA SmallIsShort ==
  /\ \A n \in Nat : n <= 600 => n \in Short
  /\ \A n \in TimeoutValues : n \in Short
<1>1. ASSUME NEW n \in Nat, n <= 600
      PROVE  n \in Short
  <2>1. n \in Nat /\ n < Large
    BY <1>1, LargeFacts
  <2>2. QED
    BY <2>1, ShortFacts
<1>2. ASSUME NEW n \in TimeoutValues
      PROVE  n \in Short
  <2>1. n \in Nat /\ n < Large
    BY SMTT(30) DEF Large, TimeoutValues
  <2>2. QED
    BY <2>1, ShortFacts
<1>3. QED
  BY <1>1, <1>2

LEMMA RequestSort ==
  ASSUME NEW r \in Requests, ValidRequest(r)
  PROVE  /\ r.id \in Seq(Byte) /\ Len(r.id) = 8
         /\ r.nonce \in Seq(Byte) /\ Len(r.nonce) = 32
         /\ r.name \in Seq(Byte) /\ Len(r.name) <= 256
         /\ r.token \in Seq(Byte) /\ Len(r.token) = 16
         /\ r.command \in Short /\ r.timeout \in Short
<1>1. r.id \in Seq(Byte) /\ Len(r.id) = 8 /\ r.nonce \in Seq(Byte) /\ Len(r.nonce) = 32
  <2>1. r.id \in [1..8 -> Byte] /\ r.nonce \in [1..32 -> Byte]
    BY DEF Requests
  <2>2. 8 \in Nat /\ 32 \in Nat
    OBVIOUS
  <2>3. QED
    BY <2>1, <2>2, FixedBytes
<1>2. r.name \in Seq(Byte) /\ Len(r.name) <= 256
  BY DEF Requests, ValidRequest, MaximumServiceNameBytes
<1>3. r.token \in Seq(Byte) /\ Len(r.token) = 16
  BY DEF Requests, ValidRequest, Text!IsIdentityToken
<1>4. r.command \in Nat /\ r.command <= 600
  BY DEF ValidRequest, CommandValues
<1>5. r.timeout \in TimeoutValues
  BY DEF ValidRequest
<1>6. QED
  BY <1>1, <1>2, <1>3, <1>4, <1>5, SmallIsShort

\* An encoded request is read back, and not as a response.
LEMMA RequestExact ==
  ASSUME NEW r \in Requests, ValidRequest(r)
  PROVE  /\ Bytes(r) \in Seq(Byte) /\ CheckMessageSize(Bytes(r))
         /\ DecodeRequest(Bytes(r)) = r
         /\ DecodeResponse(Bytes(r)) = Rejected
<1> DEFINE n == Len(r.name)
           command == LittleEndian(r.command, 2)
           zero == LittleEndian(0, 2)
           timeout == LittleEndian(r.timeout, 4)
           name == AppendString(r.name)
           token == AppendString(r.token)
           payload == RequestPayload(r)
           bytes == WithHeader("request", payload)
<1>1. /\ r.id \in Seq(Byte) /\ Len(r.id) = 8
      /\ r.nonce \in Seq(Byte) /\ Len(r.nonce) = 32
      /\ r.name \in Seq(Byte) /\ n <= 256
      /\ r.token \in Seq(Byte) /\ Len(r.token) = 16
      /\ r.command \in Short /\ r.timeout \in Short
  BY RequestSort
<1>2. 0 \in Short /\ n \in Short /\ 16 \in Short /\ n \in Nat
  <2>1. 0 \in Nat /\ n \in Nat /\ 16 \in Nat /\ n <= 600 /\ 0 <= 600 /\ 16 <= 600
    BY <1>1
  <2>2. QED
    BY <2>1, SmallIsShort
<1>3. /\ command \in Seq(Byte) /\ Len(command) = 2 /\ Value(command) = r.command
      /\ zero \in Seq(Byte) /\ Len(zero) = 2 /\ Value(zero) = 0
      /\ timeout \in Seq(Byte) /\ Len(timeout) = 4 /\ Value(timeout) = r.timeout
  BY <1>1, <1>2, NumberFacts
<1>4. name \in Seq(Byte) /\ Len(name) = 2 + n
  BY <1>1, <1>2, StringFacts
<1>5. token \in Seq(Byte) /\ Len(token) = 18
  <2>1. token \in Seq(Byte) /\ Len(token) = 2 + Len(r.token)
    BY <1>1, <1>2, StringFacts
  <2>2. QED
    BY <1>1, <2>1
<1>6. payload = RequestOf(r.id, command, zero, timeout, r.nonce, name, token)
  BY DEF RequestPayload, RequestOf
<1>7. Bytes(r) = bytes
  BY DEF Bytes, Requests
<1> HIDE DEF command, zero, timeout, name, token, payload
<1>8. /\ payload \in Seq(Byte) /\ Len(payload) = 68 + n
      /\ Field(payload, 1, 8) = r.id /\ Field(payload, 9, 2) = command
      /\ Field(payload, 11, 2) = zero /\ Field(payload, 13, 4) = timeout
      /\ Field(payload, 17, 32) = r.nonce /\ Field(payload, 49, 2 + n) = name
      /\ Field(payload, 51 + n, 18) = token
  <2>1. /\ r.id \in Seq(Byte) /\ Len(r.id) = 8 /\ command \in Seq(Byte) /\ Len(command) = 2
        /\ zero \in Seq(Byte) /\ Len(zero) = 2 /\ timeout \in Seq(Byte) /\ Len(timeout) = 4
        /\ r.nonce \in Seq(Byte) /\ Len(r.nonce) = 32 /\ name \in Seq(Byte)
        /\ Len(name) = 2 + n /\ token \in Seq(Byte) /\ Len(token) = 18 /\ n \in Nat
    BY <1>1, <1>2, <1>3, <1>4, <1>5
  <2>2. QED
    <3>1. RequestLaid(RequestOf(r.id, command, zero, timeout, r.nonce, name, token),
                      r.id, command, zero, timeout, r.nonce, name, token)
      BY <2>1, RequestFields, Zenon
    <3>2. 66 + Len(name) = 68 + n /\ 49 + Len(name) = 51 + n
      BY ONLY <2>1
    <3>3. QED
      BY <2>1, <3>1, <3>2, <1>6 DEF RequestLaid
<1>9. 12 + Len(payload) <= MaximumMessageBytes
  <2>1. n \in Int /\ n <= 256 /\ Len(payload) = 68 + n
    BY <1>1, <1>8
  <2>2. QED
    BY ONLY <2>1, SizeFacts
<1>10. /\ bytes \in Seq(Byte) /\ Len(bytes) = 12 + Len(payload)
       /\ CheckMessageSize(bytes)
       /\ ReadHeader(bytes, "request") /\ ~ReadHeader(bytes, "response")
       /\ \A at \in Nat \ {0}, k \in Nat :
            at + k - 1 <= Len(payload) => Field(bytes, 12 + at, k) = Field(payload, at, k)
  BY <1>8, <1>9, HeaderWritten
<1> HIDE DEF bytes
<1>11. /\ Field(bytes, 12 + 1, 8) = Field(payload, 1, 8)
       /\ Field(bytes, 12 + 9, 2) = Field(payload, 9, 2)
       /\ Field(bytes, 12 + 11, 2) = Field(payload, 11, 2)
       /\ Field(bytes, 12 + 13, 4) = Field(payload, 13, 4)
       /\ Field(bytes, 12 + 17, 32) = Field(payload, 17, 32)
       /\ Field(bytes, 12 + 49, 2 + n) = Field(payload, 49, 2 + n)
       /\ Field(bytes, 12 + (51 + n), 18) = Field(payload, 51 + n, 18)
  <2>1. /\ 1 \in Nat \ {0} /\ 9 \in Nat \ {0} /\ 11 \in Nat \ {0} /\ 13 \in Nat \ {0}
        /\ 17 \in Nat \ {0} /\ 49 \in Nat \ {0} /\ 51 + n \in Nat \ {0}
        /\ 8 \in Nat /\ 2 \in Nat /\ 4 \in Nat /\ 32 \in Nat /\ 2 + n \in Nat /\ 18 \in Nat
    BY <1>2
  <2>2. /\ 1 + 8 - 1 <= Len(payload) /\ 9 + 2 - 1 <= Len(payload) /\ 11 + 2 - 1 <= Len(payload)
        /\ 13 + 4 - 1 <= Len(payload) /\ 17 + 32 - 1 <= Len(payload)
        /\ 49 + (2 + n) - 1 <= Len(payload) /\ 51 + n + 18 - 1 <= Len(payload)
    <3>1. n \in Nat /\ Len(payload) = 68 + n
      BY <1>2, <1>8
    <3>2. QED
      BY ONLY <3>1
  <2>3. QED
    BY ONLY <2>1, <2>2, <1>10
<1>12. /\ Field(bytes, 13, 8) = r.id /\ Read(bytes, 21, 2) = r.command
       /\ Read(bytes, 23, 2) = 0 /\ Read(bytes, 25, 4) = r.timeout
       /\ Field(bytes, 29, 32) = r.nonce /\ Field(bytes, 61, 2 + n) = name
       /\ Field(bytes, 63 + n, 18) = token
  <2>1. /\ 12 + 1 = 13 /\ 12 + 9 = 21 /\ 12 + 11 = 23 /\ 12 + 13 = 25 /\ 12 + 17 = 29
        /\ 12 + 49 = 61 /\ 12 + (51 + n) = 63 + n
    BY <1>2
  <2>2. QED
    BY ONLY <2>1, <1>3, <1>8, <1>11 DEF Read
<1>13. Len(bytes) = 80 + n
  BY <1>2, <1>8, <1>10
<1>14. ReadString(bytes, 61) = [value |-> r.name, next |-> 63 + n]
  <2>1. 61 \in Nat \ {0} /\ 61 + Len(r.name) + 1 <= Len(bytes) /\ 61 + 2 + n = 63 + n
    BY <1>2, <1>13
  <2>2. Field(bytes, 61, 2 + Len(r.name)) = AppendString(r.name)
    BY <1>12 DEF name
  <2>3. ReadString(bytes, 61) = [value |-> r.name, next |-> 61 + 2 + Len(r.name)]
    BY <1>1, <1>2, <1>10, <2>1, <2>2, StringRead
  <2>4. QED
    BY <2>1, <2>3
<1>15. ReadString(bytes, 63 + n) = [value |-> r.token, next |-> 81 + n]
  <2>1. PICK at \in Nat \ {0} : at = 63 + n
    BY <1>1, <1>2
  <2>2. /\ at + Len(r.token) + 1 <= Len(bytes)
        /\ at + 2 + Len(r.token) = 81 + n /\ 2 + Len(r.token) = 18
    BY <1>1, <1>2, <1>13, <2>1
  <2>3. Field(bytes, at, 2 + Len(r.token)) = AppendString(r.token)
    BY <1>12, <2>1, <2>2 DEF token
  <2>4. bytes \in Seq(Byte) /\ r.token \in Seq(Byte) /\ Len(r.token) \in Short
    BY <1>1, <1>2, <1>10
  <2>5. ReadString(bytes, at) = [value |-> r.token, next |-> at + 2 + Len(r.token)]
    BY <2>2, <2>3, <2>4, StringRead, Zenon
  <2>6. QED
    BY <2>1, <2>2, <2>5
<1>16. [kind |-> "request", id |-> r.id, command |-> r.command, timeout |-> r.timeout,
        nonce |-> r.nonce, name |-> r.name, token |-> r.token] = r
  BY DEF Requests
<1>17. Finished(bytes, 81 + n) /\ Fits(bytes, 1, 60)
  BY <1>2, <1>13 DEF Finished, Fits
<1>18. DecodeRequest(bytes) = r
  BY <1>10, <1>12, <1>14, <1>15, <1>16, <1>17 DEF DecodeRequest
<1>19. DecodeResponse(bytes) = Rejected
  BY <1>10 DEF DecodeResponse
<1>20. QED
  BY <1>7, <1>10, <1>18, <1>19

LEMMA ResponseSort ==
  ASSUME NEW r \in Responses, ValidResponse(r)
  PROVE  /\ r.id \in Seq(Byte) /\ Len(r.id) = 8
         /\ r.error \in Seq(Byte) /\ Len(r.error) = 4
         /\ r.nonce \in Seq(Byte) /\ Len(r.nonce) = 32
         /\ r.text \in Seq(Byte) /\ Len(r.text) <= 512
         /\ r.status \in Short /\ r.before \in Short /\ r.after \in Short
<1>1. /\ r.id \in Seq(Byte) /\ Len(r.id) = 8 /\ r.error \in Seq(Byte) /\ Len(r.error) = 4
      /\ r.nonce \in Seq(Byte) /\ Len(r.nonce) = 32
  <2>1. r.id \in [1..8 -> Byte] /\ r.error \in [1..4 -> Byte] /\ r.nonce \in [1..32 -> Byte]
    BY DEF Responses
  <2>2. 8 \in Nat /\ 4 \in Nat /\ 32 \in Nat
    OBVIOUS
  <2>3. QED
    BY <2>1, <2>2, FixedBytes
<1>2. r.text \in Seq(Byte) /\ Len(r.text) <= 512
  BY DEF Responses, ValidResponse, MaximumResponseTextBytes
<1>3. /\ r.status \in Nat /\ r.status <= 600
      /\ r.before \in Nat /\ r.before <= 600
      /\ r.after \in Nat /\ r.after <= 600
  BY DEF ValidResponse, StatusValues, WireStates
<1>4. QED
  BY <1>1, <1>2, <1>3, SmallIsShort

\* An encoded response is read back, and not as a request.
LEMMA ResponseExact ==
  ASSUME NEW r \in Responses, ValidResponse(r)
  PROVE  /\ Bytes(r) \in Seq(Byte) /\ CheckMessageSize(Bytes(r))
         /\ DecodeResponse(Bytes(r)) = r
         /\ DecodeRequest(Bytes(r)) = Rejected
<1> DEFINE n == Len(r.text)
           status == LittleEndian(r.status, 2)
           before == LittleEndian(r.before, 2)
           after == LittleEndian(r.after, 2)
           zero == LittleEndian(0, 2)
           text == AppendString(r.text)
           payload == ResponsePayload(r)
           bytes == WithHeader("response", payload)
<1>1. /\ r.id \in Seq(Byte) /\ Len(r.id) = 8
      /\ r.error \in Seq(Byte) /\ Len(r.error) = 4
      /\ r.nonce \in Seq(Byte) /\ Len(r.nonce) = 32
      /\ r.text \in Seq(Byte) /\ n <= 512
      /\ r.status \in Short /\ r.before \in Short /\ r.after \in Short
  BY ResponseSort
<1>2. 0 \in Short /\ n \in Short /\ n \in Nat
  <2>1. 0 \in Nat /\ n \in Nat /\ n <= 600 /\ 0 <= 600
    BY <1>1
  <2>2. QED
    BY <2>1, SmallIsShort
<1>3. /\ status \in Seq(Byte) /\ Len(status) = 2 /\ Value(status) = r.status
      /\ before \in Seq(Byte) /\ Len(before) = 2 /\ Value(before) = r.before
      /\ after \in Seq(Byte) /\ Len(after) = 2 /\ Value(after) = r.after
      /\ zero \in Seq(Byte) /\ Len(zero) = 2 /\ Value(zero) = 0
  BY <1>1, <1>2, NumberFacts
<1>4. text \in Seq(Byte) /\ Len(text) = 2 + n
  BY <1>1, <1>2, StringFacts
<1>5. payload = ResponseOf(r.id, status, before, after, zero, r.error, r.nonce, text)
  BY DEF ResponsePayload, ResponseOf
<1>6. Bytes(r) = bytes
  BY DEF Bytes, Responses
<1> HIDE DEF status, before, after, zero, text, payload
<1>7. /\ payload \in Seq(Byte) /\ Len(payload) = 54 + n
      /\ Field(payload, 1, 8) = r.id /\ Field(payload, 9, 2) = status
      /\ Field(payload, 11, 2) = before /\ Field(payload, 13, 2) = after
      /\ Field(payload, 15, 2) = zero /\ Field(payload, 17, 4) = r.error
      /\ Field(payload, 21, 32) = r.nonce /\ Field(payload, 53, 2 + n) = text
  <2>1. /\ r.id \in Seq(Byte) /\ Len(r.id) = 8 /\ status \in Seq(Byte) /\ Len(status) = 2
        /\ before \in Seq(Byte) /\ Len(before) = 2 /\ after \in Seq(Byte) /\ Len(after) = 2
        /\ zero \in Seq(Byte) /\ Len(zero) = 2 /\ r.error \in Seq(Byte) /\ Len(r.error) = 4
        /\ r.nonce \in Seq(Byte) /\ Len(r.nonce) = 32
        /\ text \in Seq(Byte) /\ Len(text) = 2 + n /\ n \in Nat
    BY <1>1, <1>2, <1>3, <1>4
  <2>2. ResponseLaid(ResponseOf(r.id, status, before, after, zero, r.error, r.nonce, text),
                     r.id, status, before, after, zero, r.error, r.nonce, text)
    BY <2>1, ResponseFields, Zenon
  <2>3. 52 + Len(text) = 54 + n
    BY ONLY <2>1
  <2>4. QED
    BY <2>1, <2>2, <2>3, <1>5 DEF ResponseLaid
<1>8. 12 + Len(payload) <= MaximumMessageBytes
  <2>1. n \in Int /\ n <= 512 /\ Len(payload) = 54 + n
    BY <1>1, <1>7
  <2>2. QED
    BY ONLY <2>1, SizeFacts
<1>9. /\ bytes \in Seq(Byte) /\ Len(bytes) = 12 + Len(payload)
      /\ CheckMessageSize(bytes)
      /\ ReadHeader(bytes, "response") /\ ~ReadHeader(bytes, "request")
      /\ \A at \in Nat \ {0}, k \in Nat :
           at + k - 1 <= Len(payload) => Field(bytes, 12 + at, k) = Field(payload, at, k)
  BY <1>7, <1>8, HeaderWritten
<1> HIDE DEF bytes
<1>10. /\ Field(bytes, 12 + 1, 8) = Field(payload, 1, 8)
       /\ Field(bytes, 12 + 9, 2) = Field(payload, 9, 2)
       /\ Field(bytes, 12 + 11, 2) = Field(payload, 11, 2)
       /\ Field(bytes, 12 + 13, 2) = Field(payload, 13, 2)
       /\ Field(bytes, 12 + 15, 2) = Field(payload, 15, 2)
       /\ Field(bytes, 12 + 17, 4) = Field(payload, 17, 4)
       /\ Field(bytes, 12 + 21, 32) = Field(payload, 21, 32)
       /\ Field(bytes, 12 + 53, 2 + n) = Field(payload, 53, 2 + n)
  <2>1. /\ 1 \in Nat \ {0} /\ 9 \in Nat \ {0} /\ 11 \in Nat \ {0} /\ 13 \in Nat \ {0}
        /\ 15 \in Nat \ {0} /\ 17 \in Nat \ {0} /\ 21 \in Nat \ {0} /\ 53 \in Nat \ {0}
        /\ 8 \in Nat /\ 2 \in Nat /\ 4 \in Nat /\ 32 \in Nat /\ 2 + n \in Nat
    BY <1>2
  <2>2. /\ 1 + 8 - 1 <= Len(payload) /\ 9 + 2 - 1 <= Len(payload) /\ 11 + 2 - 1 <= Len(payload)
        /\ 13 + 2 - 1 <= Len(payload) /\ 15 + 2 - 1 <= Len(payload)
        /\ 17 + 4 - 1 <= Len(payload) /\ 21 + 32 - 1 <= Len(payload)
        /\ 53 + (2 + n) - 1 <= Len(payload)
    <3>1. n \in Nat /\ Len(payload) = 54 + n
      BY <1>2, <1>7
    <3>2. QED
      BY ONLY <3>1
  <2>3. QED
    BY ONLY <2>1, <2>2, <1>9
<1>11. /\ Field(bytes, 13, 8) = r.id /\ Read(bytes, 21, 2) = r.status
       /\ Read(bytes, 23, 2) = r.before /\ Read(bytes, 25, 2) = r.after
       /\ Read(bytes, 27, 2) = 0 /\ Field(bytes, 29, 4) = r.error
       /\ Field(bytes, 33, 32) = r.nonce /\ Field(bytes, 65, 2 + n) = text
  <2>1. /\ 12 + 1 = 13 /\ 12 + 9 = 21 /\ 12 + 11 = 23 /\ 12 + 13 = 25 /\ 12 + 15 = 27
        /\ 12 + 17 = 29 /\ 12 + 21 = 33 /\ 12 + 53 = 65
    OBVIOUS
  <2>2. QED
    BY ONLY <2>1, <1>3, <1>7, <1>10 DEF Read
<1>12. Len(bytes) = 66 + n
  BY <1>2, <1>7, <1>9
<1>13. ReadString(bytes, 65) = [value |-> r.text, next |-> 67 + n]
  <2>1. 65 \in Nat \ {0} /\ 65 + Len(r.text) + 1 <= Len(bytes) /\ 65 + 2 + n = 67 + n
    BY <1>2, <1>12
  <2>2. Field(bytes, 65, 2 + Len(r.text)) = AppendString(r.text)
    BY <1>11 DEF text
  <2>3. ReadString(bytes, 65) = [value |-> r.text, next |-> 65 + 2 + Len(r.text)]
    BY <1>1, <1>2, <1>9, <2>1, <2>2, StringRead
  <2>4. QED
    BY <2>1, <2>3
<1>14. [kind |-> "response", id |-> r.id, status |-> r.status, before |-> r.before,
        after |-> r.after, error |-> r.error, nonce |-> r.nonce, text |-> r.text] = r
  BY DEF Responses
<1>15. Finished(bytes, 67 + n) /\ Fits(bytes, 1, 64)
  BY <1>2, <1>12 DEF Finished, Fits
<1>16. DecodeResponse(bytes) = r
  BY <1>9, <1>11, <1>13, <1>14, <1>15 DEF DecodeResponse
<1>17. DecodeRequest(bytes) = Rejected
  BY <1>9 DEF DecodeRequest
<1>18. QED
  BY <1>6, <1>9, <1>16, <1>17

\* Bytes that are accepted as a request are the encoding of what was understood.
LEMMA RequestBack ==
  ASSUME NEW w \in Seq(Byte), DecodeRequest(w) # Rejected
  PROVE  Encodes(DecodeRequest(w)) /\ Bytes(DecodeRequest(w)) = w
<1> DEFINE name == ReadString(w, 61)
           token == ReadString(w, name.next)
           request == [kind |-> "request", id |-> Field(w, 13, 8),
                       command |-> Read(w, 21, 2), timeout |-> Read(w, 25, 4),
                       nonce |-> Field(w, 29, 32), name |-> name.value,
                       token |-> token.value]
           n == Len(name.value)
           k == Len(token.value)
<1>1. w \in Seq(Byte)
  OBVIOUS
<1>2. /\ DecodeRequest(w) = request
      /\ CheckMessageSize(w) /\ ReadHeader(w, "request")
      /\ Fits(w, 1, 60) /\ Finished(w, token.next)
      /\ Read(w, 23, 2) = 0 /\ ValidRequest(request)
  BY DEF DecodeRequest
<1> HIDE DEF name, token, n, k
<1>3. /\ n \in Nat /\ k \in Nat /\ Len(w) = 64 + n + k /\ n \in Short /\ k \in Short
      /\ name.value \in Seq(Byte) /\ token.value \in Seq(Byte)
      /\ AppendString(name.value) = Field(w, 61, 2 + n)
      /\ AppendString(token.value) = Field(w, 63 + n, 2 + k)
  <2>1. /\ name.next \in Nat
        /\ name.next # 0 =>
             /\ name.value \in Seq(Byte) /\ n \in Short
             /\ name.next = 61 + 2 + n
             /\ AppendString(name.value) = Field(w, 61, 2 + n)
    <3>1. 61 \in Nat
      OBVIOUS
    <3>2. QED
      BY <3>1, StringBack DEF name, n
  <2>2. /\ token.next \in Nat
        /\ token.next # 0 =>
             /\ name.next # 0
             /\ token.value \in Seq(Byte) /\ k \in Short
             /\ token.next = name.next + 2 + k
             /\ AppendString(token.value) = Field(w, name.next, 2 + k)
    BY <2>1, StringBack DEF token, k
  <2>3. token.next = Len(w) + 1 /\ Len(w) \in Nat
    BY <1>2 DEF Finished
  <2>4. token.next # 0
    BY <2>3
  <2>5. /\ name.next = 61 + 2 + n /\ token.next = name.next + 2 + k
        /\ n \in Nat /\ k \in Nat
    BY <2>1, <2>2, <2>4, ShortFacts
  <2>6. name.next = 63 + n /\ Len(w) = 64 + n + k
    BY ONLY <2>3, <2>5
  <2>7. QED
    BY <2>1, <2>2, <2>4, <2>5, <2>6
<1>4. /\ LittleEndian(Read(w, 21, 2), 2) = Field(w, 21, 2)
      /\ LittleEndian(0, 2) = Field(w, 23, 2)
      /\ LittleEndian(Read(w, 25, 4), 4) = Field(w, 25, 4)
  <2>1. /\ 2 \in Nat /\ 4 \in Nat /\ 21 \in Nat \ {0} /\ 23 \in Nat \ {0} /\ 25 \in Nat \ {0}
        /\ 21 + 2 - 1 <= Len(w) /\ 23 + 2 - 1 <= Len(w) /\ 25 + 4 - 1 <= Len(w)
    BY <1>3
  <2>2. /\ Field(w, 21, 2) \in Seq(Byte) /\ Len(Field(w, 21, 2)) = 2
        /\ Field(w, 23, 2) \in Seq(Byte) /\ Len(Field(w, 23, 2)) = 2
        /\ Field(w, 25, 4) \in Seq(Byte) /\ Len(Field(w, 25, 4)) = 4
    BY ONLY <1>1, <2>1, FieldSort
  <2>3. Read(w, 25, 4) # Large
    <3>1. request.timeout \in TimeoutValues
      BY <1>2 DEF ValidRequest
    <3>2. QED
      BY <3>1, SmallIsShort, ShortFacts
  <2>4. QED
    BY <1>2, <2>2, <2>3, NumberBack DEF Read
<1>5. RequestPayload(request) = Field(w, 13, Len(w) - 12)
  <2>1. Field(w, 13, 8) \o Field(w, 21, 2) = Field(w, 13, 10)
    <3>1. /\ 13 \in Nat \ {0} /\ 8 \in Nat /\ 2 \in Nat
          /\ 13 + 8 + 2 - 1 <= Len(w)
      BY <1>3
    <3>2. Field(w, 13, 8) \o Field(w, 13 + 8, 2) = Field(w, 13, 8 + 2)
      BY <1>1, <3>1, FieldsJoin, Zenon
    <3>3. 13 + 8 = 21 /\ 8 + 2 = 10
      BY <1>3
    <3>4. QED
      BY ONLY <3>2, <3>3
  <2>2. Field(w, 13, 10) \o Field(w, 23, 2) = Field(w, 13, 12)
    <3>1. /\ 13 \in Nat \ {0} /\ 10 \in Nat /\ 2 \in Nat
          /\ 13 + 10 + 2 - 1 <= Len(w)
      BY <1>3
    <3>2. Field(w, 13, 10) \o Field(w, 13 + 10, 2) = Field(w, 13, 10 + 2)
      BY <1>1, <3>1, FieldsJoin, Zenon
    <3>3. 13 + 10 = 23 /\ 10 + 2 = 12
      BY <1>3
    <3>4. QED
      BY ONLY <3>2, <3>3
  <2>3. Field(w, 13, 12) \o Field(w, 25, 4) = Field(w, 13, 16)
    <3>1. /\ 13 \in Nat \ {0} /\ 12 \in Nat /\ 4 \in Nat
          /\ 13 + 12 + 4 - 1 <= Len(w)
      BY <1>3
    <3>2. Field(w, 13, 12) \o Field(w, 13 + 12, 4) = Field(w, 13, 12 + 4)
      BY <1>1, <3>1, FieldsJoin, Zenon
    <3>3. 13 + 12 = 25 /\ 12 + 4 = 16
      BY <1>3
    <3>4. QED
      BY ONLY <3>2, <3>3
  <2>4. Field(w, 13, 16) \o Field(w, 29, 32) = Field(w, 13, 48)
    <3>1. /\ 13 \in Nat \ {0} /\ 16 \in Nat /\ 32 \in Nat
          /\ 13 + 16 + 32 - 1 <= Len(w)
      BY <1>3
    <3>2. Field(w, 13, 16) \o Field(w, 13 + 16, 32) = Field(w, 13, 16 + 32)
      BY <1>1, <3>1, FieldsJoin, Zenon
    <3>3. 13 + 16 = 29 /\ 16 + 32 = 48
      BY <1>3
    <3>4. QED
      BY ONLY <3>2, <3>3
  <2>5. Field(w, 13, 48) \o Field(w, 61, 2 + n) = Field(w, 13, 50 + n)
    <3>1. /\ 13 \in Nat \ {0} /\ 48 \in Nat /\ 2 + n \in Nat
          /\ 13 + 48 + (2 + n) - 1 <= Len(w)
      BY <1>3
    <3>2. Field(w, 13, 48) \o Field(w, 13 + 48, 2 + n) = Field(w, 13, 48 + (2 + n))
      BY <1>1, <3>1, FieldsJoin, Zenon
    <3>3. 13 + 48 = 61 /\ 48 + (2 + n) = 50 + n
      BY <1>3
    <3>4. QED
      BY ONLY <3>2, <3>3
  <2>6. Field(w, 13, 50 + n) \o Field(w, 63 + n, 2 + k) = Field(w, 13, 52 + n + k)
    <3>1. /\ 13 \in Nat \ {0} /\ 50 + n \in Nat /\ 2 + k \in Nat
          /\ 13 + (50 + n) + (2 + k) - 1 <= Len(w)
      BY <1>3
    <3>2. Field(w, 13, 50 + n) \o Field(w, 13 + (50 + n), 2 + k) = Field(w, 13, (50 + n) + (2 + k))
      BY <1>1, <3>1, FieldsJoin, Zenon
    <3>3. 13 + (50 + n) = 63 + n /\ (50 + n) + (2 + k) = 52 + n + k
      BY <1>3
    <3>4. QED
      BY ONLY <3>2, <3>3
  <2>7. RequestPayload(request)
          = Field(w, 13, 8) \o Field(w, 21, 2) \o Field(w, 23, 2) \o Field(w, 25, 4)
              \o Field(w, 29, 32) \o Field(w, 61, 2 + n) \o Field(w, 63 + n, 2 + k)
    BY <1>3, <1>4 DEF RequestPayload
  <2>8. 52 + n + k = Len(w) - 12
    BY <1>3
  <2>9. QED
    BY ONLY <2>1, <2>2, <2>3, <2>4, <2>5, <2>6, <2>7, <2>8
<1>6. Bytes(request) = WithHeader("request", RequestPayload(request))
  BY DEF Bytes
<1>7. Bytes(request) = w
  BY <1>2, <1>5, <1>6, HeaderRead
<1>8. Valid(request)
  BY <1>2 DEF Valid
<1>9. QED
  BY <1>2, <1>7, <1>8 DEF Encodes

\* Bytes that are accepted as a response are the encoding of what was understood.
LEMMA ResponseBack ==
  ASSUME NEW w \in Seq(Byte), DecodeResponse(w) # Rejected
  PROVE  Encodes(DecodeResponse(w)) /\ Bytes(DecodeResponse(w)) = w
<1> DEFINE text == ReadString(w, 65)
           response == [kind |-> "response", id |-> Field(w, 13, 8),
                        status |-> Read(w, 21, 2), before |-> Read(w, 23, 2),
                        after |-> Read(w, 25, 2), error |-> Field(w, 29, 4),
                        nonce |-> Field(w, 33, 32), text |-> text.value]
           n == Len(text.value)
<1>1. w \in Seq(Byte)
  OBVIOUS
<1>2. /\ DecodeResponse(w) = response
      /\ CheckMessageSize(w) /\ ReadHeader(w, "response")
      /\ Fits(w, 1, 64) /\ Finished(w, text.next)
      /\ Read(w, 27, 2) = 0 /\ ValidResponse(response)
  BY DEF DecodeResponse
<1> HIDE DEF text
<1>3. /\ n \in Nat /\ Len(w) = 66 + n /\ n \in Short /\ text.value \in Seq(Byte)
      /\ AppendString(text.value) = Field(w, 65, 2 + n)
  <2>1. /\ text.next \in Nat
        /\ text.next # 0 =>
             /\ text.value \in Seq(Byte) /\ n \in Short
             /\ text.next = 65 + 2 + n
             /\ AppendString(text.value) = Field(w, 65, 2 + n)
    <3>1. 65 \in Nat
      OBVIOUS
    <3>2. QED
      BY <3>1, StringBack DEF text
  <2>2. text.next = Len(w) + 1 /\ Len(w) \in Nat
    BY <1>2 DEF Finished
  <2>3. text.next # 0
    BY <2>2
  <2>4. text.next = 65 + 2 + n /\ n \in Nat
    BY <2>1, <2>3, ShortFacts
  <2>5. Len(w) = 66 + n
    BY <2>2, <2>4
  <2>6. QED
    BY <2>1, <2>3, <2>4, <2>5
<1>4. /\ LittleEndian(Read(w, 21, 2), 2) = Field(w, 21, 2)
      /\ LittleEndian(Read(w, 23, 2), 2) = Field(w, 23, 2)
      /\ LittleEndian(Read(w, 25, 2), 2) = Field(w, 25, 2)
      /\ LittleEndian(0, 2) = Field(w, 27, 2)
  <2>1. /\ 2 \in Nat /\ 21 \in Nat \ {0} /\ 23 \in Nat \ {0} /\ 25 \in Nat \ {0} /\ 27 \in Nat \ {0}
        /\ 21 + 2 - 1 <= Len(w) /\ 23 + 2 - 1 <= Len(w) /\ 25 + 2 - 1 <= Len(w)
        /\ 27 + 2 - 1 <= Len(w)
    BY <1>3
  <2>2. /\ Field(w, 21, 2) \in Seq(Byte) /\ Len(Field(w, 21, 2)) = 2
        /\ Field(w, 23, 2) \in Seq(Byte) /\ Len(Field(w, 23, 2)) = 2
        /\ Field(w, 25, 2) \in Seq(Byte) /\ Len(Field(w, 25, 2)) = 2
        /\ Field(w, 27, 2) \in Seq(Byte) /\ Len(Field(w, 27, 2)) = 2
    BY ONLY <1>1, <2>1, FieldSort
  <2>3. QED
    BY <1>2, <2>2, NumberBack DEF Read
<1>5. ResponsePayload(response) = Field(w, 13, Len(w) - 12)
  <2>1. Field(w, 13, 8) \o Field(w, 21, 2) = Field(w, 13, 10)
    <3>1. /\ 13 \in Nat \ {0} /\ 8 \in Nat /\ 2 \in Nat
          /\ 13 + 8 + 2 - 1 <= Len(w)
      BY <1>3
    <3>2. Field(w, 13, 8) \o Field(w, 13 + 8, 2) = Field(w, 13, 8 + 2)
      BY <1>1, <3>1, FieldsJoin, Zenon
    <3>3. 13 + 8 = 21 /\ 8 + 2 = 10
      BY <1>3
    <3>4. QED
      BY ONLY <3>2, <3>3
  <2>2. Field(w, 13, 10) \o Field(w, 23, 2) = Field(w, 13, 12)
    <3>1. /\ 13 \in Nat \ {0} /\ 10 \in Nat /\ 2 \in Nat
          /\ 13 + 10 + 2 - 1 <= Len(w)
      BY <1>3
    <3>2. Field(w, 13, 10) \o Field(w, 13 + 10, 2) = Field(w, 13, 10 + 2)
      BY <1>1, <3>1, FieldsJoin, Zenon
    <3>3. 13 + 10 = 23 /\ 10 + 2 = 12
      BY <1>3
    <3>4. QED
      BY ONLY <3>2, <3>3
  <2>3. Field(w, 13, 12) \o Field(w, 25, 2) = Field(w, 13, 14)
    <3>1. /\ 13 \in Nat \ {0} /\ 12 \in Nat /\ 2 \in Nat
          /\ 13 + 12 + 2 - 1 <= Len(w)
      BY <1>3
    <3>2. Field(w, 13, 12) \o Field(w, 13 + 12, 2) = Field(w, 13, 12 + 2)
      BY <1>1, <3>1, FieldsJoin, Zenon
    <3>3. 13 + 12 = 25 /\ 12 + 2 = 14
      BY <1>3
    <3>4. QED
      BY ONLY <3>2, <3>3
  <2>4. Field(w, 13, 14) \o Field(w, 27, 2) = Field(w, 13, 16)
    <3>1. /\ 13 \in Nat \ {0} /\ 14 \in Nat /\ 2 \in Nat
          /\ 13 + 14 + 2 - 1 <= Len(w)
      BY <1>3
    <3>2. Field(w, 13, 14) \o Field(w, 13 + 14, 2) = Field(w, 13, 14 + 2)
      BY <1>1, <3>1, FieldsJoin, Zenon
    <3>3. 13 + 14 = 27 /\ 14 + 2 = 16
      BY <1>3
    <3>4. QED
      BY ONLY <3>2, <3>3
  <2>5. Field(w, 13, 16) \o Field(w, 29, 4) = Field(w, 13, 20)
    <3>1. /\ 13 \in Nat \ {0} /\ 16 \in Nat /\ 4 \in Nat
          /\ 13 + 16 + 4 - 1 <= Len(w)
      BY <1>3
    <3>2. Field(w, 13, 16) \o Field(w, 13 + 16, 4) = Field(w, 13, 16 + 4)
      BY <1>1, <3>1, FieldsJoin, Zenon
    <3>3. 13 + 16 = 29 /\ 16 + 4 = 20
      BY <1>3
    <3>4. QED
      BY ONLY <3>2, <3>3
  <2>6. Field(w, 13, 20) \o Field(w, 33, 32) = Field(w, 13, 52)
    <3>1. /\ 13 \in Nat \ {0} /\ 20 \in Nat /\ 32 \in Nat
          /\ 13 + 20 + 32 - 1 <= Len(w)
      BY <1>3
    <3>2. Field(w, 13, 20) \o Field(w, 13 + 20, 32) = Field(w, 13, 20 + 32)
      BY <1>1, <3>1, FieldsJoin, Zenon
    <3>3. 13 + 20 = 33 /\ 20 + 32 = 52
      BY <1>3
    <3>4. QED
      BY ONLY <3>2, <3>3
  <2>7. Field(w, 13, 52) \o Field(w, 65, 2 + n) = Field(w, 13, 54 + n)
    <3>1. /\ 13 \in Nat \ {0} /\ 52 \in Nat /\ 2 + n \in Nat
          /\ 13 + 52 + (2 + n) - 1 <= Len(w)
      BY <1>3
    <3>2. Field(w, 13, 52) \o Field(w, 13 + 52, 2 + n) = Field(w, 13, 52 + (2 + n))
      BY <1>1, <3>1, FieldsJoin, Zenon
    <3>3. 13 + 52 = 65 /\ 52 + (2 + n) = 54 + n
      BY <1>3
    <3>4. QED
      BY ONLY <3>2, <3>3
  <2>8. ResponsePayload(response)
          = Field(w, 13, 8) \o Field(w, 21, 2) \o Field(w, 23, 2) \o Field(w, 25, 2)
              \o Field(w, 27, 2) \o Field(w, 29, 4) \o Field(w, 33, 32) \o Field(w, 65, 2 + n)
    BY <1>3, <1>4 DEF ResponsePayload
  <2>9. 54 + n = Len(w) - 12
    BY <1>3
  <2>10. Field(w, 13, 8) \o Field(w, 21, 2) \o Field(w, 23, 2) \o Field(w, 25, 2)
              \o Field(w, 27, 2) \o Field(w, 29, 4) \o Field(w, 33, 32) \o Field(w, 65, 2 + n)
           = Field(w, 13, 54 + n)
    <3>1. Field(w, 13, 8) \o Field(w, 21, 2) \o Field(w, 23, 2) \o Field(w, 25, 2)
            = Field(w, 13, 14)
      BY <2>1, <2>2, <2>3, Zenon
    <3>2. Field(w, 13, 14) \o Field(w, 27, 2) \o Field(w, 29, 4) = Field(w, 13, 20)
      BY <2>4, <2>5, Zenon
    <3>3. QED
      BY <2>6, <2>7, <3>1, <3>2, Zenon
  <2>11. QED
    BY <2>8, <2>9, <2>10, Zenon
<1>6. Bytes(response) = WithHeader("response", ResponsePayload(response))
  BY DEF Bytes
<1>7. Bytes(response) = w
  BY <1>2, <1>5, <1>6, HeaderRead
<1>8. Valid(response)
  BY <1>2 DEF Valid
<1>9. QED
  BY <1>2, <1>7, <1>8 DEF Encodes

-----------------------------------------------------------------------------
\* Texts.  A non-empty set of numbers has its least element: what holds of every prefix of a
\* text is proved by the shortest counterexample.
LEMMA LeastExists ==
  ASSUME NEW S \in SUBSET Nat, S # {}
  PROVE  \E x \in S : \A y \in S : x <= y
<1> DEFINE R == OpToRel(<, Nat)
<1>1. \E x \in S : \A y \in S : ~ (<<y, x>> \in R)
  BY NatLessThanWellFounded, WFMin
<1>2. R = {ss \in Nat \X Nat : ss[1] < ss[2]}
  BY Zenon DEF OpToRel
<1> HIDE DEF R
<1>3. PICK x \in S : \A y \in S : ~ (<<y, x>> \in R)
  BY <1>1
<1>4. ASSUME NEW y \in S
      PROVE  x <= y
  <2>1. x \in Nat /\ y \in Nat /\ <<y, x>> \notin R
    BY <1>3
  <2>2. ~ (y < x)
    BY <2>1, <1>2
  <2>3. QED
    BY <2>1, <2>2
<1>5. QED
  BY <1>4

\* The bytes a character of one byte, or of more, begins with; those it goes on with.
Ones == 0..127
Twos == 194..223
Threes == 224..239
Fours == 240..244
Trail == 128..191

\* How a character of three bytes, or of four, starts.
ThreeStart(a, b) ==
  a \in Threes /\ b \in Trail /\ (a = 224 => b >= 160) /\ (a = 237 => b <= 159)
FourStart(a, b) ==
  a \in Fours /\ b \in Trail /\ (a = 240 => b >= 144) /\ (a = 244 => b <= 143)

\* What an allowed character of one byte is.
Plain(a, serviceName) == a >= 32 /\ (serviceName => a \notin {47, 92})

\* The rows of the table for three bytes, and for four.
LEMMA ThreeRows ==
  ASSUME NEW a, NEW b
  PROVE  \/ a \in {224} /\ b \in 160..191
         \/ a \in 225..236 /\ b \in Trail
         \/ a \in {237} /\ b \in 128..159
         \/ a \in 238..239 /\ b \in Trail
         <=> ThreeStart(a, b)
BY DEF Trail, ThreeStart, Threes

LEMMA FourRows ==
  ASSUME NEW a, NEW b
  PROVE  \/ a \in {240} /\ b \in 144..191
         \/ a \in 241..243 /\ b \in Trail
         \/ a \in {244} /\ b \in 128..143
         <=> FourStart(a, b)
BY DEF Trail, FourStart, Fours

\* The table of well-formed sequences, row by row.
LEMMA RowsAre ==
  ASSUME NEW s \in Seq(Byte)
  PROVE  Text!WellFormedCharacter(s) <=>
           \/ Len(s) = 1 /\ s[1] \in Ones
           \/ Len(s) = 2 /\ s[1] \in Twos /\ s[2] \in Trail
           \/ Len(s) = 3 /\ s[3] \in Trail /\ ThreeStart(s[1], s[2])
           \/ Len(s) = 4 /\ s[3] \in Trail /\ s[4] \in Trail /\ FourStart(s[1], s[2])
<1> DEFINE Fit(row) == Len(row) = Len(s) /\ \A i \in 1..Len(s) : s[i] \in row[i]
           three == {224}
           high == 160..191
           lead == 225..236
           skip == {237}
           low == 128..159
           rest == 238..239
           four == {240}
           above == 144..191
           middle == 241..243
           last == {244}
           below == 128..143
<1>1. Text!WellFormedCharacter(s) <=> \E row \in Text!WellFormedRows : Fit(row)
  BY Zenon DEF Text!WellFormedCharacter
<1>2. Text!WellFormedRows =
        {<<Ones>>, <<Twos, Trail>>, <<three, high, Trail>>, <<lead, Trail, Trail>>,
         <<skip, low, Trail>>, <<rest, Trail, Trail>>, <<four, above, Trail, Trail>>,
         <<middle, Trail, Trail, Trail>>, <<last, below, Trail, Trail>>}
  BY Zenon DEF Text!WellFormedRows, Ones, Twos, Trail
<1> HIDE DEF three, high, lead, skip, low, rest, four, above, middle, last, below
<1>3. ASSUME NEW a, NEW b, NEW c, NEW d
      PROVE  /\ Fit(<<a>>) <=> Len(s) = 1 /\ s[1] \in a
             /\ Fit(<<a, b>>) <=> Len(s) = 2 /\ s[1] \in a /\ s[2] \in b
             /\ Fit(<<a, b, c>>) <=> Len(s) = 3 /\ s[1] \in a /\ s[2] \in b /\ s[3] \in c
             /\ Fit(<<a, b, c, d>>) <=>
                  Len(s) = 4 /\ s[1] \in a /\ s[2] \in b /\ s[3] \in c /\ s[4] \in d
  <2>1. Fit(<<a>>) <=> Len(s) = 1 /\ s[1] \in a
    OBVIOUS
  <2>2. Fit(<<a, b>>) <=> Len(s) = 2 /\ s[1] \in a /\ s[2] \in b
    OBVIOUS
  <2>3. Fit(<<a, b, c>>) <=> Len(s) = 3 /\ s[1] \in a /\ s[2] \in b /\ s[3] \in c
    OBVIOUS
  <2>4. Fit(<<a, b, c, d>>) <=>
          Len(s) = 4 /\ s[1] \in a /\ s[2] \in b /\ s[3] \in c /\ s[4] \in d
    OBVIOUS
  <2> HIDE DEF Fit
  <2>5. QED
    BY <2>1, <2>2, <2>3, <2>4, Zenon
<1> HIDE DEF Fit
<1>4. /\ Fit(<<Ones>>) <=> Len(s) = 1 /\ s[1] \in Ones
      /\ Fit(<<Twos, Trail>>) <=> Len(s) = 2 /\ s[1] \in Twos /\ s[2] \in Trail
      /\ Fit(<<three, high, Trail>>) <=>
           Len(s) = 3 /\ s[1] \in three /\ s[2] \in high /\ s[3] \in Trail
      /\ Fit(<<lead, Trail, Trail>>) <=>
           Len(s) = 3 /\ s[1] \in lead /\ s[2] \in Trail /\ s[3] \in Trail
      /\ Fit(<<skip, low, Trail>>) <=>
           Len(s) = 3 /\ s[1] \in skip /\ s[2] \in low /\ s[3] \in Trail
      /\ Fit(<<rest, Trail, Trail>>) <=>
           Len(s) = 3 /\ s[1] \in rest /\ s[2] \in Trail /\ s[3] \in Trail
      /\ Fit(<<four, above, Trail, Trail>>) <=>
           Len(s) = 4 /\ s[1] \in four /\ s[2] \in above /\ s[3] \in Trail /\ s[4] \in Trail
      /\ Fit(<<middle, Trail, Trail, Trail>>) <=>
           Len(s) = 4 /\ s[1] \in middle /\ s[2] \in Trail /\ s[3] \in Trail /\ s[4] \in Trail
      /\ Fit(<<last, below, Trail, Trail>>) <=>
           Len(s) = 4 /\ s[1] \in last /\ s[2] \in below /\ s[3] \in Trail /\ s[4] \in Trail
  BY ONLY <1>3, Zenon
<1>5. Text!WellFormedCharacter(s) <=>
        \/ Len(s) = 1 /\ s[1] \in Ones
        \/ Len(s) = 2 /\ s[1] \in Twos /\ s[2] \in Trail
        \/ Len(s) = 3 /\ s[3] \in Trail /\ \/ s[1] \in three /\ s[2] \in high
                                           \/ s[1] \in lead /\ s[2] \in Trail
                                           \/ s[1] \in skip /\ s[2] \in low
                                           \/ s[1] \in rest /\ s[2] \in Trail
        \/ Len(s) = 4 /\ s[3] \in Trail /\ s[4] \in Trail
             /\ \/ s[1] \in four /\ s[2] \in above
                \/ s[1] \in middle /\ s[2] \in Trail
                \/ s[1] \in last /\ s[2] \in below
  BY ONLY <1>1, <1>2, <1>4, Zenon
<1>6. QED
  BY ONLY <1>5, ThreeRows, FourRows, Zenon
    DEF three, high, lead, skip, low, rest, four, above, middle, last, below

\* The code point after one more byte.
Shifted(point, byte) == point * 64 + (byte % 64)

\* The bits of the first byte of a character of n + 1.
FirstBits(byte, n) == IF n = 0 THEN byte ELSE byte % Text!LeadBits[n]

Steps(f, s, i, n) ==
  f = [j \in 0..n |-> IF j = 0 THEN FirstBits(s[i], n) ELSE Shifted(f[j - 1], s[i + j])]

\* CodePoint is defined by a recursion, which has a solution.
LEMMA StepsExist ==
  ASSUME NEW s, NEW i, NEW n \in 0..3
  PROVE  \E f : Steps(f, s, i, n)
<1> DEFINE a == FirstBits(s[i], n)
           b == Shifted(a, s[i + 1])
           c == Shifted(b, s[i + 2])
           d == Shifted(c, s[i + 3])
           f == [j \in 0..n |-> IF j = 0 THEN a ELSE IF j = 1 THEN b ELSE IF j = 2 THEN c ELSE d]
<1>1. b = Shifted(a, s[i + 1]) /\ c = Shifted(b, s[i + 2]) /\ d = Shifted(c, s[i + 3])
  OBVIOUS
<1> HIDE DEF a, b, c, d
<1>2. ASSUME NEW j \in 0..n
      PROVE  f[j] = IF j = 0 THEN a ELSE Shifted(f[j - 1], s[i + j])
  <2>1. j \in {0, 1, 2, 3}
    OBVIOUS
  <2>2. CASE j = 0
    BY <2>2
  <2>3. CASE j = 1
    BY <1>1, <2>3
  <2>4. CASE j = 2
    BY <1>1, <2>4
  <2>5. CASE j = 3
    BY <1>1, <2>5
  <2>6. QED
    BY <2>1, <2>2, <2>3, <2>4, <2>5
<1>3. f = [j \in 0..n |-> IF j = 0 THEN a ELSE Shifted(f[j - 1], s[i + j])]
  <2>1. f = [j \in 0..n |-> f[j]]
    OBVIOUS
  <2> HIDE DEF f
  <2>2. QED
    BY <1>2, <2>1, Zenon
<1> HIDE DEF f
<1>4. QED
  BY <1>3, Zenon DEF Steps, a

\* The same for each length.
LEMMA RowsOfLength ==
  ASSUME NEW s \in Seq(Byte)
  PROVE  /\ Len(s) = 1 => (Text!WellFormedCharacter(s) <=> s[1] \in Ones)
         /\ Len(s) = 2 => (Text!WellFormedCharacter(s) <=> s[1] \in Twos /\ s[2] \in Trail)
         /\ Len(s) = 3 => (Text!WellFormedCharacter(s) <=>
                             s[3] \in Trail /\ ThreeStart(s[1], s[2]))
         /\ Len(s) = 4 => (Text!WellFormedCharacter(s) <=>
                             s[3] \in Trail /\ s[4] \in Trail /\ FourStart(s[1], s[2]))
<1>1. PICK m \in Nat : m = Len(s)
  OBVIOUS
<1> DEFINE one == s[1] \in Ones
           two == s[1] \in Twos /\ s[2] \in Trail
           three == s[3] \in Trail /\ ThreeStart(s[1], s[2])
           four == s[3] \in Trail /\ s[4] \in Trail /\ FourStart(s[1], s[2])
<1>2. Text!WellFormedCharacter(s) <=>
        \/ m = 1 /\ one
        \/ m = 2 /\ two
        \/ m = 3 /\ three
        \/ m = 4 /\ four
  BY <1>1, RowsAre, Zenon
<1> HIDE DEF one, two, three, four
<1>3. /\ m = 1 => (Text!WellFormedCharacter(s) <=> one)
      /\ m = 2 => (Text!WellFormedCharacter(s) <=> two)
      /\ m = 3 => (Text!WellFormedCharacter(s) <=> three)
      /\ m = 4 => (Text!WellFormedCharacter(s) <=> four)
  BY ONLY <1>2
<1>4. QED
  BY <1>1, <1>3, Zenon DEF one, two, three, four

\* CodePoint for each number of continuation bytes.
LEMMA CodePointIs ==
  ASSUME NEW s, NEW i
  PROVE  /\ Text!CodePoint(s, i, 0) = s[i]
         /\ Text!CodePoint(s, i, 1) = Shifted(s[i] % 32, s[i + 1])
         /\ Text!CodePoint(s, i, 2) = Shifted(Shifted(s[i] % 16, s[i + 1]), s[i + 2])
         /\ Text!CodePoint(s, i, 3) =
              Shifted(Shifted(Shifted(s[i] % 8, s[i + 1]), s[i + 2]), s[i + 3])
<1>1. ASSUME NEW n \in 0..3
      PROVE  \E f : Steps(f, s, i, n) /\ Text!CodePoint(s, i, n) = f[n]
  <2> DEFINE point[j \in 0..n] ==
               IF j = 0
                 THEN IF n = 0 THEN s[i] ELSE s[i] % Text!LeadBits[n]
                 ELSE point[j - 1] * 64 + (s[i + j] % 64)
  <2>1. Text!CodePoint(s, i, n) = point[n]
    BY Zenon DEF Text!CodePoint
  <2>2. PICK g : Steps(g, s, i, n)
    BY StepsExist
  <2>3. point = [j \in 0..n |->
                   IF j = 0
                     THEN IF n = 0 THEN s[i] ELSE s[i] % Text!LeadBits[n]
                     ELSE point[j - 1] * 64 + (s[i + j] % 64)]
    BY <2>2, Zenon DEF Steps, FirstBits, Shifted
  <2> HIDE DEF point
  <2>4. Steps(point, s, i, n)
    BY <2>3, Zenon DEF Steps, FirstBits, Shifted
  <2>5. QED
    BY <2>1, <2>4, Zenon
<1>2. /\ FirstBits(s[i], 0) = s[i] /\ FirstBits(s[i], 1) = s[i] % 32
      /\ FirstBits(s[i], 2) = s[i] % 16 /\ FirstBits(s[i], 3) = s[i] % 8
  BY DEF FirstBits, Text!LeadBits
<1>3. ASSUME NEW n \in 0..3
      PROVE  \E f : /\ Text!CodePoint(s, i, n) = f[n]
                    /\ f[0] = FirstBits(s[i], n)
                    /\ n >= 1 => f[1] = Shifted(FirstBits(s[i], n), s[i + 1])
                    /\ n >= 2 => f[2] = Shifted(f[1], s[i + 2])
                    /\ n >= 3 => f[3] = Shifted(f[2], s[i + 3])
  <2>1. PICK f : Steps(f, s, i, n) /\ Text!CodePoint(s, i, n) = f[n]
    BY <1>1, Zenon
  <2>2. \A j \in 0..n : f[j] = IF j = 0 THEN FirstBits(s[i], n) ELSE Shifted(f[j - 1], s[i + j])
    BY <2>1, Zenon DEF Steps
  <2>3. /\ f[0] = FirstBits(s[i], n)
        /\ n >= 1 => f[1] = Shifted(FirstBits(s[i], n), s[i + 1])
        /\ n >= 2 => f[2] = Shifted(f[1], s[i + 2])
        /\ n >= 3 => f[3] = Shifted(f[2], s[i + 3])
    BY ONLY <2>2
  <2>4. QED
    BY <2>1, <2>3, Zenon
<1>4. Text!CodePoint(s, i, 0) = s[i]
  BY <1>2, <1>3
<1>5. Text!CodePoint(s, i, 1) = Shifted(s[i] % 32, s[i + 1])
  BY <1>2, <1>3
<1>6. Text!CodePoint(s, i, 2) = Shifted(Shifted(s[i] % 16, s[i + 1]), s[i + 2])
  BY <1>2, <1>3
<1>7. Text!CodePoint(s, i, 3) =
        Shifted(Shifted(Shifted(s[i] % 8, s[i + 1]), s[i + 2]), s[i + 3])
  BY <1>2, <1>3
<1>8. QED
  BY <1>4, <1>5, <1>6, <1>7

\* Which code points are allowed, by the bytes they come from: the first byte
\* decides for one byte and for two, the second for three and for four.
LEMMA OneByte ==
  ASSUME NEW a \in Ones, NEW serviceName \in BOOLEAN
  PROVE  Text!AllowedCodePoint(a, 0, serviceName) <=> Plain(a, serviceName)
BY DEF Text!AllowedCodePoint, Plain, Ones

LEMMA SixBits == \A b \in Trail : b % 64 = b - 128 /\ b \in Int /\ 128 <= b /\ b <= 191
BY DEF Trail

Surrogate(p) == p \in 55296..57343

LEMMA SurrogatesAre == \A p \in Int : Surrogate(p) <=> ~(p < 55296 \/ p > 57343)
BY DEF Surrogate

LEMMA AboveAll ==
  \A p \in Int : p >= 65536 => p \notin 55296..57343 /\ p >= 32 /\ p \notin {47, 92}
OBVIOUS

LEMMA TwoBytes ==
  ASSUME NEW a \in Twos, NEW b \in Trail, NEW serviceName \in BOOLEAN
  PROVE  Text!AllowedCodePoint(Shifted(a % 32, b), 1, serviceName)
<1>0. a \in 194..223
  BY DEF Twos
<1>1. a % 32 = a - 192
  BY ONLY <1>0
<1>2. PICK p \in Int : p = (a - 192) * 64 + (b - 128)
  BY <1>0, SixBits
<1>3. Shifted(a % 32, b) = p
  BY <1>0, <1>1, <1>2, SixBits DEF Shifted
<1>4. Text!AllowedCodePoint(p, 1, serviceName)
  <2>1. b \in Int /\ 128 <= b /\ b <= 191
    BY SixBits
  <2>2. 128 <= p /\ p <= 2047
    BY ONLY <1>0, <1>2, <2>1
  <2>3. QED
    BY ONLY <2>2, p \in Int DEF Text!AllowedCodePoint
<1>5. QED
  BY <1>3, <1>4

LEMMA ThreeBytes ==
  ASSUME NEW a \in Threes, NEW b \in Trail, NEW c \in Trail, NEW serviceName \in BOOLEAN
  PROVE  Text!AllowedCodePoint(Shifted(Shifted(a % 16, b), c), 2, serviceName)
           <=> ThreeStart(a, b)
<1>0. a \in 224..239
  BY DEF Threes
<1>1. a % 16 = a - 224
  BY ONLY <1>0
<1>2. PICK p \in Int : p = ((a - 224) * 64 + (b - 128)) * 64 + (c - 128)
  BY <1>0, SixBits
<1>3. Shifted(Shifted(a % 16, b), c) = p
  BY <1>0, <1>1, <1>2, SixBits DEF Shifted
<1>4. /\ b \in Int /\ 128 <= b /\ b <= 191 /\ c \in Int /\ 128 <= c /\ c <= 191
  BY SixBits
<1>5. p >= 2048 <=> (a = 224 => b >= 160)
  BY ONLY <1>0, <1>2, <1>4
<1>6. ~Surrogate(p) <=> (a = 237 => b <= 159)
  <2>1. p < 55296 <=> a < 237 \/ (a = 237 /\ b <= 159)
    BY ONLY <1>0, <1>2, <1>4
  <2>2. p > 57343 <=> a > 237
    BY ONLY <1>0, <1>2, <1>4
  <2>3. a < 237 \/ a = 237 \/ a > 237
    BY ONLY <1>0
  <2>4. a < 237 \/ a > 237 => a # 237
    BY ONLY <1>0
  <2>5. ~Surrogate(p) <=> p < 55296 \/ p > 57343
    BY SurrogatesAre
  <2>6. QED
    BY ONLY <2>1, <2>2, <2>3, <2>4, <2>5
<1>7. p <= 1114111
  BY ONLY <1>0, <1>2, <1>4
<1>8. p >= 2048 => p >= 32 /\ p \notin {47, 92}
  BY ONLY <1>2
<1>9. Text!AllowedCodePoint(p, 2, serviceName) <=> p >= 2048 /\ ~Surrogate(p)
  BY <1>7, <1>8 DEF Text!AllowedCodePoint, Surrogate
<1>10. ThreeStart(a, b) <=> (a = 224 => b >= 160) /\ (a = 237 => b <= 159)
  BY Zenon DEF ThreeStart
<1>11. QED
  BY ONLY <1>3, <1>5, <1>6, <1>9, <1>10

LEMMA FourBytes ==
  ASSUME NEW a \in Fours, NEW b \in Trail, NEW c \in Trail, NEW d \in Trail,
         NEW serviceName \in BOOLEAN
  PROVE  Text!AllowedCodePoint(Shifted(Shifted(Shifted(a % 8, b), c), d), 3, serviceName)
           <=> FourStart(a, b)
<1>0. a \in 240..244
  BY DEF Fours
<1>1. a % 8 = a - 240
  BY ONLY <1>0
<1>2. PICK p \in Int : p = (((a - 240) * 64 + (b - 128)) * 64 + (c - 128)) * 64 + (d - 128)
  BY <1>0, SixBits
<1>3. Shifted(Shifted(Shifted(a % 8, b), c), d) = p
  BY <1>0, <1>1, <1>2, SixBits DEF Shifted
<1>4. /\ b \in Int /\ 128 <= b /\ b <= 191 /\ c \in Int /\ 128 <= c /\ c <= 191
      /\ d \in Int /\ 128 <= d /\ d <= 191
  BY SixBits
<1>5. p >= 65536 <=> (a = 240 => b >= 144)
  BY ONLY <1>0, <1>2, <1>4
<1>6. p <= 1114111 <=> (a = 244 => b <= 143)
  BY ONLY <1>0, <1>2, <1>4
<1>7. p >= 65536 => p \notin 55296..57343 /\ p >= 32 /\ p \notin {47, 92}
  BY ONLY AboveAll, p \in Int
<1>8. QED
  BY <1>3, <1>5, <1>6, <1>7 DEF Text!AllowedCodePoint, FourStart

\* First bytes and continuation bytes differ.
LEMMA Apart ==
  \A a : a \in Ones \cup Twos \cup Threes \cup Fours => a \notin Trail
BY DEF Ones, Twos, Threes, Fours, Trail

\* The number of continuation bytes by the first byte.
LEMMA ContinuationIs ==
  ASSUME NEW a \in Byte
  PROVE  /\ Text!Continuation(a) \in {-1, 0, 1, 2, 3}
         /\ Text!Continuation(a) = 0 <=> a \in Ones
         /\ Text!Continuation(a) = 1 <=> a \in Twos
         /\ Text!Continuation(a) = 2 <=> a \in Threes
         /\ Text!Continuation(a) = 3 <=> a \in Fours
BY DEF Text!Continuation, Ones, Twos, Threes, Fours

\* A well-formed character: its first byte tells its length, and the others are
\* continuation bytes.
LEMMA CharacterFacts ==
  ASSUME NEW c \in Seq(Byte), Text!WellFormedCharacter(c)
  PROVE  /\ Len(c) \in 1..4
         /\ Text!Continuation(c[1]) = Len(c) - 1
         /\ c[1] \notin Trail
         /\ \A j \in 2..Len(c) : c[j] \in Trail
<1>1. /\ Len(c) \in 1..4
      /\ Len(c) = 1 => c[1] \in Ones
      /\ Len(c) = 2 => c[1] \in Twos /\ c[2] \in Trail
      /\ Len(c) = 3 => c[1] \in Threes /\ c[2] \in Trail /\ c[3] \in Trail
      /\ Len(c) = 4 => c[1] \in Fours /\ c[2] \in Trail /\ c[3] \in Trail /\ c[4] \in Trail
  BY RowsAre DEF ThreeStart, FourStart
<1>2. c[1] \in Byte
  BY <1>1
<1>3. Text!Continuation(c[1]) = Len(c) - 1
  <2>1. /\ c[1] \in Ones => Text!Continuation(c[1]) = 0
        /\ c[1] \in Twos => Text!Continuation(c[1]) = 1
        /\ c[1] \in Threes => Text!Continuation(c[1]) = 2
        /\ c[1] \in Fours => Text!Continuation(c[1]) = 3
    BY <1>2, ContinuationIs, Zenon
  <2>2. CASE Len(c) = 1
    BY <1>1, <2>1, <2>2
  <2>3. CASE Len(c) = 2
    BY <1>1, <2>1, <2>3
  <2>4. CASE Len(c) = 3
    BY <1>1, <2>1, <2>4
  <2>5. CASE Len(c) = 4
    BY <1>1, <2>1, <2>5
  <2>6. QED
    BY <1>1, <2>2, <2>3, <2>4, <2>5
<1>4. c[1] \notin Trail
  BY <1>1, Apart
<1>5. \A j \in 2..Len(c) : c[j] \in Trail
  BY ONLY <1>1
<1>6. QED
  BY <1>1, <1>3, <1>4, <1>5

\* A character is good when its bytes are well formed and, if it is one byte,
\* neither a control character nor a separator of a path.
LEMMA GoodIs ==
  ASSUME NEW s \in Seq(Byte), NEW i \in 1..Len(s), NEW serviceName \in BOOLEAN,
         NEW n, n = Text!Continuation(s[i])
  PROVE  Text!GoodCharacter(s, i, serviceName) <=>
           /\ n \in 0..3 /\ i + n <= Len(s)
           /\ Text!WellFormedCharacter(SubSeq(s, i, i + n))
           /\ n = 0 => Plain(s[i], serviceName)
<1> DEFINE c == SubSeq(s, i, i + n)
<1>1. /\ n \in {-1, 0, 1, 2, 3}
      /\ n = 0 <=> s[i] \in Ones
      /\ n = 1 <=> s[i] \in Twos
      /\ n = 2 <=> s[i] \in Threes
      /\ n = 3 <=> s[i] \in Fours
  <2>1. s[i] \in Byte
    BY ElementOfSeq
  <2>2. QED
    BY <2>1, ContinuationIs
<1>2. Text!GoodCharacter(s, i, serviceName) <=>
        /\ n >= 0 /\ i + n <= Len(s)
        /\ \A j \in 1..n : s[i + j] \in Trail
        /\ Text!AllowedCodePoint(Text!CodePoint(s, i, n), n, serviceName)
  BY Zenon DEF Text!GoodCharacter, Trail
<1>3. ASSUME n \in 0..3, i + n <= Len(s)
      PROVE  /\ c \in Seq(Byte) /\ Len(c) = n + 1 /\ c[1] = s[i]
             /\ n >= 1 => c[2] = s[i + 1]
             /\ n >= 2 => c[3] = s[i + 2]
             /\ n >= 3 => c[4] = s[i + 3]
  <2>1. i \in Nat \ {0} /\ n + 1 \in Nat /\ i + (n + 1) - 1 <= Len(s)
    BY <1>3
  <2>2. c = Field(s, i, n + 1)
    BY <1>3 DEF Field
  <2> HIDE DEF c
  <2>3. c \in Seq(Byte) /\ Len(c) = n + 1 /\ \A j \in 1..(n + 1) : c[j] = s[i + j - 1]
    BY <2>1, <2>2, FieldFacts
  <2>4. QED
    BY <1>3, <2>3
<1> HIDE DEF c
<1>4. ASSUME n \in 0..3, i + n <= Len(s)
      PROVE  /\ n = 0 => (Text!WellFormedCharacter(c) <=> s[i] \in Ones)
             /\ n = 1 => (Text!WellFormedCharacter(c) <=>
                            s[i] \in Twos /\ s[i + 1] \in Trail)
             /\ n = 2 => (Text!WellFormedCharacter(c) <=>
                            s[i + 2] \in Trail /\ ThreeStart(s[i], s[i + 1]))
             /\ n = 3 => (Text!WellFormedCharacter(c) <=>
                            s[i + 2] \in Trail /\ s[i + 3] \in Trail
                              /\ FourStart(s[i], s[i + 1]))
  <2>1. c \in Seq(Byte)
    BY <1>3, <1>4
  <2>2. CASE n = 0
    <3>1. Len(c) = 1 /\ c[1] = s[i] /\ n # 1 /\ n # 2 /\ n # 3
      BY <2>2, <1>3, <1>4
    <3>2. QED
      BY <2>1, <3>1, RowsOfLength, Zenon
  <2>3. CASE n = 1
    <3>1. Len(c) = 2 /\ c[1] = s[i] /\ c[2] = s[i + 1] /\ n # 0 /\ n # 2 /\ n # 3
      BY <2>3, <1>3, <1>4
    <3>2. QED
      BY <2>1, <3>1, RowsOfLength, Zenon
  <2>4. CASE n = 2
    <3>1. /\ Len(c) = 3 /\ c[1] = s[i] /\ c[2] = s[i + 1] /\ c[3] = s[i + 2]
          /\ n # 0 /\ n # 1 /\ n # 3
      BY <2>4, <1>3, <1>4
    <3>2. QED
      BY <2>1, <3>1, RowsOfLength, Zenon
  <2>5. CASE n = 3
    <3>1. /\ Len(c) = 4 /\ c[1] = s[i] /\ c[2] = s[i + 1] /\ c[3] = s[i + 2] /\ c[4] = s[i + 3]
          /\ n # 0 /\ n # 1 /\ n # 2
      BY <2>5, <1>3, <1>4
    <3>2. QED
      BY <2>1, <3>1, RowsOfLength, Zenon
  <2>6. QED
    BY <1>4, <2>2, <2>3, <2>4, <2>5
<1>5. CASE n = 0
  <2>1. Text!CodePoint(s, i, n) = s[i]
    BY <1>5, CodePointIs
  <2>2. Text!AllowedCodePoint(s[i], 0, serviceName) <=> Plain(s[i], serviceName)
    BY <1>1, <1>5, OneByte
  <2>3. QED
    BY <1>1, <1>2, <1>4, <1>5, <2>1, <2>2 DEF c
<1>6. CASE n = 1
  <2>1. Text!CodePoint(s, i, n) = Shifted(s[i] % 32, s[i + 1])
    BY <1>6, CodePointIs
  <2>2. s[i + 1] \in Trail => Text!AllowedCodePoint(Text!CodePoint(s, i, n), n, serviceName)
    BY <1>1, <1>6, <2>1, TwoBytes
  <2>3. (\A j \in 1..n : s[i + j] \in Trail) <=> s[i + 1] \in Trail
    BY <1>6
  <2>4. QED
    BY <1>1, <1>2, <1>4, <1>6, <2>2, <2>3 DEF c
<1>7. CASE n = 2
  <2>1. Text!CodePoint(s, i, n) = Shifted(Shifted(s[i] % 16, s[i + 1]), s[i + 2])
    BY <1>7, CodePointIs
  <2>2. s[i + 1] \in Trail /\ s[i + 2] \in Trail =>
          (Text!AllowedCodePoint(Text!CodePoint(s, i, n), n, serviceName)
             <=> ThreeStart(s[i], s[i + 1]))
    BY <1>1, <1>7, <2>1, ThreeBytes
  <2>3. (\A j \in 1..n : s[i + j] \in Trail) <=> s[i + 1] \in Trail /\ s[i + 2] \in Trail
    BY <1>7
  <2>4. ThreeStart(s[i], s[i + 1]) => s[i + 1] \in Trail
    BY DEF ThreeStart
  <2>5. QED
    BY <1>2, <1>4, <1>7, <2>2, <2>3, <2>4 DEF c
<1>8. CASE n = 3
  <2>1. Text!CodePoint(s, i, n)
          = Shifted(Shifted(Shifted(s[i] % 8, s[i + 1]), s[i + 2]), s[i + 3])
    BY <1>8, CodePointIs
  <2>2. s[i + 1] \in Trail /\ s[i + 2] \in Trail /\ s[i + 3] \in Trail =>
          (Text!AllowedCodePoint(Text!CodePoint(s, i, n), n, serviceName)
             <=> FourStart(s[i], s[i + 1]))
    BY <1>1, <1>8, <2>1, FourBytes
  <2>3. (\A j \in 1..n : s[i + j] \in Trail) <=>
          s[i + 1] \in Trail /\ s[i + 2] \in Trail /\ s[i + 3] \in Trail
    BY <1>8
  <2>4. FourStart(s[i], s[i + 1]) => s[i + 1] \in Trail
    BY DEF FourStart
  <2>5. QED
    BY <1>2, <1>4, <1>8, <2>2, <2>3, <2>4 DEF c
<1>9. CASE n = -1
  BY <1>2, <1>9
<1>10. QED
  BY ONLY <1>1, <1>5, <1>6, <1>7, <1>8, <1>9

\* How far a text can be cut into characters, as WellFormed finds out.
Reaches(f, s, i) ==
  \/ i = 0
  \/ \E n \in 1..4 :
       n <= i /\ f[i - n] /\ Text!WellFormedCharacter(SubSeq(s, i - n + 1, i))
Cut(f, s, m) == f = [i \in 0..m |-> Reaches(f, s, i)]

\* WellFormed is defined by a recursion as well: a solution up to m goes on to
\* m + 1.
LEMMA SameReach ==
  ASSUME NEW s, NEW i \in Nat, NEW f, NEW g, \A j \in 0..(i - 1) : f[j] = g[j]
  PROVE  Reaches(f, s, i) = Reaches(g, s, i)
<1>1. \A n \in 1..4 : n <= i => i - n \in 0..(i - 1)
  OBVIOUS
<1>2. \A n \in 1..4 : n <= i => f[i - n] = g[i - n]
  BY <1>1, Zenon
<1>3. Reaches(f, s, i) <=> Reaches(g, s, i)
  BY <1>2, Zenon DEF Reaches
<1>4. QED
  BY <1>3, Zenon DEF Reaches

LEMMA CutFurther ==
  ASSUME NEW s, NEW m \in Nat, NEW g, Cut(g, s, m)
  PROVE  \E f : Cut(f, s, m + 1)
<1> DEFINE f == [i \in 0..(m + 1) |-> IF i <= m THEN g[i] ELSE Reaches(g, s, i)]
<1>1. \A i \in 0..m : g[i] = Reaches(g, s, i)
  BY Zenon DEF Cut
<1>2. \A i \in 0..m : f[i] = g[i]
  OBVIOUS
<1>3. f[m + 1] = Reaches(g, s, m + 1)
  OBVIOUS
<1>4. f = [i \in 0..(m + 1) |-> f[i]]
  OBVIOUS
<1> HIDE DEF f
<1>5. ASSUME NEW i \in 0..(m + 1)
      PROVE  f[i] = Reaches(f, s, i)
  <2>1. i \in Nat /\ \A j \in 0..(i - 1) : f[j] = g[j]
    BY <1>2
  <2>2. Reaches(f, s, i) = Reaches(g, s, i)
    BY <2>1, SameReach, Zenon
  <2>3. i \in 0..m \/ i = m + 1
    OBVIOUS
  <2>4. QED
    BY <1>1, <1>2, <1>3, <2>2, <2>3, Zenon
<1>6. QED
  BY <1>4, <1>5, Zenon DEF Cut

LEMMA CutExists ==
  ASSUME NEW s, NEW m \in Nat
  PROVE  \E f : Cut(f, s, m)
<1> DEFINE Uncut == {n \in Nat : ~\E f : Cut(f, s, n)}
<1>1. SUFFICES ASSUME Uncut # {}
               PROVE  FALSE
  OBVIOUS
<1>2. PICK n \in Uncut : \A k \in Uncut : n <= k
  BY <1>1, LeastExists
<1>3. CASE n = 0
  <2> DEFINE f == [i \in 0..0 |-> TRUE]
  <2>1. \A i \in 0..0 : Reaches(f, s, i) = TRUE
    BY DEF Reaches
  <2>2. f = [i \in 0..0 |-> Reaches(f, s, i)]
    BY <2>1
  <2> HIDE DEF f
  <2>3. QED
    BY <1>3, <2>2 DEF Cut
<1>4. CASE n # 0
  <2>1. n - 1 \in Nat /\ n - 1 \notin Uncut /\ (n - 1) + 1 = n
    BY <1>2, <1>4
  <2>2. PICK g : Cut(g, s, n - 1)
    BY <2>1
  <2>3. \E f : Cut(f, s, (n - 1) + 1)
    BY <2>1, <2>2, CutFurther, Zenon
  <2>4. QED
    BY <2>1, <2>3
<1>5. QED
  BY <1>3, <1>4

\* So WellFormed tells whether the end can be reached.
LEMMA WellFormedIs ==
  ASSUME NEW s \in Seq(Byte)
  PROVE  \E f : /\ \A i \in 0..Len(s) : f[i] = Reaches(f, s, i)
                /\ Text!WellFormed(s) <=> f[Len(s)]
<1> DEFINE upTo[i \in 0..Len(s)] ==
             \/ i = 0
             \/ \E n \in 1..4 :
                  n <= i /\ upTo[i - n] /\ Text!WellFormedCharacter(SubSeq(s, i - n + 1, i))
<1>1. Text!WellFormed(s) <=> upTo[Len(s)]
  BY Zenon DEF Text!WellFormed
<1>2. PICK g : Cut(g, s, Len(s))
  <2>1. Len(s) \in Nat
    OBVIOUS
  <2>2. QED
    BY <2>1, CutExists, Zenon
<1>3. upTo = [i \in 0..Len(s) |->
               \/ i = 0
               \/ \E n \in 1..4 :
                    n <= i /\ upTo[i - n] /\ Text!WellFormedCharacter(SubSeq(s, i - n + 1, i))]
  BY <1>2, Zenon DEF Cut, Reaches
<1> HIDE DEF upTo
<1>4. \A i \in 0..Len(s) : upTo[i] = Reaches(upTo, s, i)
  BY <1>3, Zenon DEF Reaches
<1>5. QED
  BY <1>1, <1>4, Zenon

\* What IsValidUtf8 asks at each byte.
GoodAt(s, i, serviceName) ==
  IF s[i] \in Trail
    THEN \E k \in 1..3 : k < i /\ Text!Continuation(s[i - k]) >= k
    ELSE Text!GoodCharacter(s, i, serviceName)

\* Where one character may end: at the end, or before a byte that begins one.
Border(s, i) == i = Len(s) \/ s[i + 1] \notin Trail

\* A first byte with n continuation bytes, good, with a border behind j of them:
\* then n = j, and the bytes are one character.
LEMMA CharacterEnds ==
  ASSUME NEW s \in Seq(Byte), NEW serviceName \in BOOLEAN, NEW p \in 1..Len(s), NEW j \in 0..3,
         Text!GoodCharacter(s, p, serviceName), Text!Continuation(s[p]) >= j,
         p + j <= Len(s), Border(s, p + j)
  PROVE  Text!WellFormedCharacter(SubSeq(s, p, p + j)) /\ s[p] \notin Trail
<1>1. PICK n : n = Text!Continuation(s[p])
  OBVIOUS
<1>2. /\ n \in 0..3 /\ p + n <= Len(s)
      /\ Text!WellFormedCharacter(SubSeq(s, p, p + n))
  BY <1>1, GoodIs, Zenon
<1> DEFINE c == SubSeq(s, p, p + n)
<1>3. c \in Seq(Byte) /\ Len(c) = n + 1 /\ \A k \in 1..(n + 1) : c[k] = s[p + k - 1]
  <2>1. p \in Nat \ {0} /\ n + 1 \in Nat /\ p + (n + 1) - 1 <= Len(s)
    BY <1>2
  <2>2. c = Field(s, p, n + 1)
    BY <1>2 DEF Field
  <2> HIDE DEF c
  <2>3. QED
    BY <2>1, <2>2, FieldFacts
<1>4. c[1] \notin Trail /\ \A k \in 2..Len(c) : c[k] \in Trail
  BY <1>2, <1>3, CharacterFacts
<1> HIDE DEF c
<1>5. s[p] \notin Trail
  BY <1>2, <1>3, <1>4
<1>6. n = j
  <2>1. SUFFICES ASSUME n > j
                 PROVE  FALSE
    BY <1>1, <1>2
  <2>2. j + 2 \in 2..Len(c) /\ j + 2 \in 1..(n + 1) /\ p + (j + 2) - 1 = p + j + 1
    BY <1>2, <1>3, <2>1
  <2>3. s[p + j + 1] \in Trail
    BY <1>3, <1>4, <2>2
  <2>4. p + j # Len(s)
    BY <1>2, <2>1
  <2>5. QED
    BY <2>3, <2>4 DEF Border
<1>7. QED
  BY <1>2, <1>5, <1>6

\* A text that is good at every byte can be cut at every border.
LEMMA GoodIsCut ==
  ASSUME NEW s \in Seq(Byte), NEW serviceName \in BOOLEAN, NEW f,
         \A i \in 0..Len(s) : f[i] = Reaches(f, s, i),
         \A i \in 1..Len(s) : GoodAt(s, i, serviceName)
  PROVE  f[Len(s)]
<1> DEFINE Bad == {i \in 0..Len(s) : Border(s, i) /\ ~f[i]}
<1>1. SUFFICES ASSUME ~f[Len(s)]
               PROVE  FALSE
  OBVIOUS
<1>2. Len(s) \in Bad /\ Bad \in SUBSET Nat
  BY <1>1 DEF Border
<1>3. PICK i \in Bad : \A k \in Bad : i <= k
  <2>1. Bad # {} /\ Bad \in SUBSET Nat
    BY <1>2
  <2> HIDE DEF Bad
  <2>2. QED
    BY <2>1, LeastExists, Zenon
<1>4. i \in 0..Len(s) /\ Border(s, i) /\ ~f[i] /\ ~Reaches(f, s, i)
  BY <1>3
<1>5. i # 0
  BY <1>4, Zenon DEF Reaches
<1>6. PICK j \in 0..3 : /\ i - j \in 1..Len(s)
                        /\ Text!GoodCharacter(s, i - j, serviceName)
                        /\ Text!Continuation(s[i - j]) >= j
  <2>1. i \in 1..Len(s) /\ GoodAt(s, i, serviceName)
    BY <1>4, <1>5
  <2>2. CASE s[i] \notin Trail
    <3>1. Text!GoodCharacter(s, i, serviceName)
      BY <2>1, <2>2, Zenon DEF GoodAt
    <3>2. Text!Continuation(s[i]) >= 0
      BY <3>1 DEF Text!GoodCharacter
    <3>3. i - 0 = i
      BY <2>1
    <3>4. QED
      BY <2>1, <3>1, <3>2, <3>3
  <2>3. CASE s[i] \in Trail
    <3>1. PICK k \in 1..3 : k < i /\ Text!Continuation(s[i - k]) >= k
      BY <2>1, <2>3, Zenon DEF GoodAt
    <3>2. i - k \in 1..Len(s)
      BY <2>1, <3>1
    <3>3. s[i - k] \in Byte
      BY <3>2, ElementOfSeq
    <3>4. s[i - k] \notin Trail
      <4>1. Text!Continuation(s[i - k]) \in {1, 2, 3}
        BY <3>1, <3>3, ContinuationIs
      <4>2. s[i - k] \in Ones \cup Twos \cup Threes \cup Fours
        BY <3>3, <4>1, ContinuationIs
      <4>3. QED
        BY <4>2, Apart, Zenon
    <3>5. Text!GoodCharacter(s, i - k, serviceName)
      BY <3>2, <3>4, Zenon DEF GoodAt
    <3>6. QED
      BY <3>1, <3>2, <3>5
  <2>4. QED
    BY <2>2, <2>3
<1>7. PICK p \in 1..Len(s) : p = i - j
  BY <1>6
<1>8. p + j = i /\ p + j <= Len(s)
  BY <1>4, <1>6, <1>7
<1>9. Text!WellFormedCharacter(SubSeq(s, p, i)) /\ s[p] \notin Trail
  <2>1. /\ Text!GoodCharacter(s, p, serviceName) /\ Text!Continuation(s[p]) >= j
        /\ Border(s, p + j)
    BY <1>4, <1>6, <1>7, <1>8
  <2>2. Text!WellFormedCharacter(SubSeq(s, p, p + j)) /\ s[p] \notin Trail
    BY <1>8, <2>1, CharacterEnds, Zenon
  <2>3. QED
    BY <1>8, <2>2
<1>10. f[p - 1]
  <2>1. p - 1 \in 0..Len(s) /\ p - 1 < i /\ (p - 1) + 1 = p
    BY <1>4, <1>6, <1>7
  <2>2. Border(s, p - 1)
    BY <1>9, <2>1 DEF Border
  <2>3. QED
    BY <1>3, <1>4, <2>1, <2>2
<1>11. j + 1 \in 1..4 /\ j + 1 <= i /\ i - (j + 1) = p - 1 /\ i - (j + 1) + 1 = p
  BY <1>4, <1>6, <1>7
<1>12. QED
  BY <1>4, <1>9, <1>10, <1>11 DEF Reaches

\* A well-formed character whose first byte is allowed is good at each of its bytes.
LEMMA CharacterIsGood ==
  ASSUME NEW s \in Seq(Byte), NEW serviceName \in BOOLEAN, NEW p \in 1..Len(s), NEW n \in 1..4,
         p + n - 1 <= Len(s), Text!WellFormedCharacter(SubSeq(s, p, p + n - 1)),
         Plain(s[p], serviceName)
  PROVE  \A i \in p..(p + n - 1) : GoodAt(s, i, serviceName)
<1> DEFINE c == SubSeq(s, p, p + n - 1)
<1>1. c \in Seq(Byte) /\ Len(c) = n /\ \A k \in 1..n : c[k] = s[p + k - 1]
  <2>1. p \in Nat \ {0} /\ n \in Nat /\ p + n - 1 <= Len(s)
    OBVIOUS
  <2>2. c = Field(s, p, n)
    BY DEF Field
  <2> HIDE DEF c
  <2>3. QED
    BY <2>1, <2>2, FieldFacts
<1>2. /\ Text!Continuation(c[1]) = Len(c) - 1 /\ c[1] \notin Trail
      /\ \A k \in 2..Len(c) : c[k] \in Trail
  BY <1>1, CharacterFacts
<1> HIDE DEF c
<1>3. 1 \in 1..n /\ p + 1 - 1 = p
  OBVIOUS
<1>4. Text!Continuation(s[p]) = n - 1 /\ s[p] \notin Trail
  BY <1>1, <1>2, <1>3
<1>5. Text!GoodCharacter(s, p, serviceName)
  <2>1. PICK m : m = Text!Continuation(s[p])
    OBVIOUS
  <2>2. m = n - 1 /\ m \in 0..3 /\ p + m = p + n - 1
    BY <1>4, <2>1
  <2>3. m \in 0..3 /\ p + m <= Len(s) /\ Text!WellFormedCharacter(SubSeq(s, p, p + m))
    BY <2>2
  <2>4. QED
    BY <2>1, <2>3, GoodIs, Zenon
<1>6. ASSUME NEW i \in p..(p + n - 1)
      PROVE  GoodAt(s, i, serviceName)
  <2>1. CASE i = p
    BY <1>4, <1>5, <2>1, Zenon DEF GoodAt
  <2>2. CASE i # p
    <3>1. PICK k \in 1..3 : i = p + k
      <4>1. i - p \in 1..3 /\ i = p + (i - p)
        BY <2>2
      <4>2. QED
        BY <4>1
    <3>2. k + 1 \in 2..n /\ k + 1 \in 1..n /\ p + (k + 1) - 1 = i /\ k < i /\ i - k = p
      BY <3>1
    <3>3. s[i] \in Trail
      BY <1>1, <1>2, <3>2
    <3>4. Text!Continuation(s[i - k]) >= k
      BY <1>4, <3>2
    <3>5. QED
      BY <3>2, <3>3, <3>4, Zenon DEF GoodAt
  <2>3. QED
    BY <2>1, <2>2
<1>7. QED
  BY <1>6, Zenon

\* A text that can be cut, of allowed characters, is good at every byte.
LEMMA CutIsGood ==
  ASSUME NEW s \in Seq(Byte), NEW serviceName \in BOOLEAN, NEW f,
         \A i \in 0..Len(s) : f[i] = Reaches(f, s, i),
         f[Len(s)],
         \A i \in 1..Len(s) : Plain(s[i], serviceName)
  PROVE  \A i \in 1..Len(s) : GoodAt(s, i, serviceName)
<1> DEFINE Bad == {m \in 0..Len(s) : f[m] /\ \E i \in 1..m : ~GoodAt(s, i, serviceName)}
<1>1. SUFFICES ASSUME NEW b \in 1..Len(s), ~GoodAt(s, b, serviceName)
               PROVE  FALSE
  OBVIOUS
<1>2. Len(s) \in Bad /\ Bad \in SUBSET Nat
  BY <1>1
<1>3. PICK m \in Bad : \A k \in Bad : m <= k
  <2>1. Bad # {} /\ Bad \in SUBSET Nat
    BY <1>2
  <2> HIDE DEF Bad
  <2>2. QED
    BY <2>1, LeastExists, Zenon
<1>4. PICK i \in 1..m : ~GoodAt(s, i, serviceName)
  BY <1>3
<1>5. m \in 1..Len(s) /\ Reaches(f, s, m) /\ m # 0
  BY <1>3, <1>4
<1>6. PICK n \in 1..4 :
        n <= m /\ f[m - n] /\ Text!WellFormedCharacter(SubSeq(s, m - n + 1, m))
  BY <1>5, Zenon DEF Reaches
<1>7. m - n \in 0..Len(s) /\ m - n < m
  BY <1>5, <1>6
<1>8. i \notin 1..(m - n)
  BY <1>3, <1>4, <1>6, <1>7
<1>9. PICK p \in 1..Len(s) : p = m - n + 1
  BY <1>5, <1>6
<1>10. p + n - 1 = m /\ p + n - 1 <= Len(s) /\ i \in p..(p + n - 1)
  BY <1>4, <1>5, <1>7, <1>8, <1>9
<1>11. Text!WellFormedCharacter(SubSeq(s, p, p + n - 1)) /\ Plain(s[p], serviceName)
  BY <1>6, <1>9, <1>10
<1>12. GoodAt(s, i, serviceName)
  BY <1>10, <1>11, CharacterIsGood, Zenon
<1>13. QED
  BY <1>4, <1>12

\* All but the characters of one byte are above the characters that are refused.
LEMMA HighIsPlain ==
  \A a \in Trail \cup Twos \cup Threes \cup Fours : \A serviceName : Plain(a, serviceName)
BY DEF Trail, Twos, Threes, Fours, Plain

\* Nothing but allowed characters in a text that is good at every byte.
LEMMA GoodIsPlain ==
  ASSUME NEW s \in Seq(Byte), NEW serviceName \in BOOLEAN, NEW i \in 1..Len(s),
         GoodAt(s, i, serviceName)
  PROVE  Plain(s[i], serviceName)
<1>1. s[i] \in Byte
  BY ElementOfSeq
<1>2. CASE s[i] \in Trail
  BY <1>2, HighIsPlain, Zenon
<1>3. CASE s[i] \notin Trail
  <2>1. PICK n : n = Text!Continuation(s[i])
    OBVIOUS
  <2>2. Text!GoodCharacter(s, i, serviceName)
    BY <1>3, Zenon DEF GoodAt
  <2>3. n \in 0..3
    BY <2>1, <2>2, GoodIs, Zenon
  <2>4. n = 0 \/ s[i] \in Twos \cup Threes \cup Fours
    <3>1. n = 0 \/ n = 1 \/ n = 2 \/ n = 3
      BY <2>3
    <3>2. QED
      BY <1>1, <2>1, <3>1, ContinuationIs
  <2>5. QED
    BY <2>1, <2>2, <2>4, GoodIs, HighIsPlain, Zenon
<1>4. QED
  BY <1>2, <1>3

\* What IsValidUtf8 accepts, for texts of every length.
LEMMA TextsAre ==
  ASSUME NEW s \in Seq(Byte), NEW serviceName \in BOOLEAN
  PROVE  Text!IsValidUtf8(s, serviceName) <=>
           /\ s = <<>> => ~serviceName
           /\ Text!WellFormed(s)
           /\ \A i \in 1..Len(s) : Plain(s[i], serviceName)
<1>1. Text!IsValidUtf8(s, serviceName) <=>
        (s = <<>> => ~serviceName) /\ \A i \in 1..Len(s) : GoodAt(s, i, serviceName)
  BY Zenon DEF Text!IsValidUtf8, GoodAt, Trail
<1>2. PICK f : /\ \A i \in 0..Len(s) : f[i] = Reaches(f, s, i)
               /\ Text!WellFormed(s) <=> f[Len(s)]
  BY WellFormedIs, Zenon
<1>3. ASSUME \A i \in 1..Len(s) : GoodAt(s, i, serviceName)
      PROVE  Text!WellFormed(s) /\ \A i \in 1..Len(s) : Plain(s[i], serviceName)
  <2>1. f[Len(s)]
    BY <1>2, <1>3, GoodIsCut, Zenon
  <2>2. QED
    BY <1>2, <1>3, <2>1, GoodIsPlain, Zenon
<1>4. ASSUME Text!WellFormed(s), \A i \in 1..Len(s) : Plain(s[i], serviceName)
      PROVE  \A i \in 1..Len(s) : GoodAt(s, i, serviceName)
  BY <1>2, <1>4, CutIsGood, Zenon
<1>5. QED
  BY <1>1, <1>3, <1>4, Zenon

-----------------------------------------------------------------------------
\* The pipe holds the encoding of the message until it is damaged, what is
\* understood is what a decoder makes of the bytes in the pipe, and only what is
\* not valid is refused.
WireInv ==
  /\ message \in Requests \cup Responses
  /\ wire \in Seq(Byte)
  /\ damages \in Nat
  /\ stage = "sent" /\ damages = 0 => Valid(message) /\ wire = Bytes(message)
  /\ stage = "received" => got \in {DecodeRequest(wire), DecodeResponse(wire)}
  /\ stage = "refused" => ~Valid(message)

LEMMA MessageExact ==
  ASSUME NEW m \in Requests \cup Responses, Valid(m)
  PROVE  /\ Bytes(m) \in Seq(Byte) /\ Encodes(m)
         /\ DecodeRequest(Bytes(m)) = IF m.kind = "request" THEN m ELSE Rejected
         /\ DecodeResponse(Bytes(m)) = IF m.kind = "response" THEN m ELSE Rejected
<1>1. CASE m \in Requests
  <2>1. m.kind = "request"
    BY <1>1 DEF Requests
  <2>2. ValidRequest(m)
    BY <2>1 DEF Valid
  <2>3. QED
    BY <1>1, <2>1, <2>2, RequestExact DEF Encodes
<1>2. CASE m \in Responses
  <2>1. m.kind = "response"
    BY <1>2 DEF Responses
  <2>2. ValidResponse(m)
    BY <2>1 DEF Valid
  <2>3. QED
    BY <1>2, <2>1, <2>2, ResponseExact DEF Encodes
<1>3. QED
  BY <1>1, <1>2

LEMMA InvImpliesExact ==
  WireInv => WireExact
<1> SUFFICES ASSUME WireInv
             PROVE  WireExact
  OBVIOUS
<1>1. ASSUME stage = "sent", damages = 0
      PROVE  /\ DecodeRequest(wire) = IF message.kind = "request" THEN message ELSE Rejected
             /\ DecodeResponse(wire) = IF message.kind = "response" THEN message ELSE Rejected
  BY <1>1, MessageExact DEF WireInv
<1>2. ASSUME stage = "received", got # Rejected
      PROVE  Encodes(got) /\ Bytes(got) = wire
  BY <1>2, RequestBack, ResponseBack DEF WireInv
<1>3. QED
  BY <1>1, <1>2 DEF WireExact, WireInv

LEMMA InvInit ==
  Init => WireInv
<1> SUFFICES ASSUME Init
             PROVE  WireInv
  OBVIOUS
<1>1. message \in Requests \cup Responses
  BY ProtocolAssumption DEF Init
<1>2. <<>> \in Seq(Byte)
  BY EmptySeq
<1>3. QED
  BY <1>1, <1>2 DEF Init, WireInv

LEMMA InvSend ==
  ASSUME WireInv, Send
  PROVE  WireInv'
<1>1. CASE Encodes(message)
  <2>1. stage' = "sent" /\ wire' = Bytes(message) /\ Valid(message)
    BY <1>1 DEF Send, Encodes
  <2>2. Bytes(message) \in Seq(Byte)
    BY <2>1, MessageExact DEF WireInv
  <2>3. QED
    BY <2>1, <2>2 DEF Send, WireInv
<1>2. CASE ~Encodes(message)
  <2>1. ~Valid(message)
    BY <1>2, MessageExact DEF WireInv
  <2>2. stage' = "refused" /\ wire' = wire
    BY <1>2 DEF Send
  <2>3. QED
    BY <2>1, <2>2 DEF Send, WireInv
<1>3. QED
  BY <1>1, <1>2

LEMMA StillBytes ==
  ASSUME NEW w \in Seq(Byte), NEW b \in Byte
  PROVE  /\ \A i \in 1..Len(w) : [w EXCEPT ![i] = b] \in Seq(Byte)
         /\ \A i \in 1..Len(w) : SubSeq(w, 1, i - 1) \o SubSeq(w, i + 1, Len(w)) \in Seq(Byte)
         /\ \A i \in 0..Len(w) :
              SubSeq(w, 1, i) \o <<b>> \o SubSeq(w, i + 1, Len(w)) \in Seq(Byte)
<1>1. ASSUME NEW i \in 1..Len(w)
      PROVE  [w EXCEPT ![i] = b] \in Seq(Byte)
  BY ExceptSeq
<1>2. ASSUME NEW i \in 0..Len(w)
      PROVE  SubSeq(w, 1, i) \in Seq(Byte) /\ SubSeq(w, i + 1, Len(w)) \in Seq(Byte)
  OBVIOUS
<1>3. ASSUME NEW i \in 1..Len(w)
      PROVE  SubSeq(w, 1, i - 1) \o SubSeq(w, i + 1, Len(w)) \in Seq(Byte)
  <2>1. i - 1 \in 0..Len(w) /\ i \in 0..Len(w)
    OBVIOUS
  <2>2. SubSeq(w, 1, i - 1) \in Seq(Byte) /\ SubSeq(w, i + 1, Len(w)) \in Seq(Byte)
    BY <1>2, <2>1
  <2>3. QED
    BY <2>2, ConcatProperties
<1>4. ASSUME NEW i \in 0..Len(w)
      PROVE  SubSeq(w, 1, i) \o <<b>> \o SubSeq(w, i + 1, Len(w)) \in Seq(Byte)
  <2>1. <<b>> \in Seq(Byte)
    OBVIOUS
  <2>2. SubSeq(w, 1, i) \o <<b>> \in Seq(Byte)
    BY <1>2, <2>1, ConcatProperties
  <2>3. QED
    BY <1>2, <2>2, ConcatProperties
<1>5. QED
  BY <1>1, <1>3, <1>4

LEMMA InvDamage ==
  ASSUME WireInv, Damage
  PROVE  WireInv'
<1>1. wire \in Seq(Byte) /\ damages \in Nat
  BY DEF WireInv
<1>2. PICK b \in DamageBytes :
        \/ \E i \in 1..Len(wire) : wire' = [wire EXCEPT ![i] = b]
        \/ \E i \in 1..Len(wire) :
             wire' = SubSeq(wire, 1, i - 1) \o SubSeq(wire, i + 1, Len(wire))
        \/ \E i \in 0..Len(wire) :
             wire' = SubSeq(wire, 1, i) \o <<b>> \o SubSeq(wire, i + 1, Len(wire))
  BY DEF Damage
<1>3. b \in Byte
  BY ProtocolAssumption
<1>4. wire' \in Seq(Byte)
  BY <1>1, <1>2, <1>3, StillBytes
<1>5. damages' \in Nat /\ damages' # 0
  BY <1>1 DEF Damage
<1>6. stage = "sent" /\ stage' = stage /\ message' = message
  BY DEF Damage
<1>7. QED
  BY <1>4, <1>5, <1>6 DEF WireInv

LEMMA InvReceive ==
  ASSUME WireInv, Receive
  PROVE  WireInv'
BY DEF WireInv, Receive

LEMMA InvStep ==
  WireInv /\ [Next]_vars => WireInv'
<1> SUFFICES ASSUME WireInv, [Next]_vars
             PROVE  WireInv'
  OBVIOUS
<1>1. CASE Send
  BY <1>1, InvSend
<1>2. CASE Damage
  BY <1>2, InvDamage
<1>3. CASE Receive
  BY <1>3, InvReceive
<1>4. CASE UNCHANGED vars
  BY <1>4 DEF vars, WireInv
<1>5. QED
  BY <1>1, <1>2, <1>3, <1>4 DEF Next

\* WireExact for messages of every content and length, and for every sequence of
\* changes to the bytes: the encoder and the two decoders are inverse to each
\* other on what Validate admits, neither decoder takes the other direction's
\* message, and no bytes but the encoding of a valid message are accepted.
THEOREM MessagesAreAlwaysExact == Spec => []WireExact
BY InvInit, InvStep, InvImpliesExact, PTL DEF Spec

\* TextsExact holds for every response, whichever it is.
LEMMA InvImpliesTexts ==
  ASSUME message \in Requests \cup Responses
  PROVE  TextsExact
<1> SUFFICES ASSUME message.kind = "response"
             PROVE  LET bytes == message.text
                        Allowed == /\ Text!WellFormed(bytes)
                                   /\ \A i \in 1..Len(bytes) : bytes[i] >= 32
                    IN /\ Text!IsValidUtf8(bytes, FALSE) <=> Allowed
                       /\ Text!IsValidUtf8(bytes, TRUE) <=>
                            /\ bytes # <<>> /\ Allowed
                            /\ \A i \in 1..Len(bytes) : bytes[i] \notin {47, 92}
  BY Zenon DEF TextsExact
<1>1. message.text \in Seq(Byte)
  BY DEF Requests, Responses
<1>2. PICK s \in Seq(Byte) : s = message.text
  BY <1>1
<1>3. Text!IsValidUtf8(s, FALSE) <=>
        Text!WellFormed(s) /\ \A i \in 1..Len(s) : s[i] >= 32
  BY TextsAre, Zenon DEF Plain
<1>4. Text!IsValidUtf8(s, TRUE) <=>
        /\ s # <<>>
        /\ Text!WellFormed(s) /\ \A i \in 1..Len(s) : s[i] >= 32
        /\ \A i \in 1..Len(s) : s[i] \notin {47, 92}
  BY TextsAre, Zenon DEF Plain
<1>5. QED
  BY <1>2, <1>3, <1>4, Zenon

\* TextsExact for texts of every content and length: IsValidUtf8, which looks at
\* one character after the other, accepts exactly what can be cut into sequences
\* of the Unicode table and holds no character below 32 and, in a service name,
\* no path separator.
THEOREM TextsAreAlwaysExact == Spec => []TextsExact
<1>1. WireInv => TextsExact
  BY InvImpliesTexts DEF WireInv
<1>2. QED
  BY InvInit, InvStep, <1>1, PTL DEF Spec

=============================================================================
