------------------------------ MODULE HelperText ------------------------------
(***************************************************************************)
(* The text fields of helper messages: IsValidUtf8 and IsIdentityToken,    *)
(* against the table of well-formed byte sequences of the Unicode          *)
(* standard.                                                               *)
(***************************************************************************)
EXTENDS Integers, Sequences

-----------------------------------------------------------------------------
Continuation(first) ==
  IF first \in 0..127 THEN 0
  ELSE IF first \in 194..223 THEN 1
  ELSE IF first \in 224..239 THEN 2
  ELSE IF first \in 240..244 THEN 3
  ELSE -1

\* The bits of the first of several bytes that count: less than these.
LeadBits == <<32, 16, 8>>

\* The code point of the character at i; the continuation bytes give six bits
\* each.
CodePoint(s, i, n) ==
  LET point[j \in 0..n] ==
        IF j = 0
          THEN IF n = 0 THEN s[i] ELSE s[i] % LeadBits[n]
          ELSE point[j - 1] * 64 + (s[i + j] % 64)
  IN point[n]

\* Mutant of AllowedCodePoint: No check for surrogates.
AllowedCodePointSurrogates(c, n, serviceName) ==
  /\ n = 2 => c >= 2048
  /\ n = 3 => c >= 65536
  /\ c <= 1114111
  /\ c >= 32
  /\ serviceName => c \notin {47, 92}

\* Overlong forms, surrogates, control characters, and separators of paths in
\* service names are refused.
AllowedCodePoint(c, n, serviceName) ==
  /\ n = 2 => c >= 2048
  /\ n = 3 => c >= 65536
  /\ c <= 1114111
  /\ c \notin 55296..57343
  /\ c >= 32
  /\ serviceName => c \notin {47, 92}

\* One turn of the loop of IsValidUtf8, at a first byte.
GoodCharacter(s, i, serviceName) ==
  LET n == Continuation(s[i])
  IN /\ n >= 0
     /\ i + n <= Len(s)
     /\ \A j \in 1..n : s[i + j] \in 128..191
     /\ AllowedCodePoint(CodePoint(s, i, n), n, serviceName)

\* The loop goes from first byte to first byte, over the continuation bytes that
\* each one announces.
IsValidUtf8(s, serviceName) ==
  /\ s = <<>> => ~serviceName
  /\ \A i \in 1..Len(s) :
       IF s[i] \in 128..191
         THEN \E k \in 1..3 : k < i /\ Continuation(s[i - k]) >= k
         ELSE GoodCharacter(s, i, serviceName)

\* Sixteen hexadecimal digits in lower case.
IsIdentityToken(s) ==
  Len(s) = 16 /\ \A i \in 1..Len(s) : s[i] \in 48..57 \cup 97..102

-----------------------------------------------------------------------------
\* Table 3-7 of the Unicode standard: the well-formed UTF-8 byte sequences.
WellFormedRows == {
  <<0..127>>,
  <<194..223, 128..191>>,
  <<{224}, 160..191, 128..191>>,
  <<225..236, 128..191, 128..191>>,
  <<{237}, 128..159, 128..191>>,
  <<238..239, 128..191, 128..191>>,
  <<{240}, 144..191, 128..191, 128..191>>,
  <<241..243, 128..191, 128..191, 128..191>>,
  <<{244}, 128..143, 128..191, 128..191>> }

WellFormedCharacter(s) ==
  \E row \in WellFormedRows :
    Len(row) = Len(s) /\ \A i \in 1..Len(s) : s[i] \in row[i]

\* A string is well formed when it can be cut into well-formed characters.
WellFormed(s) ==
  LET upTo[i \in 0..Len(s)] ==
        \/ i = 0
        \/ \E n \in 1..4 :
             n <= i /\ upTo[i - n] /\ WellFormedCharacter(SubSeq(s, i - n + 1, i))
  IN upTo[Len(s)]

=============================================================================
