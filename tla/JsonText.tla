------------------------------- MODULE JsonText -------------------------------
(***************************************************************************)
(* JSON as the configuration and the session store read it.  A text is a   *)
(* sequence of tokens, each with its kind and value: punctuation, strings, *)
(* numbers, the literals, and junk, which is anything else, a string       *)
(* without its end included.  White space, escapes, brackets in strings    *)
(* and the digits of a number are within a token.                          *)
(***************************************************************************)
EXTENDS Integers, SequencesExt

CONSTANT MaximumDepth     \* the 64 of the validator

ASSUME DepthAssumption == MaximumDepth \in Nat

Mark(kind) == <<kind, kind>>
String(s) == <<"string", s>>
NumberToken(n) == <<"number", n>>
Literal(b) == <<"literal", b>>
Null == Mark("null")
Junk == Mark("junk")

Atoms == {"string", "number", "literal", "null"}

KindAt(t, i) == IF i \in 1..Len(t) THEN t[i][1] ELSE "end"

-----------------------------------------------------------------------------
(***************************************************************************)
(* JsonSyntaxValidator.  A parser returns the position after what it has   *)
(* read, or Fail.                                                          *)
(***************************************************************************)
Fail == 0

RECURSIVE ParseValue(_, _, _), ParseElements(_, _, _), ParseMembers(_, _, _, _)

\* Mutant of ParseMembers: A key may come twice.
ParseMembersTwice(t, i, depth, keys) ==
  LET next == IF KindAt(t, i) = "string" /\ KindAt(t, i + 1) = ":"
                THEN ParseValue(t, i + 2, depth + 1) ELSE Fail
  IN IF next = Fail THEN Fail
     ELSE CASE KindAt(t, next) = "}" -> next + 1
            [] KindAt(t, next) = "," ->
                 ParseMembers(t, next + 1, depth, keys \cup {t[i]})
            [] OTHER -> Fail

ParseMembers(t, i, depth, keys) ==
  LET next == IF KindAt(t, i) = "string" /\ t[i] \notin keys /\ KindAt(t, i + 1) = ":"
                THEN ParseValue(t, i + 2, depth + 1) ELSE Fail
  IN IF next = Fail THEN Fail
     ELSE CASE KindAt(t, next) = "}" -> next + 1
            [] KindAt(t, next) = "," ->
                 ParseMembers(t, next + 1, depth, keys \cup {t[i]})
            [] OTHER -> Fail

ParseElements(t, i, depth) ==
  LET next == ParseValue(t, i, depth + 1)
  IN IF next = Fail THEN Fail
     ELSE CASE KindAt(t, next) = "]" -> next + 1
            [] KindAt(t, next) = "," -> ParseElements(t, next + 1, depth)
            [] OTHER -> Fail

ParseObject(t, i, depth) ==
  IF KindAt(t, i + 1) = "}" THEN i + 2 ELSE ParseMembers(t, i + 1, depth, {})
ParseArray(t, i, depth) ==
  IF KindAt(t, i + 1) = "]" THEN i + 2 ELSE ParseElements(t, i + 1, depth)

ParseValue(t, i, depth) ==
  CASE depth > MaximumDepth -> Fail
    [] depth <= MaximumDepth /\ KindAt(t, i) = "{" -> ParseObject(t, i, depth)
    [] depth <= MaximumDepth /\ KindAt(t, i) = "[" -> ParseArray(t, i, depth)
    [] depth <= MaximumDepth /\ KindAt(t, i) \in Atoms -> i + 1
    [] OTHER -> Fail

ValidateObject(t) == KindAt(t, 1) = "{" /\ ParseObject(t, 1, 0) = Len(t) + 1

(***************************************************************************)
(* The grammar of JSON, by splitting a text, with the two rules the        *)
(* validator adds: keys differ, and nothing is nested deeper than the      *)
(* maximum.                                                                *)
(***************************************************************************)
RECURSIVE IsValue(_, _), IsElements(_, _), MemberSplits(_, _, _)

Inside(t) == SubSeq(t, 2, Len(t) - 1)
From(t, i) == SubSeq(t, i, Len(t))
Upto(t, i) == SubSeq(t, 1, i)
Wrapped(t, open, close) ==
  Len(t) >= 2 /\ KindAt(t, 1) = open /\ KindAt(t, Len(t)) = close

IsElements(t, depth) ==
  \/ IsValue(t, depth)
  \/ \E i \in DOMAIN t : /\ KindAt(t, i) = ","
                         /\ IsValue(Upto(t, i - 1), depth)
                         /\ IsElements(From(t, i + 1), depth)

MemberSplits(t, depth, keys) ==
  /\ KindAt(t, 1) = "string" /\ t[1] \notin keys /\ KindAt(t, 2) = ":"
  /\ \/ IsValue(From(t, 3), depth)
     \/ \E i \in DOMAIN t : /\ KindAt(t, i) = ","
                            /\ IsValue(SubSeq(t, 3, i - 1), depth)
                            /\ MemberSplits(From(t, i + 1), depth, keys \cup {t[1]})

IsValue(t, depth) ==
  /\ depth <= MaximumDepth
  /\ \/ Len(t) = 1 /\ KindAt(t, 1) \in Atoms
     \/ Wrapped(t, "[", "]") /\ (Len(t) = 2 \/ IsElements(Inside(t), depth + 1))
     \/ Wrapped(t, "{", "}") /\ (Len(t) = 2 \/ MemberSplits(Inside(t), depth + 1, {}))

IsObject(t) == Wrapped(t, "{", "}") /\ IsValue(t, 0)

-----------------------------------------------------------------------------
(***************************************************************************)
(* How the configuration finds a value in a text that is valid.            *)
(***************************************************************************)
\* A value that may be missing is a sequence of at most one.
Missing == <<>>

\* What is between an opening mark and its end, both included; unbalanced ends.
Enclosed(t, start, open, close) ==
  LET Height(i) == Cardinality({j \in start..i : KindAt(t, j) = open})
                   - Cardinality({j \in start..i : KindAt(t, j) = close})
      ends == {i \in start..Len(t) : Height(i) = 0}
  IN IF KindAt(t, start) # open \/ ends = {} THEN <<>> ELSE SubSeq(t, start, Min(ends))

\* Mutant of DelimitedBody: The last occurrence of the key counts.
DelimitedBodyLast(t, key, open, close) ==
  LET at == {i \in DOMAIN t : t[i] = String(key)}
      starts == {i \in DOMAIN t : i > Max(at) /\ KindAt(t, i) = open}
  IN IF at = {} \/ starts = {} THEN <<>> ELSE Enclosed(t, Min(starts), open, close)

\* The first string with the key's name, wherever it is and whatever it is, and
\* the first such value after it, whosever that is; <<>> for none.
DelimitedBody(t, key, open, close) ==
  LET at == {i \in DOMAIN t : t[i] = String(key)}
      starts == {i \in DOMAIN t : i > Min(at) /\ KindAt(t, i) = open}
  IN IF at = {} \/ starts = {} THEN <<>> ELSE Enclosed(t, Min(starts), open, close)

\* The regular expression of QuotedValues takes what is between two quotes and
\* not empty: past an empty string, what was outside of a string is taken as
\* inside.
RECURSIVE Quoted(_, _)

BetweenQuotes(body) ==
  LET strings == SelectSeq(body, LAMBDA token : token[1] = "string")
  IN [i \in 1..(IF strings = <<>> THEN 0 ELSE 2 * Len(strings) - 1) |->
        IF i % 2 = 1 THEN strings[(i + 1) \div 2][2] ELSE "between"]

Quoted(pieces, i) ==
  IF i > Len(pieces) THEN {}
  ELSE IF pieces[i] = "" THEN Quoted(pieces, i + 1)
  ELSE {pieces[i]} \cup Quoted(pieces, i + 2)

QuotedValues(body) == Quoted(BetweenQuotes(body), 1)

\* LoadStringSet, with the set that was there before.
LoadStringSet(t, key, old) ==
  LET body == DelimitedBody(t, key, "[", "]")
  IN IF body = <<>> THEN old ELSE QuotedValues(body)

\* ReadString and ReadNumber: the first such key, at any depth, whose value is
\* of the kind asked for.
FirstValue(t, key, kind) ==
  LET at == {i \in DOMAIN t : /\ t[i] = String(key) /\ KindAt(t, i + 1) = ":"
                              /\ KindAt(t, i + 2) = kind}
  IN IF at = {} THEN Missing ELSE <<t[Min(at) + 2][2]>>

ReadNumberOf(t, key) == FirstValue(t, key, "number")
ReadStringOf(t, key) == FirstValue(t, key, "string")

\* LoadProcessRules and LoadServiceRules: the objects of the array that have
\* no object within them, with the three fields of each; a rule that misses one
\* is skipped.
RuleTexts(t) ==
  LET body == DelimitedBody(t, "rules", "[", "]")
      opens == {i \in DOMAIN body : KindAt(body, i) = "{"}
      objects == {SubSeq(body, i, j) : i \in opens, j \in DOMAIN body}
      Innermost(o) == /\ Wrapped(o, "{", "}") /\ Len(o) > 2
                      /\ \A i \in 2..Len(o) - 1 : KindAt(o, i) \notin {"{", "}"}
  IN {o \in objects : Innermost(o)}

RulesOf(t) ==
  {ReadStringOf(o, "name") \o ReadStringOf(o, "class") \o ReadStringOf(o, "protection") :
     o \in {o \in RuleTexts(t) :
              \A field \in {"name", "class", "protection"} :
                ReadStringOf(o, field) \notin {Missing, <<"">>}}}

=============================================================================
