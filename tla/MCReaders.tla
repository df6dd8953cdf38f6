------------------------------ MODULE MCReaders ------------------------------
(***************************************************************************)
(* The regex parsers of siyu and siyu-1 side by side, on texts that grow   *)
(* by a piece from one parse to the next, and how regexes are written.     *)
(***************************************************************************)
EXTENDS Integers, Sequences, SequencesExt, FiniteSets, TLC

CONSTANTS
  CodeOf, UINT_WIDTH,
  Pieces,       \* what texts are made of: sequences of characters
  MaxPieces     \* bound: pieces of a text

VARIABLES
  buffer,        \* the text parsed last
  pieces,        \* its pieces
  siyu, siyu1    \* what parse() did with it

vars == <<buffer, pieces, siyu, siyu1>>

S == INSTANCE SiyuAutomata WITH NONE <- "none"
S1 == INSTANCE Siyu1Regex

Init ==
  /\ buffer = <<>> /\ pieces = 0
  /\ siyu = S!ParseSiyu(<<>>)
  /\ siyu1 = S1!ParseSiyu1(<<>>)

Parse(str) ==
  /\ buffer' = str
  /\ siyu' = S!ParseSiyu(str)
  /\ siyu1' = S1!ParseSiyu1(str)

Next ==
  /\ pieces < MaxPieces
  /\ pieces' = pieces + 1
  /\ \E piece \in Pieces : Parse(buffer \o piece)

Spec == Init /\ [][Next]_vars

-----------------------------------------------------------------------------
(* How regexes are written: for a text, the trees it may be read as.  There *)
(* is one at most.                                                          *)

Hex == [c \in {"0", "1", "2", "3", "4", "a", "b", "c"} \cap (DOMAIN CodeOf) |->
          IF CodeOf[c] < CodeOf["a"] THEN CodeOf[c] - CodeOf["0"] ELSE CodeOf[c] - CodeOf["a"] + 10]

Escaped == [t |-> 9, n |-> 10, r |-> 13]

Before(s, i) == SubSeq(s, 1, i - 1)
After(s, i) == SubSeq(s, i + 1, Len(s))

\* A character by its code, in a group or (`special' being others) outside.
Characters(s, special) ==
  LET n == Len(s)
      by(i) == n = i /\ s[1] = "\\"
  IN  {CodeOf[c] : c \in {c \in (DOMAIN CodeOf) \ special : s = <<c>> /\ CodeOf[c] \in 32 .. 126}}
        \cup {CodeOf[c] : c \in {c \in special : by(2) /\ s[2] = c}}
        \cup {Escaped[c] : c \in {c \in DOMAIN Escaped : by(2) /\ s[2] = c}}
        \cup {Hex[d[1]] * 16 + Hex[d[2]] :
                d \in {d \in (DOMAIN Hex) \X (DOMAIN Hex) : by(4) /\ s[2] = "x" /\ s[3] = d[1] /\ s[4] = d[2]}}

Special == {"\\", "(", ")", "{", "}", "[", "]", "|", "*", "+", "?"}
GroupSpecial == {"[", "-", "]", "\\"}

Elements(s) ==
  {S!Literal(c) : c \in Characters(s, GroupSpecial)}
    \cup UNION {{S!Span(l, u) : l \in Characters(Before(s, i), GroupSpecial),
                                u \in Characters(After(s, i), GroupSpecial)} :
                i \in {i \in DOMAIN s : s[i] = "-"}}

RECURSIVE Contents(_)
Contents(s) ==
  Elements(s) \cup
    UNION {{S!Either(x, y) : x \in Elements(Before(s, i)), y \in Contents(SubSeq(s, i, Len(s)))} :
           i \in {i \in 2 .. Len(s) : Elements(Before(s, i)) # {}}}

\* The bounds a text gives: one of the signs, or digits, a comma and digits.
Value(s) == FoldLeft(LAMBDA n, c : n * 10 + CodeOf[c] - CodeOf["0"], 0, s)
Digits(s) == \A i \in DOMAIN s : CodeOf[s[i]] \in CodeOf["0"] .. CodeOf["0"] + 9
Bounds(s) ==
  IF s = <<"*">> THEN {<<0, 0>>}
  ELSE IF s = <<"+">> THEN {<<1, 0>>}
  ELSE IF s = <<"?">> THEN {<<0, 1>>}
  ELSE {<<Value(SubSeq(s, 2, i - 1)), Value(SubSeq(s, i + 1, Len(s) - 1))>> :
          i \in {i \in DOMAIN s : /\ s[i] = "," /\ s[1] = "{" /\ Last(s) = "}"
                                  /\ Digits(SubSeq(s, 2, i - 1)) /\ Digits(SubSeq(s, i + 1, Len(s) - 1))}}

RECURSIVE Alternatives(_)
Enclosed(s, open, close) == Len(s) > 2 /\ s[1] = open /\ Last(s) = close
Atoms(s) ==
  {S!Literal(c) : c \in Characters(s, Special)}
    \cup (IF Enclosed(s, "(", ")") THEN Alternatives(SubSeq(s, 2, Len(s) - 1)) ELSE {})
    \cup (IF Enclosed(s, "[", "]") THEN Contents(SubSeq(s, 2, Len(s) - 1)) ELSE {})
Factors(s) ==
  Atoms(s) \cup
    UNION {{S!Repetition(x, b[1], b[2]) : x \in Atoms(Before(s, i)), b \in Bounds(SubSeq(s, i, Len(s)))} :
           i \in {i \in 2 .. Len(s) : Bounds(SubSeq(s, i, Len(s))) # {}}}
\* The nodes of a chain.
RECURSIVE Chains(_)
Chains(s) ==
  {<<x>> : x \in Factors(s)} \cup
    UNION {{<<x>> \o ys : x \in Factors(Before(s, i)), ys \in Chains(SubSeq(s, i, Len(s)))} :
           i \in {i \in 2 .. Len(s) : Factors(Before(s, i)) # {}}}
Alternatives(s) ==
  {S!Sequence(xs) : xs \in Chains(s)} \cup
    UNION {{S!Either(S!Sequence(xs), y) : xs \in Chains(Before(s, i)), y \in Alternatives(After(s, i))} :
           i \in {i \in DOMAIN s : s[i] = "|" /\ Chains(Before(s, i)) # {}}}

-----------------------------------------------------------------------------
(* What the code gets wrong.                                                *)

\* A quantifier with nothing to repeat before it.
Unescaped(s, i) ==
  Cardinality({j \in 1 .. i - 1 : \A k \in j .. i - 1 : s[k] = "\\"}) % 2 = 0
Closing(s, i) == s[i] = "]" /\ Unescaped(s, i)
InGroup(s, i) ==
  /\ \E j \in 1 .. i - 1 : s[j] = "[" /\ Unescaped(s, j) /\ \A k \in j .. i - 1 : ~ Closing(s, k)
  /\ \E k \in i + 1 .. Len(s) : Closing(s, k)
Dangling(s) ==
  \E i \in DOMAIN s :
    /\ s[i] \in {"*", "+", "?", "{"} /\ Unescaped(s, i) /\ ~ InGroup(s, i)
    /\ i = 1 \/ (s[i - 1] \in {"(", "|", "*", "+", "?", "}"} /\ Unescaped(s, i - 1))

\* A byte in hexadecimal, which leaves a position too many on the stack.
HasByte(s) ==
  \E i \in DOMAIN s :
    /\ i + 3 <= Len(s) /\ s[i] = "\\" /\ Unescaped(s, i) /\ s[i + 1] = "x"
    /\ {s[i + 2], s[i + 3]} \subseteq DOMAIN Hex

TypeOK ==
  /\ buffer \in Seq(DOMAIN CodeOf) /\ pieces \in 0 .. MaxPieces
  /\ {siyu.outcome, siyu1.outcome} \subseteq {"regex", "null", "unfinished", "undefined"}

\* parse() reads exactly the regexes, each as the tree it is written as, and returns
\* nullptr for any other text: every function of the parser has left as many positions on
\* the stack as it has to, and gives up nothing it could have read otherwise.  Neither a
\* quantifier with nothing before it is accepted nor a byte in hexadecimal; how that is
\* noticed is another matter: a parse ends in an exception, or pops more than there is.
\* (A text with both may even be accepted: one position too many and one too few.)
ReadsTheGrammar ==
  /\ TypeOK
  /\ ~ Dangling(buffer) /\ ~ HasByte(buffer) =>
       /\ siyu.outcome \in {"regex", "null"}
       /\ Alternatives(buffer) = IF siyu.outcome = "regex" THEN {siyu.regex} ELSE {}
  /\ Dangling(buffer) # HasByte(buffer) => siyu.outcome # "regex"

\* The words of a regex, cut off behind their first letter.
First(A, B) == {IF a = <<>> THEN b ELSE a : a \in A, b \in B}
RECURSIVE Beginnings(_)
Beginnings(x) ==
  CASE x.kind = "literal" -> {<<x.ch>>}
    [] x.kind = "range" -> {<<c>> : c \in {x.upper} \cup x.lower .. x.upper}
    [] x.kind = "chain" -> FoldLeft(LAMBDA A, y : First(A, Beginnings(y)), {<<>>}, x.sequence)
    [] x.kind = "or" -> Beginnings(x.left) \cup Beginnings(x.right)
    [] x.kind = "multiplication" ->
         FoldLeft(LAMBDA A, i : First(A, Beginnings(x.node)),
                  {<<>>} \cup (IF x.max = 0 \/ x.max > x.min THEN Beginnings(x.node) ELSE {}),
                  [i \in 1 .. x.min |-> i])

\* siyu-1 unfolds repetitions while it reads. Its tree vanishes if the regex does, and
\* begins with the letters the words of the regex begin with.
FirstExact ==
  siyu1.outcome = "regex" /\ ~ Dangling(buffer) =>
    /\ siyu.outcome = "regex"
    /\ Beginnings(siyu.regex) =
         {<<c>> : c \in S1!FirstPos(siyu1.regex)} \cup (IF S1!Nullable(siyu1.regex) THEN {<<>>} ELSE {})

-----------------------------------------------------------------------------
(* Texts out of operators, groups and escapes.                              *)

MCCodeOf ==
  ("(" :> 40) @@ (")" :> 41) @@ ("*" :> 42) @@ ("+" :> 43) @@ ("," :> 44) @@ ("-" :> 45) @@
  ("0" :> 48) @@ ("1" :> 49) @@ ("2" :> 50) @@ ("3" :> 51) @@ ("4" :> 52) @@ ("?" :> 63) @@
  ("[" :> 91) @@ ("\\" :> 92) @@ ("]" :> 93) @@ ("a" :> 97) @@ ("b" :> 98) @@ ("c" :> 99) @@
  ("n" :> 110) @@ ("t" :> 116) @@ ("u" :> 117) @@ ("x" :> 120) @@
  ("{" :> 123) @@ ("|" :> 124) @@ ("}" :> 125)

MCPieces ==
  {<<"a">>, <<"(">>, <<")">>, <<"|">>, <<"*">>, <<"?">>, <<"[">>, <<"]">>, <<"-">>, <<"\\">>,
   <<"{", "1", ",", "2", "}">>, <<"{", "2", ",">>, <<"[", "a", "-", "c", "]">>,
   <<"\\", "x", "4", "4">>, <<"\\", "x", "2", "b">>, <<"n">>, <<"b", "+">>}
=============================================================================
