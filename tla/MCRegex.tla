------------------------------ MODULE MCRegex ------------------------------
(***************************************************************************)
(* Instances of RegexAutomata: eight code points, of which the first two   *)
(* are in the array (OPTIMIZED_CHARS) and the others in the tree.          *)
(***************************************************************************)
EXTENDS RegexAutomata

Tree == INSTANCE RegexEngine WITH Alphabet <- {}

MCRanges == {<<0, 0>>, <<1, 3>>, <<2, 2>>, <<2, 4>>, <<4, 7>>, <<5, 6>>, <<6, 6>>}

\* Groups that regexes are made of; the others are only looked at.
Used(g) ==
  g.span \in {<<<<0, 0>>>>, <<<<2, 4>>>>, <<<<6, 6>>>>, <<<<1, 3>>, <<5, 6>>>>, <<<<4, 7>>, <<2, 4>>>>}

a == Tree!Literal(0)
e == Tree!Literal(3)

Starred(x) == Tree!Multiplication(x, 0, 0)
Plus(x) == Tree!Multiplication(x, 1, 0)
Question(x) == Tree!Multiplication(x, 0, 1)

Simple(x) ==
  {x, Starred(x), Plus(x), Question(x), Tree!Multiplication(x, 0, 2), Tree!Multiplication(x, 1, 2),
   Tree!Multiplication(x, 2, 4), Tree!Multiplication(x, 1, 1)}

\* Regexes with a group, nested as the parser of regexes nests them.
FirstRule(g) ==
  LET x == Tree!Group(g)
  IN  Simple(x) \cup
      {Tree!Chain(<<a, Tree!Chain(<<x, e>>)>>), Tree!Chain(<<Starred(x), Tree!Chain(<<e, Plus(x)>>)>>),
       Tree!Or(x, Tree!Chain(<<e, Starred(a)>>)), Tree!Or(Tree!Chain(<<a, x>>), Tree!Or(e, a)),
       Tree!Chain(<<Tree!Or(x, e), Starred(Tree!Or(a, e))>>), Tree!Multiplication(Tree!Or(x, Tree!Chain(<<a, e>>)), 1, 2),
       Plus(Tree!Chain(<<Question(x), e>>)), Starred(Tree!Chain(<<Starred(a), x>>))}

\* What a later rule may be: a word of an earlier one, more of it, ranges that overlap.
Later == {a, e, Tree!Group([negate |-> FALSE, span |-> <<<<3, 5>>, <<1, 1>>>>]), Tree!Chain(<<a, Starred(e)>>)}

MCRegexes(g, tag) ==
  IF ~ Used(g) THEN {} ELSE IF tag = 1 THEN FirstRule(g) ELSE Later
=============================================================================
