------------------------------ MODULE MCParser ------------------------------
(***************************************************************************)
(* Grammars of the tests and of the clients in midori, cut down, each with *)
(* the texts it is tried on: all those of its tokens up to a length.       *)
(***************************************************************************)
EXTENDS Parser, TLC

P(target, symbols) == [target |-> target, symbols |-> symbols]
T(tag) == <<tag>>
Texts(tokens, n) == UNION {[1 .. k -> tokens] : k \in 0 .. n}
BothTypes == {"LALR1", "LR1"}
NoCalls == [classes |-> {}, symbols |-> {}, productions |-> {}]

\* What most grammars have.
Plain == [rewrites |-> <<>>, types |-> BothTypes, script |-> <<>>, calls |-> NoCalls]

\* tests/parser.cpp, Basic: LALR(1), and not SLR(1).
Basic ==
  [terminals |-> {"EQUALS", "X", "STAR"}, nonterminals |-> {"s", "n", "v", "e"},
   productions |-> <<P("s", <<"n">>), P("n", <<"v", "EQUALS", "e">>), P("n", <<"e">>),
                     P("e", <<"v">>), P("v", <<"X">>), P("v", <<"STAR", "e">>)>>,
   start |-> "s",
   inputs |-> Texts({T("EQUALS"), T("X"), T("STAR")}, 3)
                \cup {<<T("STAR"), T("X"), T("EQUALS"), T("STAR"), T("X")>>}] @@ Plain

\* tests/parser.cpp, Recursion: ambiguous, one conflict.
Recursion ==
  [terminals |-> {"A"}, nonterminals |-> {"n"},
   productions |-> <<P("n", <<"n", "n">>), P("n", <<"A">>)>>,
   start |-> "n", inputs |-> Texts({T("A")}, 4)] @@ Plain

\* tests/parser.cpp, Epsilon; and a token the lexer does not know.
Epsilon ==
  [terminals |-> {"A"}, nonterminals |-> {"n", "m"},
   productions |-> <<P("n", <<"m", "n">>), P("n", <<>>), P("m", <<"A">>)>>,
   start |-> "n",
   inputs |-> Texts({T("A"), T(BAD)}, 3)] @@ Plain

\* tests/parser.cpp, LR1: two reduce-reduce conflicts for LALR(1), none for LR(1).
LR1Only ==
  [terminals |-> {"A", "B", "E"}, nonterminals |-> {"s", "e", "f"},
   productions |-> <<P("s", <<"A", "e", "A">>), P("s", <<"B", "e", "B">>),
                     P("s", <<"A", "f", "B">>), P("s", <<"B", "f", "A">>),
                     P("e", <<"E">>), P("f", <<"E">>)>>,
   start |-> "s",
   inputs |-> Texts({T("A"), T("B"), T("E")}, 3)] @@ Plain

\* tests/parser.cpp, Precedence: one class or two for the operators.
Expressions ==
  [terminals |-> {"a", "plus", "minus"}, nonterminals |-> {"expr"},
   productions |-> <<P("expr", <<"expr", "plus", "expr">>),
                     P("expr", <<"expr", "minus", "expr">>), P("expr", <<"a">>)>>,
   start |-> "expr", calls |-> [classes |-> {<<"low", 1, "LEFT">>, <<"low", 1, "NONASSOC">>,
                           <<"high", 2, "RIGHT">>, <<"high", 1, "LEFT">>},
              symbols |-> {<<"plus", "low">>, <<"minus", "low">>, <<"minus", "high">>},
              productions |-> {<<1, "high">>}],
   inputs |-> {<<T("a"), T("plus"), T("a"), T("minus"), T("a")>>,
              <<T("a"), T("minus"), T("a"), T("plus"), T("a")>>}] @@ Plain

\* Nullable symbols in a row: transitions that read through one another.
Nullables ==
  [terminals |-> {"A", "B"}, nonterminals |-> {"s", "x", "y"},
   productions |-> <<P("s", <<"x", "y", "s", "B">>), P("s", <<"A">>), P("x", <<>>),
                     P("y", <<"B">>), P("y", <<>>)>>,
   start |-> "s",
   inputs |-> Texts({T("A"), T("B")}, 3)] @@ Plain

\* tests/parser.cpp, RegexGroup: a dash is two tokens at once.
Group ==
  [terminals |-> {"LB", "RB", "DASH", "ANY"},
   nonterminals |-> {"class", "contents", "element", "literal"},
   productions |-> <<P("class", <<"LB", "contents", "RB">>), P("contents", <<"element">>),
                     P("contents", <<"element", "contents">>), P("element", <<"literal">>),
                     P("element", <<"element", "DASH", "literal">>),
                     P("literal", <<"DASH">>), P("literal", <<"ANY">>)>>,
   start |-> "class",
   inputs |-> {<<T("LB")>> \o w \o <<T("RB")>> : w \in Texts({T("ANY"), <<"ANY", "DASH">>}, 3)}] @@ Plain

\* mul_range and dec_int of regex_engine.cpp: {n} is parsed again as {0,n}.  What
\* comes behind it may be refused while the rest is in the buffer.
Child(i) == [child |-> i, tags |-> <<>>]
Made(name) == [child |-> 0, tags |-> <<name>>]
Range2 ==
  [terminals |-> {"LBRACE", "RBRACE", "COMMA", "DEC"}, nonterminals |-> {"ranges", "range", "int"},
   productions |-> <<P("range", <<"LBRACE", "int", "COMMA", "int", "RBRACE">>),
                     P("range", <<"LBRACE", "int", "RBRACE">>),
                     P("int", <<"DEC", "int">>), P("int", <<"DEC">>),
                     P("ranges", <<"range">>), P("ranges", <<"range", "ranges">>)>>,
   start |-> "ranges",
   rewrites |-> [k \in {2} |-> <<Child(1), Made("DEC"), Made("COMMA"), Child(2), Child(3)>>],
   inputs |-> {<<T("LBRACE")>> \o w : w \in Texts({T("DEC"), T("COMMA"), T("RBRACE")}, 3)}
                \cup {<<T("LBRACE"), T("DEC"), T("COMMA"), T("DEC"), T("RBRACE")>>}
                \cup {<<T("LBRACE"), T("DEC"), T("RBRACE"), T("LBRACE")>> \o w :
                        w \in Texts({T("DEC"), T("RBRACE")}, 2)}] @@ Plain

\* In B -> x . A the walk to lookbacks starts again from the kernel item, in a
\* state that also has a transition on B.
Nested ==
  [terminals |-> {"c", "x", "e", "t"}, nonterminals |-> {"S", "B", "A"},
   productions |-> <<P("S", <<"B", "c">>), P("S", <<"x", "B", "e">>), P("B", <<"x", "A">>),
                     P("A", <<"B">>), P("A", <<"t">>)>>,
   start |-> "S",  inputs |-> Texts({T("x"), T("t")}, 1)] @@ Plain

MCGrammars ==
  {Basic, Recursion, Epsilon, LR1Only, Expressions, Nullables, Group, Range2, Nested}
MCClassNames == {"low", "high"}
MCLevels == {1, 2}
MCAssocs == {"LEFT", "RIGHT", "NONASSOC", "NONE"}
=============================================================================
