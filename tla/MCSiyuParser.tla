---------------------------- MODULE MCSiyuParser ----------------------------
(***************************************************************************)
(* Grammars that vanish in parts, that recurse to either side, and that    *)
(* the generators cannot do.                                               *)
(***************************************************************************)
EXTENDS SiyuParser

P(target, symbols) == [target |-> target, symbols |-> symbols]
Grammar(start, productions) == [start |-> start, productions |-> productions]

\* siyu/src/main.cpp, test_parser
Basic == Grammar("s", <<P("s", <<"n">>), P("n", <<"v", "EQUALS", "e">>), P("n", <<"e">>),
                        P("e", <<"v">>), P("v", <<"X">>), P("v", <<"STAR", "e">>)>>)

\* A list, empty or not, as tk's callers write it and as siyu's do.
List(empty) == Grammar("s", <<P("s", <<"l">>), P("l", <<"A", "l">>), P("l", empty)>>)
LeftList == Grammar("s", <<P("s", <<"l">>), P("l", <<"l", "A">>), P("l", <<>>)>>)
Optionals == Grammar("s", <<P("s", <<"x", "y", "B">>), P("x", <<"A">>), P("x", <<>>), P("y", <<"C">>), P("y", <<>>)>>)
Inside == Grammar("s", <<P("s", <<"A", "o", "B">>), P("o", <<"C">>), P("o", <<>>)>>)
Sums == Grammar("s", <<P("s", <<"e">>), P("e", <<"e", "PLUS", "t">>), P("e", <<"t">>), P("t", <<"A">>)>>)

\* The start symbol on a right side; two productions done in one state; a conflict.
Recursive == Grammar("s", <<P("s", <<"A", "s">>), P("s", <<"B">>)>>)
LR1Only == Grammar("s", <<P("s", <<"A", "e", "A">>), P("s", <<"B", "e", "B">>), P("s", <<"A", "f", "B">>),
                          P("s", <<"B", "f", "A">>), P("e", <<"E">>), P("f", <<"E">>)>>)
Dangling == Grammar("s", <<P("s", <<"i">>), P("i", <<"IF", "i">>), P("i", <<"IF", "i", "ELSE", "i">>), P("i", <<"X">>)>>)

MCGrammars == {Basic, List(<<>>), List(<<EPSILON>>), LeftList, Optionals, Inside, Sums, Recursive, LR1Only, Dangling}
=============================================================================
