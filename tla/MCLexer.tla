------------------------------ MODULE MCLexer ------------------------------
(***************************************************************************)
(* Automata of small sets of rules, and every text of at most MaxLength    *)
(* characters.                                                             *)
(***************************************************************************)
EXTENDS Lexer, TLC

CONSTANT MaxLength

MCChars == {"a", "b", "nl"}
MCStates == 0 .. 3
MCTags == {"A", "AAB", "KEY", "NAME", "STAR", "SPACE", "B", "WS"}
MCTexts == UNION {[1 .. n -> MCChars] : n \in 0 .. MaxLength}

\* next from a set of <<state, character, state>>, terminals from the states
\* that have some.
Automaton(edges, accepting, skip) ==
  [next |-> [x \in MCStates \X MCChars |->
               IF \E e \in edges : <<e[1], e[2]>> = x
                 THEN (CHOOSE e \in edges : <<e[1], e[2]>> = x)[3] ELSE Dead],
   terminals |-> [q \in MCStates |->
                    IF q \in DOMAIN accepting THEN accepting[q] ELSE <<>>],
   skip |-> skip]

\* a, aab, and newlines skipped: after "aa" a scan goes back one character.
Backtrack ==
  Automaton({<<0, "a", 1>>, <<1, "a", 2>>, <<2, "b", 3>>, <<0, "nl", 3>>},
            1 :> <<"A">> @@ 3 :> <<"AAB">>, {})

\* a+ is two tags, of which one is to be skipped; b alone starts nothing but
\* b and a newline.
Tagged ==
  Automaton({<<0, "a", 1>>, <<1, "a", 1>>, <<0, "b", 2>>, <<2, "nl", 3>>, <<3, "nl", 3>>},
            1 :> <<"KEY", "NAME">> @@ 3 :> <<"WS">>, {"WS", "NAME"})

\* A rule that matches the empty text: (ab)*.
Star ==
  Automaton({<<0, "a", 1>>, <<1, "b", 2>>, <<2, "a", 1>>},
            0 :> <<"STAR">> @@ 2 :> <<"STAR">>, {})

\* The same, to be skipped: where it matches nothing a scan does not return.
SkippedStar == [Star EXCEPT !.skip = {"STAR"}]

\* Comments: skipped from an a to the next newline, which may be missing.
Comment ==
  Automaton({<<0, "a", 1>>, <<1, "a", 1>>, <<1, "b", 1>>, <<1, "nl", 2>>, <<0, "b", 3>>,
             <<0, "nl", 2>>},
            2 :> <<"SPACE">> @@ 3 :> <<"B">>, {"SPACE"})

MCAutomata == {Backtrack, Tagged, Star, SkippedStar, Comment}
=============================================================================
