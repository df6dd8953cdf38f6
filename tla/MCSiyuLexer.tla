---------------------------- MODULE MCSiyuLexer ----------------------------
(***************************************************************************)
(* Rules that begin alike, that may be left out, and that clash.           *)
(***************************************************************************)
EXTENDS SiyuLexer, TLC

MCCodeOf ==
  ("(" :> 40) @@ (")" :> 41) @@ ("*" :> 42) @@ ("+" :> 43) @@ ("," :> 44) @@ ("-" :> 45) @@
  ("0" :> 48) @@ ("1" :> 49) @@ ("2" :> 50) @@ ("?" :> 63) @@ ("[" :> 91) @@ ("\\" :> 92) @@
  ("]" :> 93) @@ ("a" :> 97) @@ ("b" :> 98) @@ ("{" :> 123) @@ ("|" :> 124) @@ ("}" :> 125)

MCPatterns ==
  {<<"a">>, <<"a", "b">>, <<"(">>, <<"[", "a", "-", "b", "]", "+">>, <<"a", "?", "b">>,
   <<"b", "*">>, <<"a", "b", "*", "a">>, <<"(", "a", "b", "|", "b", ")", "{", "1", ",", "2", "}", "a">>}

a == Literal(97)
b == Literal(98)

MCRegexes ==
  {a, Sequence(<<a, Wildcard>>), Repetition(Wildcard, 1, 0), Sequence(<<Repetition(a, 0, 2), b>>),
   Sequence(<<b, Repetition(b, 0, 1), a>>),
   Not(a), Either(Literal(200), Sequence(<<b, b>>))}

MCTexts == {<<97, 98, 97>>, <<98, 98, 97, 98>>, <<97, 200, 0, 97>>, <<97, 97, 98>>}
=============================================================================
