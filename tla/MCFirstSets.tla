---------------------------- MODULE MCFirstSets ----------------------------
(* Every grammar of at most MaxProductions productions over two client      *)
(* nonterminals, with right-hand sides of at most two symbols.  The symbols *)
(* after a leading terminal are never looked at, so such a right-hand side  *)
(* is the terminal alone.                                                   *)
EXTENDS FirstSets

MCTerminals == {"a", "$end"}
MCNonterminals == {"S", "A"}
MCSymbolStrings ==
  {<<>>, <<"a">>} \cup {<<x>> : x \in MCNonterminals}
    \cup {<<x, y>> : x \in MCNonterminals, y \in {"a"} \cup MCNonterminals}
=============================================================================
