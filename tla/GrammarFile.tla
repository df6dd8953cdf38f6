---------------------------- MODULE GrammarFile ----------------------------
(***************************************************************************)
(* ParserGenerator::from_file: the grammar of grammar files, given to a    *)
(* Parser of its own, whose handlers make the calls that build another     *)
(* Parser while the file is parsed.                                        *)
(*                                                                         *)
(* What parse() returns is not looked at: the other Parser is generated    *)
(* from the calls made so far, whether the file was accepted or not.       *)
(***************************************************************************)
EXTENDS SequencesExt

CONSTANT NULL

Production(target, symbols, nodes, tokens, handler) ==
  [target |-> target, symbols |-> symbols, nodes |-> nodes, tokens |-> tokens, handler |-> handler]

\* Productions whose handler is nullptr.
Silent(target, alternatives) ==
  [i \in DOMAIN alternatives |-> Production(target, alternatives[i], <<>>, <<>>, "nullptr")]

\* `start' and `skip' are nonterminals too.
Tags ==
  <<"NL", "PERCENT", "START", "SKIP", "TOKEN", "REGEX", "NONTERMINAL", "COLON", "SEMICOLON", "BAR",
    "EPSILON">>
Token(tag) == IF tag \in {"START", "SKIP"} THEN <<tag, "NONTERMINAL">> ELSE <<tag>>

Lines ==
  Silent("grammar", <<<<"contents">>>>) \o
  Silent("contents", <<<<"line", "NL", "contents">>, <<"line">>>>) \o
  Silent("line", <<<<"line_start">>, <<"line_skip">>, <<"line_token">>, <<"line_production">>, <<>>>>) \o
  <<Production("line_start", <<"PERCENT", "START", "COLON", "NONTERMINAL">>, <<>>, <<4>>, "start"),
    Production("line_skip", <<"PERCENT", "SKIP", "COLON", "TOKEN">>, <<>>, <<4>>, "skip"),
    Production("line_token", <<"TOKEN", "COLON", "REGEX">>, <<>>, <<1, 3>>, "token")>>

Rules ==
  Silent("nl_optional", <<<<"NL">>, <<>>>>) \o
  <<Production("line_production",
      <<"NONTERMINAL", "nl_optional", "COLON", "production_list", "nl_optional", "SEMICOLON">>, <<4>>, <<1>>, "rule"),
    Production("production_list", <<"production_list", "nl_optional", "BAR", "production">>, <<1, 4>>, <<>>, "more"),
    Production("production_list", <<"nl_optional", "production">>, <<2>>, <<>>, "one")>>

Symbols ==
  <<Production("production", <<"symbol_list">>, <<1>>, <<>>, "value"),
    Production("production", <<"EPSILON">>, <<>>, <<>>, "none"),
    Production("symbol_list", <<"symbol_list", "symbol">>, <<1, 2>>, <<>>, "more"),
    Production("symbol_list", <<"symbol">>, <<1>>, <<>>, "one"),
    Production("symbol", <<"TOKEN">>, <<>>, <<1>>, "name"),
    Production("symbol", <<"NONTERMINAL">>, <<>>, <<1>>, "name")>>

Productions == Lines \o Rules \o Symbols

-----------------------------------------------------------------------------
(* Handlers.  Those of the lines return nullptr; what they call is here     *)
(* their value, and a call of its own for each alternative of a rule.       *)

AddSkip(name) == [call |-> "add_skip", args |-> <<name>>]
AddToken(name, regex) == [call |-> "add_token", args |-> <<name, regex>>]
AddProduction(name, symbols) == [call |-> "add_production", args |-> <<name, symbols>>]
SetStart(name) == [call |-> "start", args |-> <<name>>]

Calling == {"start", "skip", "token", "rule"}

Handle(handler, x, t) ==
  CASE handler = "nullptr" -> NULL
    [] handler = "start" -> <<SetStart(t[1])>>
    [] handler = "skip" -> <<AddSkip(t[1])>>
    [] handler = "token" -> <<AddToken(t[1], t[2])>>
    [] handler = "rule" -> [i \in DOMAIN x[1] |-> AddProduction(t[1], x[1][i])]
    [] handler = "value" -> x[1]
    [] handler = "none" -> <<>>
    [] handler = "one" -> <<x[1]>>
    [] handler = "more" -> Append(x[1], x[2])
    [] handler = "name" -> t[1]

\* What from_file returns once these calls have been made, in this order.
FromFile(calls) ==
  LET starts == SelectSeq(calls, LAMBDA c : c.call = "start")
  IN  IF starts = <<>> THEN NULL
      ELSE [start |-> Last(starts).args[1], calls |-> SelectSeq(calls, LAMBDA c : c.call # "start")]

Grammar ==
  [terminals |-> {Tags[i] : i \in DOMAIN Tags},
   nonterminals |-> {Productions[k].target : k \in DOMAIN Productions},
   productions |-> Productions, start |-> "grammar", rewrites |-> <<>>, types |-> {"LALR1"},
   script |-> <<>>, calls |-> [classes |-> {}, symbols |-> {}, productions |-> {}]]
=============================================================================
