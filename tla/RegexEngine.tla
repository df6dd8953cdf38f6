---------------------------- MODULE RegexEngine ----------------------------
(***************************************************************************)
(* RegexEngine: the grammar of regexes that midori gives to its own Parser *)
(* and the handlers that make syntax trees of what is matched.             *)
(*                                                                         *)
(* A token is one character with the tags of all the rules that match it,  *)
(* in the order of the rules.  A production notes which of its symbols the *)
(* handler takes with nonterminal(), and which with terminal().            *)
(***************************************************************************)
EXTENDS Integers, Sequences, SequencesExt

CONSTANTS
  UNICODE_MAX,   \* RegexASTGroup::UNICODE_MAX
  Alphabet       \* the characters texts are made of

\* Syntax trees; max = 0: no upper bound.
Literal(c) == [kind |-> "literal", ch |-> c]
Group(g) == [kind |-> "group", group |-> g]
Chain(xs) == [kind |-> "chain", sequence |-> xs]
Or(x, y) == [kind |-> "or", left |-> x, right |-> y]
Multiplication(x, min, max) ==
  [kind |-> "multiplication", node |-> x, min |-> min, max |-> max]

Production(target, symbols, nodes, tokens, handler) ==
  [target |-> target, symbols |-> symbols, nodes |-> nodes, tokens |-> tokens, handler |-> handler]

\* A production whose value is that of its one symbol.
Pass(target, symbol) == Production(target, <<symbol>>, <<1>>, <<>>, "value")
Literals(target, tags) ==
  [i \in DOMAIN tags |-> Production(target, <<tags[i]>>, <<>>, <<1>>, "special")]

-----------------------------------------------------------------------------
(* Tokens                                                                   *)

Digits == 48 .. 57
Sign == [STAR |-> 42, PLUS |-> 43, QUESTION |-> 63, OR |-> 124, ESCAPE |-> 92, DOT |-> 46,
         LPAREN |-> 40, RPAREN |-> 41, LBRACE |-> 123, RBRACE |-> 125, LBRACKET |-> 91,
         RBRACKET |-> 93, HAT |-> 94, DASH |-> 45, COMMA |-> 44,
         X |-> 120, U |-> 117, T |-> 116, N |-> 110]
Order ==
  <<"STAR", "PLUS", "QUESTION", "OR", "ESCAPE", "DOT", "LPAREN", "RPAREN", "LBRACE", "RBRACE",
    "LBRACKET", "RBRACKET", "HAT", "DASH", "COMMA", "X", "U", "T", "N",
    "DEC", "HEX", "GROUP_ANY", "ANY">>

Matches(tag, c) ==
  CASE tag = "DEC" -> c \in Digits
    [] tag = "HEX" -> c \in Digits \cup 97 .. 102
    [] tag = "GROUP_ANY" -> c \notin {Sign.LBRACKET, Sign.RBRACKET}
    [] tag = "ANY" -> TRUE
    [] OTHER -> c = Sign[tag]

Token == [c \in Alphabet |-> SelectSeq(Order, LAMBDA tag : Matches(tag, c))]

\* The character of a token: `"0"' of the token {n} is completed with, or one of the text.
Code(tags) == IF tags = <<"DEC">> THEN 48 ELSE CHOOSE c \in Alphabet : Token[c] = tags

-----------------------------------------------------------------------------
(* Productions, in the order they are added                                 *)

Alternation ==
  <<Pass("regex", "lr_or"),
    Production("lr_or", <<"lr_add", "OR", "lr_or">>, <<1, 3>>, <<>>, "or"),
    Pass("lr_or", "lr_add"),
    Production("lr_add", <<"lr_mul", "lr_add">>, <<1, 2>>, <<>>, "chain"),
    Pass("lr_add", "lr_mul")>>

Quantifiers ==
  <<Production("lr_mul", <<"not_lr", "STAR">>, <<1>>, <<>>, "star"),
    Production("lr_mul", <<"not_lr", "PLUS">>, <<1>>, <<>>, "plus"),
    Production("lr_mul", <<"not_lr", "QUESTION">>, <<1>>, <<>>, "question"),
    Production("lr_mul", <<"not_lr", "mul_range">>, <<1, 2>>, <<>>, "repeat"),
    Pass("lr_mul", "not_lr")>>

Atoms ==
  <<Pass("not_lr", "parentheses"), Pass("not_lr", "literal"), Pass("not_lr", "group"),
    Production("not_lr", <<"DOT">>, <<>>, <<>>, "dot"),
    Production("parentheses", <<"LPAREN", "lr_or", "RPAREN">>, <<2>>, <<>>, "value"),
    Pass("literal", "escaped_literal"),
    Production("literal", <<"ANY">>, <<>>, <<1>>, "any")>>

Groups ==
  <<Production("group", <<"LBRACKET", "group_contents", "RBRACKET">>, <<2>>, <<>>, "value"),
    Production("group", <<"LBRACKET", "HAT", "group_contents", "RBRACKET">>, <<3>>, <<>>, "negate"),
    Production("group_contents", <<"group_element", "group_contents">>, <<1, 2>>, <<>>, "contents"),
    Pass("group_contents", "group_element"),
    Production("group_element", <<"group_element", "DASH", "group_literal">>, <<1, 3>>, <<>>, "range"),
    Pass("group_element", "group_literal"),
    Production("group_literal", <<"group_literal_char">>, <<1>>, <<>>, "single"),
    Pass("group_literal_char", "group_escaped_literal"),
    Production("group_literal_char", <<"DASH">>, <<>>, <<1>>, "any"),
    Production("group_literal_char", <<"GROUP_ANY">>, <<>>, <<1>>, "any")>>

GroupEscapes ==
  <<Production("group_escaped_literal", <<"ESCAPE", "group_escape_code">>, <<2>>, <<>>, "value"),
    Pass("group_escape_code", "group_escape_special"), Pass("group_escape_code", "escape_absolute")>>
  \o Literals("group_escape_special", <<"N", "T", "ESCAPE", "LBRACKET", "RBRACKET">>)

Escapes ==
  <<Production("escaped_literal", <<"ESCAPE", "escape_code">>, <<2>>, <<>>, "value"),
    Pass("escape_code", "escape_special")>>
  \o Literals("escape_special",
       <<"N", "T", "ESCAPE", "LPAREN", "RPAREN", "LBRACE", "RBRACE", "LBRACKET", "RBRACKET",
         "STAR", "PLUS", "QUESTION", "OR", "DOT">>)
  \o <<Pass("escape_code", "escape_absolute")>>

EightDigits == [i \in 1 .. 8 |-> "hex_digit"]
Absolutes ==
  <<Production("escape_absolute", <<"X", "hex_int_short">>, <<2>>, <<>>, "hex"),
    Production("hex_int_short", <<"hex_digit", "hex_digit">>, <<1, 2>>, <<>>, "digits"),
    Production("escape_absolute", <<"U", "hex_int_long">>, <<2>>, <<>>, "hex"),
    Production("hex_int_long", EightDigits, <<1, 2, 3, 4, 5, 6, 7, 8>>, <<>>, "digits"),
    Production("hex_digit", <<"HEX">>, <<>>, <<1>>, "digit")>>

\* {n} has no handler: it is put back as {0,n}.
Bounds ==
  <<Production("mul_range", <<"LBRACE", "dec_int", "COMMA", "dec_int", "RBRACE">>, <<2, 4>>, <<>>, "bounds"),
    Production("mul_range", <<"LBRACE", "dec_int", "RBRACE">>, <<>>, <<>>, "rewritten"),
    Production("dec_int", <<"DEC", "dec_int">>, <<2>>, <<1>>, "more"),
    Production("dec_int", <<"DEC">>, <<>>, <<1>>, "digit")>>

Productions ==
  Alternation \o Quantifiers \o Atoms \o Groups \o GroupEscapes \o Escapes \o Absolutes \o Bounds

Rewritten == CHOOSE k \in DOMAIN Productions : Productions[k].handler = "rewritten"
Rewrites ==
  [k \in {Rewritten} |->
     <<[child |-> 1, tags |-> <<>>], [child |-> 0, tags |-> <<"DEC">>], [child |-> 0, tags |-> <<"COMMA">>],
       [child |-> 2, tags |-> <<>>], [child |-> 3, tags |-> <<>>]>>]

-----------------------------------------------------------------------------
(* Handlers: x are the values of the nonterminals they take, t the tokens.  *)

\* std::stol of a string of digits.
Number(digits, base) ==
  FoldLeft(LAMBDA n, c : n * base + (IF c \in Digits THEN c - 48 ELSE c - 97 + 10), 0, digits)

NumberOf(handler, x, t) ==
  CASE handler = "digit" -> <<Code(t[1])>>
    [] handler = "more" -> <<Code(t[1])>> \o x[1]
    [] handler = "digits" -> FlattenSeq(x)
    [] handler = "hex" -> Literal(Number(x[1], 16))
    [] handler = "bounds" -> <<Number(x[1], 10), Number(x[2], 10)>>

\* \n and \t are characters of their own; any other stands for itself.
LiteralOf(handler, t) ==
  CASE handler = "any" -> Literal(Code(t[1]))
    [] handler = "special" -> Literal(IF t[1][1] = "N" THEN 10 ELSE IF t[1][1] = "T" THEN 9 ELSE Code(t[1]))

Span(lower, upper) == Group([negate |-> FALSE, span |-> <<<<lower, upper>>>>])

\* Mutant: the ends of a range as they stand.
WidenedLast(r, c) == <<r[1], c>>

\* a-b-c: the range is made to reach from the least to the greatest.
Widened(r, c) ==
  LET all == {r[1], r[2], c}
  IN  <<CHOOSE a \in all : \A b \in all : a <= b, CHOOSE a \in all : \A b \in all : b <= a>>

GroupOf(handler, x) ==
  CASE handler = "single" -> Span(x[1].ch, x[1].ch)
    [] handler = "range" ->
         LET r == Widened(x[1].group.span[1], x[2].group.span[1][1]) IN Span(r[1], r[2])
    [] handler = "contents" ->
         Group([negate |-> FALSE, span |-> <<x[1].group.span[1]>> \o x[2].group.span])
    [] handler = "negate" -> [x[1] EXCEPT !.group.negate = TRUE]

TreeOf(handler, x) ==
  CASE handler = "or" -> Or(x[1], x[2])
    [] handler = "chain" -> Chain(<<x[1], x[2]>>)
    [] handler = "star" -> Multiplication(x[1], 0, 0)
    [] handler = "plus" -> Multiplication(x[1], 1, 0)
    [] handler = "question" -> Multiplication(x[1], 0, 1)
    [] handler = "repeat" -> Multiplication(x[1], x[2][1], x[2][2])
    [] handler = "dot" -> Span(0, UNICODE_MAX)

Handle(handler, x, t) ==
  CASE handler = "value" -> x[1]
    [] handler \in {"digit", "more", "digits", "hex", "bounds"} -> NumberOf(handler, x, t)
    [] handler \in {"any", "special"} -> LiteralOf(handler, t)
    [] handler \in {"single", "range", "contents", "negate"} -> GroupOf(handler, x)
    [] OTHER -> TreeOf(handler, x)

-----------------------------------------------------------------------------
Engine ==
  [terminals |-> {Order[i] : i \in DOMAIN Order},
   nonterminals |-> {Productions[k].target : k \in DOMAIN Productions},
   productions |-> Productions, start |-> "regex", rewrites |-> Rewrites, types |-> {"LALR1"},
   script |-> <<>>, calls |-> [classes |-> {}, symbols |-> {}, productions |-> {}]]
=============================================================================
