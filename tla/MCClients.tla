-------------------------- MODULE MCClients --------------------------
(***************************************************************************)
(* midori's own clients of the Parser, RegexEngine, Lang and the reader of *)
(* grammar files: the tables generate() makes of their grammars, and what  *)
(* their handlers make of a text, against the way regexes, programs and    *)
(* grammars are written.                                                   *)
(*                                                                         *)
(* Expected has texts for each of them, by its start symbol, with what is  *)
(* to come of each text.                                                   *)
(***************************************************************************)
EXTENDS Parser, TLC

CONSTANTS
  UNICODE_MAX, Alphabet,   \* of RegexEngine
  Expected                 \* start symbol -> cases, [text, outcome]

Re == INSTANCE RegexEngine
La == INSTANCE Lang WITH NULL <- NONE
File == INSTANCE GrammarFile WITH NULL <- NONE

-----------------------------------------------------------------------------
(* The values of matches, and what comes of a text.  A handler that takes a *)
(* token with nonterminal() goes on with a null pointer: that is undefined. *)

Value(x) == [of |-> "nonterminal", is |-> x]
Lexeme(tags) == [of |-> "terminal", is |-> tags]
Undefined == [of |-> "undefined", is |-> <<>>]
NotRead == [of |-> "not read", is |-> <<>>]

Handle(handler, x, t) ==
  CASE grammar.start = "regex" -> Re!Handle(handler, x, t)
    [] grammar.start = "grammar" -> File!Handle(handler, x, t)
    [] OTHER -> La!Handle(handler, x, t)

RECURSIVE ValueOf(_)
ValueOf(m) ==
  LET p == productions[m.prod]
      terms == [i \in DOMAIN m.terms |-> ValueOf(m.terms[i])]
      taken == [j \in DOMAIN p.nodes |-> terms[p.nodes[j]]]
      tokens == [j \in DOMAIN p.tokens |-> terms[p.tokens[j]]]
  IN  IF m.prod = 0 THEN Lexeme(m.tags)
      ELSE IF \/ \E i \in DOMAIN terms : terms[i] = Undefined
              \/ \E j \in DOMAIN taken : taken[j].of = "terminal"
      THEN Undefined
      ELSE Value(Handle(p.handler, [j \in DOMAIN taken |-> taken[j].is],
                                   [j \in DOMAIN tokens |-> tokens[j].is]))

\* The calls that the handlers in a match have made.
RECURSIVE CallsIn(_)
CallsIn(m) ==
  IF m.prod = 0 THEN <<>>
  ELSE IF productions[m.prod].handler \in File!Calling THEN ValueOf(m).is
  ELSE Re!FlattenSeq([i \in DOMAIN m.terms |-> CallsIn(m.terms[i])])

\* Reading a grammar file ends with the calls made for what is on the stack.
Outcome ==
  IF grammar.start = "grammar"
  THEN LET read == Append(parse_stack_matches, result)
       IN  Value(File!FromFile(Re!FlattenSeq([i \in DOMAIN read |-> CallsIn(read[i])])))
  ELSE IF status = "accepted" THEN ValueOf(result)
  ELSE NotRead

-----------------------------------------------------------------------------
(* How a regex is written, with no more parentheses than it needs.          *)

Char(c) == <<Re!Token[c]>>
Sign(tag) == Char(Re!Sign[tag])
Escaped(c) == Sign("ESCAPE") \o Char(c)

Special ==
  {Re!Sign[tag] : tag \in {"STAR", "PLUS", "QUESTION", "OR", "ESCAPE", "DOT", "LPAREN", "RPAREN",
                           "LBRACE", "RBRACE", "LBRACKET", "RBRACKET"}}

\* \n, \t, an escape, or the character; one out of the alphabet in hexadecimal.
CharText(c, special) ==
  LET digit(d) == Char(IF d < 10 THEN 48 + d ELSE 97 + (d - 10))
  IN  IF c = 10 THEN Escaped(Re!Sign.N)
      ELSE IF c = 9 THEN Escaped(Re!Sign.T)
      ELSE IF c \in special THEN Escaped(c)
      ELSE IF c \in Alphabet THEN Char(c)
      ELSE Escaped(Re!Sign.X) \o digit(c \div 16) \o digit(c % 16)

GroupText(g) ==
  LET code(c) == CharText(c, {Re!Sign.ESCAPE, Re!Sign.LBRACKET, Re!Sign.RBRACKET})
      range(r) == IF r[1] = r[2] THEN code(r[1]) ELSE code(r[1]) \o Sign("DASH") \o code(r[2])
  IN  IF g.span = <<<<0, UNICODE_MAX>>>> THEN Sign("DOT")
      ELSE Sign("LBRACKET") \o (IF g.negate THEN Sign("HAT") ELSE <<>>) \o
           Re!FlattenSeq([i \in DOMAIN g.span |-> range(g.span[i])]) \o Sign("RBRACKET")

RECURSIVE NumberText(_)
NumberText(n) == (IF n < 10 THEN <<>> ELSE NumberText(n \div 10)) \o Char(48 + (n % 10))

\* {n} is the same as {0,n}.
BoundsText(min, max) ==
  CASE <<min, max>> = <<0, 0>> -> Sign("STAR")
    [] <<min, max>> = <<1, 0>> -> Sign("PLUS")
    [] <<min, max>> = <<0, 1>> -> Sign("QUESTION")
    [] min = 0 /\ max > 1 -> Sign("LBRACE") \o NumberText(max) \o Sign("RBRACE")
    [] OTHER -> Sign("LBRACE") \o NumberText(min) \o Sign("COMMA") \o NumberText(max) \o Sign("RBRACE")

Binding(x) ==
  CASE x.kind = "or" -> 0 [] x.kind = "chain" -> 1 [] x.kind = "multiplication" -> 2 [] OTHER -> 3

RECURSIVE RegexText(_, _)
RegexText(x, least) ==
  LET text ==
        CASE x.kind = "or" -> RegexText(x.left, 1) \o Sign("OR") \o RegexText(x.right, 0)
          [] x.kind = "chain" -> RegexText(x.sequence[1], 2) \o RegexText(x.sequence[2], 1)
          [] x.kind = "multiplication" -> RegexText(x.node, 3) \o BoundsText(x.min, x.max)
          [] x.kind = "literal" -> CharText(x.ch, Special)
          [] x.kind = "group" -> GroupText(x.group)
  IN  IF Binding(x) < least THEN Sign("LPAREN") \o text \o Sign("RPAREN") ELSE text

-----------------------------------------------------------------------------
(* How a program is written.  The productions of unary and of binary        *)
(* operations have no terminal and so no precedence: whatever the operators *)
(* (`op' is one that computes and one that compares), all that follows      *)
(* belongs to the operand on the right, and the one on the left is in       *)
(* parentheses unless it is closed.                                         *)

Word(tag) == <<La!Token(tag)>>
Listed(texts) ==
  Re!FlattenSeq([i \in DOMAIN texts |-> IF i = 1 THEN texts[i] ELSE Word("COMMA") \o texts[i]])

RECURSIVE TypeText(_)
TypeText(t) ==
  CASE t.kind = "basic" -> t.name
    [] t.kind = "pointer" -> TypeText(t.base) \o Word("STAR")
    [] t.kind = "array" -> TypeText(t.base) \o Word("LBRACKET") \o Word("RBRACKET")

DeclText(d) == <<d.name>> \o Word("COLON") \o TypeText(d.decl_type)

Closed(x) == x.kind \in {"rident", "int", "double", "call"}
Blocks == {"if", "while", "block", "function", "class"}

RECURSIVE Text(_, _)
Text(x, op) ==
  LET part(i) == IF i.index = NONE THEN Word("DOT") \o <<i.name>>
                 ELSE Word("LBRACKET") \o Text(i.index, op) \o Word("RBRACKET")
      line(y) == IF y.kind \in Blocks THEN Text(y, op) ELSE Text(y, op) \o Word("SEMICOLON")
      lines(b) == Re!FlattenSeq([i \in DOMAIN b.lines |-> line(b.lines[i])])
      braced(text) == Word("LBRACE") \o text \o Word("RBRACE")
      inner(text) == Word("LPAREN") \o text \o Word("RPAREN")
  IN  CASE x.kind = "lident" ->
             <<x.parts[1].name>> \o Re!FlattenSeq([i \in 1 .. Len(x.parts) - 1 |-> part(x.parts[i + 1])])
        [] x.kind = "rident" -> Text(x.ident, op)
        [] x.kind = "decl" -> Word("VAR") \o DeclText(x)
        [] x.kind = "assignment" -> Text(x.left, op) \o Word("EQUALS") \o Text(x.right, op)
        [] x.kind = "unop" -> Word("MINUS") \o Text(x.expr, op)
        [] x.kind = "binop" ->
             (IF Closed(x.left) THEN Text(x.left, op) ELSE inner(Text(x.left, op)))
               \o Word(op[x.compares]) \o Text(x.right, op)
        [] x.kind = "int" -> Word("INT")
        [] x.kind = "double" -> Word("FLOAT")
        [] x.kind = "call" ->
             <<x.function>> \o inner(Listed([i \in DOMAIN x.args |-> Text(x.args[i], op)]))
        [] x.kind = "block" -> braced(lines(x))
        [] x.kind = "if" ->
             Word("IF") \o Text(x.predicate, op) \o Text(x.block_if, op)
               \o (IF x.block_else = NONE THEN <<>> ELSE Word("ELSE") \o Text(x.block_else, op))
        [] x.kind = "while" -> Word("WHILE") \o Text(x.predicate, op) \o Text(x.block, op)
        [] x.kind = "prototype" ->
             Word("DEF") \o <<x.name>> \o inner(Listed([i \in DOMAIN x.args |-> DeclText(x.args[i])]))
               \o Word("ARROW") \o TypeText(x.return_type)
        [] x.kind = "function" -> Text(x.proto, op) \o Text(x.body, op)
        [] x.kind = "return" -> Word("RETURN") \o (IF x.val = NONE THEN <<>> ELSE Text(x.val, op))
        [] x.kind = "class" ->
             Word("CLASS") \o <<x.name>> \o
               braced(Re!FlattenSeq([i \in DOMAIN x.fields |-> DeclText(x.fields[i]) \o Word("SEMICOLON")]))

\* A whole program: the lines of its block, without the braces.
ProgramText(x, op) == LET text == Text(x, op) IN SubSeq(text, 2, Len(text) - 1)

-----------------------------------------------------------------------------
(* How a grammar file is written: a line for each call, rules over several. *)

Sym(tag) == <<File!Token(tag)>>
SymbolsText(symbols) == IF symbols = <<>> THEN Sym("EPSILON") ELSE symbols

\* An alternative of a rule on a line of its own, or all on one.
RuleText(name, alternatives, sep) ==
  <<name>> \o sep \o Sym("COLON") \o
    Re!FlattenSeq([i \in DOMAIN alternatives |->
      (IF i = 1 THEN <<>> ELSE sep \o Sym("BAR")) \o SymbolsText(alternatives[i])]) \o
    sep \o Sym("SEMICOLON")

CallText(c) ==
  CASE c.call = "start" -> Sym("PERCENT") \o Sym("START") \o Sym("COLON") \o c.args
    [] c.call = "add_skip" -> Sym("PERCENT") \o Sym("SKIP") \o Sym("COLON") \o c.args
    [] c.call = "add_token" -> <<c.args[1]>> \o Sym("COLON") \o <<c.args[2]>>
    [] c.call = "add_production" -> RuleText(c.args[1], <<c.args[2]>>, <<>>)

FileText(lines) == Re!FlattenSeq([i \in DOMAIN lines |-> lines[i] \o Sym("NL")])

-----------------------------------------------------------------------------
\* What parse() and the handlers make of a text is the tree that the text
\* was written from, for regexes (regex_engine.cpp) and for programs
\* (lang.cpp); a text that is not one is refused.  What is undefined is what
\* the handlers of lang.cpp:403 and :572 are asked for.  A grammar file
\* (generator.cpp) gives the calls for its lines, in their order, and one
\* that is broken off by an error those for the lines before it.
ReadsBack ==
  status \notin {"idle", "running"} =>
    \E c \in Expected[grammar.start] : c.text = input /\ c.outcome = Outcome

\* The precedence classes leave no conflict in the grammar of the language:
\* the assertion at the end of Lang::generate (lang.cpp:665).
ConflictFree == phase = "ready" /\ grammar.start # "regex" => conflicts = {}

-----------------------------------------------------------------------------
(* Texts: trees written down, and texts from the comments and tests of the  *)
(* code.  Of the characters with the same tags the alphabet has one.        *)

MCAlphabet ==   \* the signs of the operators and escapes, 2, a and z
  {40, 41, 42, 43, 44, 45, 46, 50, 63, 91, 92, 93, 94, 97, 110, 116, 117, 120, 122, 123, 124, 125}

Case(text, outcome) == [text |-> text, outcome |-> outcome]

-----------------------------------------------------------------------------
(* Regexes                                                                  *)

Star(x) == Re!Multiplication(x, 0, 0)
Class(negate, span) == Re!Group([negate |-> negate, span |-> span])
At(c) == <<c, c>>

a == Re!Literal(97)
z == Re!Literal(122)

\* A character, a newline, an operator, one in hexadecimal.
Atoms ==
  {a, Re!Literal(10), Re!Literal(42), Re!Literal(34), Re!Span(0, UNICODE_MAX),
   Class(FALSE, <<At(97)>>), Class(TRUE, <<At(45), <<50, 122>>>>),
   Class(FALSE, <<<<50, 97>>, At(9), At(93), At(122)>>)}
Closures == {Re!Multiplication(a, b[1], b[2]) : b \in {<<0, 0>>, <<1, 0>>, <<0, 1>>, <<0, 2>>, <<2, 22>>}}
Small == {a, Star(z), Re!Or(a, z), Re!Chain(<<a, z>>)}
Regexes ==
  Atoms \cup Closures \cup {Star(x) : x \in Small}
  \cup UNION {{Re!Or(x, y), Re!Chain(<<x, y>>)} : x, y \in Small}

T(c) == Char(c)
Dash == Sign("DASH")
Written(text) == Re!FlattenSeq([i \in DOMAIN text |-> Char(text[i])])
Bracketed(w) == Sign("LBRACKET") \o w \o Sign("RBRACKET")

\* A range the wrong way round; [-2-a-zz---] after main.cpp; signs where no
\* operator can stand; a code point of eight digits.
OddRegexes ==
  {Case(Bracketed(T(122) \o Dash \o T(97)), Value(Class(FALSE, <<<<97, 122>>>>))),
   Case(Bracketed(T(97) \o Dash \o T(122) \o Dash \o T(50)), Value(Class(FALSE, <<<<50, 122>>>>))),
   Case(Bracketed(Dash \o T(50) \o Dash \o T(97) \o Dash \o T(122) \o T(122) \o Dash \o Dash \o Dash),
        Value(Class(FALSE, <<At(45), <<50, 122>>, <<45, 122>>, At(45)>>))),
   Case(T(97) \o T(42) \o T(42), Value(Re!Chain(<<Star(a), Re!Literal(42)>>))),
   Case(T(97) \o T(124) \o T(124), Value(Re!Or(a, Re!Literal(124)))),
   Case(T(42) \o T(97), Value(Re!Chain(<<Re!Literal(42), a>>))),
   Case(Escaped(117) \o Written([i \in 1 .. 8 |-> 50]), Value(Re!Literal(572662306))),
   Case(T(97) \o T(41), NotRead), Case(T(40) \o T(97), NotRead), Case(T(97) \o T(123), NotRead),
   Case(Escaped(122), NotRead), Case(Bracketed(<<>>), NotRead), Case(<<>>, NotRead)}

-----------------------------------------------------------------------------
(* Programs                                                                 *)

x == <<"IDENTIFIER">>
kw == <<"IF", "IDENTIFIER">>
Ty == La!Basic(<<"TYPE">>)
X == La!RIdent(La!LIdent(x))
N == La!IntLiteral
IntDecl == La!Decl(x, Ty)
Minus(l, r) == La!BinOp(l, r, FALSE)
Less(l, r) == La!BinOp(l, r, TRUE)

Operands == {X, N, La!UnOp(X), Minus(X, N), Less(N, X), La!Assignment(La!LIdent(x), N)}
Expressions ==
  {Minus(l, r) : l, r \in Operands} \cup {Less(l, X) : l \in Operands} \cup {La!UnOp(r) : r \in Operands}
  \cup {La!Call(x, <<>>), La!Call(x, <<Less(X, N), La!DoubleLiteral>>), Minus(X, La!Call(kw, <<N>>)),
        La!RIdent(La!Dot(La!At(La!LIdent(x), Minus(X, N)), kw)),
        La!Assignment(La!Dot(La!LIdent(x), x), Less(X, N)),
        La!Assignment(La!Decl(kw, La!PointerTo(La!ArrayOf(Ty))), Minus(X, X))}

Body(line) == La!Block(<<line, La!Return(X)>>)
Proto(args) == La!Prototype(x, La!ArrayOf(Ty), args)
Lines ==
  {IntDecl, La!Return(NONE), La!Return(N), Proto(<<>>), Proto(<<IntDecl>>),
   La!Function(Proto(<<IntDecl>>), Body(N)), La!ClassDef(<<"TYPE">>, <<>>),
   La!ClassDef(<<"TYPE">>, <<IntDecl, La!Decl(kw, Ty)>>),
   La!If(X, Body(N)), La!IfElse(Less(X, N), Body(N), La!Block(<<>>)),
   La!IfElse(X, La!Block(<<>>), Body(La!While(X, La!Block(<<>>)))), La!While(La!Call(x, <<X>>), Body(X)),
   Body(Body(N))}

\* Operators of two classes.
Op == [compares \in BOOLEAN |-> IF compares THEN "LANGLE" ELSE "STAR"]

Programs ==
  {La!Block(<<>>), La!Block(<<La!While(X, Body(N)), La!If(X, Body(N)), N, X>>)}
  \cup {La!Block(<<l>>) : l \in Expressions \cup Lines}

\* A second parameter, `else if', and texts that are no programs.
If == Text(La!If(X, La!Block(<<>>)), Op)
OddPrograms ==
  {Case(ProgramText(La!Block(<<Proto(<<IntDecl, IntDecl>>)>>), Op), Undefined),
   Case(ProgramText(La!Block(<<La!Function(Proto(<<IntDecl, IntDecl>>), Body(N))>>), Op), Undefined),
   Case(If \o Word("ELSE") \o If, Undefined),
   Case(ProgramText(La!Block(<<La!Call(kw, <<N>>)>>), Op), NotRead), Case(Text(N, Op), NotRead), Case(Text(X, Op) \o Text(X, Op), NotRead),
   Case(Word("LBRACE"), NotRead)}

-----------------------------------------------------------------------------
(* Grammar files: every order of a start line and two others of each kind,  *)
(* a rule of several alternatives, and errors on any of the lines.          *)

nt == <<"NONTERMINAL">>
sk == <<"SKIP", "NONTERMINAL">>
tok == <<"TOKEN">>

Calls ==
  {File!SetStart(nt), File!SetStart(sk), File!AddSkip(tok), File!AddToken(tok, <<"REGEX">>),
   File!AddProduction(nt, <<>>), File!AddProduction(sk, <<sk, tok, nt>>)}

Alternatives == <<<<nt, tok>>, <<>>, <<sk>>>>
RuleCalls == [i \in DOMAIN Alternatives |-> File!AddProduction(nt, Alternatives[i])]

\* The lines of some calls, and behind them an error: a rule that does not end, a second
\* regex, a token no rule has.
Errors == {<<>>, RuleText(nt, <<<<tok>>>>, <<>>) \o <<tok>>, Sym("PERCENT") \o <<tok>>, <<<<BAD>>>>}
Files ==
  {Case(FileText([i \in DOMAIN cs |-> CallText(cs[i])]) \o error \o FileText(<<CallText(File!AddSkip(tok))>>),
        Value(File!FromFile(IF error = <<>> THEN Append(cs, File!AddSkip(tok)) ELSE cs))) :
     cs \in {<<>>} \cup {<<c>> : c \in Calls} \cup {<<c, d>> : c, d \in Calls}, error \in Errors}
  \cup {Case(FileText(<<<<>>, CallText(File!SetStart(nt)), RuleText(nt, Alternatives, sep), <<>>>>),
             Value(File!FromFile(<<File!SetStart(nt)>> \o RuleCalls))) : sep \in {<<>>, Sym("NL")}}

-----------------------------------------------------------------------------
MCExpected ==
  [start \in {"regex", "code", "grammar"} |->
     CASE start = "regex" -> {Case(RegexText(r, 0), Value(r)) : r \in Regexes} \cup OddRegexes
       [] start = "code" -> {Case(ProgramText(p, Op), Value(p)) : p \in Programs} \cup OddPrograms
       [] start = "grammar" -> Files]

Tested(g) == g @@ [inputs |-> {c.text : c \in MCExpected[g.start]}]

\* The expressions of the language by themselves.
Expression == [La!Language EXCEPT !.start = "expression"] @@ [inputs |-> {}]

MCGrammars == {Tested(Re!Engine), Tested(La!Language), Tested(File!Grammar), Expression}
MCClassNames == {La!Script[i][1] : i \in {i \in DOMAIN La!Script : Len(La!Script[i]) = 3}}
=============================================================================
