-------------------------------- MODULE Lang --------------------------------
(***************************************************************************)
(* Lang: the grammar of the language, given to the Parser with precedence  *)
(* classes for its operators, and the handlers that make the syntax tree   *)
(* main hands to CodeGen, with the trees, that the visitors of the type    *)
(* checker and of the code generator walk over.                            *)
(*                                                                         *)
(* A token is the sequence of its tags; keywords are identifiers too.  A   *)
(* production notes which of its symbols the handler takes with            *)
(* nonterminal(), and which with terminal().                               *)
(***************************************************************************)
EXTENDS SequencesExt, Integers

CONSTANT NULL

-----------------------------------------------------------------------------
(* Syntax trees (lang.h).  `type' is what the type checker notes in a node   *)
(* and code generation reads there.  `decl' is not in the code: it tells     *)
(* declarations apart, so that one can ask which of them a name stands for;  *)
(* the name of a node no visitor came to stands for 0.                       *)

\* The name of an array type ends as a pointer type's does.
Basic(s) == [kind |-> "basic", name |-> <<s>>]
PointerTo(t) == [kind |-> "pointer", name |-> Append(t.name, "*"), base |-> t]
ArrayOf(t) == [kind |-> "array", name |-> Append(t.name, "*"), base |-> t]

Named(s) == [name |-> s, index |-> NULL]
Indexed(e) == [name |-> "", index |-> e]

LIdent(s) == [kind |-> "lident", parts |-> <<Named(s)>>, type |-> NULL, decl |-> 0]
Dot(i, s) == [i EXCEPT !.parts = Append(@, Named(s))]
At(i, e) == [i EXCEPT !.parts = Append(@, Indexed(e))]

RIdent(i) == [kind |-> "rident", ident |-> i]
Decl(s, t) == [kind |-> "decl", name |-> s, decl_type |-> t, type |-> NULL, decl |-> NULL]
Assignment(l, e) == [kind |-> "assignment", left |-> l, right |-> e, type |-> NULL]
UnOp(e) == [kind |-> "unop", expr |-> e, type |-> NULL]
BinOp(l, r, compares) ==
  [kind |-> "binop", left |-> l, right |-> r, compares |-> compares, type |-> NULL]
IntLiteral == [kind |-> "int", type |-> NULL]
DoubleLiteral == [kind |-> "double", type |-> NULL]
Call(s, es) == [kind |-> "call", function |-> s, args |-> es, type |-> NULL, decl |-> 0]

Block(vs) == [kind |-> "block", lines |-> vs]
If(p, b) == [kind |-> "if", predicate |-> p, block_if |-> b, block_else |-> NULL]
IfElse(p, b, c) == [kind |-> "if", predicate |-> p, block_if |-> b, block_else |-> c]
While(p, b) == [kind |-> "while", predicate |-> p, block |-> b]
Prototype(s, t, ds) ==
  [kind |-> "prototype", name |-> s, return_type |-> t, args |-> ds, decl |-> NULL]
Function(p, b) == [kind |-> "function", proto |-> p, body |-> b]
Return(e) == [kind |-> "return", val |-> e]
ClassDef(s, ds) == [kind |-> "class", name |-> s, fields |-> ds]

-----------------------------------------------------------------------------
(* The parts of the grammar                                                  *)

Production(target, symbols, nodes, tokens, handler) ==
  [target |-> target, symbols |-> symbols, nodes |-> nodes, tokens |-> tokens, handler |-> handler]

\* A production whose value is that of its one symbol, for each of some.
Passes(target, symbols) ==
  [i \in DOMAIN symbols |-> Production(target, <<symbols[i]>>, <<1>>, <<>>, "value")]

\* The operators: what is made of them is told apart by `handler'.
Operators(target, tags, handler) ==
  [i \in DOMAIN tags |-> Production(target, <<tags[i]>>, <<>>, <<>>, handler)]

-----------------------------------------------------------------------------
(* Tokens                                                                   *)

Words == <<"VAR", "LET", "DEF", "IF", "ELSE", "WHILE", "BREAK", "RETURN", "CLASS">>
Signs ==
  <<"EQUALS", "NOT", "LPAREN", "RPAREN", "LBRACE", "RBRACE", "LANGLE", "RANGLE", "LBRACKET",
    "RBRACKET", "DOT", "SEMICOLON", "COLON", "COMMA", "PLUS", "MINUS", "STAR", "SLASH", "ARROW",
    "EQ", "NE", "LE", "GE">>
Tags == <<"FLOAT", "INT", "HEX">> \o Words \o <<"IDENTIFIER", "TYPE">> \o Signs

\* The token whose first tag is given.
Token(tag) == IF Contains(Words, tag) THEN <<tag, "IDENTIFIER">> ELSE <<tag>>

-----------------------------------------------------------------------------
(* Productions, in the order they are added                                 *)

Lines ==
  Passes("code", <<"lines">>) \o
  <<Production("lines", <<"lines", "line_entry">>, <<1, 2>>, <<>>, "line"),
    Production("lines", <<>>, <<>>, <<>>, "nothing"),
    Production("line_entry", <<"statement", "SEMICOLON">>, <<1>>, <<>>, "value")>> \o
  Passes("line_entry", <<"block">>) \o
  Passes("statement", <<"expression_void", "expression">>) \o
  Passes("block", <<"if_block", "while_block", "plain_block", "function_def", "class_def">>) \o
  Passes("expression_void", <<"var_declaration", "function_proto", "function_return">>)

Declarations ==
  <<Production("var_declaration", <<"VAR", "declaration">>, <<2>>, <<>>, "value"),
    Production("declaration", <<"IDENTIFIER", "COLON", "type">>, <<3>>, <<1>>, "declaration"),
    Production("type", <<"TYPE">>, <<>>, <<1>>, "basic"),
    Production("type", <<"type", "STAR">>, <<1>>, <<>>, "pointer"),
    Production("type", <<"type", "LBRACKET", "RBRACKET">>, <<1>>, <<>>, "array"),
    Production("function_proto",
      <<"DEF", "IDENTIFIER", "LPAREN", "decls_list", "RPAREN", "ARROW", "type">>, <<7, 4>>, <<2>>, "prototype")>>

\* The second declaration is taken from the comma (lang.cpp:403).
Lists ==
  Passes("decls_list", <<"decls_list_nonempty">>) \o
  <<Production("decls_list", <<>>, <<>>, <<>>, "none"),
    Production("decls_list_nonempty", <<"declaration">>, <<1>>, <<>>, "one"),
    Production("decls_list_nonempty", <<"decls_list_nonempty", "COMMA", "declaration">>, <<1, 2>>, <<>>, "more"),
    Production("function_return", <<"RETURN">>, <<>>, <<>>, "return"),
    Production("function_return", <<"RETURN", "expression">>, <<2>>, <<>>, "return value")>>

Expressions ==
  Passes("expression", <<"rval_identifier", "literal">>) \o
  <<Production("expression", <<"LPAREN", "expression", "RPAREN">>, <<2>>, <<>>, "value")>> \o
  Passes("expression", <<"assignment">>) \o
  <<Production("expression", <<"un_op", "expression">>, <<1, 2>>, <<>>, "unary"),
    Production("expression", <<"expression", "bin_op", "expression">>, <<1, 2, 3>>, <<>>, "binary"),
    Production("expression", <<"IDENTIFIER", "LPAREN", "args_list", "RPAREN">>, <<3>>, <<1>>, "call")>>

Places ==
  <<Production("rval_identifier", <<"lval_identifier">>, <<1>>, <<>>, "read"),
    Production("lval_identifier", <<"lval_identifier", "DOT", "IDENTIFIER">>, <<1>>, <<3>>, "dot"),
    Production("lval_identifier", <<"lval_identifier", "LBRACKET", "expression", "RBRACKET">>, <<1, 3>>, <<>>, "at"),
    Production("lval_identifier", <<"IDENTIFIER">>, <<>>, <<1>>, "name"),
    Production("assignment", <<"lval", "EQUALS", "expression">>, <<1, 3>>, <<>>, "assign")>> \o
  Passes("lval", <<"var_declaration", "lval_identifier">>)

Operations ==
  Operators("un_op", <<"MINUS", "NOT">>, "none") \o
  Operators("bin_op", <<"PLUS", "MINUS", "STAR", "SLASH">>, "computes") \o
  Operators("bin_op", <<"EQ", "NE", "LANGLE", "RANGLE", "LE", "GE">>, "compares")

Arguments ==
  Passes("args_list", <<"args_list_nonempty">>) \o
  <<Production("args_list", <<>>, <<>>, <<>>, "none"),
    Production("args_list_nonempty", <<"expression">>, <<1>>, <<>>, "one"),
    Production("args_list_nonempty", <<"args_list_nonempty", "COMMA", "expression">>, <<1, 3>>, <<>>, "more")>>

\* The branch behind `else if' is taken from the token else (lang.cpp:572).
Blocks ==
  <<Production("if_block", <<"IF", "expression", "LBRACE", "lines", "RBRACE">>, <<2, 4>>, <<>>, "if"),
    Production("if_block",
      <<"IF", "expression", "LBRACE", "lines", "RBRACE", "ELSE", "LBRACE", "lines", "RBRACE">>, <<2, 4, 8>>, <<>>,
      "if else"),
    Production("if_block",
      <<"IF", "expression", "LBRACE", "lines", "RBRACE", "ELSE", "if_block">>, <<2, 4, 6>>, <<>>, "else if"),
    Production("while_block", <<"WHILE", "expression", "LBRACE", "lines", "RBRACE">>, <<2, 4>>, <<>>, "while"),
    Production("plain_block", <<"LBRACE", "lines", "RBRACE">>, <<2>>, <<>>, "value"),
    Production("function_def", <<"function_proto", "LBRACE", "lines", "RBRACE">>, <<1, 3>>, <<>>, "function")>>

Classes ==
  <<Production("class_def", <<"CLASS", "TYPE", "LBRACE", "class_body", "RBRACE">>, <<4>>, <<2>>, "class"),
    Production("class_body", <<"class_body", "class_line", "SEMICOLON">>, <<1, 2>>, <<>>, "more"),
    Production("class_body", <<>>, <<>>, <<>>, "none")>> \o
  Passes("class_line", <<"declaration">>) \o
  Operators("literal", <<"FLOAT">>, "float") \o Operators("literal", <<"INT", "HEX">>, "int")

Productions ==
  Lines \o Declarations \o Lists \o Expressions \o Places \o Operations \o Arguments \o Blocks \o Classes

-----------------------------------------------------------------------------
(* Handlers: x are the values of the nonterminals they take, t the tokens.  *)

\* Lists, names and types.
ItemOf(handler, x, t) ==
  CASE handler = "value" -> x[1]
    [] handler = "none" -> <<>>
    [] handler = "one" -> <<x[1]>>
    [] handler = "more" -> Append(x[1], x[2])
    [] handler = "basic" -> Basic(t[1])
    [] handler = "pointer" -> PointerTo(x[1])
    [] handler = "array" -> ArrayOf(x[1])
    [] handler = "declaration" -> Decl(t[1], x[1])
    [] handler = "name" -> LIdent(t[1])
    [] handler = "dot" -> Dot(x[1], t[1])
    [] handler = "at" -> At(x[1], x[2])

ExpressionOf(handler, x, t) ==
  CASE handler = "read" -> RIdent(x[1])
    [] handler = "float" -> DoubleLiteral
    [] handler = "int" -> IntLiteral
    [] handler = "computes" -> FALSE
    [] handler = "compares" -> TRUE
    [] handler = "unary" -> UnOp(x[2])
    [] handler = "binary" -> BinOp(x[1], x[3], x[2])
    [] handler = "call" -> Call(t[1], x[1])
    [] handler = "assign" -> Assignment(x[1], x[2])

LineOf(handler, x, t) ==
  CASE handler = "nothing" -> Block(<<>>)
    [] handler = "line" -> Block(Append(x[1].lines, x[2]))
    [] handler = "prototype" -> Prototype(t[1], x[1], x[2])
    [] handler = "return" -> Return(NULL)
    [] handler = "return value" -> Return(x[1])
    [] handler = "if" -> If(x[1], x[2])
    [] handler = "if else" -> IfElse(x[1], x[2], x[3])
    [] handler = "else if" -> IfElse(x[1], x[2], Block(<<x[3]>>))
    [] handler = "while" -> While(x[1], x[2])
    [] handler = "function" -> Function(x[1], x[2])
    [] handler = "class" -> ClassDef(t[1], x[1])

Handle(handler, x, t) ==
  CASE handler \in {"value", "none", "one", "more", "basic", "pointer", "array", "declaration",
                    "name", "dot", "at"} -> ItemOf(handler, x, t)
    [] handler \in {"read", "float", "int", "computes", "compares", "unary", "binary", "call",
                    "assign"} -> ExpressionOf(handler, x, t)
    [] OTHER -> LineOf(handler, x, t)

-----------------------------------------------------------------------------
\* A set_precedence for each of some symbols.
InClass(name, tags) == [i \in DOMAIN tags |-> <<tags[i], name>>]

\* Mutant: MINUS is given no class, as un_op has it too.
ScriptWithoutMinus ==
  <<<<"assign", 10, "LEFT">>>> \o InClass("assign", <<"EQUALS">>) \o
  <<<<"binop_left_eq", 20, "LEFT">>>> \o
  InClass("binop_left_eq", <<"EQ", "NE", "LANGLE", "RANGLE", "LE", "GE">>) \o
  <<<<"binop_left_add", 30, "LEFT">>>> \o InClass("binop_left_add", <<"PLUS">>) \o
  <<<<"binop_left_mul", 40, "LEFT">>>> \o InClass("binop_left_mul", <<"STAR", "SLASH">>) \o
  <<<<"right", 50, "RIGHT">>>> \o InClass("right", <<"LPAREN", "NOT">>)

\* The calls of set_precedence_class and set_precedence.
Script ==
  <<<<"assign", 10, "LEFT">>>> \o InClass("assign", <<"EQUALS">>) \o
  <<<<"binop_left_eq", 20, "LEFT">>>> \o
  InClass("binop_left_eq", <<"EQ", "NE", "LANGLE", "RANGLE", "LE", "GE">>) \o
  <<<<"binop_left_add", 30, "LEFT">>>> \o InClass("binop_left_add", <<"PLUS", "MINUS">>) \o
  <<<<"binop_left_mul", 40, "LEFT">>>> \o InClass("binop_left_mul", <<"STAR", "SLASH">>) \o
  <<<<"right", 50, "RIGHT">>>> \o InClass("right", <<"LPAREN", "NOT">>)

Language ==
  [terminals |-> {Tags[i] : i \in DOMAIN Tags},
   nonterminals |-> {Productions[k].target : k \in DOMAIN Productions},
   productions |-> Productions, start |-> "code", rewrites |-> <<>>, types |-> {"LALR1"},
   script |-> Script, calls |-> [classes |-> {}, symbols |-> {}, productions |-> {}]]
=============================================================================
