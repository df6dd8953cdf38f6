------------------------------ MODULE FrontEnd ------------------------------
(***************************************************************************)
(* What main does with a program that has been parsed: the lines become    *)
(* the body of a function main, and CodeGen::process has it visited by a   *)
(* type checker, then by the generator itself, which reads the types the   *)
(* first visit noted in the tree but has scopes of its own.                *)
(***************************************************************************)
EXTENDS CodeGen

CONSTANT Programs   \* the sequences of lines a program may be

VARIABLES program, generator, phase

vars == <<program, generator, phase>>

Main(lines) == Function(Prototype("main", Basic("Int"), <<>>), Block(lines))

Init ==
  /\ program \in {Main(lines) : lines \in Programs}
  /\ generator = Generator(Manager)
  /\ phase = "check"

\* What is wrong with the types does not keep the program from being generated.
TypeCheck ==
  /\ phase = "check"
  /\ \E checker \in Checkers(generator.manager) :
       LET checked == Check(checker, program)
       IN  /\ program' = checked.node
           /\ generator' = [generator EXCEPT !.manager = checked.s.manager,
                                             !.failure = checked.s.failure]
  /\ phase' = "generate"

Generate ==
  /\ phase = "generate"
  /\ generator.failure = NULL
  /\ generator' = Gen(generator, program)
  /\ phase' = "done"
  /\ UNCHANGED program

Next == TypeCheck \/ Generate

Spec == Init /\ [][Next]_vars

-----------------------------------------------------------------------------
(* What holds of the two visits to a program, and of which programs.        *)

Failures ==
  {"null pointer", "undefined", "no such constant", "out of range", "no array", "no struct",
   "no field", "field twice", "declared twice", "type registered twice"}

\* The builder is left where process found it, nowhere, and the scopes are closed again;
\* the pointer and array types a type knows are registered under its name with "*" or "[]".
TypeOK ==
  /\ phase \in {"check", "generate", "done"}
  /\ generator.failure \in Failures \cup {NULL}
  /\ generator.failure = NULL =>
       /\ generator.at = NULL
       /\ generator.frames = <<>>
       /\ {Append(t, "*") : t \in generator.manager.pointers} \subseteq generator.manager.types
       /\ {Append(t, "[]") : t \in generator.manager.arrays} \subseteq generator.manager.types

-----------------------------------------------------------------------------

Children(v) ==
  CASE v.kind = "function" -> <<v.proto, v.body>>
    [] v.kind = "prototype" -> v.args
    [] v.kind = "block" -> v.lines
    [] v.kind = "if" -> <<v.predicate, v.block_if, v.block_else>>
    [] v.kind = "while" -> <<v.predicate, v.block>>
    [] v.kind \in {"assignment", "binop"} -> <<v.left, v.right>>
    [] v.kind = "unop" -> <<v.expr>>
    [] v.kind = "rident" -> <<v.ident>>
    [] v.kind = "return" -> <<v.val>>
    [] v.kind = "call" -> v.args
    [] OTHER -> <<>>

RECURSIVE Nodes(_)

\* The nodes of a tree, in order.
Nodes(v) ==
  IF v = NULL THEN <<>>
  ELSE <<v>> \o FoldLeft(LAMBDA acc, c : acc \o Nodes(c), <<>>, Children(v))

NodesOf(v, kind) == SelectSeq(Nodes(v), LAMBDA n : n.kind = kind)

All(kind) == ToSet(NodesOf(program, kind))

DeclaredIn(v) == {d.name : d \in ToSet(NodesOf(v, "decl"))}

Repeated(kind) ==
  LET vs == NodesOf(program, kind)
  IN  {v.name : v \in {vs[i] : i \in {j \in DOMAIN vs :
                         \E k \in DOMAIN vs : k # j /\ vs[k].name = vs[j].name}}}

\* Names the visitors do not agree on: parameters, which the checker declares around the
\* function; a declaration in the predicate of an if with an else, which the generator
\* keeps for both branches; functions, of which the module finds but one of a name.
Disputed ==
  UNION {DeclaredIn(p) : p \in All("prototype")}
    \cup UNION {DeclaredIn(i.predicate) : i \in {j \in All("if") : j.block_else # NULL}}
    \cup Repeated("prototype")

\* Checker and generator open and close their scopes each in its own way, and find a name
\* in them each by itself.  All the same, a name that is not disputed stands for the
\* declaration the checker took its type from (codegen.cpp named_value and get_function,
\* type_checker.cpp named_value_type and find_function).
NamesAgree ==
  \A r \in generator.resolved :
    r.name \in Disputed \/ r.checker \in {0, r.generator}

-----------------------------------------------------------------------------

RECURSIVE Returns(_)

\* No way leads to the end of v.
Returns(v) ==
  CASE v.kind = "return" -> TRUE
    [] v.kind = "block" -> v.lines # <<>> /\ Returns(Last(v.lines))
    [] v.kind = "if" -> v.block_else # NULL /\ Returns(v.block_if) /\ Returns(v.block_else)
    [] OTHER -> FALSE

\* Nothing follows what returns, and what must return a value does.
Returning ==
  /\ \A b \in All("block") : \A i \in 1 .. Len(b.lines) - 1 : ~ Returns(b.lines[i])
  /\ \A f \in All("function") : f.proto.return_type.name = VoidType \/ Returns(f.body)

\* Of a program that returns as it must, every block that is part of a function ends, once
\* and at its end, and goes on to blocks of the same function; no code is left in a block
\* that is not.  CodeGen asks getTerminator() at the end of every branch, loop and function
\* and places the block after an if only when it is gone to (codegen.cpp:229-335).
BlocksClosed ==
  /\ TypeOK
  /\ phase = "done" /\ generator.failure = NULL /\ Returning =>
       \A i \in DOMAIN generator.blocks :
         LET block == generator.blocks[i]
             code == block.code
         IN  /\ block.placed <=> code # <<>>
             /\ \A k \in DOMAIN code :
                  /\ code[k].ends <=> k = Len(code)
                  /\ \A j \in code[k].to :
                       /\ generator.blocks[j].placed
                       /\ generator.blocks[j].function = block.function

\* However often a program asks for pointers and arrays of a type, register_type finds a
\* name taken only if the program has a class twice or calls one like a primitive type.
OneTypePerName ==
  generator.failure = "type registered twice" =>
    Repeated("class") # {} \/ \E c \in All("class") : c.name \in Primitives
=============================================================================
