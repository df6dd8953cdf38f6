------------------------------ MODULE CodeGen ------------------------------
(***************************************************************************)
(* The visitors of CodeGen.  Its state g has the manager, the scopes of    *)
(* variables, LLVM's functions and blocks, the block the builder is `at',  *)
(* and `ret', the value a visit leaves behind.  Of an instruction remains  *)
(* whether it ends its block and which blocks it may go on to; of a value, *)
(* its type and whether LLVM knows it to be constant.  What LLVM's builder *)
(* does is modelled as far as codegen.cpp relies on it: it dereferences    *)
(* what it is given.  The functions and instructions that statements leave *)
(* in `ret' are taken for NULL: no expression reads them.                  *)
(***************************************************************************)
EXTENDS TypeChecker

\* `resolved' is not in the code: which declaration a name stood for, here and to the checker.
Generator(manager) ==
  [manager |-> manager, failure |-> NULL, frames |-> <<>>, functions |-> <<>>,
   blocks |-> <<>>, at |-> NULL, ret |-> NULL, resolved |-> {}]

Value(t) == [type |-> t, constant |-> FALSE]
Constant(t) == [type |-> t, constant |-> TRUE]
Address(t) == Value(Append(t, "*"))

Scalar(t) == t \in {<<p>> : p \in Primitives \ {"Void"}}
Floating(t) == t \in {<<"Float">>, <<"Double">>}

Ordinary == [ends |-> FALSE, to |-> {}]
Ret == [ends |-> TRUE, to |-> {}]
Br(to) == [ends |-> TRUE, to |-> to]

BasicBlock(f, placed) == [function |-> f, placed |-> placed, code |-> <<>>]

Requires(g, x) == IF x = NULL THEN Fail(g, "null pointer") ELSE g

Emit(g, instr, value) ==
  IF g.failure # NULL THEN g
  ELSE [g EXCEPT !.blocks = [@ EXCEPT ![g.at].code = Append(@, instr)], !.ret = value]

\* GetInsertBlock()->getTerminator() != nullptr
Terminated(g) ==
  LET code == g.blocks[g.at].code IN code # <<>> /\ Last(code).ends

Place(g, b) == [g EXCEPT !.blocks = [@ EXCEPT ![b].placed = TRUE], !.at = b]

JumpIfOpen(g, b) == IF Terminated(g) THEN g ELSE Emit(g, Br({b}), NULL)

Opened(g) == [g EXCEPT !.frames = PushScope(@)]
Closed(g) == [g EXCEPT !.frames = PopScope(@)]

\* `decl' as the checker resolved the name, and as it is resolved here.
Resolve(g, name, checked, found) ==
  [g EXCEPT !.resolved = @ \cup
     {[name |-> name, checker |-> checked, generator |-> IF found = NULL THEN NULL ELSE found.decl]}]

\* get_function: a second function of a name is renamed by LLVM.
GetFunction(g, name) ==
  LET found == {i \in DOMAIN g.functions : g.functions[i].name = name}
  IN  IF found = {} THEN NULL ELSE g.functions[Min(found)]

RECURSIVE Gen(_, _)

\* The values of a sequence of expressions, as far as no visit fails.
GenAll(g, vs) ==
  LET Next(acc, v) == LET r == Gen(acc.g, v) IN [g |-> r, values |-> Append(acc.values, r.ret)]
  IN  FoldLeft(Next, [g |-> g, values |-> <<>>], vs)

GenBlock(g, v) == [Closed(GenAll(Opened(g), v.lines).g) EXCEPT !.ret = NULL]

GenPart(acc, part) ==
  LET next == PartOf(acc.g, acc.type, part)
      index == Gen(next.s, part.index)
      ready == IF part.index = NULL THEN next.s ELSE Requires(index, index.ret)
  IN  IF ready.failure # NULL THEN [acc EXCEPT !.g = ready]
      ELSE [g |-> Emit(ready, Ordinary, Address(next.type)), type |-> next.type]

GenLIdent(g, v) ==
  LET name == Head(v.parts).name
      var == Lookup(g.frames, name)
      start == [Resolve(g, name, v.decl, var) EXCEPT
                  !.ret = IF var = NULL THEN NULL ELSE Address(var.type)]
  IN  FoldLeft(GenPart, [g |-> start, type |-> IF var = NULL THEN NULL ELSE var.type],
               Tail(v.parts)).g

GenRIdent(g, v) ==
  LET ident == Gen(g, v.ident)
  IN  IF ident.ret = NULL THEN Requires(ident, NULL)
      ELSE Emit(ident, Ordinary, Value(Front(ident.ret.type)))

\* The type is looked up by the name the syntax tree has for it.
GenDecl(g, v) ==
  LET type == Get(g, v.decl_type.name)
      alloca == Emit(Requires(g, type), Ordinary, NULL)
      named == IF v.name \in DOMAIN Head(g.frames) THEN Fail(alloca, "declared twice")
               ELSE [alloca EXCEPT !.frames = Declared(@, v.name, [type |-> v.type, decl |-> v.decl])]
  IN  [named EXCEPT !.ret = IF type = NULL THEN NULL ELSE Address(type)]

\* The value of an assignment is what `ret' was left at.
GenAssignment(g, v) ==
  LET left == Gen(g, v.left)
      right == Gen(left, v.right)
  IN  Emit(Requires(Requires(right, left.ret), right.ret), Ordinary, right.ret)

GenUnOp(g, v) ==
  LET expr == Gen(g, v.expr)
  IN  IF expr.ret # NULL /\ expr.ret.constant THEN expr
      ELSE Emit(Requires(expr, expr.ret), Ordinary, expr.ret)

\* Operands that are constant are folded: no instruction is made of them.
GenBinOp(g, v) ==
  LET left == Gen(g, v.left)
      right == Gen(left, v.right)
      type == IF v.compares THEN <<"Bool">> ELSE left.ret.type
  IN  IF left.ret = NULL THEN Requires(right, NULL)
      ELSE IF ~ Scalar(left.ret.type) THEN [right EXCEPT !.ret = NULL]
      ELSE IF right.ret = NULL THEN Requires(right, NULL)
      ELSE IF left.ret.constant /\ right.ret.constant THEN [right EXCEPT !.ret = Constant(type)]
      ELSE Emit(right, Ordinary, Value(type))

\* A literal becomes a constant of the type the checker gave it, if there is one.
GenLiteral(g, v, fits) ==
  IF v.type = NULL THEN Requires(g, NULL)
  ELSE IF v.type = Indeterminate THEN Fail(g, "undefined")
  ELSE IF fits THEN [g EXCEPT !.ret = Constant(v.type)]
  ELSE Fail(g, "no such constant")

\* Mutant: the block after the branches is always placed.
GenIfAlwaysMerging(g, v) ==
  LET p == Gen(Opened(g), v.predicate)
      then == Len(p.blocks) + 1
      else == then + 1
      merge == then + 2
      new == [b \in 1 .. 3 |-> BasicBlock(p.blocks[p.at].function, b = 1)]
      split == Emit([Requires(p, p.ret) EXCEPT !.blocks = @ \o new], Br({then, else}), NULL)
      one == Gen([split EXCEPT !.at = then], v.block_if)
      two == Gen(Place(JumpIfOpen(one, merge), else), v.block_else)
      both == JumpIfOpen(two, merge)
  IN  [Closed(Place(both, merge)) EXCEPT !.ret = NULL]

\* One scope for the predicate and both branches.
GenIf(g, v) ==
  LET p == Gen(Opened(g), v.predicate)
      then == Len(p.blocks) + 1
      else == then + 1
      merge == then + 2
      new == [b \in 1 .. 3 |-> BasicBlock(p.blocks[p.at].function, b = 1)]
      split == Emit([Requires(p, p.ret) EXCEPT !.blocks = @ \o new], Br({then, else}), NULL)
      one == Gen([split EXCEPT !.at = then], v.block_if)
      two == Gen(Place(JumpIfOpen(one, merge), else), v.block_else)
      both == JumpIfOpen(two, merge)
      joined == IF Terminated(one) /\ Terminated(two) THEN both ELSE Place(both, merge)
  IN  [Closed(joined) EXCEPT !.ret = NULL]

GenWhile(g, v) ==
  LET cond == Len(g.blocks) + 1
      loop == cond + 1
      after == cond + 2
      new == [b \in 1 .. 3 |-> BasicBlock(g.blocks[g.at].function, b = 1)]
      entered == Emit([Opened(g) EXCEPT !.blocks = @ \o new], Br({cond}), NULL)
      p == Gen([entered EXCEPT !.at = cond], v.predicate)
      split == Emit(Requires(p, p.ret), Br({loop, after}), NULL)
      body == JumpIfOpen(Gen(Place(split, loop), v.block), cond)
  IN  [Closed(Place(body, after)) EXCEPT !.ret = NULL]

GenPrototype(g, v) ==
  LET type == Get(g, v.return_type.name)
      known == FoldLeft(LAMBDA h, a : Requires(h, a.type), g, v.args)
      f == [name |-> v.name, args |-> Len(v.args), return_type |-> type, decl |-> v.decl]
  IN  [Requires(known, type) EXCEPT !.functions = Append(@, f)]

\* The arguments' declarations are visited again, here in the function's own scope.
GenFunction(g, v) ==
  LET proto == Gen(Opened(g), v.proto)
      entry == [proto EXCEPT !.blocks = Append(@, BasicBlock(Len(proto.functions), TRUE)),
                             !.at = Len(proto.blocks) + 1]
      Argument(h, a) == LET d == Gen(h, a) IN Emit(d, Ordinary, d.ret)
      body == Gen(FoldLeft(Argument, entry, v.proto.args), v.body)
      ended == IF v.proto.return_type.name = VoidType /\ ~ Terminated(body)
               THEN Emit(body, Ret, NULL) ELSE body
  IN  [Closed(ended) EXCEPT !.at = g.at, !.ret = NULL]

\* CreateRet makes a plain return of a null value.
GenReturn(g, v) ==
  IF v.val = NULL THEN Emit(g, Ret, NULL) ELSE Emit(Gen(g, v.val), Ret, NULL)

GenCall(g, v) ==
  LET f == GetFunction(g, v.function)
      args == GenAll(Resolve(g, v.function, v.decl, f), v.args)
      ready == FoldLeft(Requires, args.g, args.values)
  IN  IF f = NULL THEN Requires(g, NULL)
      ELSE IF f.args # Len(v.args) THEN [g EXCEPT !.ret = NULL]
      ELSE Emit(ready, Ordinary, Value(f.return_type))

Gen(g, v) ==
  IF g.failure # NULL \/ v = NULL THEN g ELSE
  CASE v.kind = "block" -> GenBlock(g, v)
    [] v.kind = "lident" -> GenLIdent(g, v)
    [] v.kind = "rident" -> GenRIdent(g, v)
    [] v.kind = "decl" -> GenDecl(g, v)
    [] v.kind = "assignment" -> GenAssignment(g, v)
    [] v.kind = "unop" -> GenUnOp(g, v)
    [] v.kind = "binop" -> GenBinOp(g, v)
    [] v.kind = "int" -> GenLiteral(g, v, Scalar(v.type))
    [] v.kind = "double" -> GenLiteral(g, v, Floating(v.type))
    [] v.kind = "if" -> GenIf(g, v)
    [] v.kind = "while" -> GenWhile(g, v)
    [] v.kind = "prototype" -> GenPrototype(g, v)
    [] v.kind = "function" -> GenFunction(g, v)
    [] v.kind = "return" -> GenReturn(g, v)
    [] v.kind = "call" -> GenCall(g, v)
    [] v.kind = "class" -> g
=============================================================================
