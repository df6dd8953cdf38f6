---------------------------- MODULE TypeChecker ----------------------------
(***************************************************************************)
(* TypeManager and the types it holds.  A type is its name, the base name  *)
(* followed by "*" or "[]" for every pointer or array: the registry has    *)
(* one type of a name.  The operators are about a record with a manager    *)
(* and a `failure', what the program stopped at, if it did: an assertion,  *)
(* an exception or a null pointer.                                         *)
(*                                                                         *)
(* The visitors of TypeChecker.  Its state s has the manager, the scopes   *)
(* of variables (`frames') and functions (`function_frames'), and `want',  *)
(* the type a literal is to have.  A visit gives the state, what `ret' is  *)
(* set to, and the node with its types filled in.                          *)
(***************************************************************************)
EXTENDS Lang

CONSTANT Primitives   \* the primitive types in use

ASSUME PrimitivesAssumption == {"Void", "Bool", "Int", "Long", "Double"} \subseteq Primitives

\* `pointers' and `arrays': the types whose _pointer_ty or _array_ty is set.
Manager ==
  [types |-> {<<p>> : p \in Primitives}, pointers |-> {}, arrays |-> {}, fields |-> <<>>]

VoidType == <<"Void">>

\* Not a type: what a pointer to one is before it is set.
Indeterminate == <<"indeterminate">>

Fail(s, what) == IF s.failure = NULL THEN [s EXCEPT !.failure = what] ELSE s

Get(s, name) == IF name \in s.manager.types THEN name ELSE NULL

RegisterType(s, name) ==
  IF name \in s.manager.types THEN Fail(s, "type registered twice")
  ELSE [s EXCEPT !.manager.types = @ \cup {name}]

\* Mutant: the pointer type is not kept.
PointerTyAnew(s, t) == RegisterType(s, Append(t, "*"))

\* Type::pointer_ty and Type::array_ty make a type when it is first asked for.
PointerTy(s, t) ==
  IF t \in s.manager.pointers THEN s
  ELSE RegisterType([s EXCEPT !.manager.pointers = @ \cup {t}], Append(t, "*"))

ArrayTy(s, t) ==
  IF t \in s.manager.arrays THEN s
  ELSE RegisterType([s EXCEPT !.manager.arrays = @ \cup {t}], Append(t, "[]"))

IsStruct(s, t) == t \in DOMAIN s.manager.fields
IsArray(t) == t # NULL /\ Last(t) = "[]"

MakeStruct(s, t) ==
  RegisterType([s EXCEPT !.manager.fields =
                  [u \in DOMAIN @ \cup {t} |-> IF u = t THEN <<>> ELSE @[u]]], t)

\* StructType::set_fields; a field is [name, type].
SetFields(s, t, fields) ==
  LET Add(r, f) ==
        IF f.type = NULL THEN Fail(r, "null pointer")
        ELSE IF f.name \in {e.name : e \in ToSet(r.manager.fields[t])} THEN Fail(r, "field twice")
        ELSE [r EXCEPT !.manager.fields[t] = Append(@, f)]
  IN  FoldLeft(Add, s, fields)

FieldType(s, t, name) ==
  LET found == {f \in ToSet(s.manager.fields[t]) : f.name = name}
  IN  IF found = {} THEN NULL ELSE (CHOOSE f \in found : TRUE).type

\* A further part of an identifier, .name or [index], asked of something of type t.
PartOf(s, t, part) ==
  IF part.index # NULL
  THEN IF IsArray(t) THEN [s |-> s, type |-> Front(t)]
       ELSE [s |-> Fail(s, "no array"), type |-> NULL]
  ELSE IF ~ IsStruct(s, t) THEN [s |-> Fail(s, "no struct"), type |-> NULL]
  ELSE IF FieldType(s, t, part.name) = NULL THEN [s |-> Fail(s, "no field"), type |-> NULL]
  ELSE [s |-> s, type |-> FieldType(s, t, part.name)]

-----------------------------------------------------------------------------
(* Scopes: a sequence of maps from names, the innermost first.              *)

PushScope(frames) == <<<<>>>> \o frames
PopScope(frames) == Tail(frames)

Declared(frames, name, x) ==
  [frames EXCEPT ![1] = [n \in DOMAIN @ \cup {name} |-> IF n = name THEN x ELSE @[n]]]

Lookup(frames, name) ==
  LET known == SelectSeq(frames, LAMBDA f : name \in DOMAIN f)
  IN  IF known = <<>> THEN NULL ELSE Head(known)[name]

-----------------------------------------------------------------------------
(* TypeChecker                                                              *)

\* _want is not initialized: it may be null or anything.
Checkers(manager) ==
  {[manager |-> manager, failure |-> NULL, frames |-> <<<<>>>>, function_frames |-> <<<<>>>>,
    want |-> want, decls |-> 0] : want \in {NULL, Indeterminate}}

Result(s, t, v) == [s |-> s, ret |-> t, node |-> v]
Typed(s, t, v) == Result(s, t, [v EXCEPT !.type = t])

Push(s) ==
  [s EXCEPT !.frames = PushScope(@), !.function_frames = PushScope(@)]

Pop(s) == [s EXCEPT !.frames = PopScope(@), !.function_frames = PopScope(@)]

RECURSIVE Check(_, _)

CheckAll(s, vs) ==
  LET Next(acc, v) == LET c == Check(acc.s, v) IN [s |-> c.s, nodes |-> Append(acc.nodes, c.node)]
  IN  FoldLeft(Next, [s |-> s, nodes |-> <<>>], vs)

CheckPointer(s, v) ==
  LET base == Check(s, v.base)
  IN  IF base.ret = NULL THEN Result(Fail(base.s, "null pointer"), NULL, v)
      ELSE Result(PointerTy(base.s, base.ret), Append(base.ret, "*"), v)

CheckArray(s, v) ==
  LET base == Check(s, v.base)
  IN  IF base.ret = NULL THEN Result(Fail(base.s, "null pointer"), NULL, v)
      ELSE Result(ArrayTy(base.s, base.ret), Append(base.ret, "[]"), v)

\* Mutant: a block has no scope of its own.
CheckBlockUnscoped(s, v) ==
  LET lines == CheckAll(s, v.lines)
  IN  Result(lines.s, VoidType, [v EXCEPT !.lines = lines.nodes])

CheckBlock(s, v) ==
  LET lines == CheckAll(Push(s), v.lines)
  IN  Result(Pop(lines.s), VoidType, [v EXCEPT !.lines = lines.nodes])

\* What an index is is not looked at.
CheckLIdent(s, v) ==
  LET var == Lookup(s.frames, Head(v.parts).name)
      known == [s |-> s, type |-> IF var = NULL THEN NULL ELSE var.type]
      all == FoldLeft(LAMBDA acc, p : PartOf(acc.s, acc.type, p), known, Tail(v.parts))
  IN  Typed(all.s, all.type, [v EXCEPT !.decl = IF var = NULL THEN NULL ELSE var.decl])

CheckRIdent(s, v) ==
  LET ident == Check(s, v.ident)
  IN  Result(ident.s, ident.ret, [v EXCEPT !.ident = ident.node])

\* Assignments and binary operations: the right side is wanted to be as the left is.
CheckSides(s, v) ==
  LET left == Check(s, v.left)
      right == Check([left.s EXCEPT !.want = left.ret], v.right)
  IN  Typed(right.s, IF left.ret = right.ret THEN left.ret ELSE NULL,
            [v EXCEPT !.left = left.node, !.right = right.node])

CheckDecl(s, v) ==
  LET c == Check(s, v.decl_type)
      var == [type |-> c.ret, decl |-> s.decls + 1]
  IN  Typed([c.s EXCEPT !.frames = Declared(@, v.name, var), !.decls = var.decl],
            c.ret, [v EXCEPT !.decl = var.decl])

CheckUnOp(s, v) ==
  LET c == Check(s, v.expr) IN Typed(c.s, c.ret, [v EXCEPT !.expr = c.node])

CheckLiteral(s, v, default) ==
  Typed([s EXCEPT !.want = NULL], IF s.want = NULL THEN Get(s, default) ELSE s.want, v)

CheckIf(s, v) ==
  LET predicate == Check(Push(s), v.predicate)
      then == Check(predicate.s, v.block_if)
      else == IF v.block_else = NULL THEN Result(Pop(then.s), NULL, NULL)
              ELSE LET c == Check(Push(Pop(then.s)), v.block_else)
                   IN  Result(Pop(c.s), NULL, c.node)
  IN  Result(else.s, VoidType,
             [v EXCEPT !.predicate = predicate.node, !.block_if = then.node,
                       !.block_else = else.node])

CheckWhile(s, v) ==
  LET predicate == Check(Push(s), v.predicate)
      block == Check(predicate.s, v.block)
  IN  Result(Pop(block.s), VoidType,
             [v EXCEPT !.predicate = predicate.node, !.block = block.node])

CheckPrototype(s, v) ==
  LET args == CheckAll(s, v.args)
      proto == [v EXCEPT !.args = args.nodes, !.decl = args.s.decls + 1]
  IN  Result([args.s EXCEPT !.function_frames = Declared(@, v.name, proto), !.decls = proto.decl],
             VoidType, proto)

\* The prototype is visited, its parameters declared, in the scope around the function.
CheckFunction(s, v) ==
  LET proto == Check(s, v.proto)
      body == Check(Push(proto.s), v.body)
  IN  Result(Pop(body.s), VoidType, [v EXCEPT !.proto = proto.node, !.body = body.node])

CheckReturn(s, v) ==
  LET c == Check(s, v.val)
  IN  IF v.val = NULL THEN Result(s, VoidType, v)
      ELSE Result(c.s, VoidType, [v EXCEPT !.val = c.node])

\* The arguments up to the first that has another type than its parameter.
CheckArgs(s, proto, args) ==
  LET Next(acc, i) ==
        LET param == proto.args[i].type
            c == Check([acc.s EXCEPT !.want = param], args[i])
        IN  IF ~ acc.ok THEN acc
            ELSE IF i > Len(proto.args) THEN [acc EXCEPT !.s = Fail(@, "out of range"), !.ok = FALSE]
            ELSE [s |-> c.s, args |-> [acc.args EXCEPT ![i] = c.node], ok |-> param = c.ret]
  IN  FoldLeft(Next, [s |-> s, args |-> args, ok |-> TRUE], [i \in 1 .. Len(args) |-> i])

CheckCall(s, v) ==
  LET proto == Lookup(s.function_frames, v.function)
      args == CheckArgs(s, proto, v.args)
      type == Check(args.s, proto.return_type)
      call == [v EXCEPT !.args = args.args, !.decl = proto.decl]
  IN  IF proto = NULL THEN Result(Fail(s, "null pointer"), NULL, v)
      ELSE IF args.ok THEN Typed(type.s, type.ret, call)
      ELSE Typed(args.s, NULL, call)

CheckClassDef(s, v) ==
  LET class == MakeStruct(s, <<v.name>>)
      itself == \E i \in DOMAIN v.fields : v.fields[i].decl_type.name = <<v.name>>
      Next(acc, f) ==
        LET c == Check(acc.s, f.decl_type)
        IN  IF acc.ended \/ f.decl_type.name = <<v.name>> THEN [acc EXCEPT !.ended = TRUE]
            ELSE [acc EXCEPT !.s = c.s, !.fields = Append(@, [name |-> f.name, type |-> c.ret])]
      all == FoldLeft(Next, [s |-> class, fields |-> <<>>, ended |-> FALSE], v.fields)
  IN  IF class.failure # NULL THEN Result(class, NULL, v)
      ELSE IF itself THEN Result(all.s, NULL, v)
      ELSE Result(SetFields(all.s, <<v.name>>, all.fields), VoidType, v)

Check(s, v) ==
  IF s.failure # NULL THEN Result(s, NULL, v) ELSE
  CASE v.kind = "basic" -> Result(s, Get(s, v.name), v)
    [] v.kind = "pointer" -> CheckPointer(s, v)
    [] v.kind = "array" -> CheckArray(s, v)
    [] v.kind = "block" -> CheckBlock(s, v)
    [] v.kind = "lident" -> CheckLIdent(s, v)
    [] v.kind = "rident" -> CheckRIdent(s, v)
    [] v.kind \in {"assignment", "binop"} -> CheckSides(s, v)
    [] v.kind = "decl" -> CheckDecl(s, v)
    [] v.kind = "unop" -> CheckUnOp(s, v)
    [] v.kind = "int" -> CheckLiteral(s, v, <<"Long">>)
    [] v.kind = "double" -> CheckLiteral(s, v, <<"Double">>)
    [] v.kind = "if" -> CheckIf(s, v)
    [] v.kind = "while" -> CheckWhile(s, v)
    [] v.kind = "prototype" -> CheckPrototype(s, v)
    [] v.kind = "function" -> CheckFunction(s, v)
    [] v.kind = "return" -> CheckReturn(s, v)
    [] v.kind = "call" -> CheckCall(s, v)
    [] v.kind = "class" -> CheckClassDef(s, v)
=============================================================================
