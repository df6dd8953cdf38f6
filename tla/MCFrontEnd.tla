----------------------------- MODULE MCFrontEnd -----------------------------
(* Programs of up to Longest lines, each of which brings in one thing the     *)
(* visitors treat in a way of its own.                                        *)
EXTENDS FrontEnd

CONSTANT Longest

IntType == Basic("Int")
DoubleType == Basic("Double")
NoType == Basic("Void")
X == LIdent("x")
RX == RIdent(X)
Var(t) == Decl("x", t)
Set(e) == Assignment(X, e)
Less(e) == BinOp(e, IntLiteral, TRUE)
Plus(e) == BinOp(e, IntLiteral, FALSE)
Give == Return(RX)
Stop == Block(<<Return(IntLiteral)>>)

ProgramLines ==
  {Var(IntType), Assignment(Var(DoubleType), IntLiteral), Set(DoubleLiteral), Set(Plus(RX)),
   UnOp(Plus(IntLiteral)), RIdent(At(X, RX)), Give,
   Block(<<Var(DoubleType), Set(IntLiteral)>>),
   If(Less(RX), Stop), IfElse(Less(RX), Stop, Stop),
   IfElse(Less(Assignment(Var(DoubleType), IntLiteral)), Stop, Block(<<Set(Plus(RX))>>)),
   While(Less(RX), Block(<<Set(Plus(RX))>>)),
   While(Less(RX), Block(<<IfElse(Less(RX), Stop, Block(<<>>))>>)),
   Prototype("f", IntType, <<>>),
   Function(Prototype("f", NoType, <<Var(IntType)>>), Block(<<If(Less(RX), Block(<<Return(NULL)>>))>>)),
   Function(Prototype("f", IntType, <<Decl("y", IntType)>>),
            Block(<<Var(IntType), IfElse(Less(RX), Block(<<Give>>), Block(<<Return(RIdent(LIdent("y")))>>))>>)),
   Call("f", <<>>), Set(Call("f", <<RX>>)),
   ClassDef("Int", <<>>), ClassDef("C", <<Decl("a", Basic("C"))>>),
   ClassDef("C", <<Decl("a", IntType), Decl("a", IntType)>>),
   ClassDef("C", <<Decl("a", IntType), Decl("b", PointerTo(Basic("C")))>>),
   Block(<<Decl("c", Basic("C")), Assignment(Dot(LIdent("c"), "a"), IntLiteral)>>),
   Block(<<Decl("c", Basic("C")), Assignment(Dot(LIdent("c"), "d"), IntLiteral)>>),
   Decl("p", PointerTo(IntType)), Block(<<Decl("p", PointerTo(IntType))>>),
   Block(<<Decl("q", ArrayOf(IntType)), Set(RIdent(At(LIdent("q"), RX)))>>)}

MCPrograms == UNION {[1 .. n -> ProgramLines] : n \in 0 .. Longest}
=============================================================================
