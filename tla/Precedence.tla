----------------------------- MODULE Precedence -----------------------------
(***************************************************************************)
(* The precedence classes of a Parser: set_precedence_class gives a class  *)
(* a level and an associativity (again, if the client likes), and the two  *)
(* set_precedence put a symbol or a production into a class.               *)
(*                                                                         *)
(* generate_actions asserts that a symbol and a production of equal level  *)
(* have equal associativity.  That rests on the two maps below being       *)
(* inverse to each other after any sequence of calls, refused ones         *)
(* included.                                                               *)
(***************************************************************************)
EXTENDS Naturals, Sequences, Functions

CONSTANTS
  ClassNames,  \* names of precedence classes
  Levels,      \* levels the client uses
  Assocs       \* the members of Precedence::Associativity

ASSUME PrecedenceAssumption ==
  /\ Levels \subseteq Nat
  /\ "NONE" \in Assocs

VARIABLES
  precedence_levels,      \* level -> class
  precedence_classes,     \* class -> [level, assoc]
  precedence,             \* symbol -> class
  production_precedence   \* Production::precedence, by index

precVars ==
  <<precedence_levels, precedence_classes, precedence, production_precedence>>

\* m[k] = v and m.erase(k) of a std::map.
Put(m, k, v) == [x \in DOMAIN m \cup {k} |-> IF x = k THEN v ELSE m[x]]
Erase(m, k) == Restrict(m, DOMAIN m \ {k})

PrecInit ==
  /\ precedence_levels = <<>>
  /\ precedence_classes = <<>>
  /\ precedence = <<>>
  /\ production_precedence = <<>>

\* A fault: a level may be taken twice.
RefusedNever(name, level) == FALSE

\* The level belongs to another class.
Refused(name, level) ==
  level \in DOMAIN precedence_levels /\ precedence_levels[level] # name

SetPrecedenceClass(name, level, assoc) ==
  /\ ~Refused(name, level)
  /\ precedence_classes' =
       Put(precedence_classes, name, [level |-> level, assoc |-> assoc])
  /\ precedence_levels' =
       Put(IF name \in DOMAIN precedence_classes
             THEN Erase(precedence_levels, precedence_classes[name].level)
             ELSE precedence_levels,
           level, name)
  /\ UNCHANGED <<precedence, production_precedence>>

SetPrecedence(symbol, name) ==
  /\ name \in DOMAIN precedence_classes
  /\ precedence' = Put(precedence, symbol, name)
  /\ UNCHANGED <<precedence_levels, precedence_classes, production_precedence>>

SetProductionPrecedence(k, name) ==
  /\ name \in DOMAIN precedence_classes
  /\ production_precedence' = Put(production_precedence, k, name)
  /\ UNCHANGED <<precedence_levels, precedence_classes, precedence>>

-----------------------------------------------------------------------------
(* precedence_of and the decision generate_actions takes from it.           *)

UNDEFINED == [level |-> 0, assoc |-> "NONE"]

SymbolPrecedence(symbol) ==
  IF symbol \in DOMAIN precedence
    THEN precedence_classes[precedence[symbol]] ELSE UNDEFINED

\* The production's own class, or that of its last token.
ProductionPrecedence(k, symbols, terminals) ==
  LET tokens == {i \in DOMAIN symbols : symbols[i] \in terminals}
      last == CHOOSE i \in tokens : \A j \in tokens : j <= i
  IN  IF k \in DOMAIN production_precedence
        THEN precedence_classes[production_precedence[k]]
      ELSE IF tokens # {} THEN SymbolPrecedence(symbols[last])
      ELSE UNDEFINED

\* What becomes of a shift on a symbol of precedence ps where a reduction by a
\* production of precedence pr is possible.  "conflict": shift, and record it.
Resolve(ps, pr) ==
  CASE pr.level > ps.level -> "reduce"
    [] ps.level > pr.level -> "shift"
    [] ps.level = 0 /\ pr.level = 0 -> "conflict"
    [] ps.level > 0 /\ ps.level = pr.level ->
         CASE ps.assoc = "LEFT"     -> "reduce"
           [] ps.assoc = "RIGHT"    -> "shift"
           [] ps.assoc = "NONASSOC" -> "error"
           [] OTHER                 -> "conflict"

-----------------------------------------------------------------------------
(* Properties                                                               *)

\* The types of the maps; a symbol or a production is only ever in a class that
\* exists, so that precedence_of finds it.
PrecTypeOK ==
  /\ DOMAIN precedence_levels \subseteq Levels
  /\ \A l \in DOMAIN precedence_levels : precedence_levels[l] \in ClassNames
  /\ DOMAIN precedence_classes \subseteq ClassNames
  /\ \A c \in DOMAIN precedence_classes :
       precedence_classes[c] \in [level : Levels, assoc : Assocs]
  /\ Range(precedence) \subseteq DOMAIN precedence_classes
  /\ Range(production_precedence) \subseteq DOMAIN precedence_classes

\* A level names the class that has it, and every class holds its level.
LevelsInverse ==
  /\ \A c \in DOMAIN precedence_classes :
       LET l == precedence_classes[c].level
       IN  l \in DOMAIN precedence_levels /\ precedence_levels[l] = c
  /\ \A l \in DOMAIN precedence_levels :
       LET c == precedence_levels[l]
       IN  c \in DOMAIN precedence_classes /\ precedence_classes[c].level = l

\* The assertion of generate_actions: whatever calls configured the parser, a
\* symbol and a production of the same positive level have the same
\* associativity, for the decision looks at the symbol's only.
EqualLevelsEqualAssoc ==
  \A s \in DOMAIN precedence :
    \A c \in Range(precedence) \cup Range(production_precedence) :
      LET ps == SymbolPrecedence(s)
          pr == precedence_classes[c]
      IN  ps.level = pr.level /\ ps.level > 0 => ps.assoc = pr.assoc
=============================================================================
