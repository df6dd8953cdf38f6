---------------------------- MODULE Parser_proof ----------------------------
(***************************************************************************)
(* What generate() builds and parse() does with it, for every grammar      *)
(* within the assumptions, whatever the client calls and is given to parse.*)
(*                                                                         *)
(* PInv: the precedence classes are consistent, so the assertions that     *)
(* generate_actions makes about two precedences of equal level hold.       *)
(*                                                                         *)
(* GInv: item sets are kernels and what closing adds to them, and between  *)
(* the list of states, the scan of one and the item set under construction *)
(* no transition is forgotten.  What fills in the tables after that enters *)
(* reductions by items that are done and actions among these.              *)
(*                                                                         *)
(* RInv: the stacks of a parse are a path through the automaton.  Walking  *)
(* it back from an item, the symbols in front of its dot lie on the stack  *)
(* and the item with the dot in front is in the state under them: so a     *)
(* reduction finds its right-hand side, its transition on the nonterminal, *)
(* and an accepted text is one match of the start symbol.                  *)
(*                                                                         *)
(* CInv: every item of LALR(1) that some tokens follow was begun by a      *)
(* transition that the token follows; each relation is kept once made, so  *)
(* what LALR(1) reduces on is in the tables.                               *)
(***************************************************************************)
EXTENDS Parser, SequenceTheorems, LeastElement

-----------------------------------------------------------------------------
(* Precedence classes                                                       *)

\* The classes and what uses them are well typed, and the two maps inverse.
PInv == grammar \in Grammars /\ PrecTypeOK /\ LevelsInverse

\* What Erase leaves of a map.
LEMMA EraseFacts ==
  ASSUME NEW m, NEW k
  PROVE  /\ DOMAIN Erase(m, k) = DOMAIN m \ {k}
         /\ \A x \in DOMAIN m \ {k} : Erase(m, k)[x] = m[x]
BY DEF Erase, Restrict

\* A class set again keeps the two maps inverse, and well typed.
LEMMA ClassStep ==
  ASSUME PrecTypeOK, LevelsInverse,
         NEW name \in ClassNames, NEW level \in Levels, NEW assoc \in Assocs,
         SetPrecedenceClass(name, level, assoc)
  PROVE  PrecTypeOK' /\ LevelsInverse'
<1> DEFINE classes == precedence_classes
           levels == precedence_levels
           kept == IF name \in DOMAIN classes THEN Erase(levels, classes[name].level)
                   ELSE levels
           new == [level |-> level, assoc |-> assoc]
<1>1. /\ precedence_classes' = Put(classes, name, new)
      /\ precedence_levels' = Put(kept, level, name)
      /\ UNCHANGED <<precedence, production_precedence>>
  BY DEF SetPrecedenceClass
<1>2. \A l \in DOMAIN kept : l \in DOMAIN levels /\ kept[l] = levels[l] /\ kept[l] # name
  <2>1. CASE name \in DOMAIN classes
    <3>1. /\ DOMAIN Erase(levels, classes[name].level) = DOMAIN levels \ {classes[name].level}
          /\ \A l \in DOMAIN levels \ {classes[name].level} :
               Erase(levels, classes[name].level)[l] = levels[l]
      BY EraseFacts
    <3>2. \A l \in DOMAIN levels : levels[l] = name => l = classes[name].level
      BY DEF LevelsInverse
    <3> QED BY <2>1, <3>1, <3>2
  <2>2. CASE name \notin DOMAIN classes
    BY <2>2 DEF LevelsInverse
  <2> QED BY <2>1, <2>2
<1>3. \A l \in DOMAIN levels : levels[l] # name => l \in DOMAIN kept
  <2>1. CASE name \in DOMAIN classes
    <3>1. /\ DOMAIN Erase(levels, classes[name].level) = DOMAIN levels \ {classes[name].level}
          /\ \A l \in DOMAIN levels \ {classes[name].level} :
               Erase(levels, classes[name].level)[l] = levels[l]
      BY EraseFacts
    <3>2. levels[classes[name].level] = name
      BY <2>1 DEF LevelsInverse
    <3> QED BY <2>1, <3>1, <3>2
  <2>2. CASE name \notin DOMAIN classes
    BY <2>2
  <2> QED BY <2>1, <2>2
<1>4. level \in DOMAIN levels => levels[level] = name
  BY DEF SetPrecedenceClass, Refused
<1> HIDE DEF kept, classes, levels
<1>5. /\ DOMAIN precedence_classes' = DOMAIN classes \cup {name}
      /\ precedence_classes'[name] = new
      /\ \A c \in DOMAIN classes : c # name => precedence_classes'[c] = classes[c]
  <2> DEFINE made == Put(classes, name, new)
  <2>1. /\ DOMAIN made = DOMAIN classes \cup {name}
        /\ made[name] = new
        /\ \A c \in DOMAIN classes : c # name => made[c] = classes[c]
    BY DEF Put
  <2> HIDE DEF made
  <2> QED BY <1>1, <2>1 DEF made
<1>6. /\ DOMAIN precedence_levels' = DOMAIN kept \cup {level}
      /\ precedence_levels'[level] = name
      /\ \A l \in DOMAIN kept : l # level => precedence_levels'[l] = kept[l]
  <2> DEFINE made == Put(kept, level, name)
  <2>1. /\ DOMAIN made = DOMAIN kept \cup {level}
        /\ made[level] = name
        /\ \A l \in DOMAIN kept : l # level => made[l] = kept[l]
    BY DEF Put
  <2> HIDE DEF made
  <2> QED BY <1>1, <2>1 DEF made
<1>7. LevelsInverse'
  <2>1. ASSUME NEW c \in DOMAIN precedence_classes'
        PROVE  /\ precedence_classes'[c].level \in DOMAIN precedence_levels'
               /\ precedence_levels'[precedence_classes'[c].level] = c
    <3>1. CASE c = name
      BY <3>1, <1>5, <1>6
    <3>2. CASE c # name
      <4>1. c \in DOMAIN classes /\ precedence_classes'[c] = classes[c]
        BY <3>2, <1>5
      <4>2. classes[c].level \in DOMAIN levels /\ levels[classes[c].level] = c
        BY <4>1 DEF LevelsInverse, classes, levels
      <4> QED BY <3>2, <4>1, <4>2, <1>2, <1>3, <1>4, <1>6
    <3> QED BY <3>1, <3>2
  <2>2. ASSUME NEW l \in DOMAIN precedence_levels'
        PROVE  /\ precedence_levels'[l] \in DOMAIN precedence_classes'
               /\ precedence_classes'[precedence_levels'[l]].level = l
    <3>1. CASE l = level
      BY <3>1, <1>5, <1>6
    <3>2. CASE l # level
      <4>1. l \in DOMAIN levels /\ precedence_levels'[l] = levels[l] /\ levels[l] # name
        BY <3>2, <1>2, <1>6
      <4>2. levels[l] \in DOMAIN classes /\ classes[levels[l]].level = l
        BY <4>1 DEF LevelsInverse, classes, levels
      <4> QED BY <4>1, <4>2, <1>5
    <3> QED BY <3>1, <3>2
  <2> QED BY <2>1, <2>2 DEF LevelsInverse
<1>8. PrecTypeOK'
  <2>1. /\ DOMAIN precedence_levels' \subseteq Levels
        /\ \A l \in DOMAIN precedence_levels' : precedence_levels'[l] \in ClassNames
    BY <1>2, <1>6 DEF PrecTypeOK, levels
  <2>2. /\ DOMAIN precedence_classes' \subseteq ClassNames
        /\ \A c \in DOMAIN precedence_classes' :
             precedence_classes'[c] \in [level : Levels, assoc : Assocs]
    BY <1>5 DEF PrecTypeOK, classes
  <2>3. /\ Range(precedence') \subseteq DOMAIN precedence_classes'
        /\ Range(production_precedence') \subseteq DOMAIN precedence_classes'
    BY <1>1, <1>5 DEF PrecTypeOK, classes
  <2> QED BY <2>1, <2>2, <2>3 DEF PrecTypeOK
<1> QED BY <1>7, <1>8

\* No classes at first.
LEMMA PInvInit == Init => PInv
<1> SUFFICES ASSUME Init PROVE PInv
  OBVIOUS
<1>1. grammar \in Grammars
  BY DEF Init, GenInit
<1>2. /\ precedence_levels = <<>> /\ precedence_classes = <<>>
      /\ precedence = <<>> /\ production_precedence = <<>>
  BY DEF Init, GenInit, PrecInit
<1>3. DOMAIN <<>> = {} /\ Range(<<>>) = {}
  BY DEF Range
<1> QED BY <1>1, <1>2, <1>3 DEF PInv, PrecTypeOK, LevelsInverse

\* Only calls of the client change the classes.
LEMMA OthersKeep ==
  [Next]_vars => Configure \/ UNCHANGED precVars
<1> USE DEF precVars
<1>1. GenNext => Configure \/ UNCHANGED precVars
  <2>1. Generate => UNCHANGED precVars
    BY DEF Generate
  <2>2. CloseItem => UNCHANGED precVars
    BY DEF CloseItem
  <2>3. Register => UNCHANGED precVars
    BY DEF Register
  <2>4. PopState \/ FollowSymbol \/ ItemsetsDone => UNCHANGED precVars
    BY DEF PopState, FollowSymbol, ItemsetsDone
  <2>5. GenerateReads \/ GenerateIncludesLookback => UNCHANGED precVars
    BY DEF GenerateReads, GenerateIncludesLookback
  <2>6. GenerateFollowSets \/ GenerateLookaheads => UNCHANGED precVars
    BY DEF GenerateFollowSets, GenerateLookaheads
  <2>7. GenerateActions => UNCHANGED precVars
    BY DEF GenerateActions
  <2> HIDE DEF precVars
  <2> QED BY <2>1, <2>2, <2>3, <2>4, <2>5, <2>6, <2>7 DEF GenNext, Itemsets, Lalr
<1>2. \A tokens \in grammar.inputs : Parse(tokens) => UNCHANGED precVars
  BY DEF Parse
<1>3. Turn => UNCHANGED precVars
  BY DEF Turn
<1> QED BY <1>1, <1>2, <1>3 DEF Next, vars

\* The grammar a Parser was given stays.
LEMMA GrammarKept == [Next]_vars => grammar' = grammar
<1> USE DEF genVars, tableVars
<1>1. GenNext => grammar' = grammar
  <2>1. Configure \/ Generate => grammar' = grammar
    BY DEF Configure, Generate
  <2>2. CloseItem => grammar' = grammar
    BY DEF CloseItem
  <2>3. Register => grammar' = grammar
    BY DEF Register
  <2>4. PopState \/ FollowSymbol \/ ItemsetsDone => grammar' = grammar
    BY DEF PopState, FollowSymbol, ItemsetsDone
  <2>5. GenerateReads \/ GenerateIncludesLookback => grammar' = grammar
    BY DEF GenerateReads, GenerateIncludesLookback
  <2>6. GenerateFollowSets \/ GenerateLookaheads => grammar' = grammar
    BY DEF GenerateFollowSets, GenerateLookaheads
  <2>7. GenerateActions => grammar' = grammar
    BY DEF GenerateActions
  <2> QED BY <2>1, <2>2, <2>3, <2>4, <2>5, <2>6, <2>7 DEF GenNext, Itemsets, Lalr
<1>2. \A tokens \in grammar.inputs : Parse(tokens) => grammar' = grammar
  BY DEF Parse
<1>3. Turn => grammar' = grammar
  BY DEF Turn
<1> QED BY <1>1, <1>2, <1>3 DEF Next, vars

\* Every call of the client keeps the classes consistent.
LEMMA PInvStep == PInv /\ [Next]_vars => PInv'
<1> SUFFICES ASSUME PInv, [Next]_vars PROVE PInv'
  OBVIOUS
<1>1. grammar' \in Grammars
  BY GrammarKept DEF PInv
<1>2. CASE UNCHANGED precVars
  BY <1>1, <1>2 DEF PInv, PrecTypeOK, LevelsInverse, precVars
<1>3. ASSUME NEW c \in grammar.calls.classes, SetPrecedenceClass(c[1], c[2], c[3])
      PROVE  PInv'
  <2>1. c[1] \in ClassNames /\ c[2] \in Levels /\ c[3] \in Assocs
    BY CallsAssumption DEF PInv
  <2> QED BY <1>1, <1>3, <2>1, ClassStep DEF PInv
<1>4. ASSUME NEW symbol, NEW name, SetPrecedence(symbol, name)
      PROVE  PInv'
  <2>1. Range(precedence') \subseteq DOMAIN precedence_classes
    <3> DEFINE made == Put(precedence, symbol, name)
    <3>1. /\ DOMAIN made = DOMAIN precedence \cup {symbol}
          /\ made[symbol] = name
          /\ \A x \in DOMAIN precedence : x # symbol => made[x] = precedence[x]
      BY DEF Put
    <3>2. precedence' = made /\ name \in DOMAIN precedence_classes
      BY <1>4 DEF SetPrecedence
    <3>3. \A x \in DOMAIN precedence : precedence[x] \in DOMAIN precedence_classes
      BY DEF PInv, PrecTypeOK, Range
    <3> HIDE DEF made
    <3> QED BY <3>1, <3>2, <3>3 DEF Range
  <2> QED BY <1>1, <1>4, <2>1 DEF SetPrecedence, PInv, PrecTypeOK, LevelsInverse
<1>5. ASSUME NEW c \in grammar.calls.productions, SetProductionPrecedence(c[1], c[2])
      PROVE  PInv'
  <2>1. Range(production_precedence') \subseteq DOMAIN precedence_classes
    <3> DEFINE made == Put(production_precedence, c[1], c[2])
    <3>1. /\ DOMAIN made = DOMAIN production_precedence \cup {c[1]}
          /\ made[c[1]] = c[2]
          /\ \A x \in DOMAIN production_precedence : x # c[1] => made[x] = production_precedence[x]
      BY DEF Put
    <3>2. production_precedence' = made /\ c[2] \in DOMAIN precedence_classes
      BY <1>5 DEF SetProductionPrecedence
    <3>3. \A x \in DOMAIN production_precedence : production_precedence[x] \in DOMAIN precedence_classes
      BY DEF PInv, PrecTypeOK, Range
    <3> HIDE DEF made
    <3> QED BY <3>1, <3>2, <3>3 DEF Range
  <2> QED BY <1>1, <1>5, <2>1 DEF SetProductionPrecedence, PInv, PrecTypeOK, LevelsInverse
<1>6. ASSUME NEW i \in Uncalled, MakeCall(grammar.script[i])
      PROVE  PInv'
  <2>1. CASE Len(grammar.script[i]) = 2
    <3>1. SetPrecedence(grammar.script[i][1], grammar.script[i][2])
      BY <1>6, <2>1 DEF MakeCall
    <3> QED BY <1>4, <3>1
  <2>2. CASE Len(grammar.script[i]) = 3
    <3> DEFINE c == grammar.script[i]
    <3>1. SetPrecedenceClass(c[1], c[2], c[3])
      BY <1>6, <2>2 DEF MakeCall
    <3>2. c \in ClassNames \X Levels \X Assocs
      BY <2>2, CallsAssumption DEF PInv, Uncalled
    <3>3. c[1] \in ClassNames /\ c[2] \in Levels /\ c[3] \in Assocs
      BY <3>2
    <3> QED BY <1>1, <3>1, <3>3, ClassStep DEF PInv
  <2> QED BY <1>6, <2>1, <2>2 DEF MakeCall
<1> QED BY <1>2, <1>3, <1>4, <1>5, <1>6, OthersKeep DEF Configure

\* The classes are consistent always.
LEMMA PInvAlways == Spec => []PInv
BY PInvInit, PInvStep, PTL DEF Spec

\* A level names the class that has it, and every class holds its level,
\* whatever the client calls and whatever calls are refused.
THEOREM ClassesHoldLevels == Spec => []LevelsInverse
<1>1. PInv => LevelsInverse
  BY DEF PInv
<1> QED BY <1>1, PInvAlways, PTL

\* The assertion of generate_actions: at equal positive levels, a symbol and a
\* production agree on the associativity by which a conflict is decided.
THEOREM AssocsAgree == Spec => []EqualLevelsEqualAssoc
<1>1. PInv => EqualLevelsEqualAssoc
  <2> SUFFICES ASSUME PInv,
                      NEW s \in DOMAIN precedence,
                      NEW c \in Range(precedence) \cup Range(production_precedence),
                      SymbolPrecedence(s).level = precedence_classes[c].level
               PROVE  SymbolPrecedence(s).assoc = precedence_classes[c].assoc
    BY DEF EqualLevelsEqualAssoc
  <2>1. precedence[s] \in DOMAIN precedence_classes /\ c \in DOMAIN precedence_classes
    BY DEF PInv, PrecTypeOK, Range
  <2>2. precedence[s] = c
    BY <2>1 DEF PInv, LevelsInverse, SymbolPrecedence
  <2> QED BY <2>2 DEF SymbolPrecedence
<1> QED BY <1>1, PInvAlways, PTL

-----------------------------------------------------------------------------
(* Item sets and tables                                                     *)

\* Symbols of right-hand sides, lookaheads of items, and items: nothing but END
\* follows ROOT.
Symbols == terminals \cup grammar.nonterminals
Lookaheads == IF type = "LR1" THEN terminals ELSE {NONE}

Items == {i \in [prod : DOMAIN productions, dot : Nat, la : Lookaheads] :
            /\ i.dot <= Len(SymbolsOf(i.prod))
            /\ i.prod = Len(productions) /\ type = "LR1" => i.la = END}

\* The item generate() begins with.
RootItem ==
  [prod |-> Len(productions), dot |-> 0, la |-> IF type = "LR1" THEN END ELSE NONE]

\* The kernel behind a transition.
GotoKernel(closure, s) ==
  {Advanced(i) : i \in {j \in closure : ~IsDone(j) /\ NextSymbol(j) = s}}

\* The grammar generate() works on: the client's, and a last production for ROOT.
GrammarMade ==
  /\ productions \in Seq(Range(productions))
  /\ \A k \in DOMAIN productions :
       productions[k].target \in Nonterminals /\ SymbolsOf(k) \in Seq(Symbols)
  /\ Len(productions) = Len(grammar.productions) + 1
  /\ SymbolsOf(Len(productions)) = <<grammar.start>>
  /\ \A k \in DOMAIN productions : productions[k].target = ROOT <=> k = Len(productions)
  /\ \A k \in DOMAIN grammar.productions :
       k \in DOMAIN productions /\ productions[k] = grammar.productions[k]
  /\ terminals = grammar.terminals \cup {END}
  /\ nullable \subseteq Nonterminals
  /\ \A s \in Symbols : firsts[s] \subseteq terminals

\* What closing adds to a kernel: items with the dot in front, each of a
\* nonterminal that is next in another item.
Grounded(kernel, closure) ==
  \A i \in closure \ kernel :
    i.dot = 0 /\ \E j \in closure : ~IsDone(j) /\ NextSymbol(j) = productions[i.prod].target

\* A state: a kernel and what closing added to it.
ItemSetMade(st) ==
  /\ st = [kernel |-> st.kernel, closure |-> st.closure, accept |-> st.accept,
           next |-> st.next, reductions |-> st.reductions, actions |-> st.actions]
  /\ st.kernel \subseteq st.closure /\ st.closure \subseteq Items
  /\ Grounded(st.kernel, st.closure)
  /\ st.accept = Accepting(st.kernel)

\* The first state is the only one nothing leads to.
StatesMade ==
  /\ states \in Seq(Range(states))
  /\ \A q \in DOMAIN states :
       /\ ItemSetMade(states[q])
       /\ q = 1 => states[q].kernel = {RootItem}
       /\ q # 1 => \A i \in states[q].kernel : i.dot > 0
  /\ \A q, u \in DOMAIN states : states[q].kernel = states[u].kernel => q = u
  /\ \A q \in DOMAIN states : \A s \in DOMAIN states[q].next :
       /\ Goto(q, s) \in DOMAIN states
       /\ s \in SymbolsAfterDots(states[q].closure)
       /\ states[Goto(q, s)].kernel = GotoKernel(states[q].closure, s)

\* The item set under construction is wanted behind some transition.
CandidateMade ==
  /\ candidate \in [kernel : SUBSET Items, closure : SUBSET Items, pending : SUBSET Items,
                    from : Nat, symbol : Symbols \cup {NONE}]
  /\ candidate # Nobody =>
       /\ phase = "itemsets"
       /\ candidate.kernel # {}
       /\ candidate.kernel \subseteq candidate.closure \cup candidate.pending
       /\ Grounded(candidate.kernel, candidate.closure \cup candidate.pending)
       /\ IF states = <<>> THEN candidate.from = 0 /\ candidate.kernel = {RootItem}
          ELSE /\ candidate.from \in DOMAIN states
               /\ candidate.symbol \in SymbolsAfterDots(states[candidate.from].closure)
               /\ candidate.kernel = GotoKernel(states[candidate.from].closure, candidate.symbol)

\* The symbols of a state that have been followed or will be.
Followed(q) ==
  DOMAIN states[q].next
    \cup (IF q = scan.state THEN scan.symbols ELSE {})
    \cup (IF candidate # Nobody /\ q = candidate.from THEN {candidate.symbol} ELSE {})

\* No transition is forgotten.
WorkLeft ==
  /\ queue \in Seq(DOMAIN states)
  /\ scan.symbols # {} =>
       scan.state \in DOMAIN states /\ scan.symbols \subseteq SymbolsAfterDots(states[scan.state].closure)
  /\ scan \in [state : Nat, symbols : SUBSET Symbols]
  /\ \A q \in DOMAIN states :
       q \in Range(queue) \/ SymbolsAfterDots(states[q].closure) \subseteq Followed(q)

Phases == {"configure", "itemsets", "reads", "includes", "follow", "lookaheads", "actions", "ready"}

\* What there is in each phase of generate().
PhaseMade ==
  /\ phase \in Phases
  /\ IF phase = "configure"
       THEN /\ states = <<>> /\ terminals = grammar.terminals /\ productions = grammar.productions
            /\ nullable = {}
       ELSE GrammarMade
  /\ phase = "itemsets" => states # <<>> \/ candidate # Nobody
  /\ phase \notin {"configure", "itemsets"} => queue = <<>> /\ scan.symbols = {} /\ states # <<>>
  /\ phase \in {"reads", "includes", "follow", "lookaheads"} => type = "LALR1"

\* A reduction is by an item that is done, on a token; that of ROOT on END.
ReductionsMade ==
  \A q \in DOMAIN states : \A s \in DOMAIN states[q].reductions :
    /\ s \in terminals /\ states[q].reductions[s] # {}
    /\ \A k \in states[q].reductions[s] :
         /\ k = Len(productions) => s = END
         /\ \E i \in states[q].closure : IsDone(i) /\ i.prod = k

\* An action shifts along a transition or is one of the reductions; precedence
\* drops no transition on a nonterminal.
ActionsMade ==
  phase = "ready" =>
    \A q \in DOMAIN states :
      /\ \A s \in DOMAIN states[q].actions :
           LET a == states[q].actions[s]
           IN  IF a.shift # 0 THEN s \in DOMAIN states[q].next /\ a.shift = Goto(q, s)
               ELSE s \in DOMAIN states[q].reductions /\ a.reduce \in states[q].reductions[s]
      /\ DOMAIN states[q].next \ terminals \subseteq DOMAIN states[q].actions

\* The relations of the LALR(1) lookaheads.
LalrMade ==
  /\ phase \in {"includes", "follow"} => \A t \in Transitions : reads[t] \subseteq terminals
  /\ phase = "follow" => includes \in [Transitions -> SUBSET Transitions]
  /\ phase = "lookaheads" => \A t \in Transitions : follows[t] \subseteq terminals
  /\ phase \in {"follow", "lookaheads"} =>
       \A t \in Transitions : \A l \in lookback[t] :
         /\ l.state \in DOMAIN states /\ l.prod # Len(productions)
         /\ \E i \in states[l.state].closure : IsDone(i) /\ i.prod = l.prod

\* The inductive invariant of the generator.
GInv ==
  /\ grammar \in Grammars /\ type \in grammar.types
  /\ PhaseMade /\ StatesMade /\ CandidateMade /\ WorkLeft
  /\ ReductionsMade /\ ActionsMade /\ LalrMade

(* Run time                                                                 *)

\* A token or a reduction; that of the first stack entry, of no production.
IsMatch(m) ==
  /\ m.prod \in 0 .. Len(productions)
  /\ m.prod = 0 => m.tags \in Seq(terminals \cup {BAD})

\* A state, a match on top of it, and the state above.
Joined(q, m, u) ==
  \E g \in DOMAIN Run!TagsOf(m) :
    Run!TagsOf(m)[g] \in DOMAIN states[q].next /\ u = Goto(q, Run!TagsOf(m)[g])

\* What the stacks and the buffer hold.
StacksMade ==
  /\ status \in {"idle", "running", "accepted", "null", "undefined"}
  /\ phase # "ready" => Run!RunInit
  /\ input \in Seq(Seq(terminals \cup {BAD}))
  /\ pos \in Nat \ {0}
  /\ parse_stack_states \in Seq(DOMAIN states)
  /\ parse_stack_matches \in Seq(Range(parse_stack_matches))
  /\ symbol_buffer \in Seq(Range(symbol_buffer))
  /\ \A n \in DOMAIN parse_stack_matches : IsMatch(parse_stack_matches[n])
  /\ \A n \in DOMAIN symbol_buffer : IsMatch(symbol_buffer[n])

\* The two stacks are a path through the automaton.
Path ==
  status = "running" =>
    /\ Len(parse_stack_states) = Len(parse_stack_matches) + 1
    /\ parse_stack_states[1] = 1
    /\ \A n \in DOMAIN parse_stack_matches :
         Joined(parse_stack_states[n], parse_stack_matches[n], parse_stack_states[n + 1])

\* Without rewrites: what was reduced last, and the token seen.
BufferShort ==
  NoRewrites =>
    /\ Len(symbol_buffer) <= 2
    /\ Len(symbol_buffer) = 1 => symbol_buffer[1].prod = 0
    /\ Len(symbol_buffer) = 2 => symbol_buffer[1].prod # 0 /\ symbol_buffer[2].prod = 0

\* The inductive invariant of the run time.
RInv == StacksMade /\ Path /\ BufferShort /\ AcceptedWhole

-----------------------------------------------------------------------------
(* Sequences, nullable symbols, items                                       *)

\* A sequence is one of its own elements.
LEMMA OfItsOwn ==
  ASSUME NEW S, NEW s \in Seq(S)
  PROVE  s \in Seq(Range(s))
<1> DEFINE t == SubSeq(s, 1, Len(s))
<1>1. Len(s) \in Nat /\ DOMAIN s = 1 .. Len(s) /\ \A i \in 1 .. Len(s) : s[i] \in S
  OBVIOUS
<1>2. \A i \in 1 .. Len(s) : s[i] \in Range(s)
  BY <1>1 DEF Range
<1>3. t \in Seq(Range(s))
  BY <1>1, <1>2, SubSeqProperties
<1>4. t = s
  BY <1>1
<1> QED BY <1>3, <1>4

\* g goes from S to one value of U after the other, by M.
Turned(g, c, U, M, S) ==
  /\ g = [n \in 0 .. c |-> IF n = 0 THEN S ELSE M[g[n - 1]]]
  /\ \A n \in 0 .. c : g[n] \in U

\* There is such a function for any number of turns.
LEMMA Turns ==
  ASSUME NEW c \in Nat, NEW U, NEW M, \A N \in U : M[N] \in U, NEW S \in U
  PROVE  \E g : Turned(g, c, U, M, S)
<1> DEFINE D == [n \in 0 .. c |-> U]
           F == [n \in 1 .. c |-> M]
<1>1. \A n \in 1 .. c : n - 1 \in 0 .. c /\ n \in 0 .. c
  OBVIOUS
<1>2. Leads(F, D, c) /\ S \in D[0]
  BY <1>1 DEF Leads
<1>3. PICK g : Iterates(g, S, F, D, c)
  <2> HIDE DEF D, F
  <2> QED BY <1>2, Iteration
<1>4. /\ g = [n \in 0 .. c |-> g[n]] /\ g[0] = S
      /\ \A n \in 1 .. c : g[n - 1] \in U /\ g[n] = M[g[n - 1]]
  BY <1>1, <1>3 DEF Iterates
<1>5. \A n \in 0 .. c : n = 0 \/ n \in 1 .. c
  OBVIOUS
<1>6. g = [n \in 0 .. c |-> IF n = 0 THEN S ELSE M[g[n - 1]]]
  BY <1>4, <1>5
<1>7. \A n \in 0 .. c : g[n] \in U
  BY <1>4, <1>5
<1>8. Turned(g, c, U, M, S)
  BY <1>6, <1>7 DEF Turned
<1> QED BY <1>8

\* The least set the turns over the productions lead to holds nonterminals.
LEMMA NullableTyped ==
  ASSUME grammar \in Grammars, NEW prods,
         \A k \in DOMAIN prods : prods[k].target \in Nonterminals
  PROVE  NullableOf(prods) \subseteq Nonterminals
<1> DEFINE c == Cardinality(Nonterminals)
           Eq(g) == g = [n \in 0 .. c |-> IF n = 0 THEN {}
                                          ELSE g[n - 1] \cup Vanishing(prods, g[n - 1])]
           upto == CHOOSE g : Eq(g)
<1>1. NullableOf(prods) = upto[c]
  BY DEF NullableOf, LeastFrom
<1>2. c \in Nat
  <2>1. IsFiniteSet(Nonterminals)
    BY GrammarAssumption, FS_AddElement DEF Nonterminals
  <2> QED BY <2>1, FS_CardinalityType
<1> HIDE DEF c
<1>3. \A N : Vanishing(prods, N) \subseteq Nonterminals
  BY DEF Vanishing
<1>4. \E g : Eq(g)
  <2> DEFINE U == SUBSET Nonterminals
             M == [N \in U |-> N \cup Vanishing(prods, N)]
  <2>1. {} \in U /\ \A N \in U : M[N] \in U
    BY <1>3
  <2>2. \A N \in U : M[N] = N \cup Vanishing(prods, N)
    OBVIOUS
  <2> HIDE DEF U, M
  <2>3. PICK g : Turned(g, c, U, M, {})
    BY <1>2, <2>1, Turns
  <2>4. \A n \in 0 .. c : n # 0 => n - 1 \in 0 .. c
    BY <1>2
  <2>5. \A n \in 0 .. c : g[n] = IF n = 0 THEN {} ELSE g[n - 1] \cup Vanishing(prods, g[n - 1])
    BY <2>2, <2>3, <2>4 DEF Turned
  <2>6. g = [n \in 0 .. c |-> g[n]]
    BY <2>3 DEF Turned
  <2>7. Eq(g)
    BY <2>5, <2>6
  <2> HIDE DEF Eq
  <2> QED BY <2>7
<1>5. Eq(upto)
  <2> HIDE DEF Eq
  <2> QED BY <1>4
<1> HIDE DEF upto
<1> DEFINE S == {n \in 0 .. c : upto[n] \subseteq Nonterminals}
<1>6. 0 \in S
  BY <1>2, <1>5
<1>7. \A n \in 1 .. c : n - 1 \in S => n \in S
  <2> TAKE n \in 1 .. c
  <2>1. n \in 0 .. c /\ n # 0
    BY <1>2
  <2>2. upto[n] = upto[n - 1] \cup Vanishing(prods, upto[n - 1])
    BY <1>5, <2>1
  <2> QED BY <2>1, <2>2, <1>3
<1>8. 0 .. c \subseteq S
  <2> HIDE DEF S
  <2> QED BY <1>2, <1>6, <1>7, UpTo
<1> QED BY <1>1, <1>2, <1>8

\* What is made of the productions only changes with them.
LEMMA Fixed ==
  ASSUME UNCHANGED tableVars
  PROVE  /\ Items' = Items /\ RootItem' = RootItem /\ Symbols' = Symbols
         /\ Nonterminals' = Nonterminals
         /\ GrammarMade' <=> GrammarMade
         /\ \A k : SymbolsOf(k)' = SymbolsOf(k)
         /\ \A i : (IsDone(i)' <=> IsDone(i)) /\ NextSymbol(i)' = NextSymbol(i)
         /\ \A c, s : GotoKernel(c, s)' = GotoKernel(c, s)
         /\ \A c : SymbolsAfterDots(c)' = SymbolsAfterDots(c)
         /\ \A c : Accepting(c)' <=> Accepting(c)
         /\ \A k, c : Grounded(k, c)' <=> Grounded(k, c)
         /\ \A st : ItemSetMade(st)' <=> ItemSetMade(st)
<1> USE DEF tableVars
<1>1. \A k : SymbolsOf(k)' = SymbolsOf(k)
  BY DEF SymbolsOf
<1>2. \A i : (IsDone(i)' <=> IsDone(i)) /\ NextSymbol(i)' = NextSymbol(i)
  BY DEF SymbolsOf, IsDone, NextSymbol
<1>3. Items' = Items /\ RootItem' = RootItem /\ Symbols' = Symbols /\ Nonterminals' = Nonterminals
  BY DEF Items, RootItem, Symbols, Lookaheads, SymbolsOf, Nonterminals
<1>4. GrammarMade' <=> GrammarMade
  BY DEF GrammarMade, Symbols, Nonterminals, SymbolsOf
<1>5. \A c, s : GotoKernel(c, s)' = GotoKernel(c, s)
  BY DEF GotoKernel, SymbolsOf, IsDone, NextSymbol
<1>6. \A c : SymbolsAfterDots(c)' = SymbolsAfterDots(c)
  BY DEF SymbolsAfterDots, SymbolsOf, IsDone, NextSymbol
<1>7. \A c : Accepting(c)' <=> Accepting(c)
  BY DEF Accepting, SymbolsOf, IsDone
<1>8. \A k, c : Grounded(k, c)' <=> Grounded(k, c)
  BY DEF Grounded, SymbolsOf, IsDone, NextSymbol
<1>9. \A st : ItemSetMade(st)' <=> ItemSetMade(st)
  BY <1>3, <1>7, <1>8 DEF ItemSetMade
<1> QED BY <1>1, <1>2, <1>3, <1>4, <1>5, <1>6, <1>7, <1>8, <1>9

\* The item sets stay while the states and the grammar do.
LEMMA SameStates ==
  ASSUME UNCHANGED tableVars, states' = states
  PROVE  /\ StatesMade' <=> StatesMade
         /\ ReductionsMade' <=> ReductionsMade
         /\ Transitions' = Transitions
<1>1. StatesMade' <=> StatesMade
  BY Fixed DEF StatesMade, Goto
<1>2. ReductionsMade' <=> ReductionsMade
  BY Fixed DEF ReductionsMade, tableVars
<1>3. Transitions' = Transitions
  BY Fixed DEF Transitions, tableVars
<1> QED BY <1>1, <1>2, <1>3

\* An item, a step further.
LEMMA ItemFacts ==
  ASSUME GrammarMade, NEW i \in Items
  PROVE  /\ i.prod \in DOMAIN productions /\ i.dot \in Nat /\ i.la \in Lookaheads
         /\ i.dot \in 0 .. Len(SymbolsOf(i.prod))
         /\ SymbolsOf(i.prod) \in Seq(Symbols) /\ Len(SymbolsOf(i.prod)) \in Nat
         /\ i = [prod |-> i.prod, dot |-> i.dot, la |-> i.la]
         /\ i.prod = Len(productions) /\ type = "LR1" => i.la = END
         /\ ~IsDone(i) =>
              /\ i.dot + 1 \in DOMAIN SymbolsOf(i.prod)
              /\ NextSymbol(i) \in Symbols
              /\ Advanced(i) = [prod |-> i.prod, dot |-> i.dot + 1, la |-> i.la]
              /\ Advanced(i) \in Items
<1>1. /\ i.prod \in DOMAIN productions /\ i.dot \in Nat /\ i.la \in Lookaheads
      /\ i = [prod |-> i.prod, dot |-> i.dot, la |-> i.la] /\ i.dot <= Len(SymbolsOf(i.prod))
      /\ i.prod = Len(productions) /\ type = "LR1" => i.la = END
  BY DEF Items
<1>2. SymbolsOf(i.prod) \in Seq(Symbols)
  BY <1>1 DEF GrammarMade
<1>3. Len(SymbolsOf(i.prod)) \in Nat /\ i.dot \in 0 .. Len(SymbolsOf(i.prod))
  BY <1>1, <1>2
<1>4. ASSUME ~IsDone(i)
      PROVE  /\ i.dot + 1 \in DOMAIN SymbolsOf(i.prod)
             /\ NextSymbol(i) \in Symbols
             /\ Advanced(i) = [prod |-> i.prod, dot |-> i.dot + 1, la |-> i.la]
             /\ Advanced(i) \in Items
  <2>1. i.dot < Len(SymbolsOf(i.prod))
    BY <1>3, <1>4 DEF IsDone
  <2>2. i.dot + 1 \in 1 .. Len(SymbolsOf(i.prod)) /\ DOMAIN SymbolsOf(i.prod) = 1 .. Len(SymbolsOf(i.prod))
    BY <1>2, <1>3, <2>1
  <2>3. NextSymbol(i) \in Symbols
    BY <1>2, <2>2 DEF NextSymbol
  <2>4. Advanced(i) = [prod |-> i.prod, dot |-> i.dot + 1, la |-> i.la]
    BY <1>1 DEF Advanced
  <2>5. [prod |-> i.prod, dot |-> i.dot + 1, la |-> i.la] \in Items
    BY <1>1, <2>2 DEF Items
  <2> QED BY <2>2, <2>3, <2>4, <2>5
<1> QED BY <1>1, <1>2, <1>3, <1>4

\* Items made by following a symbol.
LEMMA GotoFacts ==
  ASSUME GrammarMade, NEW closure \in SUBSET Items, NEW s
  PROVE  /\ GotoKernel(closure, s) \subseteq Items
         /\ \A i \in GotoKernel(closure, s) :
              \E j \in closure : /\ ~IsDone(j) /\ NextSymbol(j) = s
                                 /\ i.prod = j.prod /\ i.dot = j.dot + 1 /\ i.la = j.la
         /\ \A i \in GotoKernel(closure, s) : i.dot > 0
         /\ s \in SymbolsAfterDots(closure) => GotoKernel(closure, s) # {} /\ s \in Symbols
<1>1. \A j \in closure : ~IsDone(j) => Advanced(j) \in Items
  BY ItemFacts
<1>2. \A j \in closure : ~IsDone(j) =>
        Advanced(j).prod = j.prod /\ Advanced(j).dot = j.dot + 1 /\ Advanced(j).la = j.la /\ j.dot \in Nat
  BY ItemFacts
<1>3. \A i \in GotoKernel(closure, s) :
        \E j \in closure : /\ ~IsDone(j) /\ NextSymbol(j) = s /\ i = Advanced(j)
  BY DEF GotoKernel
<1>4. s \in SymbolsAfterDots(closure) => \E j \in closure : ~IsDone(j) /\ NextSymbol(j) = s
  BY DEF SymbolsAfterDots
<1>5. s \in SymbolsAfterDots(closure) => GotoKernel(closure, s) # {}
  BY <1>4 DEF GotoKernel
<1>6. s \in SymbolsAfterDots(closure) => s \in Symbols
  BY <1>4, ItemFacts
<1>7. \A i \in GotoKernel(closure, s) :
              \E j \in closure : /\ ~IsDone(j) /\ NextSymbol(j) = s /\ j.dot \in Nat
                                 /\ i.prod = j.prod /\ i.dot = j.dot + 1 /\ i.la = j.la
  BY <1>2, <1>3
<1>8. \A i \in GotoKernel(closure, s) : i.dot > 0
  BY <1>7
<1> QED BY <1>1, <1>3, <1>5, <1>6, <1>7, <1>8

-----------------------------------------------------------------------------
(* The grammar made and its item sets                                       *)

\* A Parser that has generated nothing.
LEMMA InitGInv == Init => GInv
<1> SUFFICES ASSUME Init PROVE GInv
  OBVIOUS
<1>0. /\ grammar \in Grammars /\ type \in grammar.types /\ phase = "configure"
      /\ terminals = grammar.terminals /\ productions = grammar.productions /\ nullable = {}
      /\ states = <<>> /\ candidate = Nobody /\ queue = <<>> /\ scan = NoScan
  BY DEF Init, GenInit
<1>1. DOMAIN states = {} /\ <<>> \in Seq({})
  BY <1>0
<1>2. StatesMade /\ ReductionsMade
  BY <1>0, <1>1 DEF StatesMade, ReductionsMade, Range
<1>3. CandidateMade
  BY <1>0 DEF CandidateMade, Nobody
<1>4. WorkLeft
  BY <1>0, <1>1 DEF WorkLeft, NoScan
<1>5. PhaseMade
  BY <1>0 DEF PhaseMade, Phases
<1>6. ActionsMade /\ LalrMade
  BY <1>0 DEF ActionsMade, LalrMade
<1> QED BY <1>0, <1>2, <1>3, <1>4, <1>5, <1>6 DEF GInv

\* The grammar as generate() extends it.
LEMMA GenerateGrammar ==
  ASSUME grammar \in Grammars, phase = "configure", Generate
  PROVE  /\ GrammarMade'
         /\ RootItem' \in Items'
         /\ candidate' = Asked({RootItem'}, 0, NONE)
<1> DEFINE g == grammar
           terms == g.terminals \cup {END}
           last == [target |-> ROOT, symbols |-> <<g.start>>]
           prods == Append(g.productions, last)
           n == Len(g.productions)
<1>1. /\ terminals' = terms /\ productions' = prods /\ nullable' = NullableOf(prods)
      /\ firsts' = FirstsOf(terms, prods, NullableOf(prods))
      /\ candidate' = Asked({[prod |-> Len(prods), dot |-> 0,
                              la |-> IF type = "LR1" THEN END ELSE NONE]}, 0, NONE)
      /\ grammar' = g /\ type' = type
  BY DEF Generate, tableVars
<1>2. /\ g.productions \in Seq(Range(g.productions))
      /\ ROOT \notin g.nonterminals /\ g.start \in g.nonterminals
      /\ \A k \in DOMAIN g.productions :
           /\ g.productions[k].target \in g.nonterminals
           /\ g.productions[k].symbols \in Seq(g.terminals \cup g.nonterminals)
  BY GrammarAssumption
<1>3. /\ prods \in Seq(Range(g.productions) \cup {last}) /\ Len(prods) = n + 1
      /\ n \in Nat /\ DOMAIN prods = 1 .. n + 1 /\ DOMAIN g.productions = 1 .. n
      /\ prods[n + 1] = last /\ \A k \in 1 .. n : prods[k] = g.productions[k]
  <2> DEFINE S == Range(g.productions) \cup {last}
  <2>1. g.productions \in Seq(S) /\ last \in S
    BY <1>2
  <2> HIDE DEF S, last
  <2> QED BY <2>1 DEF S
<1> HIDE DEF prods
<1>4. prods \in Seq(Range(prods))
  BY <1>3, OfItsOwn
<1>5. \A k \in DOMAIN prods :
        /\ prods[k].target \in Nonterminals
        /\ prods[k].symbols \in Seq(terms \cup g.nonterminals)
  <2> SUFFICES ASSUME NEW k \in 1 .. n + 1
               PROVE  /\ prods[k].target \in Nonterminals
                      /\ prods[k].symbols \in Seq(terms \cup g.nonterminals)
    BY <1>3
  <2>1. CASE k = n + 1
    <3>1. prods[k].target = ROOT /\ prods[k].symbols = <<g.start>>
      BY <1>3, <2>1
    <3>2. <<g.start>> \in Seq(terms \cup g.nonterminals)
      BY <1>2
    <3> QED BY <3>1, <3>2 DEF Nonterminals
  <2>2. CASE k \in 1 .. n
    <3>1. prods[k] = g.productions[k] /\ k \in DOMAIN g.productions
      BY <1>3, <2>2
    <3>2. prods[k].symbols \in Seq(g.terminals \cup g.nonterminals)
      BY <1>2, <3>1
    <3>3. prods[k].target \in Nonterminals
      BY <1>2, <3>1 DEF Nonterminals
    <3> QED BY <3>2, <3>3
  <2> QED BY <1>3, <2>1, <2>2
<1>6. nullable' \subseteq Nonterminals
  BY <1>1, <1>5, NullableTyped
<1>7. \A s \in terms \cup Nonterminals : firsts'[s] \subseteq terms
  BY <1>1 DEF FirstsOf
<1>8. Symbols' = terms \cup g.nonterminals /\ Nonterminals' = Nonterminals
  BY <1>1 DEF Symbols, Nonterminals
<1>9. \A k \in DOMAIN prods : prods[k].target = ROOT <=> k = n + 1
  BY <1>2, <1>3
<1>10. GrammarMade'
  <2>1. \A k : SymbolsOf(k)' = prods[k].symbols
    BY <1>1 DEF SymbolsOf
  <2>2. SymbolsOf(Len(productions))' = <<g.start>>
    BY <1>1, <1>3 DEF SymbolsOf
  <2>3. \A s \in Symbols' : firsts'[s] \subseteq terms
    BY <1>7, <1>8 DEF Nonterminals
  <2>4. \A k \in DOMAIN g.productions : k \in DOMAIN prods /\ prods[k] = g.productions[k]
    BY <1>3
  <2> QED BY <1>1, <1>3, <1>4, <1>5, <1>6, <1>8, <1>9, <2>1, <2>2, <2>3, <2>4 DEF GrammarMade
<1>11. RootItem' \in Items'
  <2>1. RootItem' = [prod |-> n + 1, dot |-> 0, la |-> IF type = "LR1" THEN END ELSE NONE]
    BY <1>1, <1>3 DEF RootItem
  <2>2. (IF type = "LR1" THEN END ELSE NONE) \in Lookaheads'
    BY <1>1 DEF Lookaheads
  <2>3. SymbolsOf(n + 1)' = <<g.start>> /\ n + 1 \in DOMAIN productions'
    BY <1>1, <1>3 DEF SymbolsOf
  <2>4. RootItem'.prod = n + 1 /\ RootItem'.dot = 0 /\ (type = "LR1" => RootItem'.la = END)
    BY <2>1
  <2> QED BY <1>1, <2>1, <2>2, <2>3, <2>4 DEF Items
<1>12. candidate' = Asked({RootItem'}, 0, NONE)
  BY <1>1 DEF RootItem
<1> QED BY <1>10, <1>11, <1>12

\* generate() up to the first item set.
LEMMA GenerateStep == ASSUME GInv, Generate PROVE GInv'
<1>0. /\ grammar \in Grammars /\ type \in grammar.types /\ phase = "configure"
      /\ grammar' = grammar /\ type' = type /\ phase' = "itemsets"
      /\ UNCHANGED <<states, queue, scan, lalrVars>>
  BY DEF GInv, Generate, tableVars
<1>1. states = <<>> /\ DOMAIN states = {} /\ queue \in Seq({}) /\ scan.symbols = {}
  <2>1. states = <<>>
    BY <1>0 DEF GInv, PhaseMade
  <2>2. DOMAIN states = {}
    BY <2>1
  <2> QED BY <2>1, <2>2 DEF GInv, WorkLeft
<1>2. /\ GrammarMade'
      /\ RootItem' \in Items'
      /\ candidate' = Asked({RootItem'}, 0, NONE)
  BY <1>0, GenerateGrammar
<1>3. candidate'.kernel = {RootItem'} /\ candidate'.closure = {} /\ candidate'.pending = {RootItem'}
      /\ candidate'.from = 0 /\ candidate'.symbol = NONE
  BY <1>2 DEF Asked
<1>4. candidate' # Nobody
  BY <1>3 DEF Nobody
<1>5. CandidateMade'
  <2>1. Grounded({RootItem}, {} \cup {RootItem})'
    BY DEF Grounded
  <2>2. candidate' \in [kernel : SUBSET Items', closure : SUBSET Items', pending : SUBSET Items',
                        from : Nat, symbol : Symbols' \cup {NONE}]
    BY <1>2 DEF Asked
  <2> QED BY <1>0, <1>1, <1>3, <2>1, <2>2 DEF CandidateMade
<1>6. StatesMade' /\ ReductionsMade'
  BY <1>0, <1>1 DEF StatesMade, ReductionsMade, Range
<1>7. WorkLeft'
  <2>1. scan' \in [state : Nat, symbols : SUBSET Symbols'] /\ scan'.symbols = {}
    BY <1>0, <1>1 DEF GInv, WorkLeft
  <2> QED BY <1>0, <1>1, <2>1 DEF WorkLeft
<1>8. PhaseMade'
  BY <1>0, <1>2, <1>4 DEF PhaseMade, Phases
<1>9. ActionsMade' /\ LalrMade'
  BY <1>0 DEF ActionsMade, LalrMade
<1> QED BY <1>0, <1>5, <1>6, <1>7, <1>8, <1>9 DEF GInv

-----------------------------------------------------------------------------
\* What an item adds to a closure.
LEMMA PredictedFacts ==
  ASSUME GrammarMade, grammar \in Grammars, NEW i \in Items
  PROVE  /\ Predicted(i) \subseteq Items
         /\ \A j \in Predicted(i) :
              j.dot = 0 /\ ~IsDone(i) /\ NextSymbol(i) = productions[j.prod].target
<1> SUFFICES ASSUME NEW j \in Predicted(i)
             PROVE  /\ j \in Items
                    /\ j.dot = 0 /\ ~IsDone(i) /\ NextSymbol(i) = productions[j.prod].target
  OBVIOUS
<1>1. ~IsDone(i) /\ NextSymbol(i) \notin terminals
  BY DEF Predicted
<1>2. PICK k \in ProductionsOf(NextSymbol(i)),
           t \in IF type = "LR1" THEN LookaheadsAfter(i) ELSE {NONE} :
        j = [prod |-> k, dot |-> 0, la |-> t]
  BY <1>1 DEF Predicted
<1>3. k \in DOMAIN productions /\ productions[k].target = NextSymbol(i)
  BY <1>2 DEF ProductionsOf
<1>4. t \in Lookaheads
  <2>1. CASE type = "LR1"
    <3> DEFINE w == SubSeq(SymbolsOf(i.prod), i.dot + 2, Len(SymbolsOf(i.prod)))
    <3>1. /\ SymbolsOf(i.prod) \in Seq(Symbols) /\ i.dot \in Nat
          /\ Len(SymbolsOf(i.prod)) \in Nat /\ i.la \in terminals
      BY <2>1, ItemFacts DEF Lookaheads
    <3>2. \A m \in i.dot + 2 .. Len(SymbolsOf(i.prod)) : SymbolsOf(i.prod)[m] \in Symbols
      BY <3>1
    <3>3. w \in Seq(Symbols)
      BY <3>1, <3>2, SubSeqProperties
    <3>4. LookaheadsAfter(i) \subseteq (UNION {firsts[w[m]] : m \in Visible(w)}) \cup {i.la}
      BY DEF LookaheadsAfter
    <3> HIDE DEF w
    <3>5. \A m \in Visible(w) : firsts[w[m]] \subseteq terminals
      BY <3>3 DEF GrammarMade, Visible
    <3>6. LookaheadsAfter(i) \subseteq terminals
      BY <3>1, <3>4, <3>5
    <3> QED BY <1>2, <2>1, <3>6 DEF Lookaheads
  <2>2. CASE type # "LR1"
    BY <1>2, <2>2 DEF Lookaheads
  <2> QED BY <2>1, <2>2
<1>5. Len(SymbolsOf(k)) \in Nat
  BY <1>3 DEF GrammarMade
<1>6. k # Len(productions)
  <2>1. NextSymbol(i) \in Symbols
    BY <1>1, ItemFacts
  <2>2. ROOT \notin Symbols
    BY GrammarAssumption DEF GrammarMade, Symbols
  <2> QED BY <1>3, <2>1, <2>2 DEF GrammarMade
<1>7. j.prod = k /\ j.dot = 0 /\ j.la = t
  BY <1>2
<1>8. j \in [prod : DOMAIN productions, dot : Nat, la : Lookaheads]
  BY <1>2, <1>3, <1>4
<1>9. j \in Items
  BY <1>5, <1>6, <1>7, <1>8 DEF Items
<1> QED BY <1>1, <1>3, <1>7, <1>9

\* An item of the set under construction is closed: what it predicts is an item
\* with the dot in front.
LEMMA CloseItemStep == ASSUME GInv, CloseItem PROVE GInv'
<1> DEFINE i == CHOOSE i \in candidate.pending : TRUE
           closure == candidate.closure \cup {i}
           pending == (candidate.pending \cup Predicted(i)) \ closure
<1>0. /\ UNCHANGED tableVars /\ UNCHANGED <<phase, states, queue, scan, lalrVars>>
      /\ candidate.pending # {}
      /\ candidate' = [candidate EXCEPT !.closure = closure, !.pending = pending]
  BY DEF CloseItem
<1>1. i \in candidate.pending
  BY <1>0
<1>2. candidate # Nobody /\ phase = "itemsets" /\ GrammarMade /\ grammar \in Grammars
  BY <1>0 DEF GInv, CandidateMade, PhaseMade, Nobody
<1>3. candidate \in [kernel : SUBSET Items, closure : SUBSET Items, pending : SUBSET Items,
                    from : Nat, symbol : Symbols \cup {NONE}]
  BY DEF GInv, CandidateMade
<1>4. i \in Items /\ Predicted(i) \subseteq Items
  BY <1>1, <1>2, <1>3, PredictedFacts
<1>5. closure \cup pending = candidate.closure \cup candidate.pending \cup Predicted(i)
  BY <1>1
<1>6. closure \subseteq Items /\ pending \subseteq Items
  BY <1>3, <1>4
<1>7. Grounded(candidate.kernel, closure \cup pending)
  <2> DEFINE old == candidate.closure \cup candidate.pending
  <2> SUFFICES ASSUME NEW j \in closure \cup pending, j \notin candidate.kernel
               PROVE  /\ j.dot = 0
                      /\ \E o \in closure \cup pending :
                           ~IsDone(o) /\ NextSymbol(o) = productions[j.prod].target
    BY DEF Grounded
  <2>1. CASE j \in old
    <3>1. Grounded(candidate.kernel, old)
      BY <1>2 DEF GInv, CandidateMade
    <3> QED BY <1>5, <2>1, <3>1 DEF Grounded
  <2>2. CASE j \in Predicted(i)
    <3>1. i \in closure \cup pending
      BY <1>1
    <3> QED BY <1>2, <1>4, <2>2, <3>1, PredictedFacts
  <2> QED BY <1>5, <2>1, <2>2
<1> HIDE DEF i, closure, pending
<1>8. /\ candidate'.kernel = candidate.kernel /\ candidate'.from = candidate.from
      /\ candidate'.symbol = candidate.symbol
      /\ candidate'.closure = closure /\ candidate'.pending = pending
      /\ candidate' \in [kernel : SUBSET Items, closure : SUBSET Items, pending : SUBSET Items,
                    from : Nat, symbol : Symbols \cup {NONE}]
  BY <1>0, <1>3, <1>6
<1>9. candidate' # Nobody
  <2>1. candidate.kernel # {}
    BY <1>2 DEF GInv, CandidateMade
  <2> QED BY <1>8, <2>1 DEF Nobody
<1>10. CandidateMade'
  <2>1. candidate'.kernel # {} /\ candidate'.kernel \subseteq candidate'.closure \cup candidate'.pending
    BY <1>2, <1>5, <1>8 DEF GInv, CandidateMade
  <2>2. Grounded(candidate'.kernel, candidate'.closure \cup candidate'.pending)
    BY <1>7, <1>8
  <2>3. Grounded(candidate.kernel, candidate.closure \cup candidate.pending)'
    BY <1>0, <2>2, Fixed
  <2>4. IF states = <<>> THEN candidate.from = 0 /\ candidate.kernel = {RootItem}
          ELSE /\ candidate.from \in DOMAIN states
               /\ candidate.symbol \in SymbolsAfterDots(states[candidate.from].closure)
               /\ candidate.kernel = GotoKernel(states[candidate.from].closure, candidate.symbol)
    BY <1>2 DEF GInv, CandidateMade
  <2>5. (IF states = <<>> THEN candidate.from = 0 /\ candidate.kernel = {RootItem}
          ELSE /\ candidate.from \in DOMAIN states
               /\ candidate.symbol \in SymbolsAfterDots(states[candidate.from].closure)
               /\ candidate.kernel = GotoKernel(states[candidate.from].closure, candidate.symbol))'
    BY <1>0, <1>8, <2>4, Fixed
  <2> QED BY <1>0, <1>2, <1>8, <2>1, <2>3, <2>5, Fixed DEF CandidateMade
<1>11. WorkLeft'
  <2>1. \A q \in DOMAIN states : Followed(q)' = Followed(q)
    BY <1>0, <1>2, <1>8, <1>9 DEF Followed
  <2> QED BY <1>0, <2>1, Fixed DEF GInv, WorkLeft
<1>12. PhaseMade'
  BY <1>0, <1>2, <1>9, Fixed DEF GInv, PhaseMade, tableVars
<1>13. StatesMade' /\ ReductionsMade'
  BY <1>0, SameStates DEF GInv
<1>14. ActionsMade' /\ LalrMade'
  BY <1>0, <1>2 DEF ActionsMade, LalrMade
<1> QED BY <1>0, <1>10, <1>11, <1>12, <1>13, <1>14 DEF GInv, tableVars

\* The shape of the tables, as the steps use it.
LEMMA TableFacts ==
  ASSUME GInv, phase # "configure"
  PROVE  /\ GrammarMade /\ grammar \in Grammars /\ type \in {"LALR1", "LR1"}
         /\ Len(states) \in Nat /\ DOMAIN states = 1 .. Len(states)
         /\ states \in Seq(Range(states))
         /\ \A q \in DOMAIN states :
              /\ ItemSetMade(states[q])
              /\ states[q].kernel \subseteq states[q].closure /\ states[q].closure \subseteq Items
              /\ SymbolsAfterDots(states[q].closure) \subseteq Symbols
<1>1. GrammarMade /\ grammar \in Grammars /\ type \in {"LALR1", "LR1"}
  BY GrammarAssumption DEF GInv, PhaseMade
<1>2. /\ states \in Seq(Range(states))
      /\ \A q \in DOMAIN states : ItemSetMade(states[q])
  BY DEF GInv, StatesMade
<1>3. \A q \in DOMAIN states :
        states[q].kernel \subseteq states[q].closure /\ states[q].closure \subseteq Items
  BY <1>2 DEF ItemSetMade
<1>4. \A q \in DOMAIN states : SymbolsAfterDots(states[q].closure) \subseteq Symbols
  BY <1>1, <1>3, GotoFacts
<1> QED BY <1>1, <1>2, <1>3, <1>4

\* A step of the worklist that leaves the states alone.
LEMMA WorklistKeeps ==
  ASSUME GInv, UNCHANGED tableVars, UNCHANGED <<phase, states, lalrVars>>, phase = "itemsets"
  PROVE  /\ grammar' \in Grammars /\ type' \in grammar'.types
         /\ StatesMade' /\ ReductionsMade' /\ ActionsMade' /\ LalrMade'
         /\ (states # <<>> \/ candidate' # Nobody) => PhaseMade'
<1>1. StatesMade' /\ ReductionsMade'
  BY SameStates DEF GInv
<1>2. ActionsMade' /\ LalrMade'
  BY DEF ActionsMade, LalrMade
<1>3. (states # <<>> \/ candidate' # Nobody) => PhaseMade'
  BY Fixed DEF GInv, PhaseMade, tableVars
<1> QED BY <1>1, <1>2, <1>3 DEF GInv, tableVars

\* The next state of the list is taken: its symbols are to be followed.
LEMMA PopStateStep == ASSUME GInv, PopState PROVE GInv'
<1> DEFINE x == Head(queue)
           S == SymbolsAfterDots(states[x].closure)
<1>0. /\ UNCHANGED tableVars /\ UNCHANGED <<phase, states, candidate, lalrVars>>
      /\ phase = "itemsets" /\ candidate = Nobody /\ scan.symbols = {} /\ queue # <<>>
      /\ scan' = [state |-> x, symbols |-> S] /\ queue' = Tail(queue)
  BY DEF PopState
<1>1. /\ queue \in Seq(DOMAIN states)
      /\ \A q \in DOMAIN states :
           q \in Range(queue) \/ SymbolsAfterDots(states[q].closure) \subseteq Followed(q)
      /\ states # <<>> /\ CandidateMade
  BY <1>0 DEF GInv, WorkLeft, PhaseMade
<1>2. /\ x \in DOMAIN states /\ queue' \in Seq(DOMAIN states)
      /\ \A y \in Range(queue) : y = x \/ y \in Range(queue')
  <2>1. /\ x \in DOMAIN states /\ Tail(queue) \in Seq(DOMAIN states) /\ x = queue[1]
        /\ Len(queue) \in Nat \ {0} /\ DOMAIN queue = 1 .. Len(queue)
        /\ DOMAIN Tail(queue) = 1 .. Len(queue) - 1
        /\ \A k \in 1 .. Len(queue) - 1 : Tail(queue)[k] = queue[k + 1]
    BY <1>0, <1>1
  <2>2. ASSUME NEW k \in DOMAIN queue, k # 1
        PROVE  k - 1 \in DOMAIN Tail(queue) /\ Tail(queue)[k - 1] = queue[k]
    <3>1. k - 1 \in 1 .. Len(queue) - 1 /\ (k - 1) + 1 = k
      BY <2>1, <2>2
    <3> QED BY <2>1, <3>1
  <2>3. ASSUME NEW y \in Range(queue), y # x
        PROVE  y \in Range(Tail(queue))
    <3>1. PICK k \in DOMAIN queue : queue[k] = y
      BY DEF Range
    <3>2. k # 1
      BY <2>1, <2>3, <3>1
    <3> QED BY <2>2, <3>1, <3>2 DEF Range
  <2> QED BY <1>0, <2>1, <2>3
<1>3. S \subseteq Symbols /\ DOMAIN states \subseteq Nat
  BY <1>0, <1>2, TableFacts
<1> HIDE DEF x, S
<1>4. WorkLeft'
  <2>1. scan' \in [state : Nat, symbols : SUBSET Symbols] /\ scan'.state = x /\ scan'.symbols = S
    BY <1>0, <1>2, <1>3
  <2>2. ASSUME NEW q \in DOMAIN states
        PROVE  q \in Range(queue') \/ SymbolsAfterDots(states[q].closure) \subseteq Followed(q)'
    <3>1. CASE q = x
      BY <1>0, <2>1, <3>1 DEF S, Followed
    <3>2. CASE q # x
      <4>1. Followed(q) \subseteq Followed(q)'
        BY <1>0, <2>1, <3>2 DEF Followed
      <4> QED BY <1>1, <1>2, <3>2, <4>1
    <3> QED BY <3>1, <3>2
  <2> QED BY <1>0, <1>2, <2>1, <2>2, Fixed DEF WorkLeft, S
<1>5. CandidateMade'
  BY <1>0, <1>1, Fixed DEF CandidateMade
<1> QED BY <1>0, <1>1, <1>4, <1>5, WorklistKeeps DEF GInv

\* std::set has a least item with a symbol to follow.
LEMMA FirstOpen ==
  ASSUME GrammarMade, NEW open \in SUBSET Items, open # {}
  PROVE  \E i \in open : \A j \in open : i.prod < j.prod \/ (i.prod = j.prod /\ i.dot <= j.dot)
<1>1. \A i \in open : i.prod \in Nat /\ i.dot \in Nat
  BY ItemFacts DEF GrammarMade
<1> DEFINE P == {i.prod : i \in open}
<1>2. PICK p \in P : \A o \in P : p <= o
  <2>1. P \subseteq Nat /\ P # {}
    BY <1>1
  <2> HIDE DEF P
  <2> QED BY <2>1, LeastNat
<1> DEFINE D == {i.dot : i \in {j \in open : j.prod = p}}
<1>3. PICK d \in D : \A o \in D : d <= o
  <2>1. D \subseteq Nat /\ D # {}
    BY <1>1, <1>2
  <2> HIDE DEF D
  <2> QED BY <2>1, LeastNat
<1>4. PICK i \in open : i.prod = p /\ i.dot = d
  BY <1>3
<1>5. ASSUME NEW j \in open
      PROVE  i.prod < j.prod \/ (i.prod = j.prod /\ i.dot <= j.dot)
  <2>1. i.prod <= j.prod /\ i.prod \in Nat /\ j.prod \in Nat
    BY <1>1, <1>2, <1>4
  <2>2. CASE i.prod = j.prod
    BY <1>3, <1>4, <2>2
  <2> QED BY <2>1, <2>2
<1> QED BY <1>5

\* A symbol is followed: the item set behind it is begun.
LEMMA FollowSymbolStep == ASSUME GInv, FollowSymbol PROVE GInv'
<1> DEFINE closure == states[scan.state].closure
           open == {i \in closure : ~IsDone(i) /\ NextSymbol(i) \in scan.symbols}
           first == CHOOSE i \in open : \A j \in open :
                      i.prod < j.prod \/ (i.prod = j.prod /\ i.dot <= j.dot)
           s == NextSymbol(first)
           kernel == {Advanced(i) : i \in {j \in open : NextSymbol(j) = s}}
<1>0. /\ UNCHANGED tableVars /\ UNCHANGED <<phase, states, queue, lalrVars>>
      /\ phase = "itemsets" /\ candidate = Nobody /\ scan.symbols # {}
      /\ candidate' = Asked(kernel, scan.state, s)
      /\ scan' = [scan EXCEPT !.symbols = @ \ {s}]
  BY DEF FollowSymbol
<1>1. /\ scan.state \in DOMAIN states /\ scan.symbols \subseteq SymbolsAfterDots(closure)
      /\ scan \in [state : Nat, symbols : SUBSET Symbols]
      /\ queue \in Seq(DOMAIN states)
      /\ \A q \in DOMAIN states :
           q \in Range(queue) \/ SymbolsAfterDots(states[q].closure) \subseteq Followed(q)
      /\ states # <<>>
  BY <1>0 DEF GInv, WorkLeft
<1>2. GrammarMade /\ closure \subseteq Items /\ DOMAIN states \subseteq Nat
  BY <1>0, <1>1, TableFacts
<1>3. open # {} /\ open \subseteq Items
  BY <1>0, <1>1, <1>2 DEF SymbolsAfterDots
<1>4. first \in open
  <2> HIDE DEF open
  <2> QED BY <1>2, <1>3, FirstOpen
<1>5. s \in scan.symbols /\ s \in SymbolsAfterDots(closure)
  BY <1>1, <1>4
<1> HIDE DEF first, s
<1>6. kernel = GotoKernel(closure, s)
  <2>1. {j \in open : NextSymbol(j) = s} = {j \in closure : ~IsDone(j) /\ NextSymbol(j) = s}
    BY <1>5
  <2> QED BY <2>1 DEF GotoKernel
<1> HIDE DEF closure, open, kernel
<1>7. kernel \subseteq Items /\ kernel # {} /\ s \in Symbols
  BY <1>2, <1>5, <1>6, GotoFacts
<1>8. /\ candidate'.kernel = kernel /\ candidate'.closure = {} /\ candidate'.pending = kernel
      /\ candidate'.from = scan.state /\ candidate'.symbol = s
      /\ candidate' \in [kernel : SUBSET Items, closure : SUBSET Items, pending : SUBSET Items,
                         from : Nat, symbol : Symbols \cup {NONE}]
      /\ candidate' # Nobody
  <2>1. candidate' = [kernel |-> kernel, closure |-> {}, pending |-> kernel,
                      from |-> scan.state, symbol |-> s]
    BY <1>0 DEF Asked
  <2>2. scan.state \in Nat
    BY <1>1
  <2> QED BY <1>7, <2>1, <2>2 DEF Nobody
<1>9. CandidateMade'
  <2>1. Grounded(kernel, {} \cup kernel)
    BY DEF Grounded
  <2>2. Grounded(candidate.kernel, candidate.closure \cup candidate.pending)'
    BY <1>0, <1>8, <2>1, Fixed
  <2>3. /\ candidate'.from \in DOMAIN states
        /\ candidate'.symbol \in SymbolsAfterDots(states[candidate'.from].closure)
        /\ candidate'.kernel = GotoKernel(states[candidate'.from].closure, candidate'.symbol)
    BY <1>1, <1>5, <1>6, <1>8 DEF closure
  <2>4. (/\ candidate.from \in DOMAIN states
         /\ candidate.symbol \in SymbolsAfterDots(states[candidate.from].closure)
         /\ candidate.kernel = GotoKernel(states[candidate.from].closure, candidate.symbol))'
    BY <1>0, <2>3, Fixed
  <2> QED BY <1>0, <1>1, <1>7, <1>8, <2>2, <2>4, Fixed DEF CandidateMade
<1>10. WorkLeft'
  <2>1. /\ scan'.state = scan.state /\ scan'.symbols = scan.symbols \ {s}
        /\ scan' \in [state : Nat, symbols : SUBSET Symbols]
    BY <1>0, <1>1
  <2>2. \A q \in DOMAIN states : Followed(q) \subseteq Followed(q)'
    BY <1>0, <1>8, <2>1 DEF Followed
  <2>3. \A q \in DOMAIN states :
           q \in Range(queue) \/ SymbolsAfterDots(states[q].closure) \subseteq Followed(q)'
    BY <1>1, <2>2
  <2>4. scan'.state \in DOMAIN states /\ scan'.symbols \subseteq SymbolsAfterDots(states[scan'.state].closure)
    BY <1>1, <2>1 DEF closure
  <2> QED BY <1>0, <1>1, <2>1, <2>3, <2>4, Fixed DEF WorkLeft
<1> QED BY <1>0, <1>1, <1>9, <1>10, WorklistKeeps DEF GInv

\* The list is empty, and with it every transition made.
LEMMA ItemsetsDoneStep == ASSUME GInv, ItemsetsDone PROVE GInv'
<1>0. /\ UNCHANGED tableVars /\ UNCHANGED <<states, candidate, queue, lalrVars>>
      /\ phase = "itemsets" /\ candidate = Nobody /\ scan.symbols = {} /\ queue = <<>>
      /\ phase' = (IF type = "LALR1" THEN "reads" ELSE "actions") /\ scan' = NoScan
  BY DEF ItemsetsDone
<1>1. states # <<>> /\ GrammarMade /\ CandidateMade /\ WorkLeft
  BY <1>0 DEF GInv, PhaseMade
<1>2. PhaseMade'
  BY <1>0, <1>1, Fixed DEF PhaseMade, Phases, NoScan, tableVars
<1>3. WorkLeft'
  <2>1. scan' \in [state : Nat, symbols : SUBSET Symbols] /\ scan'.symbols = {}
    BY <1>0 DEF NoScan
  <2>2. \A q \in DOMAIN states : Followed(q) = Followed(q)'
    BY <1>0, <2>1 DEF Followed
  <2> QED BY <1>0, <1>1, <2>1, <2>2, Fixed DEF WorkLeft
<1>4. CandidateMade'
  BY <1>0, <1>1, Fixed DEF CandidateMade
<1>5. StatesMade' /\ ReductionsMade'
  BY <1>0, SameStates DEF GInv
<1>6. ActionsMade' /\ LalrMade'
  BY <1>0 DEF ActionsMade, LalrMade
<1> QED BY <1>0, <1>2, <1>3, <1>4, <1>5, <1>6 DEF GInv, tableVars

\* The closed item set becomes a state, or is one already; the transition that
\* asked for it leads there.
LEMMA RegisterStep == ASSUME GInv, Register PROVE GInv'
<1> DEFINE c == candidate
           n == Len(states)
           same == StatesWith(c.kernel)
           q == IF same = {} THEN n + 1 ELSE CHOOSE q \in same : TRUE
           new == [kernel |-> c.kernel, closure |-> c.closure, accept |-> Accepting(c.kernel),
                   next |-> <<>>, reductions |-> ReductionsOf(c.closure), actions |-> <<>>]
           all == IF same = {} THEN Append(states, new) ELSE states
           m == IF same = {} THEN n + 1 ELSE n
<1>0. /\ UNCHANGED tableVars /\ UNCHANGED <<phase, scan, lalrVars>>
      /\ c.kernel # {} /\ c.pending = {} /\ candidate' = Nobody
      /\ states' = IF c.from = 0 THEN all
                   ELSE [all EXCEPT ![c.from].next = Put(@, c.symbol, q)]
      /\ queue' = IF same = {} THEN Append(queue, q) ELSE queue
  BY DEF Register
<1>1. c # Nobody /\ phase = "itemsets" /\ GrammarMade
  <2>1. c # Nobody
    BY <1>0 DEF Nobody
  <2> QED BY <2>1 DEF GInv, CandidateMade, PhaseMade
<1>2. /\ c.kernel \subseteq c.closure /\ c.closure \subseteq Items
      /\ Grounded(c.kernel, c.closure) /\ c.from \in Nat
      /\ IF states = <<>> THEN c.from = 0 /\ c.kernel = {RootItem}
         ELSE /\ c.from \in DOMAIN states
              /\ c.symbol \in SymbolsAfterDots(states[c.from].closure)
              /\ c.kernel = GotoKernel(states[c.from].closure, c.symbol)
  <2>1. c.closure \cup c.pending = c.closure
    BY <1>0
  <2>2. /\ c.kernel \subseteq c.closure \cup c.pending
        /\ Grounded(c.kernel, c.closure \cup c.pending)
    BY <1>1 DEF GInv, CandidateMade
  <2>3. IF states = <<>> THEN c.from = 0 /\ c.kernel = {RootItem}
         ELSE /\ c.from \in DOMAIN states
              /\ c.symbol \in SymbolsAfterDots(states[c.from].closure)
              /\ c.kernel = GotoKernel(states[c.from].closure, c.symbol)
    BY <1>1 DEF GInv, CandidateMade
  <2>4. c.closure \subseteq Items /\ c.from \in Nat
    BY DEF GInv, CandidateMade
  <2> QED BY <2>1, <2>2, <2>3, <2>4
<1>3. /\ n \in Nat /\ DOMAIN states = 1 .. n
      /\ states \in Seq(Range(states))
      /\ \A x \in 1 .. n : states[x].closure \subseteq Items
  BY <1>1, TableFacts
<1>4. /\ all \in Seq(Range(states) \cup {new}) /\ Len(all) = m /\ DOMAIN all = 1 .. m
      /\ m \in Nat /\ \A x \in 1 .. n : all[x] = states[x]
      /\ same = {} => all[n + 1] = new
  <2> DEFINE S == Range(states) \cup {new}
  <2>1. states \in Seq(S) /\ new \in S
    BY <1>3
  <2> HIDE DEF S, new, same
  <2>2. Append(states, new) \in Seq(S) /\ Len(Append(states, new)) = n + 1
        /\ \A x \in 1 .. n : Append(states, new)[x] = states[x]
        /\ Append(states, new)[n + 1] = new
    BY <2>1, <1>3
  <2> QED BY <1>3, <2>1, <2>2 DEF S
<1>5. /\ q \in 1 .. m /\ all[q].kernel = c.kernel
      /\ m = n => same # {}
      /\ n <= m
      /\ m # n => m = n + 1 /\ same = {} /\ q = m /\ all[m] = new
  <2>1. CASE same = {}
    <3>1. q = n + 1 /\ m = n + 1 /\ all[n + 1] = new
      BY <1>4, <2>1
    <3>2. new.kernel = c.kernel
      OBVIOUS
    <3> HIDE DEF q, m, new, all, same
    <3>3. n \in Nat /\ n + 1 \in 1 .. n + 1 /\ n <= n + 1 /\ n + 1 # n
      <4>1. n \in Nat
        BY <1>3
      <4> HIDE DEF n
      <4> QED BY <4>1
    <3>4. all[q].kernel = c.kernel /\ all[m] = new
      BY <3>1, <3>2
    <3> QED BY <2>1, <3>1, <3>3, <3>4
  <2>2. CASE same # {}
    <3>1. q \in same
      BY <2>2
    <3>2. m = n /\ all = states
      BY <2>2
    <3> HIDE DEF q, m, all
    <3> QED BY <1>3, <2>2, <3>1, <3>2 DEF StatesWith
  <2> QED BY <1>3, <2>1, <2>2
<1>6. \A x \in 1 .. n : states[x].kernel = c.kernel => same # {}
  BY <1>3 DEF StatesWith
<1>7. new.kernel = c.kernel /\ new.closure = c.closure /\ new.next = <<>>
      /\ new.reductions = ReductionsOf(c.closure) /\ new.accept = Accepting(c.kernel)
  OBVIOUS
<1>8. ItemSetMade(new)
  BY <1>2 DEF ItemSetMade
<1>9. \A x \in 1 .. n : ItemSetMade(states[x])
  BY <1>1, <1>3, TableFacts
<1> HIDE DEF all, new, same, m, q
<1>10. /\ states' \in Seq(Range(states')) /\ Len(states') = m /\ DOMAIN states' = 1 .. m
       /\ \A x \in 1 .. m : x # c.from => states'[x] = all[x]
       /\ c.from # 0 => /\ c.from \in 1 .. n
                        /\ states'[c.from] = [all[c.from] EXCEPT !.next = Put(@, c.symbol, q)]
  <2>1. CASE c.from = 0
    <3>1. states' = all
      BY <1>0, <2>1
    <3>2. all \in Seq(Range(all))
      BY <1>4, OfItsOwn
    <3> QED BY <1>4, <2>1, <3>1, <3>2
  <2>2. CASE c.from # 0
    <3> DEFINE e == [all[c.from] EXCEPT !.next = Put(@, c.symbol, q)]
               S == Range(states) \cup {new} \cup {e}
    <3>1. c.from \in 1 .. n /\ c.from \in 1 .. m
      BY <1>2, <1>3, <1>5, <2>2
    <3>2. states' = [all EXCEPT ![c.from] = e]
      BY <1>0, <2>2
    <3>3. all \in Seq(S) /\ e \in S
      BY <1>4
    <3> HIDE DEF e, S
    <3>4. states' \in Seq(S) /\ Len(states') = m /\ DOMAIN states' = 1 .. m
          /\ states'[c.from] = e
          /\ \A x \in 1 .. m : x # c.from => states'[x] = all[x]
      BY <1>4, <3>1, <3>2, <3>3
    <3>5. states' \in Seq(Range(states'))
      BY <3>4, OfItsOwn
    <3> QED BY <3>1, <3>4, <3>5 DEF e
  <2> QED BY <2>1, <2>2
<1>11. \A x \in 1 .. m : ItemSetMade(all[x])
  <2> SUFFICES ASSUME NEW x \in 1 .. m PROVE ItemSetMade(all[x])
    OBVIOUS
  <2>1. CASE x \in 1 .. n
    BY <1>4, <1>9, <2>1
  <2>2. CASE x \notin 1 .. n
    BY <1>3, <1>5, <1>8, <2>2
  <2> QED BY <2>1, <2>2
\* In what the places of the new table differ from those of the old one.
<1>12. ASSUME NEW x \in 1 .. m
       PROVE  /\ states'[x].kernel = all[x].kernel /\ states'[x].closure = all[x].closure
              /\ states'[x].accept = all[x].accept
              /\ states'[x].reductions = all[x].reductions
              /\ states'[x].actions = all[x].actions
              /\ states'[x].next = IF x = c.from THEN Put(all[x].next, c.symbol, q) ELSE all[x].next
              /\ ItemSetMade(states'[x])
  <2>1. all[x] = [kernel |-> all[x].kernel, closure |-> all[x].closure, accept |-> all[x].accept,
                  next |-> all[x].next, reductions |-> all[x].reductions, actions |-> all[x].actions]
    BY <1>11 DEF ItemSetMade
  <2>2. CASE x = c.from
    <3> DEFINE p == Put(all[x].next, c.symbol, q)
    <3>1. states'[x] = [all[x] EXCEPT !.next = p]
      BY <1>3, <1>10, <2>2
    <3> HIDE DEF p
    <3>2. states'[x] = [kernel |-> all[x].kernel, closure |-> all[x].closure, accept |-> all[x].accept,
                  next |-> p, reductions |-> all[x].reductions, actions |-> all[x].actions]
      BY <2>1, <3>1
    <3>3. /\ states'[x].kernel = all[x].kernel /\ states'[x].closure = all[x].closure
          /\ states'[x].accept = all[x].accept
          /\ states'[x].reductions = all[x].reductions
          /\ states'[x].actions = all[x].actions
          /\ states'[x].next = p
      BY <3>2
    <3>4. ItemSetMade(states'[x])
      BY <1>11, <3>2, <3>3 DEF ItemSetMade
    <3> QED BY <2>2, <3>3, <3>4 DEF p
  <2>3. CASE x # c.from
    BY <1>10, <1>11, <2>3
  <2> QED BY <2>2, <2>3
<1>13. ASSUME NEW x \in 1 .. m
       PROVE  /\ x = 1 => all[x].kernel = {RootItem}
              /\ x # 1 => \A i \in all[x].kernel : i.dot > 0
  <2>1. CASE x \in 1 .. n
    BY <1>3, <1>4, <2>1 DEF GInv, StatesMade
  <2>2. CASE x \notin 1 .. n
    <3>1. x = n + 1 /\ all[x].kernel = c.kernel
      BY <1>3, <1>5, <1>7, <2>2
    <3>2. CASE states = <<>>
      BY <1>2, <1>3, <3>1, <3>2
    <3>3. CASE states # <<>>
      <4>1. n # 0
        BY <1>3, <3>3
      <4>2. c.from \in 1 .. n
        BY <1>2, <1>3, <3>3
      <4>3. states[c.from].closure \in SUBSET Items
        BY <1>3, <4>2
      <4>4. \A i \in c.kernel : i.dot > 0
        BY <1>1, <1>2, <3>3, <4>3, GotoFacts
      <4> QED BY <1>3, <3>1, <4>1, <4>4
    <3> QED BY <3>2, <3>3
  <2> QED BY <2>1, <2>2
<1>14. ASSUME NEW x \in 1 .. m, NEW y \in 1 .. m, all[x].kernel = all[y].kernel
       PROVE  x = y
  <2>1. CASE x \in 1 .. n /\ y \in 1 .. n
    BY <1>3, <1>4, <1>14, <2>1 DEF GInv, StatesMade
  <2>2. CASE x \notin 1 .. n /\ y \notin 1 .. n
    BY <1>3, <1>5, <2>2
  <2>3. CASE x \in 1 .. n /\ y \notin 1 .. n
    <3>1. all[y].kernel = c.kernel /\ same = {}
      BY <1>3, <1>5, <1>7, <2>3
    <3>2. states[x].kernel = c.kernel
      BY <1>4, <1>14, <2>3, <3>1
    <3> QED BY <1>6, <2>3, <3>1, <3>2
  <2>4. CASE x \notin 1 .. n /\ y \in 1 .. n
    <3>1. all[x].kernel = c.kernel /\ same = {}
      BY <1>3, <1>5, <1>7, <2>4
    <3>2. states[y].kernel = c.kernel
      BY <1>4, <1>14, <2>4, <3>1
    <3> QED BY <1>6, <2>4, <3>1, <3>2
  <2> QED BY <2>1, <2>2, <2>3, <2>4
<1>15. ASSUME NEW x \in 1 .. m, NEW s \in DOMAIN states'[x].next
       PROVE  /\ states'[x].next[s] \in 1 .. m
              /\ s \in SymbolsAfterDots(all[x].closure)
              /\ all[states'[x].next[s]].kernel = GotoKernel(all[x].closure, s)
  <2>1. CASE s \in DOMAIN all[x].next /\ states'[x].next[s] = all[x].next[s]
    <3>1. x \in 1 .. n
      <4>1. DOMAIN new.next = {}
        BY <1>7
      <4> QED BY <1>3, <1>5, <2>1, <4>1
    <3>2. /\ Goto(x, s) \in 1 .. n
          /\ s \in SymbolsAfterDots(states[x].closure)
          /\ states[Goto(x, s)].kernel = GotoKernel(states[x].closure, s)
      BY <1>3, <1>4, <2>1, <3>1 DEF GInv, StatesMade
    <3>3. n <= m /\ all[x] = states[x] /\ Goto(x, s) = all[x].next[s]
      BY <1>3, <1>4, <1>5, <3>1 DEF Goto
    <3> QED BY <1>3, <1>4, <2>1, <3>2, <3>3
  <2>2. CASE x = c.from /\ s = c.symbol /\ states'[x].next[s] = q
    <3>1. c.from \in 1 .. n /\ states # <<>>
      BY <1>2, <1>3, <2>2
    <3> QED BY <1>2, <1>4, <1>5, <2>2, <3>1
  <2>3. \/ s \in DOMAIN all[x].next /\ states'[x].next[s] = all[x].next[s]
        \/ x = c.from /\ s = c.symbol /\ states'[x].next[s] = q
    <3> DEFINE p == Put(all[x].next, c.symbol, q)
    <3>1. /\ DOMAIN p = DOMAIN all[x].next \cup {c.symbol}
          /\ p[c.symbol] = q
          /\ \A t \in DOMAIN all[x].next : t # c.symbol => p[t] = all[x].next[t]
      BY DEF Put
    <3>2. states'[x].next = IF x = c.from THEN p ELSE all[x].next
      BY <1>12
    <3> HIDE DEF p
    <3> QED BY <3>1, <3>2
  <2> QED BY <2>1, <2>2, <2>3
<1>16. StatesMade'
  <2>1. \A x \in DOMAIN states' :
          /\ ItemSetMade(states'[x])
          /\ x = 1 => states'[x].kernel = {RootItem}
          /\ x # 1 => \A i \in states'[x].kernel : i.dot > 0
    BY <1>10, <1>12, <1>13
  <2>2. \A x, y \in DOMAIN states' : states'[x].kernel = states'[y].kernel => x = y
    BY <1>10, <1>12, <1>14
  <2>3. \A x \in DOMAIN states' : \A s \in DOMAIN states'[x].next :
          /\ states'[x].next[s] \in DOMAIN states'
          /\ s \in SymbolsAfterDots(states'[x].closure)
          /\ states'[states'[x].next[s]].kernel = GotoKernel(states'[x].closure, s)
    BY <1>10, <1>12, <1>15
  <2>4. /\ \A x \in DOMAIN states' : ItemSetMade(states[x])'
        /\ RootItem' = RootItem
    BY <1>0, <2>1, Fixed
  <2>5. (\A x \in DOMAIN states : \A s \in DOMAIN states[x].next :
          /\ Goto(x, s) \in DOMAIN states
          /\ s \in SymbolsAfterDots(states[x].closure)
          /\ states[Goto(x, s)].kernel = GotoKernel(states[x].closure, s))'
    <3>1. \A x, s : /\ SymbolsAfterDots(states[x].closure)' = SymbolsAfterDots(states'[x].closure)
                    /\ GotoKernel(states[x].closure, s)' = GotoKernel(states'[x].closure, s)
      BY <1>0, Fixed
    <3>2. \A x, s : Goto(x, s)' = states'[x].next[s]
      BY DEF Goto
    <3> QED BY <2>3, <3>1, <3>2
  <2> QED BY <1>10, <2>1, <2>2, <2>4, <2>5 DEF StatesMade
<1>17. WorkLeft'
  <2>1. /\ queue \in Seq(DOMAIN states) /\ scan \in [state : Nat, symbols : SUBSET Symbols]
        /\ scan.symbols # {} =>
             scan.state \in DOMAIN states /\ scan.symbols \subseteq SymbolsAfterDots(states[scan.state].closure)
        /\ \A x \in DOMAIN states :
             x \in Range(queue) \/ SymbolsAfterDots(states[x].closure) \subseteq Followed(x)
    BY DEF GInv, WorkLeft
  <2>2. 1 .. n \subseteq 1 .. m
    BY <1>3, <1>5
  <2>3. queue' \in Seq(1 .. m) /\ Range(queue) \subseteq Range(queue') /\ (m # n => m \in Range(queue'))
    <3>1. queue \in Seq(1 .. m)
      BY <1>3, <2>1, <2>2, SeqMonotonic
    <3>2. CASE same = {}
      <4>1. queue' = Append(queue, q) /\ q \in 1 .. m
        BY <1>0, <1>5, <3>2
      <4>2. /\ queue' \in Seq(1 .. m) /\ DOMAIN queue' = 1 .. Len(queue) + 1
            /\ DOMAIN queue = 1 .. Len(queue) /\ Len(queue) \in Nat
            /\ \A k \in 1 .. Len(queue) : queue'[k] = queue[k]
            /\ queue'[Len(queue) + 1] = q
        BY <3>1, <4>1
      <4>3. \A k \in DOMAIN queue : k \in DOMAIN queue'
        BY <4>2
      <4>4. Len(queue) + 1 \in DOMAIN queue'
        BY <4>2
      <4> QED BY <1>5, <4>2, <4>3, <4>4 DEF Range
    <3>3. CASE same # {}
      BY <1>0, <1>5, <3>1, <3>3
    <3> QED BY <3>2, <3>3
  <2>4. ASSUME NEW x \in 1 .. m
        PROVE  x \in Range(queue') \/ SymbolsAfterDots(states'[x].closure) \subseteq Followed(x)'
    <3>1. CASE x \in 1 .. n
      <4>1. states'[x].closure = states[x].closure
        BY <1>4, <1>12, <3>1
      <4>2. Followed(x) \subseteq Followed(x)'
        <5>1. /\ DOMAIN states[x].next \subseteq DOMAIN states'[x].next
              /\ x = c.from => c.symbol \in DOMAIN states'[x].next
          <6> DEFINE p == Put(all[x].next, c.symbol, q)
          <6>1. DOMAIN p = DOMAIN all[x].next \cup {c.symbol}
            BY DEF Put
          <6>2. states'[x].next = IF x = c.from THEN p ELSE all[x].next
            BY <1>12
          <6> HIDE DEF p
          <6> QED BY <1>4, <3>1, <6>1, <6>2
        <5> QED BY <1>0, <1>1, <5>1 DEF Followed
      <4> QED BY <1>3, <2>1, <2>3, <3>1, <4>1, <4>2
    <3>2. CASE x \notin 1 .. n
      BY <1>3, <1>5, <2>3, <3>2
    <3> QED BY <3>1, <3>2
  <2>5. scan.symbols # {} =>
          scan.state \in 1 .. m /\ scan.symbols \subseteq SymbolsAfterDots(states'[scan.state].closure)
    BY <1>3, <1>4, <1>12, <2>1, <2>2
  <2>6. (\A x \in DOMAIN states :
            x \in Range(queue) \/ SymbolsAfterDots(states[x].closure) \subseteq Followed(x))'
    BY <1>0, <1>10, <2>4, Fixed
  <2>7. (scan.symbols # {} =>
          scan.state \in DOMAIN states /\ scan.symbols \subseteq SymbolsAfterDots(states[scan.state].closure))'
    BY <1>0, <1>10, <2>5, Fixed
  <2>8. (scan \in [state : Nat, symbols : SUBSET Symbols])'
    BY <1>0, <2>1, Fixed
  <2> QED BY <1>10, <2>3, <2>6, <2>7, <2>8 DEF WorkLeft
<1>18. ReductionsMade'
  <2>1. ASSUME NEW x \in 1 .. m, NEW s \in DOMAIN all[x].reductions
        PROVE  /\ s \in terminals /\ all[x].reductions[s] # {}
               /\ \A k \in all[x].reductions[s] :
                    /\ k = Len(productions) => s = END
                    /\ \E i \in all[x].closure : IsDone(i) /\ i.prod = k
    <3>1. CASE x \in 1 .. n
      BY <1>3, <1>4, <2>1, <3>1 DEF GInv, ReductionsMade
    <3>2. CASE x \notin 1 .. n
      <4>1. all[x].reductions = ReductionsOf(c.closure) /\ all[x].closure = c.closure
        BY <1>3, <1>5, <1>7, <3>2
      <4> DEFINE done == {i \in c.closure : IsDone(i)}
      <4>2. type = "LR1"
        BY <1>1, <2>1, <4>1, TableFacts DEF ReductionsOf
      <4>3. ReductionsOf(c.closure) =
              [t \in {i.la : i \in done} |-> {i.prod : i \in {j \in done : j.la = t}}]
        BY <4>2 DEF ReductionsOf
      <4>4. \A i \in done : i.la \in terminals /\ (i.prod = Len(productions) => i.la = END)
        BY <1>1, <1>2, <4>2, ItemFacts DEF Lookaheads
      <4>5. s \in {i.la : i \in done} /\ all[x].reductions[s] = {i.prod : i \in {j \in done : j.la = s}}
        BY <2>1, <4>1, <4>3
      <4>6. PICK i \in done : i.la = s
        BY <4>5
      <4>7. all[x].reductions[s] # {}
        BY <4>5, <4>6
      <4>8. \A k \in all[x].reductions[s] :
              \E o \in c.closure : IsDone(o) /\ o.prod = k /\ o.la = s
        BY <4>5
      <4> QED BY <4>1, <4>4, <4>6, <4>7, <4>8
    <3> QED BY <3>1, <3>2
  <2> QED BY <1>0, <1>10, <1>12, <2>1, Fixed DEF ReductionsMade, tableVars
<1>19. CandidateMade'
  BY <1>0 DEF CandidateMade, Nobody
<1>20. PhaseMade'
  <2>1. states' # <<>>
    <3>1. 1 \in DOMAIN states'
      BY <1>5, <1>10, <1>4
    <3> QED BY <3>1
  <2> QED BY <1>0, <1>1, <2>1, Fixed DEF PhaseMade, Phases
<1>21. ActionsMade' /\ LalrMade'
  BY <1>0, <1>1 DEF ActionsMade, LalrMade
<1> QED BY <1>0, <1>16, <1>17, <1>18, <1>19, <1>20, <1>21 DEF GInv, tableVars

-----------------------------------------------------------------------------
(* LALR(1) relations, reductions and actions                                *)

\* All item sets are made.
AutomatonMade == phase \notin {"configure", "itemsets"}

\* Every symbol after a dot has been followed once the worklist is empty.
LEMMA AllFollowed ==
  ASSUME GInv, AutomatonMade, NEW q \in DOMAIN states
  PROVE  SymbolsAfterDots(states[q].closure) \subseteq DOMAIN states[q].next
<1>1. queue = <<>> /\ scan.symbols = {} /\ candidate = Nobody
  BY DEF GInv, PhaseMade, CandidateMade, AutomatonMade
<1>2. Range(queue) = {}
  BY <1>1 DEF Range
<1>3. Followed(q) = DOMAIN states[q].next
  BY <1>1 DEF Followed
<1> QED BY <1>2, <1>3 DEF GInv, WorkLeft

\* Following the symbol after an item's dot leads to a state that has the item advanced.
LEMMA GotoMoves ==
  ASSUME GInv, AutomatonMade, NEW q \in DOMAIN states, NEW i \in states[q].closure, ~IsDone(i)
  PROVE  /\ NextSymbol(i) \in DOMAIN states[q].next
         /\ Goto(q, NextSymbol(i)) \in DOMAIN states
         /\ [prod |-> i.prod, dot |-> i.dot + 1, la |-> i.la]
              \in states[Goto(q, NextSymbol(i))].closure
<1> DEFINE s == NextSymbol(i)
<1>1. s \in DOMAIN states[q].next
  BY AllFollowed DEF SymbolsAfterDots
<1>2. Goto(q, s) \in DOMAIN states /\ states[Goto(q, s)].kernel = GotoKernel(states[q].closure, s)
  BY <1>1 DEF GInv, StatesMade
<1>3. GrammarMade /\ states[q].closure \subseteq Items
      /\ states[Goto(q, s)].kernel \subseteq states[Goto(q, s)].closure
  BY <1>2, TableFacts DEF AutomatonMade
<1>4. Advanced(i) = [prod |-> i.prod, dot |-> i.dot + 1, la |-> i.la]
  BY <1>3, ItemFacts
<1>5. Advanced(i) \in GotoKernel(states[q].closure, s)
  BY DEF GotoKernel
<1> QED BY <1>1, <1>2, <1>3, <1>4, <1>5

\* After is the end of a path, of any function that goes along it.
LEMMA AfterEnds ==
  ASSUME NEW q, NEW w, NEW n \in Nat, NEW f, f[0] = q, \A k \in 1 .. n : f[k] = Goto(f[k - 1], w[k])
  PROVE  After(q, w, n) = f[n]
<1> DEFINE Eq(at) == at = [k \in 0 .. n |-> IF k = 0 THEN q ELSE Goto(at[k - 1], w[k])]
           at == CHOOSE h : Eq(h)
<1>0. After(q, w, n) = at[n]
  BY DEF After
<1>1. \A k \in 0 .. n : k = 0 \/ (k \in 1 .. n /\ k - 1 \in 0 .. n)
  OBVIOUS
<1> DEFINE h == [k \in 0 .. n |-> f[k]]
<1>2. Eq(h)
  <2> SUFFICES ASSUME NEW k \in 0 .. n PROVE f[k] = IF k = 0 THEN q ELSE Goto(h[k - 1], w[k])
    OBVIOUS
  <2> QED BY <1>1
<1>3. Eq(at)
  <2> HIDE DEF Eq, h
  <2> QED BY <1>2
<1> HIDE DEF at
<1> DEFINE S == {k \in 0 .. n : at[k] = f[k]}
<1>4. 0 \in S
  BY <1>3
<1>5. \A k \in 1 .. n : k - 1 \in S => k \in S
  <2> TAKE k \in 1 .. n
  <2>1. k \in 0 .. n /\ k # 0
    OBVIOUS
  <2>2. at[k] = Goto(at[k - 1], w[k])
    BY <1>3, <2>1
  <2> QED BY <2>1, <2>2
<1>6. 0 .. n \subseteq S
  <2> HIDE DEF S
  <2> QED BY <1>4, <1>5, UpTo
<1>7. n \in 0 .. n
  OBVIOUS
<1> QED BY <1>0, <1>6, <1>7

\* f goes from q along w, through states that have item i advanced by as many symbols.
Goes(f, q, i, w, n) ==
  /\ f[0] = q /\ \A k \in 1 .. n : f[k] = Goto(f[k - 1], w[k])
  /\ \A k \in 0 .. n :
       /\ f[k] \in DOMAIN states
       /\ [prod |-> i.prod, dot |-> i.dot + k, la |-> i.la] \in states[f[k]].closure

\* There is a way along what is after the dot.
LEMMA AfterPath ==
  ASSUME GInv, AutomatonMade, NEW q \in DOMAIN states, NEW i \in states[q].closure,
         NEW w, NEW n \in Nat, i.dot + n <= Len(SymbolsOf(i.prod)),
         \A k \in 1 .. n : w[k] = SymbolsOf(i.prod)[i.dot + k]
  PROVE  \E f : Goes(f, q, i, w, n)
<1> DEFINE item(k) == [prod |-> i.prod, dot |-> i.dot + k, la |-> i.la]
           D == [k \in 0 .. n |-> {x \in DOMAIN states : item(k) \in states[x].closure}]
           F == [k \in 1 .. n |-> [x \in DOMAIN states |-> Goto(x, w[k])]]
<1>1. /\ GrammarMade /\ i \in Items /\ i.dot \in Nat
      /\ Len(SymbolsOf(i.prod)) \in Nat /\ i = item(0)
  <2>1. GrammarMade /\ i \in Items
    BY TableFacts DEF AutomatonMade
  <2>2. i.dot \in Nat /\ Len(SymbolsOf(i.prod)) \in Nat
        /\ i = [prod |-> i.prod, dot |-> i.dot, la |-> i.la]
    BY <2>1, ItemFacts
  <2>3. i.dot + 0 = i.dot
    BY <2>2
  <2> QED BY <2>1, <2>2, <2>3
<1>2. ASSUME NEW k \in 1 .. n, NEW x \in DOMAIN states, item(k - 1) \in states[x].closure
      PROVE  Goto(x, w[k]) \in DOMAIN states /\ item(k) \in states[Goto(x, w[k])].closure
  <2> DEFINE j == item(k - 1)
  <2>1. j.prod = i.prod /\ j.dot = i.dot + (k - 1) /\ j.la = i.la
    OBVIOUS
  <2>2. j.dot + 1 = i.dot + k /\ j.dot # Len(SymbolsOf(i.prod))
    BY <1>1, <2>1
  <2> HIDE DEF j
  <2>3. ~IsDone(j) /\ NextSymbol(j) = w[k]
    BY <2>1, <2>2 DEF IsDone, NextSymbol
  <2>4. Goto(x, NextSymbol(j)) \in DOMAIN states
        /\ [prod |-> j.prod, dot |-> j.dot + 1, la |-> j.la] \in states[Goto(x, NextSymbol(j))].closure
    BY <1>2, <2>3, GotoMoves DEF j
  <2> QED BY <2>1, <2>2, <2>3, <2>4
<1> HIDE DEF item
<1>3. Leads(F, D, n)
  <2>1. \A k \in 1 .. n : k - 1 \in 0 .. n /\ k \in 0 .. n
    OBVIOUS
  <2> QED BY <1>2, <2>1 DEF Leads
<1>4. q \in D[0]
  BY <1>1
<1>5. \A k \in 1 .. n : \A x \in D[k - 1] : x \in DOMAIN states /\ F[k][x] = Goto(x, w[k])
  BY DEF F
<1>6. PICK f : Iterates(f, q, F, D, n)
  <2> HIDE DEF D, F
  <2> QED BY <1>3, <1>4, Iteration
<1>7. f[0] = q /\ \A k \in 1 .. n : f[k] = Goto(f[k - 1], w[k])
  <2> HIDE DEF D, F
  <2> QED BY <1>5, <1>6 DEF Iterates
<1> DEFINE S == {k \in 0 .. n : f[k] \in D[k]}
<1>8. 0 \in S
  BY <1>4, <1>7
<1>9. \A k \in 1 .. n : k - 1 \in S => k \in S
  <2> TAKE k \in 1 .. n
  <2> HAVE k - 1 \in S
  <2>1. k \in 0 .. n /\ k # 0 /\ k - 1 \in 0 .. n
    OBVIOUS
  <2>2. f[k - 1] \in DOMAIN states /\ item(k - 1) \in states[f[k - 1]].closure
    BY <2>1
  <2>3. f[k] \in DOMAIN states /\ item(k) \in states[f[k]].closure
    BY <1>2, <1>7, <2>2
  <2> QED BY <2>1, <2>3
<1>10. 0 .. n \subseteq S
  <2> HIDE DEF S
  <2> QED BY <1>8, <1>9, UpTo
<1>11. \A k \in 0 .. n : f[k] \in DOMAIN states /\ item(k) \in states[f[k]].closure
  BY <1>10
<1>12. Goes(f, q, i, w, n)
  BY <1>7, <1>11 DEF item, Goes
<1> QED BY <1>12

\* The last of these states has the item advanced, and a symbol further is one
\* transition more.
LEMMA AfterMoves ==
  ASSUME GInv, AutomatonMade, NEW q \in DOMAIN states, NEW i \in states[q].closure,
         NEW w, NEW n \in Nat, i.dot + n <= Len(SymbolsOf(i.prod)),
         \A k \in 1 .. n : w[k] = SymbolsOf(i.prod)[i.dot + k]
  PROVE  /\ After(q, w, n) \in DOMAIN states
         /\ [prod |-> i.prod, dot |-> i.dot + n, la |-> i.la] \in states[After(q, w, n)].closure
         /\ n # 0 => After(q, w, n) = Goto(After(q, w, n - 1), w[n])
<1>0. PICK f : Goes(f, q, i, w, n)
  BY AfterPath
<1>1. /\ f[0] = q /\ \A k \in 1 .. n : f[k] = Goto(f[k - 1], w[k])
      /\ \A k \in 0 .. n :
           /\ f[k] \in DOMAIN states
           /\ [prod |-> i.prod, dot |-> i.dot + k, la |-> i.la] \in states[f[k]].closure
  BY <1>0 DEF Goes
<1>2. After(q, w, n) = f[n] /\ n \in 0 .. n
  BY <1>1, AfterEnds
<1>3. n # 0 => After(q, w, n) = Goto(After(q, w, n - 1), w[n])
  <2> SUFFICES ASSUME n # 0 PROVE After(q, w, n) = Goto(After(q, w, n - 1), w[n])
    OBVIOUS
  <2>1. n - 1 \in Nat /\ 1 .. n - 1 \subseteq 1 .. n /\ n \in 1 .. n
    OBVIOUS
  <2>2. After(q, w, n - 1) = f[n - 1]
    BY <1>1, <2>1, AfterEnds
  <2> QED BY <1>1, <1>2, <2>1, <2>2
<1> QED BY <1>1, <1>2, <1>3

\* M makes sets of nodes wider, and those with more in them no narrower.
Widens(M, nodes) ==
  \A T \in SUBSET nodes :
    /\ M[T] \in SUBSET nodes /\ T \subseteq M[T]
    /\ \A C \in SUBSET nodes : T \subseteq C => M[T] \subseteq M[C]

\* h widens a set of nodes until that adds nothing.
Widest(h, M, nodes) == h = [T \in SUBSET nodes |-> IF M[T] = T THEN T ELSE h[M[T]]]

LEMMA WidestExists ==
  ASSUME NEW nodes, NEW M, Widens(M, nodes)
  PROVE  \E h : Widest(h, M, nodes)
<1> DEFINE Holds(C, T) == C \in SUBSET nodes /\ T \subseteq C /\ M[C] = C
           close(T) == {y \in nodes : \A C \in SUBSET nodes : Holds(C, T) => y \in C}
           h == [T \in SUBSET nodes |-> close(T)]
<1>1. ASSUME NEW T \in SUBSET nodes, M[T] = T
      PROVE  close(T) = T
  <2>1. Holds(T, T)
    BY <1>1
  <2>2. \A C : Holds(C, T) => T \subseteq C
    OBVIOUS
  <2> QED BY <2>1, <2>2
<1>2. ASSUME NEW T \in SUBSET nodes
      PROVE  close(M[T]) = close(T)
  <2>1. \A C \in SUBSET nodes : Holds(C, T) <=> Holds(C, M[T])
    BY DEF Widens
  <2> HIDE DEF Holds
  <2> QED BY <2>1
<1>3. \A T \in SUBSET nodes : M[T] \in SUBSET nodes
  BY DEF Widens
<1> HIDE DEF close
<1>4. h = [T \in SUBSET nodes |-> IF M[T] = T THEN T ELSE h[M[T]]]
  BY <1>1, <1>2, <1>3
<1> HIDE DEF h
<1> QED BY <1>4 DEF Widest

\* That is the least of the sets that have S and add nothing.
LEMMA WidestFacts ==
  ASSUME NEW nodes, IsFiniteSet(nodes), NEW M, Widens(M, nodes), NEW h, Widest(h, M, nodes),
         NEW S \in SUBSET nodes
  PROVE  /\ S \subseteq h[S] /\ h[S] \subseteq nodes /\ M[h[S]] = h[S]
         /\ \A C \in SUBSET nodes : S \subseteq C /\ M[C] = C => h[S] \subseteq C
<1>1. \A T \in SUBSET nodes : M[T] \in SUBSET nodes /\ T \subseteq M[T]
  BY DEF Widens
<1>2. \A T, C \in SUBSET nodes : T \subseteq C => M[T] \subseteq M[C]
  BY DEF Widens
<1> DEFINE Least(T, R) == /\ T \subseteq R /\ R \subseteq nodes /\ M[R] = R
                          /\ \A C \in SUBSET nodes : T \subseteq C /\ M[C] = C => R \subseteq C
           Bad == {T \in SUBSET nodes : ~ Least(T, h[T])}
<1>3. Bad = {}
  <2> SUFFICES ASSUME Bad # {} PROVE FALSE
    OBVIOUS
  <2> DEFINE R == StrictSubsetOrdering(nodes)
             Left == {nodes \ T : T \in Bad}
  <2>1. IsWellFoundedOn(R, SUBSET nodes)
    <3>1. IsWellFoundedOn(R, FiniteSubsetsOf(nodes))
      BY FS_StrictSubsetOrderingWellFounded
    <3>2. FiniteSubsetsOf(nodes) = SUBSET nodes
      BY FS_FiniteSubsetsOfFinite
    <3> QED BY <3>1, <3>2
  <2>2. Left \subseteq SUBSET nodes /\ Left # {}
    <3> HIDE DEF Least
    <3> QED OBVIOUS
  <2>3. PICK X \in Left : \A Y \in Left : ~ (<<Y, X>> \in R)
    <3> HIDE DEF Left, R
    <3> QED BY <2>1, <2>2, WFMin
  <2>4. PICK T \in Bad : X = nodes \ T
    <3> HIDE DEF Bad
    <3> QED BY <2>3
  <2>5. T \in SUBSET nodes /\ ~ Least(T, h[T])
    BY <2>4
  <2>6. h[T] = IF M[T] = T THEN T ELSE h[M[T]]
    BY <2>5 DEF Widest
  <2>7. M[T] # T
    BY <2>5, <2>6
  <2>8. M[T] \in Bad
    <3> SUFFICES ASSUME Least(M[T], h[M[T]]) PROVE FALSE
      <4> HIDE DEF Least
      <4> QED BY <1>1, <2>5
    <3> DEFINE more == M[T]
               end == h[T]
    <3>1. T \subseteq more /\ more \subseteq end /\ end \subseteq nodes /\ M[end] = end
      BY <1>1, <2>5, <2>6, <2>7
    <3>2. ASSUME NEW C \in SUBSET nodes, T \subseteq C, M[C] = C
          PROVE  end \subseteq C
      <4>1. more \subseteq C
        BY <1>2, <2>5, <3>2
      <4> QED BY <2>6, <2>7, <3>2, <4>1
    <3> QED BY <2>5, <3>1, <3>2
  <2>9. nodes \ M[T] \in Left
    <3> HIDE DEF Bad
    <3> QED BY <2>8
  <2>10. nodes \ M[T] \subseteq X /\ nodes \ M[T] # X
    <3> DEFINE more == M[T]
    <3>1. T \subseteq more /\ more \subseteq nodes /\ more # T
      BY <1>1, <2>5, <2>7
    <3> HIDE DEF more
    <3>2. PICK x \in more : x \notin T
      BY <3>1
    <3>3. nodes \ more \subseteq nodes \ T /\ x \in nodes \ T /\ x \notin nodes \ more
      BY <3>1, <3>2
    <3> QED BY <2>4, <3>3 DEF more
  <2>11. <<nodes \ M[T], X>> \in R
    BY <2>10, <2>4 DEF StrictSubsetOrdering
  <2> QED BY <2>3, <2>9, <2>11
<1> QED BY <1>3

\* All that nodes lead to is the least set that holds them and is closed under the
\* relation.
LEMMA LedToFacts ==
  ASSUME NEW nodes, IsFiniteSet(nodes), NEW r, \A x \in nodes : r[x] \subseteq nodes,
         NEW S \in SUBSET nodes
  PROVE  /\ S \subseteq LedTo(nodes, r, S) /\ LedTo(nodes, r, S) \subseteq nodes
         /\ \A x \in LedTo(nodes, r, S) : r[x] \subseteq LedTo(nodes, r, S)
         /\ \A C \in SUBSET nodes :
              S \subseteq C /\ (\A x \in C : r[x] \subseteq C) => LedTo(nodes, r, S) \subseteq C
<1> DEFINE Step(T) == T \cup UNION {r[y] : y \in T}
           Eq(h) == h = [T \in SUBSET nodes |->
                           LET U == Step(T) IN IF U = T THEN T ELSE h[U]]
           reached == CHOOSE h : Eq(h)
           M == [T \in SUBSET nodes |-> Step(T)]
<1>0. LedTo(nodes, r, S) = reached[S]
  BY DEF LedTo
<1>1. \A T \in SUBSET nodes : Step(T) \in SUBSET nodes /\ T \subseteq Step(T)
  OBVIOUS
<1>2. \A T, C \in SUBSET nodes : T \subseteq C => Step(T) \subseteq Step(C)
  OBVIOUS
<1>3. \A C : Step(C) = C <=> \A x \in C : r[x] \subseteq C
  OBVIOUS
<1> HIDE DEF Step
<1>4. Widens(M, nodes)
  BY <1>1, <1>2 DEF Widens
<1>5. ASSUME NEW h PROVE Eq(h) <=> Widest(h, M, nodes)
  BY DEF Widest
<1>6. Widest(reached, M, nodes)
  <2>1. \E h : Eq(h)
    <3> HIDE DEF Eq, M
    <3> QED BY <1>4, <1>5, WidestExists
  <2>2. Eq(reached)
    <3> HIDE DEF Eq
    <3> QED BY <2>1
  <2> HIDE DEF reached, Eq, M
  <2> QED BY <1>5, <2>2
<1>7. \A C \in SUBSET nodes : M[C] = Step(C)
  OBVIOUS
<1> HIDE DEF reached, M, Eq
<1> DEFINE end == reached[S]
<1>8. /\ S \subseteq end /\ end \subseteq nodes /\ M[end] = end
      /\ \A C \in SUBSET nodes : S \subseteq C /\ M[C] = C => end \subseteq C
  BY <1>4, <1>6, WidestFacts
<1> QED BY <1>0, <1>3, <1>7, <1>8

\* What digraph finds for a node: what that node has, what is found for those it
\* leads to, and nothing that no node has.
LEMMA DigraphFacts ==
  ASSUME NEW nodes, IsFiniteSet(nodes), NEW r, \A x \in nodes : r[x] \subseteq nodes,
         NEW g, NEW T, \A x \in nodes : g[x] \subseteq T
  PROVE  /\ \A x \in nodes : g[x] \subseteq DigraphOf(nodes, r, g)[x]
         /\ \A x \in nodes : \A y \in r[x] : DigraphOf(nodes, r, g)[y] \subseteq DigraphOf(nodes, r, g)[x]
         /\ \A x \in nodes : DigraphOf(nodes, r, g)[x] \subseteq T
<1> DEFINE led(x) == LedTo(nodes, r, {x})
<1>1. \A x \in nodes : DigraphOf(nodes, r, g)[x] = UNION {g[y] : y \in led(x)}
  BY DEF DigraphOf
<1>2. ASSUME NEW x \in nodes
      PROVE  /\ x \in led(x) /\ led(x) \subseteq nodes
             /\ \A y \in r[x] : y \in nodes /\ led(y) \subseteq led(x)
  <2>1. /\ {x} \subseteq led(x) /\ led(x) \subseteq nodes
        /\ \A y \in led(x) : r[y] \subseteq led(x)
    <3>1. {x} \in SUBSET nodes
      OBVIOUS
    <3> QED BY <3>1, LedToFacts
  <2>2. ASSUME NEW y \in r[x] PROVE y \in nodes /\ led(y) \subseteq led(x)
    <3>1. {y} \in SUBSET nodes /\ {y} \subseteq led(x) /\ led(x) \in SUBSET nodes
      BY <2>1
    <3>2. \A C \in SUBSET nodes : {y} \subseteq C /\ (\A z \in C : r[z] \subseteq C) => led(y) \subseteq C
      BY <3>1, LedToFacts
    <3> HIDE DEF led
    <3> QED BY <2>1, <3>1, <3>2
  <2> HIDE DEF led
  <2> QED BY <2>1, <2>2
<1> HIDE DEF led
<1>3. \A x \in nodes : g[x] \subseteq DigraphOf(nodes, r, g)[x]
  BY <1>1, <1>2
<1>4. ASSUME NEW x \in nodes, NEW y \in r[x]
      PROVE  DigraphOf(nodes, r, g)[y] \subseteq DigraphOf(nodes, r, g)[x]
  <2>1. y \in nodes /\ led(y) \subseteq led(x)
    BY <1>2
  <2> QED BY <1>1, <2>1
<1>5. ASSUME NEW x \in nodes
      PROVE  DigraphOf(nodes, r, g)[x] \subseteq T
  <2>1. \A y \in led(x) : g[y] \subseteq T
    BY <1>2
  <2> QED BY <1>1, <2>1
<1> QED BY <1>3, <1>4, <1>5

\* There is a longest right-hand side.
LEMMA LongestProduction ==
  ASSUME GrammarMade
  PROVE  \E b \in Nat : \A k \in DOMAIN productions : Len(SymbolsOf(k)) <= b
<1> DEFINE n == Len(productions)
           len(k) == Len(SymbolsOf(k))
<1>1. n \in Nat /\ DOMAIN productions = 1 .. n /\ \A k \in 1 .. n : len(k) \in Nat
  BY DEF GrammarMade
<1> HIDE DEF n, len
<1> DEFINE S == {j \in 0 .. n : \E b \in Nat : \A k \in 1 .. j : len(k) <= b}
<1>2. 0 \in S
  BY <1>1
<1>3. \A j \in 1 .. n : j - 1 \in S => j \in S
  <2> SUFFICES ASSUME NEW j \in 1 .. n, j - 1 \in S PROVE j \in S
    OBVIOUS
  <2>1. PICK b \in Nat : \A k \in 1 .. j - 1 : len(k) <= b
    OBVIOUS
  <2> DEFINE c == IF len(j) <= b THEN b ELSE len(j)
  <2>2. c \in Nat /\ len(j) <= c /\ b <= c
    BY <1>1
  <2> HIDE DEF c
  <2>3. \A k \in 1 .. j : len(k) \in Nat /\ (k = j \/ k \in 1 .. j - 1)
    BY <1>1
  <2>4. \A k \in 1 .. j : len(k) <= c
    BY <2>1, <2>2, <2>3
  <2> QED BY <1>1, <2>2, <2>4
<1>4. n \in S
  <2>1. 0 .. n \subseteq S
    <3> HIDE DEF S
    <3> QED BY <1>1, <1>2, <1>3, UpTo
  <2> HIDE DEF S
  <2> QED BY <1>1, <2>1
<1> QED BY <1>1, <1>4 DEF len

\* The longest production of some, and the first of those, is one of them.
LEMMA PreferredIsOne ==
  ASSUME GrammarMade, NEW ks \in SUBSET (DOMAIN productions), ks # {}
  PROVE  Preferred(ks) \in ks
<1> DEFINE n == Len(productions)
           len(k) == Len(SymbolsOf(k))
<1>1. n \in Nat /\ DOMAIN productions = 1 .. n /\ \A k \in 1 .. n : len(k) \in Nat
  BY DEF GrammarMade
<1> HIDE DEF n, len
<1>4. PICK b \in Nat : \A k \in 1 .. n : len(k) <= b
  BY <1>1, LongestProduction DEF n, len
<1> DEFINE Short == {b - len(k) : k \in ks}
<1>5. PICK m \in Short : \A o \in Short : m <= o
  <2>1. Short \subseteq Nat /\ Short # {}
    BY <1>1, <1>4
  <2> HIDE DEF Short
  <2> QED BY <2>1, LeastNat
<1> DEFINE Long == {k \in ks : b - len(k) = m}
<1>6. PICK k \in Long : \A o \in Long : k <= o
  <2>1. Long \subseteq Nat /\ Long # {}
    BY <1>1, <1>5
  <2> HIDE DEF Long
  <2> QED BY <2>1, LeastNat
<1>7. ASSUME NEW o \in ks \ {k}
      PROVE  len(k) > len(o) \/ (len(k) = len(o) /\ k < o)
  <2>1. len(k) \in Nat /\ len(o) \in Nat /\ b - len(k) <= b - len(o) /\ k \in Nat /\ o \in Nat
    BY <1>1, <1>5, <1>6
  <2>2. len(k) = len(o) => k <= o
    BY <1>6
  <2> QED BY <2>1, <2>2
<1>8. k \in ks
  BY <1>6
<1>9. \E x \in ks : \A o \in ks \ {x} : len(x) > len(o) \/ (len(x) = len(o) /\ x < o)
  BY <1>7, <1>8
<1> QED BY <1>9 DEF Preferred, len

\* A function on 1 .. n is a sequence of its own elements.
LEMMA FunctionAsSeq ==
  ASSUME NEW n \in Nat, NEW f, f = [i \in 1 .. n |-> f[i]]
  PROVE  f \in Seq(Range(f)) /\ Len(f) = n /\ DOMAIN f = 1 .. n
<1>1. \A i \in 1 .. n : f[i] \in Range(f)
  BY DEF Range
<1>2. f \in [1 .. n -> Range(f)]
  BY <1>1
<1>3. f \in Seq(Range(f))
  BY <1>2, SeqDef
<1>4. Len(f) \in Nat /\ DOMAIN f = 1 .. Len(f) /\ DOMAIN f = 1 .. n
  BY <1>2, <1>3
<1>5. Len(f) = n
  BY <1>4
<1> QED BY <1>3, <1>4, <1>5

\* What the later steps of generate() leave of the item sets.
Kept(st, old) ==
  /\ st = [kernel |-> st.kernel, closure |-> st.closure, accept |-> st.accept,
           next |-> st.next, reductions |-> st.reductions, actions |-> st.actions]
  /\ st.kernel = old.kernel /\ st.closure = old.closure
  /\ st.accept = old.accept /\ st.next = old.next

\* The states still stand for the same item sets.
StatesKept ==
  /\ states' = [q \in DOMAIN states |-> states'[q]]
  /\ \A q \in DOMAIN states : Kept(states'[q], states[q])

\* The steps after the item sets fill in reductions, actions and relations only.
LEMMA LaterKeeps ==
  ASSUME GInv, AutomatonMade, UNCHANGED tableVars, UNCHANGED <<candidate, queue, scan>>, StatesKept,
         phase' \in Phases \ {"configure", "itemsets"},
         phase' \in {"reads", "includes", "follow", "lookaheads"} => type = "LALR1"
  PROVE  /\ grammar' \in Grammars /\ type' \in grammar'.types
         /\ PhaseMade' /\ StatesMade' /\ CandidateMade' /\ WorkLeft'
         /\ Transitions' = Transitions /\ DOMAIN states' = DOMAIN states
<1>1. /\ Len(states) \in Nat /\ DOMAIN states = 1 .. Len(states)
      /\ GrammarMade
      /\ \A q \in DOMAIN states : ItemSetMade(states[q])
  BY TableFacts DEF AutomatonMade
<1>2. candidate = Nobody /\ states # <<>> /\ queue = <<>> /\ scan.symbols = {}
  BY DEF GInv, PhaseMade, CandidateMade, AutomatonMade
<1>3. states' \in Seq(Range(states')) /\ Len(states') = Len(states) /\ DOMAIN states' = DOMAIN states
  <2> DEFINE n == Len(states)
             f == states'
  <2>1. f = [i \in 1 .. n |-> f[i]] /\ n \in Nat
    BY <1>1 DEF StatesKept
  <2> HIDE DEF n, f
  <2>2. f \in Seq(Range(f)) /\ Len(f) = n /\ DOMAIN f = 1 .. n
    BY <2>1, FunctionAsSeq
  <2> QED BY <1>1, <2>2 DEF n, f
<1>4. states' # <<>>
  BY <1>1, <1>2, <1>3
<1>5. \A q \in DOMAIN states :
        /\ states'[q].kernel = states[q].kernel /\ states'[q].closure = states[q].closure
        /\ states'[q].next = states[q].next /\ states'[q].accept = states[q].accept
  BY DEF StatesKept, Kept
<1>6. \A q \in DOMAIN states : ItemSetMade(states'[q])
  <2> SUFFICES ASSUME NEW q \in DOMAIN states PROVE ItemSetMade(states'[q])
    OBVIOUS
  <2>1. ItemSetMade(states[q]) /\ Kept(states'[q], states[q])
    BY <1>1 DEF StatesKept
  <2> DEFINE st == states'[q]
             old == states[q]
  <2> HIDE DEF st, old
  <2>2. ItemSetMade(old) /\ Kept(st, old)
    BY <2>1 DEF st, old
  <2>3. ItemSetMade(st)
    BY <2>2 DEF ItemSetMade, Kept
  <2> QED BY <2>3 DEF st
<1>7. StatesMade'
  <2>1. /\ \A q \in DOMAIN states :
             /\ q = 1 => states[q].kernel = {RootItem}
             /\ q # 1 => \A i \in states[q].kernel : i.dot > 0
        /\ \A q, u \in DOMAIN states : states[q].kernel = states[u].kernel => q = u
        /\ \A q \in DOMAIN states : \A s \in DOMAIN states[q].next :
             /\ states[q].next[s] \in DOMAIN states
             /\ s \in SymbolsAfterDots(states[q].closure)
             /\ states[states[q].next[s]].kernel = GotoKernel(states[q].closure, s)
    BY DEF GInv, StatesMade, Goto
  <2>2. (\A q \in DOMAIN states :
             /\ ItemSetMade(states[q])
             /\ q = 1 => states[q].kernel = {RootItem}
             /\ q # 1 => \A i \in states[q].kernel : i.dot > 0)'
    BY <1>3, <1>5, <1>6, <2>1, Fixed
  <2>3. (\A q, u \in DOMAIN states : states[q].kernel = states[u].kernel => q = u)'
    BY <1>3, <1>5, <2>1
  <2>4. \A q \in DOMAIN states : \A s \in DOMAIN states'[q].next :
           /\ states'[q].next[s] \in DOMAIN states
           /\ s \in SymbolsAfterDots(states'[q].closure)
           /\ states'[states'[q].next[s]].kernel = GotoKernel(states'[q].closure, s)
    BY <1>5, <2>1
  <2>5. (\A q \in DOMAIN states : \A s \in DOMAIN states[q].next :
           /\ states[q].next[s] \in DOMAIN states
           /\ s \in SymbolsAfterDots(states[q].closure)
           /\ states[states[q].next[s]].kernel = GotoKernel(states[q].closure, s))'
    BY <1>3, <2>4, Fixed
  <2> QED BY <1>3, <2>2, <2>3, <2>5 DEF StatesMade, Goto
<1>8. CandidateMade'
  BY <1>2, Fixed DEF GInv, CandidateMade
<1>9. WorkLeft'
  <2>1. \A q \in DOMAIN states : Followed(q)' = Followed(q)
    BY <1>2, <1>5 DEF Followed
  <2>2. /\ queue' \in Seq(DOMAIN states')
        /\ scan' \in [state : Nat, symbols : SUBSET Symbols'] /\ scan'.symbols = {}
    BY <1>2, <1>3, Fixed DEF GInv, WorkLeft
  <2>3. \A q \in DOMAIN states : q \in Range(queue) \/ SymbolsAfterDots(states[q].closure) \subseteq Followed(q)
    BY DEF GInv, WorkLeft
  <2>4. \A q \in DOMAIN states' :
           q \in Range(queue') \/ (SymbolsAfterDots(states[q].closure) \subseteq Followed(q))'
    BY <1>3, <1>5, <2>1, <2>3, Fixed
  <2> QED BY <2>2, <2>4 DEF WorkLeft
<1>10. PhaseMade'
  <2>1. GrammarMade'
    BY <1>1, Fixed
  <2> QED BY <1>2, <1>4, <2>1 DEF PhaseMade, tableVars
<1>11. Transitions' = Transitions
  <2>1. \A q \in DOMAIN states : SymbolsAfterDots(states'[q].closure) = SymbolsAfterDots(states[q].closure)
    BY <1>5
  <2>2. \A q \in DOMAIN states : SymbolsAfterDots(states[q].closure)' = SymbolsAfterDots(states[q].closure)
    BY <2>1, Fixed
  <2> QED BY <1>3, <2>2 DEF Transitions, tableVars
<1>12. grammar' \in Grammars /\ type' \in grammar'.types
  BY DEF GInv, tableVars
<1> QED BY <1>3, <1>7, <1>8, <1>9, <1>10, <1>11, <1>12

\* A transition on a nonterminal, of finitely many.
LEMMA TransitionFacts ==
  ASSUME GInv, AutomatonMade
  PROVE  /\ IsFiniteSet(Transitions)
         /\ \A t \in Transitions :
              /\ t[1] \in DOMAIN states /\ t[2] \in grammar.nonterminals
              /\ Goto(t[1], t[2]) \in DOMAIN states
         /\ \A q \in DOMAIN states : \A s \in SymbolsAfterDots(states[q].closure) :
              s \notin terminals => <<q, s>> \in Transitions
<1>1. /\ Len(states) \in Nat /\ DOMAIN states = 1 .. Len(states)
      /\ \A q \in DOMAIN states : SymbolsAfterDots(states[q].closure) \subseteq Symbols
      /\ grammar \in Grammars
  BY TableFacts DEF AutomatonMade
<1>2. ASSUME NEW t \in Transitions
      PROVE  /\ t = <<t[1], t[2]>>
             /\ t[1] \in DOMAIN states /\ t[2] \in grammar.nonterminals
             /\ t[2] \in SymbolsAfterDots(states[t[1]].closure)
  <2>1. PICK q \in DOMAIN states :
          \E s \in SymbolsAfterDots(states[q].closure) \ terminals : t = <<q, s>>
    BY DEF Transitions
  <2>2. PICK s \in SymbolsAfterDots(states[q].closure) \ terminals : t = <<q, s>>
    BY <2>1
  <2>3. s \in grammar.nonterminals
    BY <1>1, <2>2 DEF Symbols
  <2>4. t[1] = q /\ t[2] = s
    BY <2>2
  <2> QED BY <2>2, <2>3, <2>4
<1>3. IsFiniteSet(Transitions)
  <2>1. IsFiniteSet(DOMAIN states)
    BY <1>1, FS_Interval
  <2>2. IsFiniteSet(grammar.nonterminals)
    BY <1>1, GrammarAssumption
  <2> DEFINE A == DOMAIN states
             B == grammar.nonterminals
  <2>3. Transitions \subseteq A \X B
    BY <1>2
  <2> HIDE DEF A, B
  <2>4. IsFiniteSet(A \X B)
    BY <2>1, <2>2, FS_Product DEF A, B
  <2> DEFINE AB == A \X B
  <2> HIDE DEF AB
  <2>5. IsFiniteSet(AB) /\ Transitions \in SUBSET AB
    BY <2>3, <2>4 DEF AB
  <2> QED BY <2>5, FS_Subset
<1>4. ASSUME NEW t \in Transitions
      PROVE  Goto(t[1], t[2]) \in DOMAIN states
  <2>1. t[1] \in DOMAIN states /\ t[2] \in SymbolsAfterDots(states[t[1]].closure)
    BY <1>2
  <2>2. t[2] \in DOMAIN states[t[1]].next
    BY <2>1, AllFollowed
  <2> QED BY <2>1, <2>2 DEF GInv, StatesMade
<1>5. \A q \in DOMAIN states : \A s \in SymbolsAfterDots(states[q].closure) :
              s \notin terminals => <<q, s>> \in Transitions
  BY DEF Transitions
<1> QED BY <1>2, <1>3, <1>4, <1>5

\* A step that leaves the states as they are.
LEMMA SameStatesKept ==
  ASSUME GInv, AutomatonMade, states' = states
  PROVE  StatesKept
<1>1. \A q \in DOMAIN states : ItemSetMade(states[q])
  BY TableFacts DEF AutomatonMade
<1>2. Len(states) \in Nat /\ DOMAIN states = 1 .. Len(states) /\ states \in Seq(Range(states))
  BY TableFacts DEF AutomatonMade
<1>3. states = [q \in DOMAIN states |-> states[q]]
  BY <1>2
<1>4. \A q \in DOMAIN states : Kept(states[q], states[q])
  BY <1>1 DEF Kept, ItemSetMade
<1> QED BY <1>3, <1>4 DEF StatesKept

\* What a transition reads are tokens: so is what Digraph joins.
LEMMA GenerateReadsStep == ASSUME GInv, GenerateReads PROVE GInv'
<1> DEFINE after(t) == SymbolsAfterDots(states[Goto(t[1], t[2])].closure)
           directly == [t \in Transitions |->
             (after(t) \cap terminals)
               \cup (IF t = <<1, grammar.start>> THEN {END} ELSE {})]
           relation == [t \in Transitions |->
             {<<Goto(t[1], t[2]), s>> : s \in after(t) \cap nullable}]
<1>0. /\ UNCHANGED tableVars
      /\ UNCHANGED <<states, candidate, queue, scan, includes, lookback, follows>>
      /\ phase = "reads" /\ phase' = "includes"
      /\ reads' = DigraphOf(Transitions, relation, directly)
  BY DEF GenerateReads
<1>1. AutomatonMade /\ type = "LALR1" /\ GrammarMade /\ grammar \in Grammars
  BY <1>0, TableFacts DEF AutomatonMade, GInv, PhaseMade
<1>2. StatesKept
  BY <1>0, <1>1, SameStatesKept
<1>3. /\ grammar' \in Grammars /\ type' \in grammar'.types
      /\ PhaseMade' /\ StatesMade' /\ CandidateMade' /\ WorkLeft'
      /\ Transitions' = Transitions
  BY <1>0, <1>1, <1>2, LaterKeeps DEF Phases
<1>4. \A t \in Transitions : relation[t] \subseteq Transitions
  <2> SUFFICES ASSUME NEW t \in Transitions, NEW s \in after(t) \cap nullable
               PROVE  <<Goto(t[1], t[2]), s>> \in Transitions
    OBVIOUS
  <2>1. Goto(t[1], t[2]) \in DOMAIN states
    BY <1>1, TransitionFacts
  <2>2. s \notin terminals
    BY <1>1, GrammarAssumption DEF GrammarMade, Nonterminals
  <2> QED BY <1>1, <2>1, <2>2, TransitionFacts
<1>5. \A t \in Transitions : directly[t] \subseteq terminals
  BY <1>1 DEF GrammarMade
<1> HIDE DEF directly, relation
<1>6. \A t \in Transitions : reads'[t] \subseteq terminals
  BY <1>0, <1>1, <1>4, <1>5, TransitionFacts, DigraphFacts
<1>7. LalrMade'
  BY <1>0, <1>3, <1>6 DEF LalrMade, tableVars
<1>8. ReductionsMade' /\ ActionsMade'
  BY <1>0, SameStates DEF GInv, ActionsMade
<1> QED BY <1>3, <1>7, <1>8 DEF GInv

\* Transitions include transitions, and look back on items that are done.
LEMMA GenerateIncludesLookbackStep == ASSUME GInv, GenerateIncludesLookback PROVE GInv'
<1> DEFINE pairs ==
      UNION {UNION {WalkOf(t[1], i) \X {t} : i \in WalkedFrom(t)} : t \in Transitions}
<1>0. /\ UNCHANGED tableVars
      /\ UNCHANGED <<states, candidate, queue, scan, reads, follows>>
      /\ phase = "includes" /\ phase' = "follow"
      /\ includes' = [u \in Transitions |-> {p[2] : p \in {p \in pairs : p[1] = u}}]
      /\ lookback' = [t \in Transitions |->
           {[state |-> After(t[1], SymbolsOf(i.prod), Len(SymbolsOf(i.prod))), prod |-> i.prod] :
              i \in {i \in WalkedFrom(t) : i.dot = 0}}]
  BY DEF GenerateIncludesLookback
<1>1. AutomatonMade /\ type = "LALR1" /\ GrammarMade /\ grammar \in Grammars
  BY <1>0, TableFacts DEF AutomatonMade, GInv, PhaseMade
<1>2. StatesKept
  BY <1>0, <1>1, SameStatesKept
<1>3. /\ grammar' \in Grammars /\ type' \in grammar'.types
      /\ PhaseMade' /\ StatesMade' /\ CandidateMade' /\ WorkLeft'
      /\ Transitions' = Transitions
  BY <1>0, <1>1, <1>2, LaterKeeps DEF Phases
<1>4. \A p \in pairs : p[2] \in Transitions
  OBVIOUS
<1> HIDE DEF pairs
<1>5. includes' \in [Transitions -> SUBSET Transitions]
  BY <1>0, <1>4
<1>6. ASSUME NEW t \in Transitions, NEW l \in lookback'[t]
      PROVE  /\ l.state \in DOMAIN states /\ l.prod # Len(productions)
             /\ \E i \in states[l.state].closure : IsDone(i) /\ i.prod = l.prod
  <2>1. PICK i \in WalkedFrom(t) :
          /\ i.dot = 0
          /\ l = [state |-> After(t[1], SymbolsOf(i.prod), Len(SymbolsOf(i.prod))), prod |-> i.prod]
    BY <1>0, <1>6
  <2>2. t[1] \in DOMAIN states /\ i \in states[t[1]].closure
    BY <1>1, <2>1, TransitionFacts DEF WalkedFrom
  <2>3. i \in Items
    BY <1>1, <2>2, TableFacts DEF AutomatonMade
  <2> DEFINE w == SymbolsOf(i.prod)
             n == Len(w)
             j == [prod |-> i.prod, dot |-> i.dot + n, la |-> i.la]
  <2>4. /\ n \in Nat /\ i.dot + n = n /\ i.dot + n <= Len(SymbolsOf(i.prod))
        /\ \A k \in 1 .. n : w[k] = SymbolsOf(i.prod)[i.dot + k]
    BY <1>1, <2>1, <2>3, ItemFacts
  <2>5. After(t[1], w, n) \in DOMAIN states /\ j \in states[After(t[1], w, n)].closure
    BY <1>1, <2>2, <2>4, AfterMoves
  <2>6. IsDone(j) /\ j.prod = i.prod
    BY <2>4 DEF IsDone
  <2>7. productions[i.prod].target # ROOT
    BY <1>1, <2>1, TransitionFacts, GrammarAssumption DEF WalkedFrom
  <2>8. i.prod # Len(productions)
    BY <1>1, <2>3, <2>7, ItemFacts DEF GrammarMade
  <2> QED BY <2>1, <2>5, <2>6, <2>8
<1>7. LalrMade'
  <2>1. \A t \in Transitions : reads[t] \subseteq terminals
    BY <1>0 DEF GInv, LalrMade
  <2>2. (\A t \in Transitions : reads[t] \subseteq terminals)'
    BY <1>0, <1>3, <2>1 DEF tableVars
  <2>3. (\A t \in Transitions : \A l \in lookback[t] :
         /\ l.state \in DOMAIN states /\ l.prod # Len(productions)
         /\ \E i \in states[l.state].closure : IsDone(i) /\ i.prod = l.prod)'
    BY <1>0, <1>3, <1>6, Fixed DEF tableVars
  <2> QED BY <1>0, <1>3, <1>5, <2>2, <2>3 DEF LalrMade
<1>8. ReductionsMade' /\ ActionsMade'
  BY <1>0, SameStates DEF GInv, ActionsMade
<1> QED BY <1>3, <1>7, <1>8 DEF GInv

\* What follows a transition are tokens.
LEMMA GenerateFollowSetsStep == ASSUME GInv, GenerateFollowSets PROVE GInv'
<1>0. /\ UNCHANGED tableVars
      /\ UNCHANGED <<states, candidate, queue, scan, reads, includes, lookback>>
      /\ phase = "follow" /\ phase' = "lookaheads"
      /\ follows' = DigraphOf(Transitions, includes, reads)
  BY DEF GenerateFollowSets
<1>1. AutomatonMade /\ type = "LALR1" /\ GrammarMade /\ grammar \in Grammars
  BY <1>0, TableFacts DEF AutomatonMade, GInv, PhaseMade
<1>2. StatesKept
  BY <1>0, <1>1, SameStatesKept
<1>3. /\ grammar' \in Grammars /\ type' \in grammar'.types
      /\ PhaseMade' /\ StatesMade' /\ CandidateMade' /\ WorkLeft'
      /\ Transitions' = Transitions
  BY <1>0, <1>1, <1>2, LaterKeeps DEF Phases
<1>4. /\ \A t \in Transitions : reads[t] \subseteq terminals
      /\ \A t \in Transitions : includes[t] \subseteq Transitions
      /\ \A t \in Transitions : \A l \in lookback[t] :
           /\ l.state \in DOMAIN states /\ l.prod # Len(productions)
           /\ \E i \in states[l.state].closure : IsDone(i) /\ i.prod = l.prod
  BY <1>0 DEF GInv, LalrMade
<1>5. \A t \in Transitions : follows'[t] \subseteq terminals
  BY <1>0, <1>1, <1>4, TransitionFacts, DigraphFacts
<1>6. LalrMade'
  <2>1. (\A t \in Transitions : follows[t] \subseteq terminals)'
    BY <1>0, <1>3, <1>5 DEF tableVars
  <2>2. (\A t \in Transitions : \A l \in lookback[t] :
         /\ l.state \in DOMAIN states /\ l.prod # Len(productions)
         /\ \E i \in states[l.state].closure : IsDone(i) /\ i.prod = l.prod)'
    BY <1>0, <1>3, <1>4, Fixed DEF tableVars
  <2> QED BY <1>0, <2>1, <2>2 DEF LalrMade
<1>7. ReductionsMade' /\ ActionsMade'
  BY <1>0, SameStates DEF GInv, ActionsMade
<1> QED BY <1>3, <1>6, <1>7 DEF GInv

\* LALR(1) lookaheads: a reduction is entered in the state of its item.
LEMMA GenerateLookaheadsStep == ASSUME GInv, GenerateLookaheads PROVE GInv'
<1> DEFINE all == UNION {{<<l.state, s, l.prod>> : s \in follows[t], l \in lookback[t]} :
                        t \in Transitions}
           found(q) == {x \in all : x[1] = q}
           made(q) == [s \in {x[2] : x \in found(q)} |-> {x[3] : x \in {y \in found(q) : y[2] = s}}]
<1>0. /\ UNCHANGED tableVars
      /\ UNCHANGED <<candidate, queue, scan, lalrVars>>
      /\ phase = "lookaheads" /\ phase' = "actions"
      /\ states' = [q \in DOMAIN states |-> [states[q] EXCEPT !.reductions = made(q)]]
  BY DEF GenerateLookaheads
<1>1. AutomatonMade /\ \A q \in DOMAIN states : ItemSetMade(states[q])
  BY <1>0, TableFacts DEF AutomatonMade
<1>2. \A x \in all :
        /\ x[2] \in terminals /\ x[3] # Len(productions)
        /\ \E i \in states[x[1]].closure : IsDone(i) /\ i.prod = x[3]
  <2> SUFFICES ASSUME NEW t \in Transitions, NEW s \in follows[t], NEW l \in lookback[t]
               PROVE  /\ s \in terminals /\ l.prod # Len(productions)
                      /\ \E i \in states[l.state].closure : IsDone(i) /\ i.prod = l.prod
    OBVIOUS
  <2> QED BY <1>0 DEF GInv, LalrMade
<1> HIDE DEF all
<1>3. \A q : \A s \in DOMAIN made(q) :
        /\ s \in terminals /\ made(q)[s] # {}
        /\ \A k \in made(q)[s] : /\ k # Len(productions)
                                 /\ \E i \in states[q].closure : IsDone(i) /\ i.prod = k
  <2> SUFFICES ASSUME NEW q, NEW s \in DOMAIN made(q)
               PROVE  /\ s \in terminals /\ made(q)[s] # {}
                      /\ \A k \in made(q)[s] : /\ k # Len(productions)
                                               /\ \E i \in states[q].closure : IsDone(i) /\ i.prod = k
    OBVIOUS
  <2>1. PICK x \in all : x[1] = q /\ x[2] = s
    OBVIOUS
  <2>2. made(q)[s] = {y[3] : y \in {z \in found(q) : z[2] = s}}
    OBVIOUS
  <2>3. x[3] \in made(q)[s]
    BY <2>1, <2>2
  <2>4. ASSUME NEW k \in made(q)[s]
        PROVE  k # Len(productions) /\ \E i \in states[q].closure : IsDone(i) /\ i.prod = k
    <3>1. PICK y \in all : y[1] = q /\ k = y[3]
      BY <2>2
    <3> QED BY <1>2, <3>1
  <2> QED BY <1>2, <2>1, <2>3, <2>4
<1> HIDE DEF made
<1>4. /\ DOMAIN states' = DOMAIN states
      /\ \A q \in DOMAIN states : Kept(states'[q], states[q]) /\ states'[q].reductions = made(q)
  <2>1. DOMAIN states' = DOMAIN states
    BY <1>0
  <2>2. ASSUME NEW q \in DOMAIN states
        PROVE  Kept(states'[q], states[q]) /\ states'[q].reductions = made(q)
    <3> DEFINE old == states[q]
               st == states'[q]
               m == made(q)
    <3>1. st = [old EXCEPT !.reductions = m]
      BY <1>0
    <3>2. old = [kernel |-> old.kernel, closure |-> old.closure, accept |-> old.accept,
                 next |-> old.next, reductions |-> old.reductions, actions |-> old.actions]
      BY <1>1 DEF ItemSetMade
    <3> HIDE DEF old, st, m
    <3>3. st = [kernel |-> old.kernel, closure |-> old.closure, accept |-> old.accept,
                 next |-> old.next, reductions |-> m, actions |-> old.actions]
      BY <3>1, <3>2
    <3>4. Kept(st, old) /\ st.reductions = m
      BY <3>3 DEF Kept
    <3> QED BY <3>4 DEF old, st, m
  <2> QED BY <2>1, <2>2
<1>5. StatesKept
  <2>1. states' = [q \in DOMAIN states |-> states'[q]]
    BY <1>0
  <2> QED BY <1>4, <2>1 DEF StatesKept
<1>6. /\ grammar' \in Grammars /\ type' \in grammar'.types
      /\ PhaseMade' /\ StatesMade' /\ CandidateMade' /\ WorkLeft'
  BY <1>0, <1>1, <1>5, LaterKeeps DEF Phases
<1>7. ReductionsMade'
  <2>1. \A q \in DOMAIN states : \A s \in DOMAIN states'[q].reductions :
          /\ s \in terminals /\ states'[q].reductions[s] # {}
          /\ \A k \in states'[q].reductions[s] :
               k # Len(productions) /\ \E i \in states'[q].closure : IsDone(i) /\ i.prod = k
    BY <1>3, <1>4 DEF Kept
  <2>2. \A i : IsDone(i)' <=> IsDone(i)
    BY <1>0, Fixed
  <2>3. terminals' = terminals /\ productions' = productions
    BY <1>0 DEF tableVars
  <2> QED BY <1>4, <2>1, <2>2, <2>3 DEF ReductionsMade
<1>8. ActionsMade' /\ LalrMade'
  BY <1>0 DEF ActionsMade, LalrMade
<1> QED BY <1>6, <1>7, <1>8 DEF GInv

\* The action of a state on a symbol is a transition it has, or a reduction it has.
LEMMA ActionsFacts ==
  ASSUME GInv, AutomatonMade, NEW q \in DOMAIN states, NEW s \in DOMAIN ActionsOf(states[q])
  PROVE  LET a == ActionsOf(states[q])[s]
         IN  IF a.shift # 0 THEN s \in DOMAIN states[q].next /\ a.shift = Goto(q, s)
             ELSE s \in DOMAIN states[q].reductions /\ a.reduce \in states[q].reductions[s]
<1> DEFINE st == states[q]
           decided == {x \in Contested(st) : Verdict(st, x) = "error"}
           shifted == {x \in DOMAIN st.next :
                    x \in Contested(st) => Verdict(st, x) \in {"shift", "conflict"}}
           acts == [x \in (DOMAIN st.next \cup DOMAIN st.reductions) \ decided |->
              IF x \in shifted THEN Shift(st.next[x]) ELSE Reduce(Preferred(st.reductions[x]))]
           a == acts[s]
<1>1. ActionsOf(states[q]) = acts
  BY DEF ActionsOf
<1>2. s \in DOMAIN st.next \cup DOMAIN st.reductions
  BY <1>1
<1>3. a = IF s \in shifted THEN Shift(st.next[s]) ELSE Reduce(Preferred(st.reductions[s]))
  BY <1>1
<1> HIDE DEF acts, a
<1>4. CASE s \in shifted
  <2>1. s \in DOMAIN st.next /\ a.shift = Goto(q, s)
    BY <1>3, <1>4 DEF Shift, Goto
  <2>2. Goto(q, s) \in DOMAIN states /\ 0 \notin DOMAIN states
    BY <2>1, TableFacts DEF GInv, StatesMade, AutomatonMade
  <2> QED BY <1>1, <2>1, <2>2 DEF a
<1>5. CASE s \notin shifted
  <2>1. s \in DOMAIN st.reductions
    BY <1>2, <1>5 DEF Contested
  <2>2. st.reductions[s] # {} /\ \A k \in st.reductions[s] : \E i \in st.closure : i.prod = k
    BY <2>1 DEF GInv, ReductionsMade
  <2>3. GrammarMade /\ st.closure \subseteq Items
    BY TableFacts DEF AutomatonMade
  <2>4. st.reductions[s] \in SUBSET (DOMAIN productions)
    BY <2>2, <2>3, ItemFacts
  <2>5. Preferred(st.reductions[s]) \in st.reductions[s]
    BY <2>2, <2>3, <2>4, PreferredIsOne
  <2>6. a.shift = 0 /\ a.reduce = Preferred(st.reductions[s])
    BY <1>3, <1>5 DEF Reduce
  <2> QED BY <1>1, <2>1, <2>5, <2>6 DEF a
<1> QED BY <1>4, <1>5

\* Entering the actions changes nothing else of the states.
LEMMA ActionsEntered ==
  ASSUME GInv, GenerateActions
  PROVE  /\ DOMAIN states' = DOMAIN states
         /\ \A q \in DOMAIN states :
              /\ Kept(states'[q], states[q]) /\ states'[q].reductions = states[q].reductions
              /\ states'[q].actions = ActionsOf(states[q])
<1>0. /\ phase = "actions"
      /\ states' = [q \in DOMAIN states |-> [states[q] EXCEPT !.actions = ActionsOf(states[q])]]
  BY DEF GenerateActions
<1>1. \A q \in DOMAIN states : ItemSetMade(states[q])
  BY <1>0, TableFacts
<1>2. DOMAIN states' = DOMAIN states
  BY <1>0
<1>3. ASSUME NEW q \in DOMAIN states
      PROVE  /\ Kept(states'[q], states[q]) /\ states'[q].reductions = states[q].reductions
             /\ states'[q].actions = ActionsOf(states[q])
  <2> DEFINE old == states[q]
             st == states'[q]
             m == ActionsOf(states[q])
  <2>1. st = [old EXCEPT !.actions = m]
    BY <1>0
  <2>2. old = [kernel |-> old.kernel, closure |-> old.closure, accept |-> old.accept,
               next |-> old.next, reductions |-> old.reductions, actions |-> old.actions]
    BY <1>1 DEF ItemSetMade
  <2> HIDE DEF old, st, m
  <2>3. st = [kernel |-> old.kernel, closure |-> old.closure, accept |-> old.accept,
               next |-> old.next, reductions |-> old.reductions, actions |-> m]
    BY <2>1, <2>2
  <2>4. Kept(st, old) /\ st.reductions = old.reductions /\ st.actions = m
    BY <2>3 DEF Kept
  <2> QED BY <2>4 DEF old, st, m
<1> QED BY <1>2, <1>3

\* An action is a transition of the state or one of its reductions.
LEMMA GenerateActionsStep == ASSUME GInv, GenerateActions PROVE GInv'
<1>0. /\ UNCHANGED tableVars
      /\ UNCHANGED <<candidate, queue, scan, lalrVars>>
      /\ phase = "actions" /\ phase' = "ready"
      /\ states' = [q \in DOMAIN states |-> [states[q] EXCEPT !.actions = ActionsOf(states[q])]]
  BY DEF GenerateActions
<1>1. AutomatonMade /\ \A q \in DOMAIN states : ItemSetMade(states[q])
  BY <1>0, TableFacts DEF AutomatonMade
<1>2. /\ DOMAIN states' = DOMAIN states
      /\ \A q \in DOMAIN states :
           /\ Kept(states'[q], states[q]) /\ states'[q].reductions = states[q].reductions
           /\ states'[q].actions = ActionsOf(states[q])
  BY ActionsEntered
<1>3. StatesKept
  <2>1. states' = [q \in DOMAIN states |-> states'[q]]
    BY <1>0
  <2> QED BY <1>2, <2>1 DEF StatesKept
<1>4. /\ grammar' \in Grammars /\ type' \in grammar'.types
      /\ PhaseMade' /\ StatesMade' /\ CandidateMade' /\ WorkLeft'
  BY <1>0, <1>1, <1>3, LaterKeeps DEF Phases
<1>5. ReductionsMade'
  <2>1. \A q \in DOMAIN states :
          /\ states'[q].reductions = states[q].reductions /\ states'[q].closure = states[q].closure
    BY <1>2 DEF Kept
  <2> QED BY <1>0, <1>2, <2>1, Fixed DEF GInv, ReductionsMade, tableVars
<1>6. ActionsMade'
  <2>0. ASSUME NEW q \in DOMAIN states
        PROVE  DOMAIN states'[q].next \ terminals \subseteq DOMAIN states'[q].actions
    <3>1. /\ states'[q].next = states[q].next /\ states'[q].actions = ActionsOf(states[q])
          /\ DOMAIN states[q].reductions \subseteq terminals
      BY <1>2 DEF Kept, GInv, ReductionsMade
    <3> QED BY <3>1 DEF ActionsOf, Contested
  <2> SUFFICES ASSUME NEW q \in DOMAIN states, NEW s \in DOMAIN states'[q].actions
               PROVE  LET a == states'[q].actions[s]
                      IN  IF a.shift # 0 THEN s \in DOMAIN states'[q].next /\ a.shift = states'[q].next[s]
                          ELSE s \in DOMAIN states'[q].reductions /\ a.reduce \in states'[q].reductions[s]
    BY <1>0, <1>2, <2>0 DEF ActionsMade, Goto, tableVars
  <2>1. s \in DOMAIN ActionsOf(states[q]) /\ states'[q].actions = ActionsOf(states[q])
    BY <1>2
  <2>2. states'[q].next = states[q].next /\ states'[q].reductions = states[q].reductions
    BY <1>2 DEF Kept
  <2>3. LET a == ActionsOf(states[q])[s]
        IN  IF a.shift # 0 THEN s \in DOMAIN states[q].next /\ a.shift = Goto(q, s)
            ELSE s \in DOMAIN states[q].reductions /\ a.reduce \in states[q].reductions[s]
    BY <1>1, <2>1, ActionsFacts
  <2> QED BY <2>1, <2>2, <2>3 DEF Goto
<1>7. LalrMade'
  BY <1>0 DEF LalrMade
<1> QED BY <1>4, <1>5, <1>6, <1>7 DEF GInv

\* A step that only runs the parser or configures it.
LEMMA TablesKept == ASSUME GInv, UNCHANGED genVars PROVE GInv'
<1>0. UNCHANGED tableVars /\ UNCHANGED <<phase, states, candidate, queue, scan, lalrVars>>
  BY DEF genVars, tableVars, lalrVars
<1>1. StatesMade' /\ ReductionsMade' /\ Transitions' = Transitions
  BY <1>0, SameStates DEF GInv
<1>2. PhaseMade'
  BY <1>0, Fixed DEF GInv, PhaseMade, tableVars
<1>3. CandidateMade'
  BY <1>0, Fixed DEF GInv, CandidateMade
<1>4. WorkLeft'
  <2>1. \A q : Followed(q)' = Followed(q)
    BY <1>0 DEF Followed
  <2> QED BY <1>0, <2>1, Fixed DEF GInv, WorkLeft
<1>5. ActionsMade'
  BY <1>0 DEF GInv, ActionsMade, Goto, tableVars
<1>6. LalrMade'
  BY <1>0, <1>1, Fixed DEF GInv, LalrMade, lalrVars, tableVars
<1> QED BY <1>0, <1>1, <1>2, <1>3, <1>4, <1>5, <1>6 DEF GInv, tableVars

\* Every step keeps the tables sound, whichever phase generate() is in.
LEMMA GInvStep == GInv /\ [Next]_vars => GInv'
<1> SUFFICES ASSUME GInv, [Next]_vars PROVE GInv'
  OBVIOUS
<1>1. CASE GenNext
  <2>1. CASE Configure
    BY <2>1, TablesKept DEF Configure
  <2>2. CASE Generate
    BY <2>2, GenerateStep
  <2>3. CASE Itemsets
    BY <2>3, CloseItemStep, RegisterStep, PopStateStep, FollowSymbolStep, ItemsetsDoneStep DEF Itemsets
  <2>4. CASE Lalr
    BY <2>4, GenerateReadsStep, GenerateIncludesLookbackStep, GenerateFollowSetsStep,
       GenerateLookaheadsStep DEF Lalr
  <2>5. CASE GenerateActions
    BY <2>5, GenerateActionsStep
  <2> QED BY <1>1, <2>1, <2>2, <2>3, <2>4, <2>5 DEF GenNext
<1>2. ASSUME NEW tokens \in grammar.inputs, Parse(tokens) PROVE GInv'
  BY <1>2, TablesKept DEF Parse
<1>3. CASE Turn
  BY <1>3, TablesKept DEF Turn
<1>4. CASE UNCHANGED vars
  BY <1>4, TablesKept DEF vars
<1> QED BY <1>1, <1>2, <1>3, <1>4 DEF Next

\* The tables are sound always.
LEMMA TablesInvariant == Spec => []GInv
<1>1. Init => GInv
  BY InitGInv
<1>2. GInv /\ [Next]_vars => GInv'
  BY GInvStep
<1> QED BY <1>1, <1>2, PTL DEF Spec

-----------------------------------------------------------------------------
(* The stacks                                                               *)

\* The items of a state are those of the state before it, a symbol further.
LEMMA StepBack ==
  ASSUME GInv, AutomatonMade, NEW q \in DOMAIN states, NEW s \in DOMAIN states[q].next,
         NEW i \in states[Goto(q, s)].closure, i.dot > 0
  PROVE  /\ [prod |-> i.prod, dot |-> i.dot - 1, la |-> i.la] \in states[q].closure
         /\ SymbolsOf(i.prod)[i.dot] = s
<1> DEFINE u == Goto(q, s)
<1>1. u \in DOMAIN states /\ states[u].kernel = GotoKernel(states[q].closure, s)
  BY DEF GInv, StatesMade
<1>2. /\ GrammarMade /\ ItemSetMade(states[u])
      /\ states[q].closure \subseteq Items /\ states[u].closure \subseteq Items
  BY <1>1, TableFacts DEF AutomatonMade
<1>3. i \in states[u].kernel
  BY <1>2 DEF ItemSetMade, Grounded
<1>4. PICK j \in states[q].closure : /\ ~IsDone(j) /\ NextSymbol(j) = s
                                     /\ i.prod = j.prod /\ i.dot = j.dot + 1 /\ i.la = j.la
  <2> DEFINE c == states[q].closure
  <2>1. c \in SUBSET Items /\ i \in GotoKernel(c, s)
    BY <1>1, <1>2, <1>3
  <2> HIDE DEF c
  <2>2. GrammarMade
    BY <1>2
  <2>3. \A x \in GotoKernel(c, s) : \E j \in c :
          /\ ~IsDone(j) /\ NextSymbol(j) = s
          /\ x.prod = j.prod /\ x.dot = j.dot + 1 /\ x.la = j.la
    BY <2>1, <2>2, GotoFacts
  <2> QED BY <2>1, <2>3 DEF c
<1>5. j.dot \in Nat /\ j = [prod |-> j.prod, dot |-> j.dot, la |-> j.la]
  BY <1>2, ItemFacts
<1>6. i.dot - 1 = j.dot
  BY <1>4, <1>5
<1> QED BY <1>4, <1>5, <1>6 DEF NextSymbol

\* In the first state every dot is in front, and nothing leads there.
LEMMA FirstState ==
  ASSUME GInv, AutomatonMade
  PROVE  /\ \A i \in states[1].closure : i.dot = 0
         /\ \A q \in DOMAIN states : \A s \in DOMAIN states[q].next : Goto(q, s) # 1
         /\ 1 \in DOMAIN states
<1>1. 1 \in DOMAIN states
  BY TableFacts DEF AutomatonMade, GInv, PhaseMade
<1>2. states[1].kernel = {RootItem} /\ ItemSetMade(states[1])
  BY <1>1 DEF GInv, StatesMade
<1>3. \A i \in states[1].closure : i.dot = 0
  BY <1>2 DEF ItemSetMade, Grounded, RootItem
<1>4. ASSUME NEW q \in DOMAIN states, NEW s \in DOMAIN states[q].next
      PROVE  Goto(q, s) # 1
  <2>1. /\ s \in SymbolsAfterDots(states[q].closure)
        /\ states[Goto(q, s)].kernel = GotoKernel(states[q].closure, s)
    BY DEF GInv, StatesMade
  <2>2. states[q].closure \subseteq Items /\ GrammarMade
    BY TableFacts DEF AutomatonMade
  <2>3. \A i \in states[Goto(q, s)].kernel : i.dot > 0
    BY <2>1, <2>2, GotoFacts
  <2>4. RootItem.dot = 0 /\ RootItem \in states[1].kernel
    BY <1>2 DEF RootItem
  <2> QED BY <2>3, <2>4
<1> QED BY <1>1, <1>3, <1>4

\* The stacks of a parse that runs.
LEMMA StackFacts ==
  ASSUME GInv, RInv, status = "running"
  PROVE  /\ phase = "ready" /\ AutomatonMade
         /\ Len(parse_stack_matches) \in Nat
         /\ Len(parse_stack_states) = Len(parse_stack_matches) + 1
         /\ DOMAIN parse_stack_states = 1 .. Len(parse_stack_matches) + 1
         /\ DOMAIN parse_stack_matches = 1 .. Len(parse_stack_matches)
         /\ parse_stack_states[1] = 1
         /\ \A n \in DOMAIN parse_stack_states : parse_stack_states[n] \in DOMAIN states
         /\ \A n \in DOMAIN parse_stack_matches :
              Joined(parse_stack_states[n], parse_stack_matches[n], parse_stack_states[n + 1])
<1>1. phase = "ready"
  BY DEF RInv, StacksMade, Run!RunInit
<1>2. /\ parse_stack_states \in Seq(DOMAIN states)
      /\ parse_stack_matches \in Seq(Range(parse_stack_matches))
  BY DEF RInv, StacksMade
<1> QED BY <1>1, <1>2 DEF RInv, Path, AutomatonMade

\* What is in front of the dot of an item of state m of the stack lies on the
\* stack, and the item with the dot in front is in the state under it.
LEMMA WalkBack ==
  ASSUME GInv, RInv, status = "running",
         NEW m \in DOMAIN parse_stack_states, NEW i \in states[parse_stack_states[m]].closure
  PROVE  /\ i.dot \in 0 .. m - 1
         /\ [prod |-> i.prod, dot |-> 0, la |-> i.la]
              \in states[parse_stack_states[m - i.dot]].closure
         /\ \A d \in 1 .. i.dot :
              \E g \in DOMAIN Run!TagsOf(parse_stack_matches[m - 1 - i.dot + d]) :
                Run!TagsOf(parse_stack_matches[m - 1 - i.dot + d])[g] = SymbolsOf(i.prod)[d]
<1> DEFINE ps == parse_stack_states
           pm == parse_stack_matches
           item(e) == [prod |-> i.prod, dot |-> i.dot - e, la |-> i.la]
           Spells(n, s) == \E g \in DOMAIN Run!TagsOf(pm[n]) : Run!TagsOf(pm[n])[g] = s
           S == {e \in 0 .. i.dot :
                   /\ m - e >= 1
                   /\ item(e) \in states[ps[m - e]].closure
                   /\ \A f \in 1 .. e : Spells(m - f, SymbolsOf(i.prod)[i.dot - f + 1])}
<1>1. /\ AutomatonMade /\ Len(pm) \in Nat /\ DOMAIN ps = 1 .. Len(pm) + 1 /\ DOMAIN pm = 1 .. Len(pm)
      /\ ps[1] = 1 /\ \A n \in DOMAIN ps : ps[n] \in DOMAIN states
      /\ \A n \in DOMAIN pm : Joined(ps[n], pm[n], ps[n + 1])
  BY StackFacts
<1>2. /\ i.dot \in Nat /\ i = item(0) /\ m \in Nat
  <2>1. i \in Items /\ GrammarMade
    BY <1>1, TableFacts DEF AutomatonMade
  <2>2. i.dot \in Nat /\ i = [prod |-> i.prod, dot |-> i.dot, la |-> i.la]
    BY <2>1, ItemFacts
  <2>3. i.dot - 0 = i.dot
    BY <2>2
  <2> QED BY <1>1, <2>2, <2>3
<1>3. 0 \in S
  <2>1. m - 0 = m /\ m >= 1 /\ 0 \in 0 .. i.dot /\ 1 .. 0 = {}
    BY <1>1, <1>2
  <2> QED BY <1>2, <2>1
<1>4. ASSUME NEW e \in 1 .. i.dot, e - 1 \in S
      PROVE  e \in S
  <2> DEFINE j == item(e - 1)
             u == ps[m - (e - 1)]
  <2>1. /\ m - (e - 1) >= 1 /\ j \in states[u].closure
        /\ \A f \in 1 .. e - 1 : Spells(m - f, SymbolsOf(i.prod)[i.dot - f + 1])
    BY <1>4
  <2>2. j.prod = i.prod /\ j.dot = i.dot - (e - 1) /\ j.la = i.la /\ j.dot > 0
        /\ m - (e - 1) = (m - e) + 1 /\ m - (e - 1) \in DOMAIN ps /\ e \in Nat
    BY <1>1, <1>2, <2>1
  <2> HIDE DEF j, u, Spells
  <2>3. u # 1
    BY <1>1, <2>1, <2>2, FirstState
  <2>4. m - e >= 1 /\ m - e \in DOMAIN pm /\ m - e \in DOMAIN ps
    <3>1. m - (e - 1) # 1
      BY <1>1, <2>3 DEF u
    <3> QED BY <1>1, <1>2, <2>2, <3>1
  <2>5. Joined(ps[m - e], pm[m - e], u)
    BY <1>1, <2>2, <2>4 DEF u
  <2>6. PICK g \in DOMAIN Run!TagsOf(pm[m - e]) :
          /\ Run!TagsOf(pm[m - e])[g] \in DOMAIN states[ps[m - e]].next
          /\ u = Goto(ps[m - e], Run!TagsOf(pm[m - e])[g])
    BY <2>5 DEF Joined
  <2>7. /\ [prod |-> j.prod, dot |-> j.dot - 1, la |-> j.la] \in states[ps[m - e]].closure
        /\ SymbolsOf(j.prod)[j.dot] = Run!TagsOf(pm[m - e])[g]
    BY <1>1, <2>1, <2>2, <2>4, <2>6, StepBack
  <2>8. j.dot - 1 = i.dot - e /\ j.dot = i.dot - e + 1
    BY <1>2, <2>2
  <2>9. item(e) \in states[ps[m - e]].closure
    BY <2>2, <2>7, <2>8
  <2>10. Spells(m - e, SymbolsOf(i.prod)[i.dot - e + 1])
    BY <2>2, <2>6, <2>7, <2>8 DEF Spells
  <2>11. \A f \in 1 .. e : f = e \/ f \in 1 .. e - 1
    OBVIOUS
  <2>12. e \in 0 .. i.dot
    OBVIOUS
  <2> QED BY <2>1, <2>4, <2>9, <2>10, <2>11, <2>12
<1>5. 0 .. i.dot \subseteq S
  <2> HIDE DEF S
  <2> QED BY <1>2, <1>3, <1>4, UpTo
<1>6. i.dot \in S
  <2> HIDE DEF S
  <2>1. i.dot \in 0 .. i.dot
    BY <1>2
  <2> QED BY <1>5, <2>1
<1>7. i.dot \in 0 .. m - 1 /\ i.dot - i.dot = 0
  BY <1>2, <1>6
<1>8. item(i.dot) \in states[ps[m - i.dot]].closure
  BY <1>6
<1>9. ASSUME NEW d \in 1 .. i.dot
      PROVE  Spells(m - 1 - i.dot + d, SymbolsOf(i.prod)[d])
  <2> DEFINE f == i.dot - d + 1
  <2>1. f \in 1 .. i.dot /\ m - f = m - 1 - i.dot + d /\ i.dot - f + 1 = d
    BY <1>2
  <2>2. Spells(m - f, SymbolsOf(i.prod)[i.dot - f + 1])
    <3> HIDE DEF f, Spells
    <3> QED BY <1>6, <2>1
  <2> HIDE DEF f, Spells
  <2> QED BY <2>1, <2>2
<1> QED BY <1>7, <1>8, <1>9

\* The symbol of a turn, and what is left when it is taken.
LEMMA SymbolFacts ==
  ASSUME GInv, RInv, phase = "ready"
  PROVE  /\ IsMatch(Run!Symbol)
         /\ Run!BufferLeft \in Seq(Range(Run!BufferLeft))
         /\ \A n \in DOMAIN Run!BufferLeft : IsMatch(Run!BufferLeft[n])
         /\ Run!PosAfter \in Nat \ {0}
         /\ NoRewrites =>
              /\ Run!BufferLeft = <<>>
                   \/ (Run!Symbol.prod # 0 /\ Len(Run!BufferLeft) = 1 /\ Run!BufferLeft[1].prod = 0)
<1> DEFINE b == symbol_buffer
<1>1. /\ b \in Seq(Range(b)) /\ \A n \in DOMAIN b : IsMatch(b[n])
      /\ input \in Seq(Seq(terminals \cup {BAD})) /\ pos \in Nat \ {0}
  BY DEF RInv, StacksMade
<1>2. GrammarMade /\ END \in terminals
  BY DEF GInv, PhaseMade, GrammarMade
<1>3. Len(productions) \in Nat
  BY <1>2 DEF GrammarMade
<1>4. Run!PosAfter \in Nat \ {0}
  BY <1>1 DEF Run!PosAfter
<1>5. CASE b = <<>>
  <2>1. Run!BufferLeft = <<>>
    BY <1>5 DEF Run!BufferLeft
  <2>2. <<>> \in Seq(Range(<<>>)) /\ DOMAIN <<>> = {}
    OBVIOUS
  <2>3. \A tags \in Seq(terminals \cup {BAD}) : \A places : IsMatch(Run!Terminal(tags, places))
    BY <1>3 DEF IsMatch, Run!Terminal
  <2>4. <<END>> \in Seq(terminals \cup {BAD})
    BY <1>2
  <2>5. pos <= Len(input) => input[pos] \in Seq(terminals \cup {BAD})
    BY <1>1
  <2>6. Run!Symbol = IF pos <= Len(input) THEN Run!Terminal(input[pos], <<pos>>) ELSE Run!Terminal(<<END>>, <<>>)
    BY <1>5 DEF Run!Symbol
  <2>7. IsMatch(Run!Symbol)
    BY <2>3, <2>4, <2>5, <2>6
  <2>8. Run!BufferLeft \in Seq(Range(Run!BufferLeft)) /\ DOMAIN Run!BufferLeft = {}
    BY <2>1, <2>2
  <2> QED BY <1>4, <2>1, <2>7, <2>8
<1>6. CASE b # <<>>
  <2> DEFINE t == Tail(b)
  <2>1. /\ Len(b) \in Nat \ {0} /\ DOMAIN b = 1 .. Len(b) /\ Head(b) = b[1]
        /\ t \in Seq(Range(b)) /\ Len(t) = Len(b) - 1 /\ DOMAIN t = 1 .. Len(b) - 1
        /\ \A n \in 1 .. Len(b) - 1 : t[n] = b[n + 1]
    BY <1>1, <1>6
  <2>2. Run!Symbol = b[1] /\ Run!BufferLeft = t
    BY <1>6, <2>1 DEF Run!Symbol, Run!BufferLeft
  <2> HIDE DEF b, t
  <2>3. t \in Seq(Range(t))
    BY <2>1, OfItsOwn
  <2>4. 1 \in DOMAIN b /\ \A n \in 1 .. Len(b) - 1 : n + 1 \in DOMAIN b
    BY <2>1
  <2>5. IsMatch(b[1]) /\ \A n \in DOMAIN t : IsMatch(t[n])
    BY <1>1, <2>1, <2>4 DEF b
  <2>6. ASSUME NoRewrites
        PROVE  t = <<>> \/ (b[1].prod # 0 /\ Len(t) = 1 /\ t[1].prod = 0)
    <3>1. /\ Len(b) <= 2
          /\ Len(b) = 2 => b[1].prod # 0 /\ b[2].prod = 0
      BY <2>6 DEF RInv, BufferShort, b
    <3>2. CASE Len(b) = 2
      <4>1. Len(t) = 1 /\ t[1] = b[2]
        BY <2>1, <3>2
      <4> QED BY <3>1, <3>2, <4>1
    <3>3. CASE Len(b) # 2
      <4>1. Len(t) = 0
        BY <2>1, <3>1, <3>3
      <4>2. t = <<>>
        BY <2>1, <4>1, EmptySeq
      <4> QED BY <4>2
    <3> QED BY <3>2, <3>3
  <2> QED BY <1>4, <2>2, <2>3, <2>5, <2>6
<1> QED BY <1>5, <1>6

\* The tag that a turn goes by is one of its symbol, and one the state acts on.
LEMMA TagFacts ==
  ASSUME Run!Proceed, IsMatch(Run!Symbol)
  PROVE  /\ \E g \in DOMAIN Run!TagsOf(Run!Symbol) : Run!TagsOf(Run!Symbol)[g] = Run!tag
         /\ ~(Run!curr.accept /\ Run!tag = END) => Run!tag \in DOMAIN Run!curr.actions
<1> DEFINE tags == Run!TagsOf(Run!Symbol)
           U == Run!Usable
<1>1. U # {}
  BY DEF Run!Proceed
<1>2. DOMAIN tags \subseteq Nat
  <2>1. CASE Run!Symbol.prod = 0
    BY <2>1 DEF Run!TagsOf, IsMatch
  <2>2. CASE Run!Symbol.prod # 0
    <3>1. tags = <<productions[Run!Symbol.prod].target>>
      BY <2>2 DEF Run!TagsOf
    <3> QED BY <3>1
  <2> QED BY <2>1, <2>2
<1>3. U \subseteq DOMAIN tags /\ \A n \in U : tags[n] \in DOMAIN Run!curr.actions
                                              \/ (Run!curr.accept /\ tags[n] = END)
  BY DEF Run!Usable
<1> HIDE DEF U
<1>4. \E n \in U : \A j \in U : n <= j
  BY <1>1, <1>2, <1>3, LeastNat
<1> DEFINE c == CHOOSE n \in U : \A j \in U : n <= j
<1>5. c \in U
  BY <1>4
<1>6. Run!tag = tags[c]
  BY DEF Run!tag, U
<1> HIDE DEF c, tags
<1> QED BY <1>3, <1>5, <1>6 DEF tags

\* A match of a nonterminal offers that nonterminal, one of a token only tokens.
LEMMA MatchTags ==
  ASSUME GInv, phase = "ready", NEW m, IsMatch(m), NEW g \in DOMAIN Run!TagsOf(m)
  PROVE  /\ m.prod = 0 => Run!TagsOf(m)[g] \in terminals \cup {BAD}
                          /\ Run!TagsOf(m)[g] \notin Nonterminals
         /\ m.prod # 0 => /\ m.prod \in DOMAIN productions
                          /\ Run!TagsOf(m)[g] = productions[m.prod].target
                          /\ Run!TagsOf(m)[g] \in Nonterminals
<1>1. GrammarMade /\ grammar \in Grammars
  BY DEF GInv, PhaseMade
<1>2. (terminals \cup {BAD}) \cap Nonterminals = {}
  <2>1. terminals \cap (grammar.nonterminals \cup {ROOT}) = {}
    BY <1>1, GrammarAssumption DEF GrammarMade
  <2>2. BAD \notin grammar.nonterminals \cup {ROOT}
    BY <1>1, TextAssumption
  <2> QED BY <2>1, <2>2 DEF Nonterminals
<1>3. CASE m.prod = 0
  BY <1>2, <1>3 DEF IsMatch, Run!TagsOf
<1>4. CASE m.prod # 0
  <2>1. m.prod \in DOMAIN productions
    BY <1>1, <1>4 DEF IsMatch, GrammarMade
  <2>2. Run!TagsOf(m) = <<productions[m.prod].target>>
    BY <1>4 DEF Run!TagsOf
  <2>3. Run!TagsOf(m)[g] = productions[m.prod].target
    BY <2>2
  <2> QED BY <1>1, <1>4, <2>1, <2>3 DEF GrammarMade
<1> QED BY <1>3, <1>4

\* The state on top of the stack.
LEMMA TopFacts ==
  ASSUME GInv, RInv, status = "running"
  PROVE  LET q == parse_stack_states[Len(parse_stack_states)]
         IN  q \in DOMAIN states /\ Run!curr = states[q]
             /\ Len(parse_stack_states) \in DOMAIN parse_stack_states
BY StackFacts DEF Run!curr

-----------------------------------------------------------------------------
(* Turns of a parse                                                         *)

\* What a run reads of the tables stays as it is.
LEMMA SameTables ==
  ASSUME UNCHANGED genVars
  PROVE  /\ terminals' = terminals /\ productions' = productions /\ states' = states
         /\ grammar' = grammar /\ phase' = phase /\ nullable' = nullable /\ type' = type
         /\ queue' = queue
         /\ \A m : Run!TagsOf(m)' = Run!TagsOf(m)
         /\ \A m : IsMatch(m)' <=> IsMatch(m)
         /\ \A q, m, u : Joined(q, m, u)' <=> Joined(q, m, u)
         /\ NoRewrites' <=> NoRewrites
<1>1. /\ terminals' = terminals /\ productions' = productions /\ states' = states
      /\ grammar' = grammar /\ phase' = phase /\ nullable' = nullable /\ type' = type
      /\ queue' = queue
  BY DEF genVars
<1>2. \A m : Run!TagsOf(m)' = Run!TagsOf(m)
  BY <1>1 DEF Run!TagsOf
<1>3. \A m : IsMatch(m)' <=> IsMatch(m)
  BY <1>1 DEF IsMatch
<1>4. \A q, m, u : Joined(q, m, u)' <=> Joined(q, m, u)
  BY <1>1, <1>2 DEF Joined, Goto
<1>5. NoRewrites' <=> NoRewrites
  BY <1>1 DEF NoRewrites
<1> QED BY <1>1, <1>2, <1>3, <1>4, <1>5

\* A symbol taken leaves the buffer in shape.
LEMMA BufferTaken ==
  ASSUME GInv, RInv, UNCHANGED genVars, phase = "ready",
         symbol_buffer' = Run!BufferLeft
  PROVE  /\ BufferShort'
         /\ symbol_buffer' \in Seq(Range(symbol_buffer'))
         /\ \A n \in DOMAIN symbol_buffer' : IsMatch(symbol_buffer'[n])
<1>1. /\ symbol_buffer' \in Seq(Range(symbol_buffer'))
      /\ \A n \in DOMAIN symbol_buffer' : IsMatch(symbol_buffer'[n])
  BY SymbolFacts
<1>2. NoRewrites => \/ symbol_buffer' = <<>>
                    \/ Len(symbol_buffer') = 1 /\ symbol_buffer'[1].prod = 0
  BY SymbolFacts
<1>3. BufferShort'
  <2> DEFINE b == symbol_buffer'
  <2> HIDE DEF b
  <2>1. NoRewrites => \/ b = <<>>
                      \/ Len(b) = 1 /\ b[1].prod = 0
    BY <1>2 DEF b
  <2>2. Len(<<>>) = 0
    OBVIOUS
  <2>3. NoRewrites =>
          /\ Len(b) <= 2
          /\ Len(b) = 1 => b[1].prod = 0
          /\ Len(b) = 2 => b[1].prod # 0 /\ b[2].prod = 0
    BY <2>1, <2>2
  <2> QED BY <2>3, SameTables DEF BufferShort, b
<1> QED BY <1>1, <1>3

\* A parse begins in the first state with no matches.
LEMMA ParseStep ==
  ASSUME GInv, RInv, NEW tokens \in grammar.inputs, Parse(tokens)
  PROVE  RInv'
<1>0. /\ phase = "ready" /\ UNCHANGED genVars
      /\ input' = tokens /\ pos' = 1 /\ parse_stack_states' = <<1>> /\ parse_stack_matches' = <<>>
      /\ status' = "running" /\ symbol_buffer' = symbol_buffer
  BY DEF Parse, Run!Parse
<1>1. 1 \in DOMAIN states /\ grammar \in Grammars /\ GrammarMade
  BY <1>0, FirstState DEF AutomatonMade, GInv, PhaseMade
<1>2. input' \in Seq(Seq(terminals \cup {BAD}))
  <2> DEFINE T == terminals \cup {BAD}
             U == Seq(grammar.terminals \cup {BAD}) \ {<<>>}
  <2>1. tokens \in Seq(U)
    BY <1>1, TextAssumption
  <2>2. U \subseteq Seq(T)
    BY <1>1 DEF GrammarMade
  <2> HIDE DEF U, T
  <2>3. tokens \in Seq(Seq(T))
    BY <2>1, <2>2, SeqMonotonic
  <2> QED BY <1>0, <2>3 DEF T
<1>3. <<1>> \in Seq(DOMAIN states) /\ <<>> \in Seq(Range(<<>>)) /\ DOMAIN <<>> = {} /\ DOMAIN <<1>> = {1}
      /\ Len(<<1>>) = 1 /\ Len(<<>>) = 0
  BY <1>1
<1>4. /\ symbol_buffer \in Seq(Range(symbol_buffer))
      /\ \A n \in DOMAIN symbol_buffer : IsMatch(symbol_buffer[n])
  BY DEF RInv, StacksMade
<1>5. StacksMade'
  BY <1>0, <1>2, <1>3, <1>4, SameTables DEF StacksMade
<1>6. Path'
  BY <1>0, <1>3 DEF Path
<1>7. BufferShort'
  BY <1>0, SameTables DEF RInv, BufferShort
<1>8. AcceptedWhole'
  BY <1>0 DEF AcceptedWhole
<1> QED BY <1>5, <1>6, <1>7, <1>8 DEF RInv

\* A parse that stops in an error.
LEMMA GiveUpStep ==
  ASSUME GInv, RInv, UNCHANGED genVars, Run!BadToken \/ Run!Reject
  PROVE  RInv'
<1>0. /\ status = "running" /\ pos' = Run!PosAfter /\ symbol_buffer' = Run!BufferLeft
      /\ status' \in {"null", "undefined"}
      /\ UNCHANGED <<input, parse_stack_states, parse_stack_matches>>
  BY DEF Run!BadToken, Run!Reject, Run!GiveUp
<1>1. phase = "ready"
  BY <1>0, StackFacts
<1>2. pos' \in Nat \ {0}
  BY <1>0, <1>1, SymbolFacts
<1>3. /\ BufferShort'
      /\ symbol_buffer' \in Seq(Range(symbol_buffer'))
      /\ \A n \in DOMAIN symbol_buffer' : IsMatch(symbol_buffer'[n])
  BY <1>0, <1>1, BufferTaken
<1>4. StacksMade'
  BY <1>0, <1>1, <1>2, <1>3, SameTables DEF RInv, StacksMade
<1>5. Path' /\ AcceptedWhole'
  BY <1>0 DEF Path, AcceptedWhole
<1> QED BY <1>3, <1>4, <1>5 DEF RInv

\* A shift goes along the transition of one of the token's tags.
LEMMA ShiftStep ==
  ASSUME GInv, RInv, UNCHANGED genVars, Run!Shift
  PROVE  RInv'
<1> DEFINE ps == parse_stack_states
           pm == parse_stack_matches
           n == Len(pm)
           q == ps[Len(ps)]
           s == Run!tag
           u == Run!curr.actions[s].shift
           m == Run!Symbol
<1>0. /\ Run!Proceed /\ ~(Run!curr.accept /\ s = END) /\ u # 0
      /\ pos' = Run!PosAfter /\ symbol_buffer' = Run!BufferLeft
      /\ ps' = Append(ps, u) /\ pm' = Append(pm, m)
      /\ UNCHANGED <<input, status>> /\ status = "running"
  BY DEF Run!Shift, Run!Proceed
<1>1. /\ phase = "ready" /\ n \in Nat /\ Len(ps) = n + 1
      /\ DOMAIN ps = 1 .. n + 1 /\ DOMAIN pm = 1 .. n /\ ps[1] = 1
      /\ \A x \in DOMAIN pm : Joined(ps[x], pm[x], ps[x + 1])
  BY <1>0, StackFacts
<1>2. q \in DOMAIN states /\ Run!curr = states[q]
  BY <1>0, TopFacts
<1>3. IsMatch(m) /\ pos' \in Nat \ {0}
  BY <1>0, <1>1, SymbolFacts
<1>4. PICK g \in DOMAIN Run!TagsOf(m) : Run!TagsOf(m)[g] = s
  BY <1>0, <1>3, TagFacts
<1>5. s \in DOMAIN states[q].next /\ u = Goto(q, s)
  <2>1. s \in DOMAIN Run!curr.actions
    BY <1>0, <1>3, TagFacts
  <2> QED BY <1>0, <1>1, <1>2, <2>1 DEF GInv, ActionsMade
<1>6. u \in DOMAIN states
  BY <1>2, <1>5 DEF GInv, StatesMade
<1>7. Joined(q, m, u)
  BY <1>4, <1>5 DEF Joined
<1>8. /\ BufferShort'
      /\ symbol_buffer' \in Seq(Range(symbol_buffer'))
      /\ \A x \in DOMAIN symbol_buffer' : IsMatch(symbol_buffer'[x])
  BY <1>0, <1>1, BufferTaken
<1>9. /\ ps \in Seq(DOMAIN states) /\ pm \in Seq(Range(pm))
      /\ \A x \in DOMAIN pm : IsMatch(pm[x])
      /\ input \in Seq(Seq(terminals \cup {BAD}))
  BY DEF RInv, StacksMade
<1> HIDE DEF u, m, s, q
<1>10. /\ ps' \in Seq(DOMAIN states) /\ Len(ps') = n + 2 /\ ps'[n + 2] = u
       /\ \A x \in 1 .. n + 1 : ps'[x] = ps[x]
  <2>1. Append(ps, u) \in Seq(DOMAIN states) /\ Len(Append(ps, u)) = n + 2
        /\ Append(ps, u)[n + 2] = u /\ \A x \in 1 .. n + 1 : Append(ps, u)[x] = ps[x]
    BY <1>1, <1>6, <1>9
  <2> QED BY <1>0, <2>1
<1>11. /\ pm' \in Seq(Range(pm')) /\ Len(pm') = n + 1 /\ DOMAIN pm' = 1 .. n + 1 /\ pm'[n + 1] = m
       /\ \A x \in 1 .. n : pm'[x] = pm[x]
  <2> DEFINE R == Range(pm) \cup {m}
             a == Append(pm, m)
  <2>1. pm \in Seq(R) /\ m \in R
    BY <1>9
  <2> HIDE DEF R
  <2>2. a \in Seq(R) /\ Len(a) = n + 1 /\ DOMAIN a = 1 .. n + 1 /\ a[n + 1] = m
        /\ \A x \in 1 .. n : a[x] = pm[x]
    BY <1>1, <2>1
  <2> HIDE DEF a
  <2>3. a \in Seq(Range(a))
    BY <2>2, OfItsOwn
  <2> QED BY <1>0, <2>2, <2>3 DEF a
<1>12. \A x \in 1 .. n + 1 : x = n + 1 \/ (x \in 1 .. n /\ x + 1 \in 1 .. n + 1 /\ x \in 1 .. n + 1)
  BY <1>1
<1>13. (n + 1) + 1 = n + 2 /\ n + 1 \in 1 .. n + 1 /\ 1 \in 1 .. n + 1 /\ q = ps[n + 1]
  BY <1>1 DEF q
<1>14. \A x \in 1 .. n + 1 : IsMatch(pm'[x]) /\ Joined(ps'[x], pm'[x], ps'[x + 1])
  <2> SUFFICES ASSUME NEW x \in 1 .. n + 1
               PROVE  IsMatch(pm'[x]) /\ Joined(ps'[x], pm'[x], ps'[x + 1])
    OBVIOUS
  <2>1. CASE x = n + 1
    BY <2>1, <1>3, <1>7, <1>10, <1>11, <1>13
  <2>2. CASE x # n + 1
    BY <2>2, <1>1, <1>9, <1>10, <1>11, <1>12
  <2> QED BY <2>1, <2>2
<1> HIDE DEF ps, pm, n
<1>15. StacksMade'
  BY <1>0, <1>1, <1>3, <1>8, <1>9, <1>10, <1>11, <1>14, SameTables DEF StacksMade, ps, pm
<1>16. Path'
  BY <1>1, <1>10, <1>11, <1>13, <1>14, SameTables DEF Path, ps, pm
<1>17. AcceptedWhole'
  BY <1>0 DEF AcceptedWhole
<1> QED BY <1>8, <1>15, <1>16, <1>17 DEF RInv

\* The right-hand side of an item that is done is on top of the stack, and the
\* state under it follows its nonterminal; for ROOT that is the first state.
LEMMA HandleFacts ==
  ASSUME GInv, RInv, status = "running", NEW i \in Run!curr.closure, IsDone(i)
  PROVE  LET n == Len(SymbolsOf(i.prod))
             left == Len(parse_stack_matches) - n
         IN  /\ n \in Nat /\ left \in Nat
             /\ \A d \in 1 .. n :
                  \E g \in DOMAIN Run!TagsOf(parse_stack_matches[left + d]) :
                    Run!TagsOf(parse_stack_matches[left + d])[g] = SymbolsOf(i.prod)[d]
             /\ IF productions[i.prod].target = ROOT THEN left = 0
                ELSE productions[i.prod].target
                       \in DOMAIN states[parse_stack_states[left + 1]].next
<1> DEFINE ps == parse_stack_states
           pm == parse_stack_matches
           n == Len(SymbolsOf(i.prod))
           left == Len(pm) - n
           m == Len(ps)
           q == ps[left + 1]
           item == [prod |-> i.prod, dot |-> 0, la |-> i.la]
           A == productions[i.prod].target
<1>1. /\ AutomatonMade /\ Len(pm) \in Nat /\ m = Len(pm) + 1
      /\ DOMAIN ps = 1 .. Len(pm) + 1 /\ DOMAIN pm = 1 .. Len(pm)
      /\ \A x \in DOMAIN ps : ps[x] \in DOMAIN states
      /\ \A x \in DOMAIN pm : Joined(ps[x], pm[x], ps[x + 1])
  BY StackFacts
<1>2. m \in DOMAIN ps /\ ps[m] \in DOMAIN states /\ Run!curr = states[ps[m]]
  BY TopFacts
<1>3. /\ i.dot \in 0 .. m - 1
      /\ item \in states[ps[m - i.dot]].closure
      /\ \A d \in 1 .. i.dot :
           \E g \in DOMAIN Run!TagsOf(pm[m - 1 - i.dot + d]) :
             Run!TagsOf(pm[m - 1 - i.dot + d])[g] = SymbolsOf(i.prod)[d]
  BY <1>2, WalkBack
<1>4. i.dot = n
  BY DEF IsDone
<1>5. n \in Nat /\ left \in Nat /\ m - i.dot = left + 1 /\ left + 1 \in DOMAIN ps
      /\ \A d \in 1 .. n : m - 1 - i.dot + d = left + d
  BY <1>1, <1>3, <1>4
<1>6. \A d \in 1 .. n : \E g \in DOMAIN Run!TagsOf(pm[left + d]) :
        Run!TagsOf(pm[left + d])[g] = SymbolsOf(i.prod)[d]
  BY <1>3, <1>4, <1>5
<1>7. q \in DOMAIN states /\ item \in states[q].closure
  BY <1>1, <1>3, <1>5
<1>8. /\ GrammarMade /\ grammar \in Grammars /\ ItemSetMade(states[q])
      /\ states[q].closure \subseteq Items
      /\ SymbolsAfterDots(states[q].closure) \subseteq DOMAIN states[q].next
      /\ SymbolsAfterDots(states[q].closure) \subseteq Symbols
  BY <1>1, <1>7, TableFacts, AllFollowed DEF AutomatonMade
<1>9. item.prod = i.prod /\ item.dot = 0
  OBVIOUS
<1> HIDE DEF item, q, left, n, m
<1>10. item \in Items /\ i.prod \in DOMAIN productions
  BY <1>7, <1>8, <1>9, ItemFacts
<1>11. item \notin states[q].kernel => A \in SymbolsAfterDots(states[q].closure)
  <2> SUFFICES ASSUME item \notin states[q].kernel
               PROVE  A \in SymbolsAfterDots(states[q].closure)
    OBVIOUS
  <2>1. \E j \in states[q].closure : ~IsDone(j) /\ NextSymbol(j) = productions[item.prod].target
    BY <1>7, <1>8 DEF ItemSetMade, Grounded
  <2> QED BY <1>9, <2>1 DEF SymbolsAfterDots
<1>12. item \in states[q].kernel => q = 1 /\ A = ROOT
  <2> SUFFICES ASSUME item \in states[q].kernel PROVE q = 1 /\ A = ROOT
    OBVIOUS
  <2>1. q = 1
    <3>1. ~ (item.dot > 0)
      BY <1>9
    <3> QED BY <1>7, <3>1 DEF GInv, StatesMade
  <2>2. item = RootItem
    BY <1>7, <2>1 DEF GInv, StatesMade
  <2>3. i.prod = Len(productions)
    BY <1>9, <2>2 DEF RootItem
  <2> QED BY <1>8, <1>10, <2>1, <2>3 DEF GrammarMade
<1>13. ASSUME A = ROOT PROVE left = 0
  <2>1. ROOT \notin Symbols
    BY <1>8, GrammarAssumption DEF GrammarMade, Symbols
  <2>2. q = 1
    BY <1>8, <1>11, <1>12, <1>13, <2>1
  <2>3. SUFFICES ASSUME left # 0 PROVE FALSE
    OBVIOUS
  <2>4. left \in DOMAIN pm /\ left \in DOMAIN ps
    BY <1>1, <1>5, <2>3
  <2>5. Joined(ps[left], pm[left], q)
    BY <1>1, <2>4 DEF q
  <2> QED BY <1>1, <2>2, <2>4, <2>5, FirstState DEF Joined
<1>14. A # ROOT => A \in DOMAIN states[q].next
  BY <1>8, <1>11, <1>12
<1> QED BY <1>5, <1>6, <1>13, <1>14 DEF n, left, q

\* A text is accepted with one match of the start symbol on the stack: the item
\* of ROOT walks back to the first state.
LEMMA AcceptStep ==
  ASSUME GInv, RInv, UNCHANGED genVars, Run!Accept
  PROVE  RInv'
<1> DEFINE ps == parse_stack_states
           pm == parse_stack_matches
           s == Run!Symbol
           m == pm[1]
<1>0. /\ Run!Proceed /\ Run!curr.accept /\ Run!tag = END
      /\ pos' = Run!PosAfter /\ symbol_buffer' = Run!BufferLeft
      /\ status' = "accepted" /\ result' = pm[Len(pm)]
      /\ pm' = SubSeq(pm, 1, Len(pm) - 1)
      /\ UNCHANGED <<input, ps>> /\ status = "running"
  BY DEF Run!Accept, Run!Proceed
<1>1. /\ phase = "ready" /\ AutomatonMade /\ Len(pm) \in Nat /\ Len(ps) = Len(pm) + 1
      /\ DOMAIN pm = 1 .. Len(pm)
  BY <1>0, StackFacts
<1>2. /\ IsMatch(s) /\ pos' \in Nat \ {0}
      /\ NoRewrites => Run!BufferLeft = <<>> \/ s.prod # 0
  BY <1>0, <1>1, SymbolFacts
<1>3. /\ GrammarMade /\ grammar \in Grammars
      /\ grammar.start \in grammar.nonterminals
      /\ END \in terminals /\ terminals \cap Nonterminals = {}
  <2>1. GrammarMade /\ grammar \in Grammars
    BY <1>1 DEF GInv, PhaseMade
  <2> QED BY <2>1, GrammarAssumption DEF GrammarMade, Nonterminals
<1>4. PICK i \in Run!curr.closure : /\ IsDone(i) /\ productions[i.prod].target = ROOT
                                    /\ i.prod = Len(productions)
  <2> DEFINE st == Run!curr
  <2>1. ItemSetMade(st) /\ st.closure \subseteq Items
    BY <1>0, <1>1, TopFacts, TableFacts DEF AutomatonMade
  <2>2. Accepting(st.kernel)
    BY <1>0, <2>1 DEF ItemSetMade
  <2>3. PICK i \in st.kernel : IsDone(i) /\ productions[i.prod].target = ROOT
    BY <2>2 DEF Accepting
  <2>4. i \in st.closure
    BY <2>1, <2>3 DEF ItemSetMade
  <2>5. i.prod \in DOMAIN productions
    BY <1>3, <2>1, <2>4, ItemFacts
  <2> QED BY <1>3, <2>3, <2>4, <2>5 DEF GrammarMade
<1>5. SymbolsOf(i.prod) = <<grammar.start>>
  BY <1>3, <1>4 DEF GrammarMade
<1>6. Len(SymbolsOf(i.prod)) = 1 /\ SymbolsOf(i.prod)[1] = grammar.start
  BY <1>5
<1>7. /\ Len(pm) = 1
      /\ \E g \in DOMAIN Run!TagsOf(m) : Run!TagsOf(m)[g] = grammar.start
  <2> DEFINE n == Len(SymbolsOf(i.prod))
             left == Len(pm) - n
  <2>1. /\ left = 0
        /\ \A d \in 1 .. n :
                  \E g \in DOMAIN Run!TagsOf(pm[left + d]) :
                    Run!TagsOf(pm[left + d])[g] = SymbolsOf(i.prod)[d]
    BY <1>0, <1>4, HandleFacts
  <2>2. Len(pm) = 1 /\ left + 1 = 1 /\ 1 \in 1 .. n
    <3>1. left = 0 /\ n = 1
      BY <1>6, <2>1
    <3>2. Len(pm) - 1 = 0
      BY <3>1
    <3>3. Len(pm) = 1
      <4> DEFINE l == Len(pm)
      <4>1. l \in Nat /\ l - 1 = 0
        BY <1>1, <3>2
      <4> HIDE DEF l
      <4>2. l = 1
        BY <4>1
      <4> QED BY <4>2 DEF l
    <3> HIDE DEF n, left
    <3> QED BY <3>1, <3>3
  <2> HIDE DEF left, n
  <2> QED BY <1>6, <2>1, <2>2
<1>8. /\ pm \in Seq(Range(pm)) /\ \A x \in DOMAIN pm : IsMatch(pm[x])
      /\ input \in Seq(Seq(terminals \cup {BAD})) /\ ps \in Seq(DOMAIN states)
  BY DEF RInv, StacksMade
<1>9. IsMatch(m) /\ result' = m /\ pm' = <<>>
  BY <1>0, <1>1, <1>7, <1>8
<1>10. m.prod # 0 /\ productions[m.prod].target = grammar.start
  BY <1>1, <1>3, <1>7, <1>9, MatchTags DEF Nonterminals
<1>11. NoRewrites => symbol_buffer' = <<>>
  <2>1. PICK g \in DOMAIN Run!TagsOf(s) : Run!TagsOf(s)[g] = END
    BY <1>0, <1>2, TagFacts
  <2>2. END \notin Nonterminals
    BY <1>3
  <2>3. s.prod = 0
    BY <1>1, <1>2, <2>1, <2>2, MatchTags
  <2> QED BY <1>0, <1>2, <2>3
<1>12. /\ BufferShort'
       /\ symbol_buffer' \in Seq(Range(symbol_buffer'))
       /\ \A x \in DOMAIN symbol_buffer' : IsMatch(symbol_buffer'[x])
  BY <1>0, <1>1, BufferTaken
<1> HIDE DEF m
<1>13. <<>> \in Seq(Range(<<>>)) /\ DOMAIN <<>> = {}
  OBVIOUS
<1>14. StacksMade'
  BY <1>0, <1>1, <1>2, <1>8, <1>9, <1>12, <1>13, SameTables DEF StacksMade
<1>15. Path'
  BY <1>0 DEF Path
<1>16. AcceptedWhole'
  BY <1>0, <1>1, <1>7, <1>9, <1>10, <1>11, SameTables DEF AcceptedWhole
<1> QED BY <1>12, <1>14, <1>15, <1>16 DEF RInv

\* What a reduction puts back: a match of the nonterminal, or what the rewrite
\* handler makes of the matches on top of the stack.
LEMMA ReducedFacts ==
  ASSUME GInv, RInv, status = "running",
         NEW k \in DOMAIN productions, NEW left \in Nat,
         left + Len(SymbolsOf(k)) = Len(parse_stack_matches)
  PROVE  LET terms == SubSeq(parse_stack_matches, left + 1, Len(parse_stack_matches))
             made == Run!Reduced(k, terms)
         IN  /\ made \in Seq(Range(made))
             /\ \A n \in DOMAIN made : IsMatch(made[n])
             /\ NoRewrites => made = <<Run!Nonterminal(k, terms)>>
<1> DEFINE pm == parse_stack_matches
           terms == SubSeq(pm, left + 1, Len(pm))
           made == Run!Reduced(k, terms)
           rewritten == grammar.rewrites[k]
           num == Len(SymbolsOf(k))
<1>1. /\ phase = "ready" /\ Len(pm) \in Nat /\ DOMAIN pm = 1 .. Len(pm)
  BY StackFacts
<1>2. /\ GrammarMade /\ grammar \in Grammars /\ Len(productions) \in Nat
      /\ num \in Nat /\ k \in 1 .. Len(productions)
  BY <1>1 DEF GInv, PhaseMade, GrammarMade
<1>3. /\ pm \in Seq(Range(pm)) /\ \A x \in DOMAIN pm : IsMatch(pm[x])
  BY DEF RInv, StacksMade
<1>4. \A c \in 1 .. num : IsMatch(terms[c])
  <2>1. \A x \in left + 1 .. Len(pm) : pm[x] \in Range(pm)
    BY <1>1 DEF Range
  <2>2. \A c \in 1 .. Len(pm) - (left + 1) + 1 : terms[c] = pm[left + 1 + c - 1]
    BY <1>1, <2>1, SubSeqProperties
  <2>3. \A c \in 1 .. num : /\ c \in 1 .. Len(pm) - (left + 1) + 1
                            /\ left + 1 + c - 1 \in 1 .. Len(pm)
    BY <1>1, <1>2
  <2> QED BY <1>1, <1>3, <2>2, <2>3
<1> HIDE DEF terms, num
<1>5. CASE k \in DOMAIN grammar.rewrites
  <2>1. /\ k \in DOMAIN grammar.productions
        /\ rewritten \in Seq([child : 0 .. Len(grammar.productions[k].symbols),
                              tags : Seq(grammar.terminals)])
    BY <1>2, <1>5, TextAssumption
  <2>2. Len(grammar.productions[k].symbols) = num
    BY <1>2, <2>1 DEF GrammarMade, SymbolsOf, num
  <2>3. made = [i \in DOMAIN rewritten |->
                  IF rewritten[i].child # 0 THEN terms[rewritten[i].child]
                  ELSE Run!Terminal(rewritten[i].tags, <<>>)]
    BY <1>5 DEF Run!Reduced, Run!Pulled
  <2> DEFINE r == rewritten
             T == [child : 0 .. num, tags : Seq(grammar.terminals)]
  <2>4. r \in Seq(T)
    BY <2>1, <2>2
  <2> HIDE DEF r, T, made
  <2>5. Len(r) \in Nat /\ DOMAIN r = 1 .. Len(r) /\ \A i \in 1 .. Len(r) : r[i] \in T
    BY <2>4
  <2>6. made = [i \in 1 .. Len(r) |-> made[i]]
        /\ \A i \in 1 .. Len(r) : made[i] = IF r[i].child # 0 THEN terms[r[i].child]
                                            ELSE Run!Terminal(r[i].tags, <<>>)
    BY <2>3, <2>5 DEF r
  <2>7. made \in Seq(Range(made)) /\ DOMAIN made = 1 .. Len(r)
    BY <2>5, <2>6, FunctionAsSeq
  <2>8. ASSUME NEW i \in 1 .. Len(r) PROVE IsMatch(made[i])
    <3>1. r[i].child \in 0 .. num /\ r[i].tags \in Seq(grammar.terminals)
      BY <2>5 DEF T
    <3>2. CASE r[i].child # 0
      <4>1. r[i].child \in 1 .. num
        BY <1>2, <3>1, <3>2
      <4> QED BY <1>4, <2>6, <3>2, <4>1
    <3>3. CASE r[i].child = 0
      <4> DEFINE tags == r[i].tags
      <4>1. made[i] = Run!Terminal(tags, <<>>)
        BY <2>6, <3>3
      <4>2. tags \in Seq(terminals \cup {BAD})
        <5>1. grammar.terminals \subseteq terminals \cup {BAD}
          BY <1>2 DEF GrammarMade
        <5> QED BY <3>1, <5>1, SeqMonotonic
      <4> HIDE DEF tags
      <4>3. IsMatch(Run!Terminal(tags, <<>>))
        BY <1>2, <4>2 DEF IsMatch, Run!Terminal
      <4> QED BY <4>1, <4>3
    <3> QED BY <3>2, <3>3
  <2>9. ~NoRewrites
    BY <1>5 DEF NoRewrites
  <2> QED BY <2>7, <2>8, <2>9 DEF made, terms
<1>6. CASE k \notin DOMAIN grammar.rewrites
  <2> DEFINE m == Run!Nonterminal(k, terms)
  <2>1. made = <<m>>
    BY <1>6 DEF Run!Reduced
  <2>2. IsMatch(m)
    BY <1>2 DEF IsMatch, Run!Nonterminal
  <2> HIDE DEF m, made
  <2>3. <<m>> \in Seq({m}) /\ DOMAIN <<m>> = {1} /\ <<m>>[1] = m
    OBVIOUS
  <2>4. <<m>> \in Seq(Range(<<m>>))
    BY <2>3, OfItsOwn
  <2>5. made \in Seq(Range(made)) /\ \A x \in DOMAIN made : IsMatch(made[x])
    BY <2>1, <2>2, <2>3, <2>4
  <2> QED BY <2>1, <2>5 DEF made, m, terms
<1> QED BY <1>5, <1>6

\* One sequence of matches after another.
LEMMA MatchesJoined ==
  ASSUME NEW a, a \in Seq(Range(a)), \A n \in DOMAIN a : IsMatch(a[n]),
         NEW b, b \in Seq(Range(b)), \A n \in DOMAIN b : IsMatch(b[n])
  PROVE  /\ a \o b \in Seq(Range(a \o b))
         /\ \A n \in DOMAIN (a \o b) : IsMatch((a \o b)[n])
<1> DEFINE S == Range(a) \cup Range(b)
           c == a \o b
<1>1. \A x \in S : IsMatch(x)
  BY DEF Range
<1>2. a \in Seq(S) /\ b \in Seq(S)
  BY SeqMonotonic
<1> HIDE DEF S
<1>3. c \in Seq(S)
  BY <1>2
<1> HIDE DEF c
<1>4. c \in Seq(Range(c)) /\ \A n \in DOMAIN c : c[n] \in S
  BY <1>3, OfItsOwn
<1> QED BY <1>1, <1>4 DEF c

\* What a turn that reduces is about: a token, and a production of the client's
\* whose item is done in the state on top.
LEMMA ReduceChoice ==
  ASSUME GInv, RInv, Run!Reduce
  PROVE  LET k == Run!curr.actions[Run!tag].reduce
         IN  /\ Run!Symbol.prod = 0
             /\ k \in DOMAIN productions /\ k # Len(productions)
             /\ \E i \in Run!curr.closure : IsDone(i) /\ i.prod = k
<1> DEFINE k == Run!curr.actions[Run!tag].reduce
           q == parse_stack_states[Len(parse_stack_states)]
           t == Run!tag
<1>0. /\ Run!Proceed /\ ~(Run!curr.accept /\ t = END) /\ Run!curr.actions[t].shift = 0
      /\ status = "running"
  BY DEF Run!Reduce, Run!Proceed
<1>1. phase = "ready" /\ AutomatonMade /\ GrammarMade /\ grammar \in Grammars
  BY <1>0, StackFacts, TableFacts DEF AutomatonMade
<1>2. IsMatch(Run!Symbol)
  BY <1>1, SymbolFacts
<1>3. q \in DOMAIN states /\ Run!curr = states[q]
  BY <1>0, TopFacts
<1>4. t \in DOMAIN states[q].actions
  BY <1>0, <1>2, <1>3, TagFacts
<1>5. t \in DOMAIN states[q].reductions /\ k \in states[q].reductions[t]
  BY <1>0, <1>1, <1>3, <1>4 DEF GInv, ActionsMade
<1>6. ItemSetMade(states[q]) /\ states[q].closure \subseteq Items
  BY <1>1, <1>3, TableFacts
<1>7. PICK g \in DOMAIN Run!TagsOf(Run!Symbol) : Run!TagsOf(Run!Symbol)[g] = t
  BY <1>0, <1>2, TagFacts
<1> HIDE DEF q, t, k
<1>8. /\ t \in terminals
      /\ k = Len(productions) => t = END
      /\ \E i \in states[q].closure : IsDone(i) /\ i.prod = k
  BY <1>3, <1>5 DEF GInv, ReductionsMade
<1>9. PICK i \in states[q].closure : IsDone(i) /\ i.prod = k
  BY <1>8
<1>10. k \in DOMAIN productions
  BY <1>1, <1>6, <1>9, ItemFacts
<1>11. Run!Symbol.prod = 0
  <2>1. terminals \cap Nonterminals = {}
    BY <1>1, GrammarAssumption DEF GrammarMade, Nonterminals
  <2> QED BY <1>1, <1>2, <1>7, <1>8, <2>1, MatchTags
<1>12. k # Len(productions)
  <2> SUFFICES ASSUME k = Len(productions) PROVE FALSE
    OBVIOUS
  <2>1. productions[i.prod].target = ROOT /\ SymbolsOf(i.prod) = <<grammar.start>>
    BY <1>1, <1>9, <1>10 DEF GrammarMade
  <2>2. i.dot = 1
    BY <1>9, <2>1 DEF IsDone
  <2>3. i \in states[q].kernel
    BY <1>6, <1>9, <2>2 DEF ItemSetMade, Grounded
  <2>4. states[q].accept
    BY <1>6, <1>9, <2>1, <2>3 DEF ItemSetMade, Accepting
  <2> QED BY <1>0, <1>3, <1>8, <2>4
<1> QED BY <1>3, <1>9, <1>10, <1>11, <1>12 DEF k, t

\* A reduction takes its right-hand side off the stacks and goes along the
\* nonterminal, or along what the handler made of it.
LEMMA ReduceStep ==
  ASSUME GInv, RInv, UNCHANGED genVars, Run!Reduce
  PROVE  RInv'
<1> DEFINE ps == parse_stack_states
           pm == parse_stack_matches
           s == Run!Symbol
           k == Run!curr.actions[Run!tag].reduce
           num == Len(SymbolsOf(k))
           left == Len(pm) - num
           terms == SubSeq(pm, left + 1, Len(pm))
           made == Run!Reduced(k, terms)
           rest == <<s>> \o Run!BufferLeft
<1>0. /\ Run!Proceed /\ ~(Run!curr.accept /\ Run!tag = END)
      /\ Run!curr.actions[Run!tag].shift = 0
      /\ pos' = Run!PosAfter
      /\ symbol_buffer' = made \o <<s>> \o Run!BufferLeft
      /\ ps' = SubSeq(ps, 1, left + 1) /\ pm' = SubSeq(pm, 1, left)
      /\ UNCHANGED <<input, status>> /\ status = "running"
  BY DEF Run!Reduce, Run!Proceed, SymbolsOf
<1>1. /\ phase = "ready" /\ AutomatonMade /\ Len(pm) \in Nat /\ Len(ps) = Len(pm) + 1
      /\ DOMAIN pm = 1 .. Len(pm) /\ DOMAIN ps = 1 .. Len(pm) + 1 /\ ps[1] = 1
      /\ \A x \in DOMAIN pm : Joined(ps[x], pm[x], ps[x + 1])
  BY <1>0, StackFacts
<1>2. /\ IsMatch(s) /\ pos' \in Nat \ {0}
      /\ Run!BufferLeft \in Seq(Range(Run!BufferLeft))
      /\ \A n \in DOMAIN Run!BufferLeft : IsMatch(Run!BufferLeft[n])
      /\ NoRewrites => Run!BufferLeft = <<>> \/ s.prod # 0
  BY <1>0, <1>1, SymbolFacts
<1>3. /\ GrammarMade /\ grammar \in Grammars /\ terminals \cap Nonterminals = {}
  <2>1. GrammarMade /\ grammar \in Grammars
    BY <1>1 DEF GInv, PhaseMade
  <2> QED BY <2>1, GrammarAssumption DEF GrammarMade, Nonterminals
<1>4. \E i \in Run!curr.closure : IsDone(i) /\ i.prod = k
  BY ReduceChoice
<1>5. s.prod = 0
  BY ReduceChoice
<1> HIDE DEF s, k
<1>6. num \in Nat /\ left \in Nat /\ k \in DOMAIN productions
  <2>1. PICK i \in Run!curr.closure : IsDone(i) /\ i.prod = k
    BY <1>4
  <2>2. num \in Nat /\ left \in Nat
    BY <1>0, <2>1, HandleFacts
  <2>3. i \in Items
    BY <1>0, <1>1, TopFacts, TableFacts DEF AutomatonMade
  <2> QED BY <1>3, <2>1, <2>2, <2>3, ItemFacts
<1>7. left + num = Len(pm) /\ left <= Len(pm)
  BY <1>1, <1>6
<1>8. /\ made \in Seq(Range(made))
      /\ \A n \in DOMAIN made : IsMatch(made[n])
      /\ NoRewrites => made = <<Run!Nonterminal(k, terms)>>
  <2> HIDE DEF left
  <2> QED BY <1>0, <1>6, <1>7, ReducedFacts
<1>9. /\ ps \in Seq(DOMAIN states) /\ pm \in Seq(Range(pm))
      /\ \A x \in DOMAIN pm : IsMatch(pm[x])
      /\ input \in Seq(Seq(terminals \cup {BAD}))
  BY DEF RInv, StacksMade
<1> HIDE DEF left, num, terms, made
<1>10. /\ symbol_buffer' \in Seq(Range(symbol_buffer'))
       /\ \A n \in DOMAIN symbol_buffer' : IsMatch(symbol_buffer'[n])
  <2>1. <<s>> \in Seq(Range(<<s>>)) /\ DOMAIN <<s>> = {1} /\ <<s>>[1] = s
    <3>1. <<s>> \in Seq({s})
      OBVIOUS
    <3>2. <<s>> \in Seq(Range(<<s>>))
      BY <3>1, OfItsOwn
    <3> QED BY <3>2
  <2>2. \A n \in DOMAIN <<s>> : IsMatch(<<s>>[n])
    BY <1>2, <2>1
  <2> DEFINE first == made \o <<s>>
  <2>3. first \in Seq(Range(first)) /\ \A n \in DOMAIN first : IsMatch(first[n])
    <3> DEFINE one == <<s>>
    <3>1. one \in Seq(Range(one)) /\ \A n \in DOMAIN one : IsMatch(one[n])
      BY <2>1, <2>2
    <3> HIDE DEF one
    <3> QED BY <1>8, <3>1, MatchesJoined DEF one
  <2> HIDE DEF first
  <2>4. /\ first \o Run!BufferLeft \in Seq(Range(first \o Run!BufferLeft))
        /\ \A n \in DOMAIN (first \o Run!BufferLeft) : IsMatch((first \o Run!BufferLeft)[n])
    BY <1>2, <2>3, MatchesJoined
  <2> QED BY <1>0, <2>4 DEF first
<1>11. BufferShort'
  <2> DEFINE m == Run!Nonterminal(k, terms)
             b == symbol_buffer'
  <2>1. m.prod = k /\ k # 0
    BY <1>3, <1>6 DEF Run!Nonterminal, GrammarMade
  <2> HIDE DEF m
  <2>2. NoRewrites => b = <<m>> \o <<s>> \o <<>>
    BY <1>0, <1>2, <1>5, <1>8 DEF m
  <2> DEFINE c == <<m>> \o <<s>>
  <2>3. c \in Seq({m, s}) /\ Len(c) = 2 /\ c[1] = m /\ c[2] = s
    <3>1. /\ <<m>> \in Seq({m, s}) /\ <<s>> \in Seq({m, s})
          /\ Len(<<m>>) = 1 /\ Len(<<s>>) = 1 /\ <<m>>[1] = m /\ <<s>>[1] = s
      OBVIOUS
    <3> DEFINE one == <<m>>
               two == <<s>>
    <3> HIDE DEF one, two
    <3>2. /\ one \o two \in Seq({m, s}) /\ Len(one \o two) = Len(one) + Len(two)
          /\ \A x \in 1 .. Len(one) + Len(two) :
               (one \o two)[x] = IF x <= Len(one) THEN one[x] ELSE two[x - Len(one)]
      BY <3>1, ConcatProperties DEF one, two
    <3>3. Len(one) = 1 /\ Len(two) = 1 /\ one[1] = m /\ two[1] = s
      BY <3>1 DEF one, two
    <3>4. Len(one \o two) = 2 /\ (one \o two)[1] = m /\ (one \o two)[2] = s
      BY <3>2, <3>3
    <3> QED BY <3>2, <3>4 DEF one, two
  <2> HIDE DEF c
  <2>4. c \o <<>> = c
    BY <2>3, ConcatEmptySeq
  <2> HIDE DEF b
  <2>5. ASSUME NoRewrites
        PROVE  Len(b) = 2 /\ b[1].prod # 0 /\ b[2].prod = 0
    <3>1. b = c
      BY <2>2, <2>4, <2>5 DEF c
    <3> QED BY <1>5, <2>1, <2>3, <3>1
  <2> DEFINE l == Len(b)
             p == b[1].prod
  <2>6. NoRewrites => l = 2 /\ p # 0 /\ b[2].prod = 0
    BY <2>5
  <2> HIDE DEF l, p
  <2>7. NoRewrites =>
          /\ l <= 2
          /\ l = 1 => p = 0
          /\ l = 2 => p # 0 /\ b[2].prod = 0
    BY <2>6
  <2> QED BY <2>7, SameTables DEF BufferShort, b, l, p
<1>12. /\ ps' \in Seq(DOMAIN states) /\ Len(ps') = left + 1
       /\ \A x \in 1 .. left + 1 : ps'[x] = ps[x]
  <2>1. \A x \in 1 .. left + 1 : ps[x] \in DOMAIN states
    BY <1>1, <1>6, <1>7, <1>9
  <2>2. 1 \in Int /\ left + 1 \in Int /\ left + 1 - 1 + 1 = left + 1 /\ 1 <= left + 1
        /\ \A x \in 1 .. left + 1 : 1 + x - 1 = x
    BY <1>6
  <2> QED BY <1>0, <2>1, <2>2, SubSeqProperties
<1>13. /\ pm' \in Seq(Range(pm')) /\ Len(pm') = left /\ DOMAIN pm' = 1 .. left
       /\ \A x \in 1 .. left : pm'[x] = pm[x]
  <2> DEFINE a == SubSeq(pm, 1, left)
             R == Range(pm)
  <2>1. \A x \in 1 .. left : pm[x] \in R
    BY <1>1, <1>6, <1>7 DEF Range
  <2>2. 1 \in Int /\ left \in Int /\ left - 1 + 1 = left /\ (~ (1 <= left) => left = 0)
        /\ \A x \in 1 .. left : 1 + x - 1 = x
    BY <1>6
  <2> HIDE DEF R
  <2>3. a \in Seq(R) /\ Len(a) = left /\ \A x \in 1 .. left : a[x] = pm[x]
    BY <2>1, <2>2, SubSeqProperties
  <2> HIDE DEF a
  <2>4. a \in Seq(Range(a)) /\ DOMAIN a = 1 .. left
    BY <2>3, OfItsOwn
  <2> QED BY <1>0, <2>3, <2>4 DEF a
<1>14. \A x \in 1 .. left : IsMatch(pm'[x]) /\ Joined(ps'[x], pm'[x], ps'[x + 1])
  <2> SUFFICES ASSUME NEW x \in 1 .. left
               PROVE  IsMatch(pm'[x]) /\ Joined(ps'[x], pm'[x], ps'[x + 1])
    OBVIOUS
  <2>1. x \in DOMAIN pm /\ x \in 1 .. left + 1 /\ x + 1 \in 1 .. left + 1
    BY <1>1, <1>6, <1>7
  <2> QED BY <1>1, <1>9, <1>12, <1>13, <2>1
<1>15. 1 \in 1 .. left + 1
  BY <1>6
<1> HIDE DEF ps, pm
<1>16. StacksMade'
  BY <1>0, <1>1, <1>2, <1>9, <1>10, <1>12, <1>13, <1>14, SameTables DEF StacksMade, ps, pm
<1>17. Path'
  BY <1>1, <1>12, <1>13, <1>14, <1>15, SameTables DEF Path, ps, pm
<1>18. AcceptedWhole'
  BY <1>0 DEF AcceptedWhole
<1> QED BY <1>11, <1>16, <1>17, <1>18 DEF RInv

\* Before the first parse, whatever generate() does.
LEMMA NothingRun == Run!RunInit => RInv
<1> SUFFICES ASSUME Run!RunInit PROVE RInv
  OBVIOUS
<1>1. /\ input = <<>> /\ pos = 1 /\ symbol_buffer = <<>> /\ parse_stack_states = <<>>
      /\ parse_stack_matches = <<>> /\ status = "idle"
  BY DEF Run!RunInit
<1>2. DOMAIN <<>> = {} /\ Len(<<>>) = 0 /\ \A S : <<>> \in Seq(S)
  OBVIOUS
<1>3. StacksMade
  BY <1>1, <1>2 DEF StacksMade
<1>4. Path /\ BufferShort /\ AcceptedWhole
  BY <1>1, <1>2 DEF Path, BufferShort, AcceptedWhole
<1> QED BY <1>3, <1>4 DEF RInv

\* No parse has begun.
LEMMA InitRInv == Init => RInv
BY NothingRun DEF Init

\* Once generate() has returned, nothing of the tables changes.
LEMMA GenerateFirst ==
  ASSUME GInv, GenNext, ~ UNCHANGED genVars
  PROVE  phase # "ready"
<1>1. candidate # Nobody => phase = "itemsets"
  BY DEF GInv, CandidateMade
<1>2. CloseItem \/ Register => candidate # Nobody
  BY DEF CloseItem, Register, Nobody
<1>3. Configure => UNCHANGED genVars
  BY DEF Configure
<1>4. PopState \/ FollowSymbol \/ ItemsetsDone => phase = "itemsets"
  BY DEF PopState, FollowSymbol, ItemsetsDone
<1>5. Lalr => phase \in {"reads", "includes", "follow", "lookaheads"}
  BY DEF Lalr, GenerateReads, GenerateIncludesLookback, GenerateFollowSets,
         GenerateLookaheads
<1>6. /\ Generate => phase = "configure"
      /\ GenerateActions => phase = "actions"
  BY DEF Generate, GenerateActions
<1> QED BY <1>1, <1>2, <1>3, <1>4, <1>5, <1>6 DEF GenNext, Itemsets

\* Every turn of a parse keeps the stacks a path through the automaton.
LEMMA RInvStep == GInv /\ RInv /\ [Next]_vars => RInv'
<1> SUFFICES ASSUME GInv, RInv, [Next]_vars PROVE RInv'
  OBVIOUS
<1>1. CASE GenNext /\ UNCHANGED runtimeVars
  <2>1. CASE UNCHANGED genVars
    <3>1. StacksMade' /\ Path' /\ BufferShort' /\ AcceptedWhole'
      BY <1>1, <2>1, SameTables DEF RInv, runtimeVars, StacksMade, Path, BufferShort,
         AcceptedWhole, Run!RunInit
    <3> QED BY <3>1 DEF RInv
  <2>2. CASE ~ UNCHANGED genVars
    <3>1. phase # "ready"
      BY <1>1, <2>2, GenerateFirst
    <3>2. Run!RunInit'
      BY <1>1, <3>1 DEF RInv, StacksMade, Run!RunInit, runtimeVars
    <3>3. Run!RunInit' => RInv'
      BY NothingRun, PTL
    <3> QED BY <3>2, <3>3
  <2> QED BY <2>1, <2>2
<1>2. ASSUME NEW tokens \in grammar.inputs, Parse(tokens) PROVE RInv'
  BY <1>2, ParseStep
<1>3. CASE Turn
  <2>1. UNCHANGED genVars /\ Run!Turn
    BY <1>3 DEF Turn
  <2> QED BY <2>1, GiveUpStep, AcceptStep, ShiftStep, ReduceStep DEF Run!Turn
<1>4. CASE UNCHANGED vars
  <2>1. UNCHANGED genVars /\ UNCHANGED runtimeVars
    BY <1>4 DEF vars
  <2>2. StacksMade' /\ Path' /\ BufferShort' /\ AcceptedWhole'
      BY <2>1, SameTables DEF RInv, runtimeVars, StacksMade, Path, BufferShort,
         AcceptedWhole, Run!RunInit
  <2> QED BY <2>2 DEF RInv
<1> QED BY <1>1, <1>2, <1>3, <1>4 DEF Next

-----------------------------------------------------------------------------
(* The LALR(1) lookaheads                                                   *)

\* A symbol begins only with tokens that the productions let it begin with.
FirstsLeast ==
  phase # "configure" =>
    \A a \in terminals : \A D \in SUBSET (terminals \cup Nonterminals) :
      a \in D /\ Beginning(productions, nullable, D) \subseteq D =>
        \A s \in Symbols : a \in firsts[s] => s \in D

\* Item sets are closed, the one under construction once nothing is pending.
ItemSetsClosed ==
  /\ \A q \in DOMAIN states : \A i \in states[q].closure : Predicted(i) \subseteq states[q].closure
  /\ \A i \in candidate.closure : Predicted(i) \subseteq candidate.closure \cup candidate.pending

\* What can be read in a state, by what the transitions of `read' read.
Readable(read, q) ==
  (SymbolsAfterDots(states[q].closure) \cap terminals)
    \cup (UNION {read[<<q, s>>] : s \in SymbolsAfterDots(states[q].closure) \cap nullable})

ReadsMade ==
  phase \in {"includes", "follow", "lookaheads"} =>
    /\ \A t \in Transitions : Readable(reads, Goto(t[1], t[2])) \subseteq reads[t]
    /\ <<1, grammar.start>> \in Transitions => END \in reads[<<1, grammar.start>>]

RelationsMade ==
  phase \in {"follow", "lookaheads"} =>
    \A t \in Transitions : \A i \in WalkedFrom(t) :
      /\ \A u \in WalkOf(t[1], i) \cap Transitions : t \in includes[u]
      /\ i.dot = 0 =>
           [state |-> After(t[1], SymbolsOf(i.prod), Len(SymbolsOf(i.prod))), prod |-> i.prod]
             \in lookback[t]

FollowsMade ==
  phase = "lookaheads" =>
    \A t \in Transitions :
      /\ reads[t] \subseteq follows[t]
      /\ \A u \in includes[t] : follows[u] \subseteq follows[t]

\* The inductive invariant of the lookaheads.
CInv ==
  FirstsLeast /\ ItemSetsClosed /\ ReadsMade /\ RelationsMade /\ FollowsMade /\ LookaheadsComplete

\* What is made of the productions and the states only changes with them.
LEMMA SameWalks ==
  ASSUME UNCHANGED tableVars
  PROVE  /\ \A i : Predicted(i)' = Predicted(i)
         /\ states' = states =>
              /\ \A q, w, n : After(q, w, n)' = After(q, w, n)
              /\ \A t : WalkedFrom(t)' = WalkedFrom(t)
              /\ \A q, i : WalkOf(q, i)' = WalkOf(q, i)
              /\ \A q : Readable(reads, q)' = Readable(reads', q)
<1>1. \A i : Predicted(i)' = Predicted(i)
  BY DEF Predicted, tableVars, IsDone, NextSymbol, SymbolsOf, ProductionsOf, LookaheadsAfter, Visible, Vanishes
<1>2. ASSUME states' = states
      PROVE  /\ \A q, w, n : After(q, w, n)' = After(q, w, n)
             /\ \A t : WalkedFrom(t)' = WalkedFrom(t)
             /\ \A q, i : WalkOf(q, i)' = WalkOf(q, i)
             /\ \A q : Readable(reads, q)' = Readable(reads', q)
  <2>1. \A q, w, n : After(q, w, n)' = After(q, w, n)
    BY <1>2 DEF After, Goto
  <2>2. \A t : WalkedFrom(t)' = WalkedFrom(t)
    BY <1>2 DEF WalkedFrom, tableVars
  <2>3. \A q, i : WalkOf(q, i)' = WalkOf(q, i)
    BY <1>2 DEF WalkOf, SymbolsOf, Vanishes, tableVars, After, Goto
  <2>4. \A q : Readable(reads, q)' = Readable(reads', q)
    BY <1>2, Fixed DEF Readable, tableVars
  <2> QED BY <2>1, <2>2, <2>3, <2>4
<1> QED BY <1>1, <1>2

\* What can begin with a token, found turn by turn, is in every set closed under the
\* productions.
LEMMA BeginsWithin ==
  ASSUME grammar \in Grammars, NEW terms, NEW prods, NEW nulls,
         \A k \in DOMAIN prods : prods[k].target \in Nonterminals,
         NEW a \in terms, NEW D, a \in D, Beginning(prods, nulls, D) \subseteq D,
         NEW s \in terms \cup Nonterminals, a \in FirstsOf(terms, prods, nulls)[s]
  PROVE  s \in D
<1> DEFINE c == Cardinality(Nonterminals)
           More(T) == T \cup Beginning(prods, nulls, T)
           Eq(g) == g = [n \in 0 .. c |-> IF n = 0 THEN {a} ELSE More(g[n - 1])]
           upto == CHOOSE g : Eq(g)
<1>1. s \in upto[c]
  <2>1. s \in LeastFrom({a}, LAMBDA T : Beginning(prods, nulls, T))
    BY DEF FirstsOf
  <2> QED BY <2>1 DEF LeastFrom
<1>2. c \in Nat
  <2>1. IsFiniteSet(Nonterminals)
    BY GrammarAssumption, FS_AddElement DEF Nonterminals
  <2> QED BY <2>1, FS_CardinalityType
<1> HIDE DEF c
<1>3. \A T : Beginning(prods, nulls, T) \subseteq Nonterminals
  BY DEF Beginning
<1>4. \A T \in SUBSET D : More(T) \in SUBSET D
  <2>1. \A T \in SUBSET D : Beginning(prods, nulls, T) \subseteq Beginning(prods, nulls, D)
    BY DEF Beginning
  <2> QED BY <2>1
<1> HIDE DEF More
<1>5. \E g : Eq(g)
  <2> DEFINE U == SUBSET D
             M == [T \in U |-> More(T)]
  <2>0. {a} \in U /\ \A T \in U : M[T] \in U
    BY <1>4
  <2>1. \A T \in U : M[T] = More(T)
    OBVIOUS
  <2> HIDE DEF U, M
  <2>2. PICK g : Turned(g, c, U, M, {a})
    BY <1>2, <2>0, Turns
  <2>3. \A n \in 0 .. c : n # 0 => n - 1 \in 0 .. c
    BY <1>2
  <2>4. \A n \in 0 .. c : g[n] = IF n = 0 THEN {a} ELSE More(g[n - 1])
    BY <2>1, <2>2, <2>3 DEF Turned
  <2>5. g = [n \in 0 .. c |-> g[n]]
    BY <2>2 DEF Turned
  <2>6. Eq(g)
    BY <2>4, <2>5
  <2> HIDE DEF Eq
  <2> QED BY <2>6
<1>6. Eq(upto)
  <2> HIDE DEF Eq
  <2> QED BY <1>5
<1> HIDE DEF upto
<1> DEFINE S == {n \in 0 .. c : upto[n] \subseteq D}
<1>7. 0 \in S
  BY <1>2, <1>6
<1>8. \A n \in 1 .. c : n - 1 \in S => n \in S
  <2> TAKE n \in 1 .. c
  <2>1. n \in 0 .. c /\ n # 0
    BY <1>2
  <2>2. upto[n] = More(upto[n - 1])
    BY <1>6, <2>1
  <2> QED BY <1>4, <2>1, <2>2
<1>9. 0 .. c \subseteq S
  <2> HIDE DEF S
  <2> QED BY <1>2, <1>7, <1>8, UpTo
<1>10. c \in 0 .. c
  BY <1>2
<1> QED BY <1>1, <1>9, <1>10

\* Registering an item set gives no state another closure than its own, nor other
\* reductions.
LEMMA RegisterClosures ==
  ASSUME GInv, Register, NEW x \in DOMAIN states'
  PROVE  \/ /\ states'[x].closure = candidate.closure
            /\ states'[x].reductions = ReductionsOf(candidate.closure)
         \/ /\ x \in DOMAIN states /\ states'[x].closure = states[x].closure
            /\ states'[x].reductions = states[x].reductions
<1> DEFINE c == candidate
           n == Len(states)
           same == StatesWith(c.kernel)
           q == IF same = {} THEN n + 1 ELSE CHOOSE q \in same : TRUE
           new == [kernel |-> c.kernel, closure |-> c.closure, accept |-> Accepting(c.kernel),
                   next |-> <<>>, reductions |-> ReductionsOf(c.closure), actions |-> <<>>]
           all == IF same = {} THEN Append(states, new) ELSE states
<1>0. /\ c.kernel # {}
      /\ states' = IF c.from = 0 THEN all
                   ELSE [all EXCEPT ![c.from].next = Put(@, c.symbol, q)]
  BY DEF Register
<1>1. c # Nobody /\ phase = "itemsets"
  BY <1>0 DEF Nobody, GInv, CandidateMade
<1>2. /\ n \in Nat /\ DOMAIN states = 1 .. n /\ states \in Seq(Range(states))
      /\ \A y \in DOMAIN states : ItemSetMade(states[y])
      /\ c.from # 0 => c.from \in DOMAIN states
  BY <1>1, TableFacts DEF GInv, CandidateMade
<1>3. \A y \in DOMAIN all :
        \/ y \in DOMAIN states /\ all[y] = states[y]
        \/ y \notin DOMAIN states /\ all[y] = new
  <2> HIDE DEF new, same
  <2>1. CASE same = {}
    <3>1. all = Append(states, new) /\ Len(all) = n + 1
      BY <1>2, <2>1
    <3> DEFINE S == Range(states) \cup {new}
    <3>2. states \in Seq(S) /\ new \in S
      BY <1>2
    <3> HIDE DEF S
    <3>3. /\ DOMAIN Append(states, new) = 1 .. n + 1 /\ Append(states, new)[n + 1] = new
          /\ \A y \in 1 .. n : Append(states, new)[y] = states[y]
      BY <1>2, <3>2
    <3>4. \A y \in 1 .. n + 1 : y \in 1 .. n \/ (y = n + 1 /\ y \notin 1 .. n)
      BY <1>2
    <3> QED BY <1>2, <3>1, <3>3, <3>4
  <2>2. CASE same # {}
    BY <1>2, <2>2
  <2> QED BY <2>1, <2>2
<1>4. new.closure = c.closure /\ new.reductions = ReductionsOf(c.closure)
  OBVIOUS
<1> HIDE DEF all, new
<1>5. CASE c.from = 0 \/ x # c.from
  <2>1. x \in DOMAIN all /\ states'[x] = all[x]
    BY <1>0, <1>5
  <2> QED BY <1>3, <1>4, <2>1
<1>6. CASE c.from # 0 /\ x = c.from
  <2>1. x \in DOMAIN states /\ ItemSetMade(states[x]) /\ x \in DOMAIN all
    BY <1>0, <1>2, <1>6
  <2> DEFINE st == states[x]
             e == Put(all[x].next, c.symbol, q)
  <2>2. states'[x] = [all[x] EXCEPT !.next = e] /\ all[x] = st
    BY <1>0, <1>3, <1>6, <2>1
  <2>3. st = [kernel |-> st.kernel, closure |-> st.closure, accept |-> st.accept,
              next |-> st.next, reductions |-> st.reductions, actions |-> st.actions]
    BY <2>1 DEF ItemSetMade
  <2> HIDE DEF st, e
  <2>4. /\ [st EXCEPT !.next = e].closure = st.closure
        /\ [st EXCEPT !.next = e].reductions = st.reductions
    BY <2>3
  <2> QED BY <2>1, <2>2, <2>4 DEF st
<1> QED BY <1>5, <1>6

\* Entering the lookaheads changes the reductions only: those a state is looked back
\* on for, on what follows the transition.
LEMMA LookaheadsEntered ==
  ASSUME GInv, GenerateLookaheads
  PROVE  /\ DOMAIN states' = DOMAIN states
         /\ \A q \in DOMAIN states :
              states'[q].closure = states[q].closure /\ states'[q].next = states[q].next
         /\ \A t \in Transitions : \A l \in lookback[t] : \A s \in follows[t] :
              /\ l.state \in DOMAIN states /\ s \in DOMAIN states'[l.state].reductions
              /\ l.prod \in states'[l.state].reductions[s]
<1> DEFINE all == UNION {{<<l.state, s, l.prod>> : s \in follows[t], l \in lookback[t]} :
                        t \in Transitions}
           found(q) == {x \in all : x[1] = q}
           made(q) == [s \in {x[2] : x \in found(q)} |-> {x[3] : x \in {y \in found(q) : y[2] = s}}]
<1>0. /\ phase = "lookaheads"
      /\ states' = [q \in DOMAIN states |-> [states[q] EXCEPT !.reductions = made(q)]]
  BY DEF GenerateLookaheads
<1>1. \A q \in DOMAIN states : ItemSetMade(states[q])
  BY <1>0, TableFacts
<1>2. \A t \in Transitions : \A l \in lookback[t] : \A s \in follows[t] :
        s \in DOMAIN made(l.state) /\ l.prod \in made(l.state)[s]
  <2> HIDE DEF made
  <2> SUFFICES ASSUME NEW t \in Transitions, NEW l \in lookback[t], NEW s \in follows[t]
               PROVE  s \in DOMAIN made(l.state) /\ l.prod \in made(l.state)[s]
    OBVIOUS
  <2> DEFINE x == <<l.state, s, l.prod>>
  <2>1. x \in all
    OBVIOUS
  <2> HIDE DEF all
  <2>2. x[1] = l.state /\ x[2] = s /\ x[3] = l.prod
    OBVIOUS
  <2> HIDE DEF x
  <2>3. x \in found(l.state)
    BY <2>1, <2>2
  <2> QED BY <2>2, <2>3 DEF made
<1> HIDE DEF made
<1>3. ASSUME NEW q \in DOMAIN states
      PROVE  /\ states'[q].closure = states[q].closure /\ states'[q].next = states[q].next
             /\ states'[q].reductions = made(q)
  <2> DEFINE old == states[q]
             m == made(q)
  <2>1. states'[q] = [old EXCEPT !.reductions = m]
    BY <1>0
  <2>2. old = [kernel |-> old.kernel, closure |-> old.closure, accept |-> old.accept,
               next |-> old.next, reductions |-> old.reductions, actions |-> old.actions]
    BY <1>1 DEF ItemSetMade
  <2> HIDE DEF old, m
  <2>3. /\ [old EXCEPT !.reductions = m].closure = old.closure
        /\ [old EXCEPT !.reductions = m].next = old.next
        /\ [old EXCEPT !.reductions = m].reductions = m
    BY <2>2
  <2> QED BY <2>1, <2>3 DEF old, m
<1>4. \A t \in Transitions : \A l \in lookback[t] : l.state \in DOMAIN states
  BY <1>0 DEF GInv, LalrMade
<1> QED BY <1>0, <1>2, <1>3, <1>4

\* Closing an item adds what it predicts, and an item set is registered once it is
\* closed.
LEMMA ItemSetsClosedStep == GInv /\ ItemSetsClosed /\ [Next]_vars => ItemSetsClosed'
<1> SUFFICES ASSUME GInv, ItemSetsClosed, [Next]_vars PROVE ItemSetsClosed'
  OBVIOUS
<1>1. \A q \in DOMAIN states : \A i \in states[q].closure : Predicted(i) \subseteq states[q].closure
  BY DEF ItemSetsClosed
<1>2. \A i \in candidate.closure : Predicted(i) \subseteq candidate.closure \cup candidate.pending
  BY DEF ItemSetsClosed
<1>3. ASSUME UNCHANGED tableVars, DOMAIN states' = DOMAIN states,
             \A q \in DOMAIN states : states'[q].closure = states[q].closure,
             candidate' = candidate \/ candidate'.closure = {}
      PROVE  ItemSetsClosed'
  <2>1. \A i \in candidate'.closure : Predicted(i) \subseteq candidate'.closure \cup candidate'.pending
    BY <1>2, <1>3
  <2> QED BY <1>1, <1>3, <2>1, SameWalks DEF ItemSetsClosed
<1>4. CASE Generate
  <2>1. states' = states /\ candidate'.closure = {}
    BY <1>4 DEF Generate, Asked
  <2>2. DOMAIN states' = {}
    BY <1>4, <2>1 DEF Generate, GInv, PhaseMade
  <2> QED BY <2>1, <2>2 DEF ItemSetsClosed
<1>5. CASE CloseItem
  <2> DEFINE i == CHOOSE i \in candidate.pending : TRUE
             closure == candidate.closure \cup {i}
             pending == (candidate.pending \cup Predicted(i)) \ closure
  <2>1. /\ UNCHANGED tableVars /\ states' = states
        /\ candidate.pending # {}
        /\ candidate' = [candidate EXCEPT !.closure = closure, !.pending = pending]
    BY <1>5 DEF CloseItem
  <2>2. candidate \in [kernel : SUBSET Items, closure : SUBSET Items, pending : SUBSET Items,
                       from : Nat, symbol : Symbols \cup {NONE}]
    BY DEF GInv, CandidateMade
  <2>3. i \in candidate.pending
    BY <2>1
  <2>4. \A j \in closure : Predicted(j) \subseteq closure \cup pending
    BY <1>2, <2>3
  <2> HIDE DEF i, closure, pending
  <2>5. candidate'.closure = closure /\ candidate'.pending = pending
    BY <2>1, <2>2
  <2> QED BY <1>1, <2>1, <2>4, <2>5, SameWalks DEF ItemSetsClosed
<1>6. CASE Register
  <2>1. UNCHANGED tableVars /\ candidate.pending = {} /\ candidate' = Nobody
    BY <1>6 DEF Register
  <2>2. ASSUME NEW q \in DOMAIN states', NEW i \in states'[q].closure
        PROVE  Predicted(i) \subseteq states'[q].closure
    <3>1. \A j \in candidate.closure : Predicted(j) \subseteq candidate.closure
      BY <1>2, <2>1
    <3>2. \/ states'[q].closure = candidate.closure
          \/ q \in DOMAIN states /\ states'[q].closure = states[q].closure
      BY <1>6, RegisterClosures
    <3> QED BY <1>1, <2>2, <3>1, <3>2
  <2>3. candidate'.closure = {}
    BY <2>1 DEF Nobody
  <2> QED BY <2>1, <2>2, <2>3, SameWalks DEF ItemSetsClosed
<1>7. CASE PopState \/ FollowSymbol \/ ItemsetsDone
  <2>1. UNCHANGED tableVars /\ states' = states /\ (candidate' = candidate \/ candidate'.closure = {})
    BY <1>7 DEF PopState, FollowSymbol, ItemsetsDone, Asked
  <2> QED BY <1>3, <2>1
<1>8. CASE Lalr \/ GenerateActions
  <2>1. UNCHANGED tableVars /\ candidate' = candidate /\ DOMAIN states' = DOMAIN states
    BY <1>8 DEF Lalr, GenerateReads, GenerateIncludesLookback, GenerateFollowSets,
            GenerateLookaheads, GenerateActions
  <2>2. ASSUME NEW q \in DOMAIN states PROVE states'[q].closure = states[q].closure
    <3>1. CASE states' = states
      BY <3>1
    <3>2. CASE GenerateLookaheads
      BY <3>2, LookaheadsEntered
    <3>3. CASE GenerateActions
      <4>1. phase # "configure"
        BY <3>3 DEF GenerateActions
      <4> DEFINE st == states[q]
                 m == ActionsOf(st)
      <4>2. st = [kernel |-> st.kernel, closure |-> st.closure, accept |-> st.accept,
                  next |-> st.next, reductions |-> st.reductions, actions |-> st.actions]
        BY <4>1, TableFacts DEF ItemSetMade
      <4>3. states'[q] = [st EXCEPT !.actions = m]
        BY <3>3 DEF GenerateActions
      <4> HIDE DEF st, m
      <4>4. [st EXCEPT !.actions = m].closure = st.closure
        BY <4>2
      <4> QED BY <4>3, <4>4 DEF st
    <3> QED BY <1>8, <3>1, <3>2, <3>3
            DEF Lalr, GenerateReads, GenerateIncludesLookback, GenerateFollowSets
  <2> QED BY <1>3, <2>1, <2>2
<1>9. CASE UNCHANGED genVars
  <2>1. UNCHANGED tableVars /\ states' = states /\ candidate' = candidate
    BY <1>9 DEF genVars, tableVars
  <2> QED BY <1>3, <2>1
<1>10. GenNext => Generate \/ CloseItem \/ Register \/ PopState \/ FollowSymbol \/ ItemsetsDone
                   \/ Lalr \/ GenerateActions \/ UNCHANGED genVars
  BY DEF GenNext, Itemsets, Configure
<1>11. [Next]_vars => GenNext \/ UNCHANGED genVars
  BY DEF Next, Parse, Turn, vars
<1> QED BY <1>4, <1>5, <1>6, <1>7, <1>8, <1>9, <1>10, <1>11

\* generate() turns to the item sets by Generate only; no other step changes the
\* grammar.
LEMMA GenerateOnce ==
  [Next]_vars => Generate \/ (UNCHANGED tableVars /\ (phase = "configure" => phase' = "configure"))
<1> USE DEF genVars, tableVars
<1>1. Configure => UNCHANGED tableVars /\ phase' = phase
  BY DEF Configure
<1>2. CloseItem => UNCHANGED tableVars /\ phase' = phase
  BY DEF CloseItem
<1>3. Register => UNCHANGED tableVars /\ phase' = phase
  BY DEF Register
<1>4. PopState \/ FollowSymbol \/ ItemsetsDone => UNCHANGED tableVars /\ phase # "configure"
  BY DEF PopState, FollowSymbol, ItemsetsDone
<1>5. Lalr \/ GenerateActions => UNCHANGED tableVars /\ phase # "configure"
  BY DEF Lalr, GenerateReads, GenerateIncludesLookback, GenerateFollowSets, GenerateLookaheads,
         GenerateActions
<1>6. GenNext => Generate \/ (UNCHANGED tableVars /\ (phase = "configure" => phase' = "configure"))
  BY <1>1, <1>2, <1>3, <1>4, <1>5 DEF GenNext, Itemsets
<1>7. (\E tokens \in grammar.inputs : Parse(tokens)) \/ Turn \/ UNCHANGED vars
        => UNCHANGED tableVars /\ phase' = phase
  BY DEF Parse, Turn, vars
<1> QED BY <1>6, <1>7 DEF Next

\* The first sets are the least from the start.
LEMMA FirstsLeastStep == GInv /\ FirstsLeast /\ [Next]_vars => FirstsLeast'
<1> SUFFICES ASSUME GInv, FirstsLeast, [Next]_vars PROVE FirstsLeast'
  OBVIOUS
<1>1. CASE Generate
  <2>1. grammar \in Grammars /\ phase = "configure" /\ grammar' = grammar
    BY <1>1 DEF GInv, Generate, tableVars
  <2>2. GrammarMade'
    BY <1>1, <2>1, GenerateGrammar
  <2>3. /\ \A k \in DOMAIN productions' : productions'[k].target \in Nonterminals
        /\ Symbols' \subseteq terminals' \cup Nonterminals
    BY <2>1, <2>2 DEF GrammarMade, Symbols, Nonterminals
  <2>4. firsts' = FirstsOf(terminals', productions', nullable')
    BY <1>1 DEF Generate
  <2>5. ASSUME NEW a \in terminals', NEW D, a \in D, Beginning(productions', nullable', D) \subseteq D,
               NEW s \in Symbols', a \in firsts'[s]
        PROVE  s \in D
    <3> DEFINE terms == terminals'
               prods == productions'
               nulls == nullable'
    <3>1. s \in terms \cup Nonterminals /\ a \in FirstsOf(terms, prods, nulls)[s]
      BY <2>3, <2>4, <2>5
    <3>2. /\ \A k \in DOMAIN prods : prods[k].target \in Nonterminals
          /\ a \in terms /\ Beginning(prods, nulls, D) \subseteq D
      BY <2>3, <2>5
    <3> HIDE DEF terms, prods, nulls
    <3> QED BY <2>1, <2>5, <3>1, <3>2, BeginsWithin
  <2>6. \A D : Beginning(productions, nullable, D)' = Beginning(productions', nullable', D)
    BY DEF Beginning
  <2> QED BY <2>5, <2>6 DEF FirstsLeast
<1>2. CASE UNCHANGED tableVars /\ (phase = "configure" => phase' = "configure")
  <2>1. \A D : Beginning(productions, nullable, D)' = Beginning(productions, nullable, D)
    BY <1>2 DEF Beginning, tableVars
  <2>2. UNCHANGED <<terminals, firsts>> /\ Symbols' = Symbols /\ Nonterminals' = Nonterminals
    BY <1>2, Fixed DEF tableVars
  <2> QED BY <1>2, <2>1, <2>2 DEF FirstsLeast
<1> QED BY <1>1, <1>2, GenerateOnce

\* What is made of a transition whose tokens are read: the tokens after it, and what
\* is read over the nullable symbols after it.
LEMMA ReadsGenerated ==
  ASSUME GInv, GenerateReads
  PROVE  /\ \A t \in Transitions : Readable(reads', Goto(t[1], t[2])) \subseteq reads'[t]
         /\ <<1, grammar.start>> \in Transitions => END \in reads'[<<1, grammar.start>>]
<1> DEFINE after(t) == SymbolsAfterDots(states[Goto(t[1], t[2])].closure)
           directly == [t \in Transitions |->
             (after(t) \cap terminals)
               \cup (IF t = <<1, grammar.start>> THEN {END} ELSE {})]
           relation == [t \in Transitions |->
             {<<Goto(t[1], t[2]), s>> : s \in after(t) \cap nullable}]
<1>0. phase = "reads" /\ reads' = DigraphOf(Transitions, relation, directly)
  BY DEF GenerateReads
<1>1. AutomatonMade /\ GrammarMade /\ grammar \in Grammars
  BY <1>0, TableFacts DEF AutomatonMade
<1>2. \A t \in Transitions : relation[t] \subseteq Transitions
  <2> SUFFICES ASSUME NEW t \in Transitions, NEW s \in after(t) \cap nullable
               PROVE  <<Goto(t[1], t[2]), s>> \in Transitions
    OBVIOUS
  <2>1. Goto(t[1], t[2]) \in DOMAIN states
    BY <1>1, TransitionFacts
  <2>2. s \notin terminals
    BY <1>1, GrammarAssumption DEF GrammarMade, Nonterminals
  <2> QED BY <1>1, <2>1, <2>2, TransitionFacts
<1>3. \A t \in Transitions : directly[t] \subseteq terminals
  BY <1>1 DEF GrammarMade
<1>4. /\ \A t \in Transitions : \A s \in after(t) \cap nullable : <<Goto(t[1], t[2]), s>> \in relation[t]
      /\ \A t \in Transitions : after(t) \cap terminals \subseteq directly[t]
      /\ <<1, grammar.start>> \in Transitions => END \in directly[<<1, grammar.start>>]
  OBVIOUS
<1> HIDE DEF directly, relation
<1>5. IsFiniteSet(Transitions)
  BY <1>1, TransitionFacts
<1>6. /\ \A t \in Transitions : directly[t] \subseteq reads'[t]
      /\ \A t \in Transitions : \A u \in relation[t] : reads'[u] \subseteq reads'[t]
  BY <1>0, <1>2, <1>3, <1>5, DigraphFacts
<1>7. ASSUME NEW t \in Transitions
      PROVE  Readable(reads', Goto(t[1], t[2])) \subseteq reads'[t]
  <2>1. \A s \in after(t) \cap nullable : reads'[<<Goto(t[1], t[2]), s>>] \subseteq reads'[t]
    BY <1>4, <1>6
  <2>2. after(t) \cap terminals \subseteq reads'[t]
    BY <1>4, <1>6
  <2> QED BY <2>1, <2>2 DEF Readable
<1> QED BY <1>4, <1>6, <1>7

\* What is made when the relations are complete.
LEMMA RelationsGenerated ==
  ASSUME GenerateIncludesLookback, NEW t \in Transitions, NEW i \in WalkedFrom(t)
  PROVE  /\ \A u \in WalkOf(t[1], i) \cap Transitions : t \in includes'[u]
         /\ i.dot = 0 =>
              [state |-> After(t[1], SymbolsOf(i.prod), Len(SymbolsOf(i.prod))), prod |-> i.prod]
                \in lookback'[t]
<1> DEFINE pairs ==
      UNION {UNION {WalkOf(v[1], j) \X {v} : j \in WalkedFrom(v)} : v \in Transitions}
<1>0. /\ includes' = [u \in Transitions |-> {p[2] : p \in {p \in pairs : p[1] = u}}]
      /\ lookback' = [v \in Transitions |->
           {[state |-> After(v[1], SymbolsOf(j.prod), Len(SymbolsOf(j.prod))), prod |-> j.prod] :
              j \in {j \in WalkedFrom(v) : j.dot = 0}}]
  BY DEF GenerateIncludesLookback
<1>1. ASSUME NEW u \in WalkOf(t[1], i) \cap Transitions
      PROVE  t \in includes'[u]
  <2> DEFINE p == <<u, t>>
  <2>1. p \in WalkOf(t[1], i) \X {t}
    OBVIOUS
  <2>2. p \in pairs
    BY <2>1
  <2> HIDE DEF pairs
  <2>3. p[1] = u /\ p[2] = t
    OBVIOUS
  <2> HIDE DEF p
  <2> QED BY <1>0, <2>2, <2>3
<1>2. i.dot = 0 =>
        [state |-> After(t[1], SymbolsOf(i.prod), Len(SymbolsOf(i.prod))), prod |-> i.prod] \in lookback'[t]
  BY <1>0
<1> QED BY <1>1, <1>2

\* What follows a transition.
LEMMA FollowsGenerated ==
  ASSUME GInv, GenerateFollowSets, NEW t \in Transitions
  PROVE  /\ reads[t] \subseteq follows'[t]
         /\ \A u \in includes[t] : follows'[u] \subseteq follows'[t]
<1>0. phase = "follow" /\ follows' = DigraphOf(Transitions, includes, reads)
  BY DEF GenerateFollowSets
<1>1. AutomatonMade
  BY <1>0 DEF AutomatonMade
<1>2. /\ \A x \in Transitions : reads[x] \subseteq terminals
      /\ \A x \in Transitions : includes[x] \subseteq Transitions
  BY <1>0 DEF GInv, LalrMade
<1>3. IsFiniteSet(Transitions)
  BY <1>1, TransitionFacts
<1> QED BY <1>0, <1>2, <1>3, DigraphFacts

\* The relations are made one after the other, and kept until they are used.
LEMMA RelationsStep ==
  GInv /\ ReadsMade /\ RelationsMade /\ FollowsMade /\ [Next]_vars
    => (ReadsMade /\ RelationsMade /\ FollowsMade)'
<1> SUFFICES ASSUME GInv, ReadsMade, RelationsMade, FollowsMade, [Next]_vars,
                    phase' \in {"includes", "follow", "lookaheads"}
             PROVE  (ReadsMade /\ RelationsMade /\ FollowsMade)'
  BY DEF ReadsMade, RelationsMade, FollowsMade
<1>1. GenerateReads \/ GenerateIncludesLookback \/ GenerateFollowSets \/ UNCHANGED genVars
  <2>1. candidate # Nobody => phase = "itemsets"
    BY DEF GInv, CandidateMade
  <2>2. ~CloseItem /\ ~Register
    BY <2>1 DEF CloseItem, Register, Nobody
  <2>3. ~Generate /\ ~PopState /\ ~FollowSymbol /\ ~ItemsetsDone /\ ~GenerateLookaheads /\ ~GenerateActions
    BY DEF Generate, PopState, FollowSymbol, ItemsetsDone, GenerateLookaheads, GenerateActions
  <2>4. Configure => UNCHANGED genVars
    BY DEF Configure
  <2>5. [Next]_vars => GenNext \/ UNCHANGED genVars
    BY DEF Next, Parse, Turn, vars
  <2> QED BY <2>2, <2>3, <2>4, <2>5 DEF GenNext, Itemsets, Lalr
<1>2. UNCHANGED tableVars /\ states' = states
  BY <1>1 DEF GenerateReads, GenerateIncludesLookback, GenerateFollowSets, genVars, tableVars
<1>3. /\ Transitions' = Transitions /\ \A q : Readable(reads, q)' = Readable(reads', q)
      /\ \A q, s : Goto(q, s)' = Goto(q, s)
      /\ \A q, w, n : After(q, w, n)' = After(q, w, n)
      /\ \A t : WalkedFrom(t)' = WalkedFrom(t)
      /\ \A q, i : WalkOf(q, i)' = WalkOf(q, i)
      /\ \A k : SymbolsOf(k)' = SymbolsOf(k)
      /\ grammar' = grammar
  BY <1>2, Fixed, SameWalks, SameStates DEF Goto, tableVars
<1>4. ReadsMade'
  <2>1. /\ \A t \in Transitions : Readable(reads', Goto(t[1], t[2])) \subseteq reads'[t]
        /\ <<1, grammar.start>> \in Transitions => END \in reads'[<<1, grammar.start>>]
    <3>1. CASE GenerateReads
      BY <3>1, ReadsGenerated
    <3>2. CASE GenerateIncludesLookback \/ GenerateFollowSets \/ UNCHANGED genVars
      <4>1. reads' = reads /\ phase \in {"includes", "follow", "lookaheads"}
        BY <3>2 DEF GenerateIncludesLookback, GenerateFollowSets, genVars
      <4> QED BY <4>1 DEF ReadsMade
    <3> QED BY <1>1, <3>1, <3>2
  <2> QED BY <1>3, <2>1 DEF ReadsMade
<1>5. RelationsMade'
  <2> SUFFICES ASSUME phase' \in {"follow", "lookaheads"} PROVE RelationsMade'
    BY DEF RelationsMade
  <2>1. ASSUME NEW t \in Transitions, NEW i \in WalkedFrom(t)
        PROVE  /\ \A u \in WalkOf(t[1], i) \cap Transitions : t \in includes'[u]
               /\ i.dot = 0 =>
                    [state |-> After(t[1], SymbolsOf(i.prod), Len(SymbolsOf(i.prod))), prod |-> i.prod]
                      \in lookback'[t]
    <3>1. CASE GenerateIncludesLookback
      BY <3>1, RelationsGenerated
    <3>2. CASE GenerateFollowSets \/ UNCHANGED genVars
      <4>1. includes' = includes /\ lookback' = lookback /\ phase \in {"follow", "lookaheads"}
        BY <3>2 DEF GenerateFollowSets, genVars
      <4> QED BY <4>1 DEF RelationsMade
    <3>3. ~GenerateReads
      BY DEF GenerateReads
    <3> QED BY <1>1, <3>1, <3>2, <3>3
  <2> QED BY <1>3, <2>1 DEF RelationsMade
<1>6. FollowsMade'
  <2> SUFFICES ASSUME phase' = "lookaheads" PROVE FollowsMade'
    BY DEF FollowsMade
  <2>1. ASSUME NEW t \in Transitions
        PROVE  /\ reads'[t] \subseteq follows'[t]
               /\ \A u \in includes'[t] : follows'[u] \subseteq follows'[t]
    <3>1. CASE GenerateFollowSets
      <4>1. reads' = reads /\ includes' = includes
        BY <3>1 DEF GenerateFollowSets
      <4> QED BY <3>1, <4>1, FollowsGenerated
    <3>2. CASE UNCHANGED genVars
      BY <3>2 DEF FollowsMade, genVars
    <3>3. ~GenerateReads /\ ~GenerateIncludesLookback
      BY DEF GenerateReads, GenerateIncludesLookback
    <3> QED BY <1>1, <3>1, <3>2, <3>3
  <2> QED BY <1>3, <2>1 DEF FollowsMade
<1> QED BY <1>4, <1>5, <1>6

\* An LR(0) item with the dot in front.
Front(k) == [prod |-> k, dot |-> 0, la |-> NONE]

\* A state with an item that has a nonterminal next has the items of its productions.
LEMMA Predicts ==
  ASSUME GInv, ItemSetsClosed, AutomatonMade, type = "LALR1",
         NEW q \in DOMAIN states, NEW i \in states[q].closure, ~IsDone(i),
         NEW k \in ProductionsOf(NextSymbol(i))
  PROVE  /\ Front(k) \in states[q].closure /\ NextSymbol(i) \notin terminals
         /\ k # Len(productions) /\ <<q, NextSymbol(i)>> \in Transitions
<1>1. GrammarMade /\ grammar \in Grammars /\ i \in Items
  BY TableFacts DEF AutomatonMade
<1>2. NextSymbol(i) \in Symbols /\ k \in DOMAIN productions /\ productions[k].target = NextSymbol(i)
  BY <1>1, ItemFacts DEF ProductionsOf
<1>3. NextSymbol(i) \notin terminals
  <2>1. terminals \cap Nonterminals = {}
    BY <1>1, GrammarAssumption DEF GrammarMade, Nonterminals
  <2>2. productions[k].target \in Nonterminals
    BY <1>1, <1>2 DEF GrammarMade
  <2> QED BY <1>2, <2>1, <2>2
<1>4. Front(k) \in Predicted(i)
  BY <1>3 DEF Predicted, Front
<1>5. Front(k) \in states[q].closure
  BY <1>4 DEF ItemSetsClosed
<1>6. k # Len(productions)
  <2>1. ROOT \notin Symbols
    BY <1>1, GrammarAssumption DEF GrammarMade, Symbols
  <2>2. productions[k].target = ROOT <=> k = Len(productions)
    BY <1>1, <1>2 DEF GrammarMade
  <2> QED BY <1>2, <2>1, <2>2
<1>7. <<q, NextSymbol(i)>> \in Transitions
  BY <1>3, TransitionFacts DEF SymbolsAfterDots
<1> QED BY <1>3, <1>5, <1>6, <1>7

\* Over a nullable symbol, no more can be read than before it.
LEMMA ReadOver ==
  ASSUME GInv, ReadsMade, phase = "lookaheads", NEW q \in DOMAIN states,
         NEW s \in SymbolsAfterDots(states[q].closure), s \in nullable
  PROVE  Readable(reads, Goto(q, s)) \subseteq Readable(reads, q)
<1>1. AutomatonMade /\ GrammarMade /\ grammar \in Grammars
  BY TableFacts DEF AutomatonMade
<1>2. s \notin terminals
  BY <1>1, GrammarAssumption DEF GrammarMade, Nonterminals
<1>3. <<q, s>> \in Transitions
  BY <1>1, <1>2, TransitionFacts
<1>4. Readable(reads, Goto(q, s)) \subseteq reads[<<q, s>>]
  BY <1>3 DEF ReadsMade
<1> QED BY <1>4 DEF Readable

\* Nor over several in a row.
LEMMA ReadAlong ==
  ASSUME GInv, ReadsMade, phase = "lookaheads",
         NEW q \in DOMAIN states, NEW i \in states[q].closure,
         NEW n \in Nat, i.dot + n <= Len(SymbolsOf(i.prod)),
         \A k \in 1 .. n : SymbolsOf(i.prod)[i.dot + k] \in nullable
  PROVE  \E u \in DOMAIN states :
           /\ [prod |-> i.prod, dot |-> i.dot + n, la |-> i.la] \in states[u].closure
           /\ Readable(reads, u) \subseteq Readable(reads, q)
<1> DEFINE item(k) == [prod |-> i.prod, dot |-> i.dot + k, la |-> i.la]
           S == {k \in 0 .. n : \E u \in DOMAIN states :
                   item(k) \in states[u].closure /\ Readable(reads, u) \subseteq Readable(reads, q)}
<1>1. /\ AutomatonMade /\ GrammarMade /\ i \in Items /\ i.dot \in Nat
      /\ Len(SymbolsOf(i.prod)) \in Nat
  BY TableFacts, ItemFacts DEF AutomatonMade
<1>2. i = item(0)
  <2>1. i = [prod |-> i.prod, dot |-> i.dot, la |-> i.la]
    BY <1>1, ItemFacts
  <2>2. i.dot + 0 = i.dot
    BY <1>1
  <2> QED BY <2>1, <2>2
<1>3. 0 \in S
  BY <1>2
<1>4. ASSUME NEW k \in 1 .. n, k - 1 \in S PROVE k \in S
  <2> DEFINE j == item(k - 1)
  <2>1. PICK u \in DOMAIN states :
          j \in states[u].closure /\ Readable(reads, u) \subseteq Readable(reads, q)
    BY <1>4
  <2>2. j.prod = i.prod /\ j.dot = i.dot + (k - 1) /\ j.la = i.la
    OBVIOUS
  <2>3. j.dot + 1 = i.dot + k /\ j.dot # Len(SymbolsOf(i.prod)) /\ k \in 0 .. n
    BY <1>1, <2>2
  <2> HIDE DEF j
  <2>4. ~IsDone(j) /\ NextSymbol(j) = SymbolsOf(i.prod)[i.dot + k]
    BY <2>2, <2>3 DEF IsDone, NextSymbol
  <2> DEFINE v == Goto(u, NextSymbol(j))
  <2>5. v \in DOMAIN states
        /\ [prod |-> j.prod, dot |-> j.dot + 1, la |-> j.la] \in states[v].closure
    BY <1>1, <2>1, <2>4, GotoMoves
  <2>6. item(k) \in states[v].closure
    BY <2>2, <2>3, <2>5
  <2>7. NextSymbol(j) \in SymbolsAfterDots(states[u].closure) /\ NextSymbol(j) \in nullable
    BY <2>1, <2>4 DEF SymbolsAfterDots
  <2>8. Readable(reads, v) \subseteq Readable(reads, q)
    BY <2>1, <2>7, ReadOver
  <2> HIDE DEF item, v
  <2> QED BY <2>3, <2>5, <2>6, <2>8
<1>5. n \in S
  <2> HIDE DEF S
  <2>1. 0 .. n \subseteq S
    BY <1>3, <1>4, UpTo
  <2> QED BY <2>1
<1> QED BY <1>5

\* What a symbol after a dot begins with can be read.
LEMMA FirstsRead ==
  ASSUME GInv, CInv, phase = "lookaheads", NEW q \in DOMAIN states,
         NEW s \in SymbolsAfterDots(states[q].closure), NEW a \in firsts[s]
  PROVE  a \in Readable(reads, q)
<1> DEFINE D == {x \in terminals \cup Nonterminals :
                   \A p \in DOMAIN states :
                     x \in SymbolsAfterDots(states[p].closure) => a \in Readable(reads, p)}
<1>1. /\ AutomatonMade /\ GrammarMade /\ grammar \in Grammars /\ type = "LALR1"
      /\ \A p \in DOMAIN states : SymbolsAfterDots(states[p].closure) \subseteq Symbols
  BY TableFacts DEF AutomatonMade, GInv, PhaseMade
<1>2. s \in Symbols /\ a \in terminals
  BY <1>1 DEF GrammarMade
<1>3. a \in D
  BY <1>2 DEF Readable
<1>4. ASSUME NEW k \in DOMAIN productions, NEW j \in DOMAIN SymbolsOf(k), SymbolsOf(k)[j] \in D,
             \A m \in 1 .. j - 1 : SymbolsOf(k)[m] \in nullable
      PROVE  productions[k].target \in D
  <2> DEFINE b == productions[k].target
  <2>1. b \in Nonterminals /\ SymbolsOf(k) \in Seq(Symbols)
    BY <1>1 DEF GrammarMade
  <2> SUFFICES ASSUME NEW p \in DOMAIN states, b \in SymbolsAfterDots(states[p].closure)
               PROVE  a \in Readable(reads, p)
    BY <2>1
  <2>2. PICK i \in states[p].closure : ~IsDone(i) /\ NextSymbol(i) = b
    BY DEF SymbolsAfterDots
  <2>3. Front(k) \in states[p].closure
    BY <1>1, <2>2, Predicts DEF ProductionsOf, CInv
  <2> DEFINE f == Front(k)
             n == j - 1
  <2>4. f.prod = k /\ f.dot = 0 /\ f.la = NONE
    BY DEF Front
  <2>5. n \in Nat /\ j = n + 1 /\ n < Len(SymbolsOf(k)) /\ Len(SymbolsOf(k)) \in Nat
    BY <2>1
  <2>6. 0 + n = n /\ \A m \in 1 .. n : 0 + m = m
    BY <2>5
  <2> HIDE DEF f, n
  <2>7. f \in states[p].closure /\ f.dot + n <= Len(SymbolsOf(f.prod))
        /\ \A m \in 1 .. n : SymbolsOf(f.prod)[f.dot + m] \in nullable
    BY <1>4, <2>3, <2>4, <2>5, <2>6 DEF f, n
  <2>8. PICK u \in DOMAIN states :
          /\ [prod |-> f.prod, dot |-> f.dot + n, la |-> f.la] \in states[u].closure
          /\ Readable(reads, u) \subseteq Readable(reads, p)
    BY <2>5, <2>7, ReadAlong DEF CInv
  <2> DEFINE o == [prod |-> k, dot |-> n, la |-> NONE]
  <2>9. o \in states[u].closure
    BY <2>4, <2>6, <2>8
  <2>10. o.prod = k /\ o.dot = n
    OBVIOUS
  <2> HIDE DEF o
  <2>11. ~IsDone(o) /\ NextSymbol(o) = SymbolsOf(k)[j]
    BY <2>5, <2>10 DEF IsDone, NextSymbol
  <2>12. a \in Readable(reads, u)
    BY <1>4, <2>9, <2>11 DEF SymbolsAfterDots
  <2> QED BY <2>8, <2>12
<1> HIDE DEF D
<1>5. Beginning(productions, nullable, D) \subseteq D
  BY <1>4 DEF Beginning, SymbolsOf
<1>6. D \in SUBSET (terminals \cup Nonterminals)
  BY DEF D
<1>7. s \in D
  BY <1>2, <1>3, <1>5, <1>6 DEF CInv, FirstsLeast
<1> QED BY <1>7 DEF D

\* A place: a state, an item of its closure, and a token.
LEMMA PlaceFacts ==
  ASSUME GInv, AutomatonMade, type = "LALR1", NEW x \in ItemPlaces
  PROVE  /\ x = <<x[1], x[2], x[3], x[4]>>
         /\ x[1] \in DOMAIN states /\ x[2] \in DOMAIN productions /\ x[4] \in terminals
         /\ [prod |-> x[2], dot |-> x[3], la |-> NONE] \in states[x[1]].closure
         /\ SymbolsOf(x[2]) \in Seq(Symbols) /\ Len(SymbolsOf(x[2])) \in Nat
         /\ x[3] \in 0 .. Len(SymbolsOf(x[2]))
<1>1. PICK q \in DOMAIN states : \E i \in states[q].closure : \E t \in terminals :
        x = <<q, i.prod, i.dot, t>>
  BY DEF ItemPlaces
<1>2. PICK i \in states[q].closure : \E t \in terminals : x = <<q, i.prod, i.dot, t>>
  BY <1>1
<1>3. PICK t \in terminals : x = <<q, i.prod, i.dot, t>>
  BY <1>2
<1>4. i \in Items /\ GrammarMade
  BY TableFacts DEF AutomatonMade
<1>5. /\ i.prod \in DOMAIN productions /\ i.la = NONE /\ i.dot \in 0 .. Len(SymbolsOf(i.prod))
      /\ SymbolsOf(i.prod) \in Seq(Symbols) /\ Len(SymbolsOf(i.prod)) \in Nat
      /\ i = [prod |-> i.prod, dot |-> i.dot, la |-> NONE]
  BY <1>4, ItemFacts DEF Lookaheads
<1>6. x[1] = q /\ x[2] = i.prod /\ x[3] = i.dot /\ x[4] = t
  BY <1>3
<1> QED BY <1>3, <1>5, <1>6

\* The places are those items.
LEMMA IsPlace ==
  ASSUME NEW q \in DOMAIN states, NEW k, NEW d, NEW t \in terminals,
         [prod |-> k, dot |-> d, la |-> NONE] \in states[q].closure
  PROVE  <<q, k, d, t>> \in ItemPlaces
<1> DEFINE i == [prod |-> k, dot |-> d, la |-> NONE]
<1>1. i.prod = k /\ i.dot = d /\ i \in states[q].closure
  OBVIOUS
<1> HIDE DEF i
<1>2. <<q, i.prod, i.dot, t>> \in ItemPlaces
  BY <1>1 DEF ItemPlaces
<1> QED BY <1>1, <1>2

\* There are finitely many.
LEMMA PlacesFinite ==
  ASSUME GInv, AutomatonMade, type = "LALR1"
  PROVE  IsFiniteSet(ItemPlaces)
<1>1. GrammarMade /\ grammar \in Grammars /\ Len(states) \in Nat /\ DOMAIN states = 1 .. Len(states)
  BY TableFacts DEF AutomatonMade
<1>2. PICK b \in Nat : \A k \in DOMAIN productions : Len(SymbolsOf(k)) <= b
  BY <1>1, LongestProduction
<1>3. Len(productions) \in Nat /\ DOMAIN productions = 1 .. Len(productions)
  BY <1>1 DEF GrammarMade
<1>4. /\ IsFiniteSet(1 .. Len(states)) /\ IsFiniteSet(1 .. Len(productions)) /\ IsFiniteSet(0 .. b)
  BY <1>1, <1>2, <1>3, FS_Interval
<1>5. IsFiniteSet(terminals)
  <2>1. terminals = grammar.terminals \cup {END} /\ IsFiniteSet(grammar.terminals)
    BY <1>1, GrammarAssumption DEF GrammarMade
  <2> QED BY <2>1, FS_AddElement
<1> DEFINE A == (1 .. Len(states)) \X (1 .. Len(productions))
           B == (0 .. b) \X terminals
           AB == A \X B
           f == [z \in AB |-> <<z[1][1], z[1][2], z[2][1], z[2][2]>>]
           Image == {f[z] : z \in AB}
<1>6. IsFiniteSet(A) /\ IsFiniteSet(B)
  BY <1>4, <1>5, FS_Product
<1>7. IsFiniteSet(AB)
  <2> HIDE DEF A, B
  <2> QED BY <1>6, FS_Product
<1>8. IsFiniteSet(Image)
  <2>1. f \in Surjection(AB, Image)
    <3> HIDE DEF AB
    <3> QED BY DEF Surjection
  <2> HIDE DEF AB, f, Image
  <2> QED BY <1>7, <2>1, FS_Surjection
<1>9. ASSUME NEW x \in ItemPlaces PROVE x \in Image
  <2>1. /\ x = <<x[1], x[2], x[3], x[4]>>
        /\ x[1] \in DOMAIN states /\ x[2] \in DOMAIN productions /\ x[4] \in terminals
        /\ Len(SymbolsOf(x[2])) \in Nat /\ x[3] \in 0 .. Len(SymbolsOf(x[2]))
    BY PlaceFacts
  <2>2. x[3] \in 0 .. b
    <3>1. Len(SymbolsOf(x[2])) <= b
      BY <1>2, <2>1
    <3> QED BY <2>1, <3>1
  <2> DEFINE z == <<<<x[1], x[2]>>, <<x[3], x[4]>>>>
  <2>3. z \in AB
    BY <1>1, <1>3, <2>1, <2>2
  <2>4. <<z[1][1], z[1][2], z[2][1], z[2][2]>> = x
    BY <2>1
  <2> HIDE DEF z, AB
  <2>5. f[z] = x
    BY <2>3, <2>4
  <2> QED BY <2>3, <2>5
<1>10. ItemPlaces \in SUBSET Image
  BY <1>9
<1> HIDE DEF Image
<1> QED BY <1>8, <1>10, FS_Subset

\* A step from a place: a symbol further, or to a production of the symbol after the
\* dot, with what the symbols after that begin with, or nothing but nullable ones.
LEMMA StepFacts ==
  ASSUME GInv, ItemSetsClosed, AutomatonMade, type = "LALR1", NEW x \in ItemPlaces, NEW y \in StepsOf(x)
  PROVE  LET w == SymbolsOf(x[2])
             s == w[x[3] + 1]
         IN  /\ x[3] + 1 \in DOMAIN w /\ y \in ItemPlaces
             /\ \/ y = <<Goto(x[1], s), x[2], x[3] + 1, x[4]>>
                \/ \E k \in ProductionsOf(s), t \in terminals :
                     /\ y = <<x[1], k, 0, t>>
                     /\ \/ \E n \in Nat : /\ x[3] + 2 + n \in DOMAIN w /\ t \in firsts[w[x[3] + 2 + n]]
                                          /\ \A m \in 1 .. n : w[x[3] + 1 + m] \in nullable
                        \/ t = x[4] /\ Vanishes(SubSeq(w, x[3] + 2, Len(w)))
<1> DEFINE w == SymbolsOf(x[2])
           d == x[3]
           s == w[d + 1]
           rest == SubSeq(w, d + 2, Len(w))
           las == Upcoming(x)
           i == [prod |-> x[2], dot |-> d, la |-> NONE]
<1>1. /\ GrammarMade /\ x[1] \in DOMAIN states /\ x[4] \in terminals
      /\ i \in states[x[1]].closure
      /\ w \in Seq(Symbols) /\ Len(w) \in Nat /\ d \in 0 .. Len(w)
  BY PlaceFacts, TableFacts DEF AutomatonMade
<1>2. d # Len(w) /\ y \in {<<Goto(x[1], s), x[2], d + 1, x[4]>>}
                             \cup {<<x[1], k, 0, t>> : k \in ProductionsOf(s), t \in las}
  BY DEF StepsOf
<1>3. i.prod = x[2] /\ i.dot = d /\ i.la = NONE
  OBVIOUS
<1> HIDE DEF i, las
<1>4. d + 1 \in DOMAIN w /\ ~IsDone(i) /\ NextSymbol(i) = s /\ d \in Nat
  BY <1>1, <1>2, <1>3 DEF IsDone, NextSymbol
<1>5. CASE y = <<Goto(x[1], s), x[2], d + 1, x[4]>>
  <2>1. /\ Goto(x[1], s) \in DOMAIN states
        /\ [prod |-> x[2], dot |-> d + 1, la |-> NONE] \in states[Goto(x[1], s)].closure
    BY <1>1, <1>3, <1>4, GotoMoves
  <2>2. y \in ItemPlaces
    BY <1>1, <1>5, <2>1, IsPlace
  <2> QED BY <1>4, <1>5, <2>2
<1>6. ASSUME NEW k \in ProductionsOf(s), NEW t \in las, y = <<x[1], k, 0, t>>
      PROVE  /\ t \in terminals /\ y \in ItemPlaces
             /\ \/ \E n \in Nat : /\ d + 2 + n \in DOMAIN w /\ t \in firsts[w[d + 2 + n]]
                                  /\ \A m \in 1 .. n : w[d + 1 + m] \in nullable
                \/ t = x[4] /\ Vanishes(rest)
  <2>1. /\ DOMAIN rest = 1 .. Len(rest) /\ Len(rest) \in Nat
        /\ \A j \in 1 .. Len(rest) : rest[j] = w[d + 1 + j] /\ d + 1 + j \in DOMAIN w
    <3>1. d + 2 \in Nat /\ d + 1 <= Len(w) /\ w \in Seq(Symbols) /\ Len(w) \in Nat /\ d \in Nat
      BY <1>1, <1>4
    <3> HIDE DEF w, d
    <3>2. /\ DOMAIN rest = 1 .. Len(rest) /\ Len(rest) = Len(w) - d - 1
          /\ \A j \in 1 .. Len(rest) : rest[j] = w[(d + 2) + j - 1]
      BY <3>1
    <3>3. Len(rest) \in Nat
      BY <3>1, <3>2
    <3>4. \A j \in 1 .. Len(rest) : (d + 2) + j - 1 = d + 1 + j /\ d + 1 + j \in 1 .. Len(w)
      BY <3>1, <3>2
    <3> QED BY <3>1, <3>2, <3>3, <3>4
  <2> HIDE DEF rest, w, d
  <2>2. ASSUME ~(t = x[4] /\ Vanishes(rest))
        PROVE  /\ t \in terminals
               /\ \E n \in Nat : /\ d + 2 + n \in DOMAIN w /\ t \in firsts[w[d + 2 + n]]
                                 /\ \A m \in 1 .. n : w[d + 1 + m] \in nullable
    <3>1. PICK j \in Visible(rest) : t \in firsts[rest[j]]
      BY <1>6, <2>2 DEF las, Upcoming, rest, w, d
    <3>2. j \in 1 .. Len(rest) /\ \A m \in 1 .. j - 1 : rest[m] \in nullable
      BY <2>1, <3>1 DEF Visible
    <3> DEFINE n == j - 1
    <3>3. n \in Nat /\ d + 2 + n = d + 1 + j /\ 1 .. n \subseteq 1 .. Len(rest)
      BY <1>4, <2>1, <3>2
    <3>4. d + 2 + n \in DOMAIN w /\ t \in firsts[w[d + 2 + n]]
      <4>1. rest[j] = w[d + 1 + j] /\ d + 1 + j \in DOMAIN w
        BY <2>1, <3>2
      <4> HIDE DEF n
      <4> QED BY <3>1, <3>3, <4>1
    <3>5. \A m \in 1 .. n : w[d + 1 + m] \in nullable
      BY <2>1, <3>2, <3>3
    <3>6. t \in terminals
      <4>1. w[d + 2 + n] \in Symbols
        <5> HIDE DEF n
        <5> QED BY <1>1, <3>4
      <4> QED BY <1>1, <3>4, <4>1 DEF GrammarMade
    <3> HIDE DEF n
    <3> QED BY <3>3, <3>4, <3>5, <3>6
  <2>3. \/ \E n \in Nat : /\ d + 2 + n \in DOMAIN w /\ t \in firsts[w[d + 2 + n]]
                          /\ \A m \in 1 .. n : w[d + 1 + m] \in nullable
        \/ t = x[4] /\ Vanishes(rest)
    BY <2>2
  <2>5. t \in terminals
    BY <1>1, <2>2
  <2>6. Front(k) \in states[x[1]].closure
    BY <1>1, <1>4, Predicts
  <2>7. y \in ItemPlaces
    BY <1>1, <1>6, <2>5, <2>6, IsPlace DEF Front
  <2> QED BY <2>3, <2>5, <2>7
<1> HIDE DEF rest, w, d
<1>7. \/ y = <<Goto(x[1], s), x[2], d + 1, x[4]>>
      \/ \E k \in ProductionsOf(s) : \E t \in las : y = <<x[1], k, 0, t>>
  BY <1>2
<1>8. CASE \E k \in ProductionsOf(s) : \E t \in las : y = <<x[1], k, 0, t>>
  <2>1. PICK k \in ProductionsOf(s) : \E t \in las : y = <<x[1], k, 0, t>>
    BY <1>8
  <2>2. PICK t \in las : y = <<x[1], k, 0, t>>
    BY <2>1
  <2> QED BY <1>4, <1>6, <2>2 DEF rest, w, d
<1> QED BY <1>5, <1>7, <1>8 DEF w, d

\* The item of a place was begun in state p, by a transition that is followed by its
\* token.
BegunIn(x, p) ==
  /\ Front(x[2]) \in states[p].closure
  /\ x[1] = After(p, SymbolsOf(x[2]), x[3])
  /\ IF x[2] = Len(productions) THEN p = 1 /\ x[4] = END
     ELSE LET t == <<p, productions[x[2]].target>>
          IN  t \in Transitions /\ x[4] \in follows[t]

\* What the next symbol of an item is followed by in the automaton follows the
\* transition on it.
LEMMA UpcomingFollows ==
  ASSUME GInv, CInv, phase = "lookaheads",
         NEW q \in DOMAIN states, NEW i \in states[q].closure,
         NEW n \in Nat, i.dot + 2 + n \in DOMAIN SymbolsOf(i.prod),
         \A m \in 1 .. n : SymbolsOf(i.prod)[i.dot + 1 + m] \in nullable,
         NEW a \in firsts[SymbolsOf(i.prod)[i.dot + 2 + n]],
         <<q, NextSymbol(i)>> \in Transitions
  PROVE  a \in follows[<<q, NextSymbol(i)>>]
<1> DEFINE w == SymbolsOf(i.prod)
           v == Goto(q, NextSymbol(i))
           o == [prod |-> i.prod, dot |-> i.dot + 1, la |-> i.la]
<1>1. /\ AutomatonMade /\ i \in Items /\ i.dot \in Nat /\ w \in Seq(Symbols) /\ Len(w) \in Nat
  BY TableFacts, ItemFacts DEF AutomatonMade
<1>2. i.dot + 2 + n <= Len(w) /\ i.dot # Len(w)
  BY <1>1
<1>3. v \in DOMAIN states /\ o \in states[v].closure
  BY <1>1, <1>2, GotoMoves DEF IsDone
<1>4. o.prod = i.prod /\ o.dot = i.dot + 1 /\ o.la = i.la
  OBVIOUS
<1> HIDE DEF o, v, w
<1>5. /\ o.dot + n <= Len(w) /\ o.dot + n # Len(w) /\ o.dot + n + 1 = i.dot + 2 + n
      /\ \A m \in 1 .. n : o.dot + m = i.dot + 1 + m
  <2> DEFINE d == i.dot
             e == o.dot
             l == Len(w)
  <2>1. d \in Nat /\ l \in Nat /\ d + 2 + n <= l /\ e = d + 1
    BY <1>1, <1>2, <1>4
  <2> HIDE DEF d, e, l
  <2>2. e + n <= l /\ e + n # l /\ e + n + 1 = d + 2 + n
    BY <2>1
  <2>3. \A m \in 1 .. n : e + m = d + 1 + m
    BY <2>1
  <2> QED BY <2>2, <2>3 DEF d, e, l
<1>6. /\ o.dot + n <= Len(SymbolsOf(o.prod))
      /\ \A m \in 1 .. n : SymbolsOf(o.prod)[o.dot + m] \in nullable
  BY <1>4, <1>5 DEF w
<1>7. PICK u \in DOMAIN states :
        /\ [prod |-> o.prod, dot |-> o.dot + n, la |-> o.la] \in states[u].closure
        /\ Readable(reads, u) \subseteq Readable(reads, v)
  BY <1>3, <1>6, ReadAlong DEF CInv
<1> DEFINE e == [prod |-> o.prod, dot |-> o.dot + n, la |-> o.la]
<1>8. e.prod = i.prod /\ e.dot = o.dot + n /\ e \in states[u].closure
  BY <1>4, <1>7
<1> HIDE DEF e
<1>9. ~IsDone(e) /\ NextSymbol(e) = w[i.dot + 2 + n]
  BY <1>5, <1>8 DEF IsDone, NextSymbol, w
<1>10. a \in Readable(reads, u)
  <2>1. w[i.dot + 2 + n] \in SymbolsAfterDots(states[u].closure)
    BY <1>8, <1>9 DEF SymbolsAfterDots
  <2> QED BY <2>1, FirstsRead DEF w
<1>11. Readable(reads, v) \subseteq reads[<<q, NextSymbol(i)>>]
  BY DEF CInv, ReadsMade, v
<1>12. reads[<<q, NextSymbol(i)>>] \subseteq follows[<<q, NextSymbol(i)>>]
  BY DEF CInv, FollowsMade
<1> QED BY <1>7, <1>10, <1>11, <1>12

\* A step from a place begun at a followed transition leads to another.
LEMMA BegunStep ==
  ASSUME GInv, CInv, phase = "lookaheads", NEW x \in ItemPlaces, NEW p \in DOMAIN states, BegunIn(x, p),
         NEW y \in StepsOf(x)
  PROVE  \E o \in DOMAIN states : BegunIn(y, o)
<1> DEFINE w == SymbolsOf(x[2])
           d == x[3]
           s == w[d + 1]
           q == x[1]
           i == [prod |-> x[2], dot |-> d, la |-> NONE]
           f == Front(x[2])
<1>1. AutomatonMade /\ type = "LALR1" /\ GrammarMade /\ grammar \in Grammars
  BY TableFacts DEF AutomatonMade, GInv, PhaseMade
<1>2. /\ q \in DOMAIN states /\ x[2] \in DOMAIN productions /\ x[4] \in terminals
      /\ i \in states[q].closure
      /\ w \in Seq(Symbols) /\ Len(w) \in Nat /\ d \in 0 .. Len(w)
  BY <1>1, PlaceFacts
<1>3. i.prod = x[2] /\ i.dot = d /\ f.prod = x[2] /\ f.dot = 0 /\ f.la = NONE
  BY DEF Front
<1>4. /\ d + 1 \in DOMAIN w
      /\ \/ y = <<Goto(q, s), x[2], d + 1, x[4]>>
         \/ \E k \in ProductionsOf(s), t \in terminals :
              /\ y = <<q, k, 0, t>>
              /\ \/ \E n \in Nat : /\ d + 2 + n \in DOMAIN w /\ t \in firsts[w[d + 2 + n]]
                                   /\ \A m \in 1 .. n : w[d + 1 + m] \in nullable
                 \/ t = x[4] /\ Vanishes(SubSeq(w, d + 2, Len(w)))
  BY <1>1, StepFacts DEF CInv
<1>5. f \in states[p].closure /\ q = After(p, w, d)
  BY DEF BegunIn
<1> HIDE DEF i, f
<1>6. ~IsDone(i) /\ NextSymbol(i) = s /\ d \in Nat /\ d + 1 <= Len(w) /\ d # Len(w)
  BY <1>2, <1>3, <1>4 DEF IsDone, NextSymbol
<1>7. CASE y = <<Goto(q, s), x[2], d + 1, x[4]>>
  <2> DEFINE n == d + 1
  <2>1. n \in Nat /\ 0 + n = n /\ \A k \in 1 .. n : 0 + k = k
    BY <1>6
  <2>2. n # 0 /\ n - 1 = d
    BY <1>6
  <2>3. n <= Len(w)
    BY <1>6
  <2> HIDE DEF n
  <2>4. f.dot + n <= Len(SymbolsOf(f.prod)) /\ \A k \in 1 .. n : w[k] = SymbolsOf(f.prod)[f.dot + k]
    BY <1>3, <2>1, <2>3
  <2>5. After(p, w, n) = Goto(After(p, w, n - 1), w[n])
    <3>1. f.dot + n <= Len(SymbolsOf(f.prod))
      BY <2>4
    <3>2. \A k \in 1 .. n : w[k] = SymbolsOf(f.prod)[f.dot + k]
      BY <2>4
    <3>3. AutomatonMade /\ f \in states[p].closure /\ n \in Nat /\ n # 0
      BY <1>1, <1>5, <2>1, <2>2
    <3> HIDE DEF w
    <3> QED BY <3>1, <3>2, <3>3, AfterMoves, Zenon
  <2>6. After(p, w, n) = Goto(q, s)
    BY <1>5, <2>2, <2>5 DEF n
  <2>7. y[1] = Goto(q, s) /\ y[2] = x[2] /\ y[3] = n /\ y[4] = x[4]
    BY <1>7 DEF n
  <2>8. BegunIn(y, p)
    BY <2>6, <2>7 DEF BegunIn
  <2> QED BY <2>8
<1>8. ASSUME NEW k \in ProductionsOf(s), NEW t \in terminals, y = <<q, k, 0, t>>,
             t \in follows[<<q, s>>]
      PROVE  BegunIn(y, q)
  <2>1. Front(k) \in states[q].closure /\ k # Len(productions) /\ <<q, s>> \in Transitions
    BY <1>1, <1>2, <1>6, Predicts DEF CInv
  <2>2. productions[k].target = s
    BY DEF ProductionsOf
  <2>3. After(q, SymbolsOf(k), 0) = q
    <3> DEFINE g == [m \in 0 .. 0 |-> q]
    <3>1. g[0] = q /\ \A m \in 1 .. 0 : g[m] = Goto(g[m - 1], SymbolsOf(k)[m])
      OBVIOUS
    <3> HIDE DEF g, q
    <3>2. After(q, SymbolsOf(k), 0) = g[0]
      BY <3>1, AfterEnds
    <3> QED BY <3>1, <3>2
  <2>4. y[1] = q /\ y[2] = k /\ y[3] = 0 /\ y[4] = t
    BY <1>8
  <2> HIDE DEF q, s
  <2> QED BY <1>8, <2>1, <2>2, <2>3, <2>4 DEF BegunIn
<1>9. ASSUME NEW t, NEW n \in Nat, d + 2 + n \in DOMAIN w, t \in firsts[w[d + 2 + n]],
             \A m \in 1 .. n : w[d + 1 + m] \in nullable,
             <<q, s>> \in Transitions
      PROVE  t \in follows[<<q, s>>]
  BY <1>2, <1>3, <1>6, <1>9, UpcomingFollows
<1>10. ASSUME Vanishes(SubSeq(w, d + 2, Len(w))), <<q, s>> \in Transitions
       PROVE  x[4] \in follows[<<q, s>>]
  <2>1. CASE x[2] = Len(productions)
    <3>1. p = 1 /\ x[4] = END
      BY <2>1 DEF BegunIn
    <3>2. w = <<grammar.start>>
      BY <1>1, <2>1 DEF GrammarMade
    <3>3. d = 0 /\ s = grammar.start
      BY <1>4, <1>6, <3>2
    <3>4. q = 1
      <4> DEFINE g == [m \in 0 .. 0 |-> p]
      <4>1. g[0] = p /\ \A m \in 1 .. 0 : g[m] = Goto(g[m - 1], w[m])
        OBVIOUS
      <4> HIDE DEF g, w
      <4>2. After(p, w, 0) = g[0]
        BY <4>1, AfterEnds
      <4> HIDE DEF q, d
      <4> QED BY <1>5, <3>1, <3>3, <4>1, <4>2
    <3>5. END \in reads[<<q, s>>]
      BY <1>10, <3>3, <3>4 DEF CInv, ReadsMade
    <3>6. reads[<<q, s>>] \subseteq follows[<<q, s>>]
      BY <1>10 DEF CInv, FollowsMade
    <3> QED BY <3>1, <3>5, <3>6
  <2>2. CASE x[2] # Len(productions)
    <3> DEFINE t == <<p, productions[x[2]].target>>
               left == SubSeq(w, f.dot + 1, Len(w))
               k == d + 1
    <3>1. t \in Transitions /\ x[4] \in follows[t]
      BY <2>2 DEF BegunIn
    <3>2. f \in WalkedFrom(t) /\ t[1] = p
      BY <1>3, <1>5 DEF WalkedFrom
    <3>3. left = w
      <4>1. SubSeq(w, 1, Len(w)) = w
        BY <1>2
      <4> QED BY <1>3, <4>1
    <3>4. k \in f.dot + 1 .. Len(w) /\ k - f.dot - 1 = d /\ k + 1 = d + 2
      BY <1>3, <1>6
    <3>5. Vanishes(SubSeq(w, k + 1, Len(w)))
      BY <1>10, <3>4
    <3> HIDE DEF left, k
    <3>6. <<After(p, left, k - f.dot - 1), w[k]>> \in WalkOf(p, f)
      BY <1>3, <3>4, <3>5 DEF WalkOf, left
    <3>7. <<q, s>> \in WalkOf(p, f)
      BY <1>5, <3>3, <3>4, <3>6 DEF k
    <3>8. t \in includes[<<q, s>>]
      BY <1>10, <3>1, <3>2, <3>7 DEF CInv, RelationsMade
    <3>9. follows[t] \subseteq follows[<<q, s>>]
      BY <1>10, <3>8 DEF CInv, FollowsMade
    <3> QED BY <3>1, <3>9
  <2> QED BY <2>1, <2>2
<1>11. CASE \E k \in ProductionsOf(s), t \in terminals :
              /\ y = <<q, k, 0, t>>
              /\ \/ \E n \in Nat : /\ d + 2 + n \in DOMAIN w /\ t \in firsts[w[d + 2 + n]]
                                   /\ \A m \in 1 .. n : w[d + 1 + m] \in nullable
                 \/ t = x[4] /\ Vanishes(SubSeq(w, d + 2, Len(w)))
  <2> HIDE DEF w, d, q, s
  <2>1. PICK k \in ProductionsOf(s), t \in terminals :
              /\ y = <<q, k, 0, t>>
              /\ \/ \E n \in Nat : /\ d + 2 + n \in DOMAIN w /\ t \in firsts[w[d + 2 + n]]
                                   /\ \A m \in 1 .. n : w[d + 1 + m] \in nullable
                 \/ t = x[4] /\ Vanishes(SubSeq(w, d + 2, Len(w)))
    BY <1>11
  <2>2. <<q, s>> \in Transitions
    BY <1>1, <1>2, <1>6, Predicts DEF CInv
  <2>3. t \in follows[<<q, s>>]
    BY <1>9, <1>10, <2>1, <2>2
  <2> QED BY <1>2, <1>8, <2>1, <2>3
<1> HIDE DEF w, d, q, s
<1> QED BY <1>4, <1>7, <1>11

\* No step from a place leaves them.
LEMMA PlacesLed ==
  ASSUME GInv, CInv, AutomatonMade, type = "LALR1", NEW C \in SUBSET ItemPlaces,
         <<1, Len(productions), 0, END>> \in C, \A x \in C : StepsOf(x) \subseteq C
  PROVE  Placed \subseteq C
<1> DEFINE nodes == ItemPlaces
           r == [x \in nodes |-> StepsOf(x)]
           first == {<<1, Len(productions), 0, END>>}
<1>1. IsFiniteSet(nodes)
  BY PlacesFinite
<1>2. \A x \in nodes : r[x] \subseteq nodes
  <2>1. \A x \in nodes : \A y \in StepsOf(x) : y \in nodes
    BY StepFacts DEF CInv
  <2> QED BY <2>1
<1>3. C \subseteq nodes /\ first \subseteq C /\ \A x \in C : r[x] \subseteq C
  OBVIOUS
<1>4. Placed = LedTo(nodes, r, first)
  BY DEF Placed
<1> HIDE DEF r, nodes, first
<1>5. first \in SUBSET nodes
  BY <1>3
<1>6. LedTo(nodes, r, first) \subseteq C
  BY <1>1, <1>2, <1>3, <1>5, LedToFacts
<1> QED BY <1>4, <1>6

\* Every place that LALR(1) runs through was begun at a followed transition.
LEMMA PlacedBegun ==
  ASSUME GInv, CInv, phase = "lookaheads", NEW x \in Placed
  PROVE  x \in ItemPlaces /\ \E p \in DOMAIN states : BegunIn(x, p)
<1> DEFINE first == <<1, Len(productions), 0, END>>
           C == {y \in ItemPlaces : \E p \in DOMAIN states : BegunIn(y, p)}
<1>1. AutomatonMade /\ type = "LALR1" /\ GrammarMade
  BY TableFacts DEF AutomatonMade, GInv, PhaseMade
<1>2. 1 \in DOMAIN states /\ Front(Len(productions)) \in states[1].closure
  <2>1. 1 \in DOMAIN states
    BY <1>1, FirstState
  <2>2. states[1].kernel = {RootItem} /\ states[1].kernel \subseteq states[1].closure
    BY <1>1, <2>1, TableFacts DEF GInv, StatesMade, AutomatonMade
  <2>3. RootItem = Front(Len(productions))
    BY <1>1 DEF RootItem, Front
  <2> QED BY <2>1, <2>2, <2>3
<1>3. first \in ItemPlaces
  BY <1>1, <1>2, IsPlace DEF Front, GrammarMade
<1>4. BegunIn(first, 1)
  <2> DEFINE w == SymbolsOf(Len(productions))
             g == [m \in 0 .. 0 |-> 1]
  <2>1. g[0] = 1 /\ \A m \in 1 .. 0 : g[m] = Goto(g[m - 1], w[m])
    OBVIOUS
  <2> HIDE DEF w, g
  <2>2. After(1, w, 0) = g[0]
    BY <2>1, AfterEnds
  <2>3. first[1] = 1 /\ first[2] = Len(productions) /\ first[3] = 0 /\ first[4] = END
    OBVIOUS
  <2> HIDE DEF first
  <2> QED BY <1>2, <2>1, <2>2, <2>3 DEF BegunIn, w
<1>5. \A y \in C : StepsOf(y) \subseteq C
  <2> SUFFICES ASSUME NEW y \in C, NEW z \in StepsOf(y) PROVE z \in C
    OBVIOUS
  <2>1. PICK p \in DOMAIN states : BegunIn(y, p)
    OBVIOUS
  <2>2. z \in ItemPlaces
    BY <1>1, StepFacts DEF CInv
  <2>3. \E o \in DOMAIN states : BegunIn(z, o)
    BY <2>1, BegunStep
  <2> QED BY <2>2, <2>3
<1>6. first \in C /\ C \in SUBSET ItemPlaces
  BY <1>2, <1>3, <1>4
<1>7. Placed \subseteq C
  <2> HIDE DEF C
  <2> QED BY <1>1, <1>5, <1>6, PlacesLed
<1> QED BY <1>7

\* What LALR(1) reduces on is what follows a transition the state is looked back on for.
LEMMA WantedFound ==
  ASSUME GInv, CInv, phase = "lookaheads",
         NEW x \in Placed, x[3] = Len(SymbolsOf(x[2])), productions[x[2]].target # ROOT
  PROVE  \E t \in Transitions : x[4] \in follows[t] /\ [state |-> x[1], prod |-> x[2]] \in lookback[t]
<1>1. AutomatonMade /\ type = "LALR1" /\ GrammarMade
  BY TableFacts DEF AutomatonMade, GInv, PhaseMade
<1>2. x \in ItemPlaces
  BY PlacedBegun
<1>3. PICK p \in DOMAIN states : BegunIn(x, p)
  BY PlacedBegun
<1>4. x[2] # Len(productions)
  <2>1. x[2] \in DOMAIN productions
    BY <1>1, <1>2, PlaceFacts
  <2> QED BY <1>1, <2>1 DEF GrammarMade
<1> DEFINE t == <<p, productions[x[2]].target>>
           i == Front(x[2])
<1>5. /\ t \in Transitions /\ x[4] \in follows[t]
      /\ i \in states[p].closure /\ x[1] = After(p, SymbolsOf(x[2]), x[3])
  BY <1>3, <1>4 DEF BegunIn
<1>6. i.prod = x[2] /\ i.dot = 0
  BY DEF Front
<1>7. t[1] = p /\ t[2] = productions[x[2]].target
  OBVIOUS
<1> HIDE DEF i, t
<1>8. i \in WalkedFrom(t)
  BY <1>5, <1>6, <1>7 DEF WalkedFrom
<1>9. [state |-> After(t[1], SymbolsOf(i.prod), Len(SymbolsOf(i.prod))), prod |-> i.prod] \in lookback[t]
  BY <1>5, <1>6, <1>8 DEF CInv, RelationsMade
<1> QED BY <1>5, <1>6, <1>7, <1>9

\* Where the items and transitions are the same, so are the places.
LEMMA SamePlaces ==
  ASSUME GInv, AutomatonMade, UNCHANGED tableVars, DOMAIN states' = DOMAIN states,
         \A q \in DOMAIN states :
           states'[q].closure = states[q].closure /\ states'[q].next = states[q].next
  PROVE  Placed' = Placed /\ WantedReductions' = WantedReductions
<1>1. ItemPlaces' = ItemPlaces
  BY DEF ItemPlaces, tableVars
<1>2. ASSUME NEW x \in ItemPlaces PROVE StepsOf(x)' = StepsOf(x)
  <2>1. x[1] \in DOMAIN states
    BY DEF ItemPlaces
  <2>2. states'[x[1]].next = states[x[1]].next
    BY <2>1
  <2>3. Upcoming(x)' = Upcoming(x)
    BY DEF Upcoming, Visible, Vanishes, SymbolsOf, tableVars
  <2> QED BY <2>2, <2>3 DEF StepsOf, Goto, SymbolsOf, ProductionsOf, tableVars
<1>3. [x \in ItemPlaces |-> StepsOf(x)]' = [x \in ItemPlaces |-> StepsOf(x)]
  BY <1>1, <1>2
<1>4. Placed' = Placed
  <2> DEFINE first == {<<1, Len(productions), 0, END>>}
             r == [x \in ItemPlaces |-> StepsOf(x)]
  <2>1. first' = first
    BY DEF tableVars
  <2>2. r' = r
    BY <1>3
  <2> HIDE DEF first, r
  <2>3. LedTo(ItemPlaces, r, first)' = LedTo(ItemPlaces, r, first)
    BY <1>1, <2>1, <2>2 DEF LedTo
  <2> QED BY <2>3 DEF Placed, first, r
<1>5. WantedReductions' = WantedReductions
  BY <1>4 DEF WantedReductions, SymbolsOf, tableVars
<1> QED BY <1>4, <1>5

\* Every reduction that LALR(1) has is made.
LEMMA LookaheadsCompleteStep == GInv /\ CInv /\ [Next]_vars => LookaheadsComplete'
<1> SUFFICES ASSUME GInv, CInv, [Next]_vars, phase' = "actions", type' = "LALR1"
             PROVE  WantedReductions' \subseteq MadeReductions'
  BY DEF LookaheadsComplete
<1>1. GenerateLookaheads \/ UNCHANGED genVars
  <2>1. candidate # Nobody => phase = "itemsets"
    BY DEF GInv, CandidateMade
  <2>2. ~CloseItem /\ ~Register
    BY <2>1 DEF CloseItem, Register, Nobody
  <2>3. /\ ~Generate /\ ~PopState /\ ~FollowSymbol /\ ~GenerateReads /\ ~GenerateIncludesLookback
        /\ ~GenerateFollowSets /\ ~GenerateActions
    BY DEF Generate, PopState, FollowSymbol, GenerateReads, GenerateIncludesLookback,
           GenerateFollowSets, GenerateActions
  <2>4. ~ItemsetsDone
    BY DEF ItemsetsDone, tableVars
  <2>5. Configure => UNCHANGED genVars
    BY DEF Configure
  <2>6. [Next]_vars => GenNext \/ UNCHANGED genVars
    BY DEF Next, Parse, Turn, vars
  <2> QED BY <2>2, <2>3, <2>4, <2>5, <2>6 DEF GenNext, Itemsets, Lalr
<1>2. CASE UNCHANGED genVars
  <2>1. UNCHANGED tableVars /\ states' = states /\ phase = "actions" /\ type = "LALR1"
    BY <1>2 DEF genVars, tableVars
  <2>2. WantedReductions' = WantedReductions
    BY <2>1, SamePlaces DEF AutomatonMade
  <2>3. MadeReductions' = MadeReductions
    BY <2>1 DEF MadeReductions
  <2> QED BY <2>1, <2>2, <2>3 DEF CInv, LookaheadsComplete
<1>3. CASE GenerateLookaheads
  <2>1. UNCHANGED tableVars /\ phase = "lookaheads" /\ AutomatonMade
    BY <1>3 DEF GenerateLookaheads, AutomatonMade
  <2>2. WantedReductions' = WantedReductions
    BY <1>3, <2>1, LookaheadsEntered, SamePlaces
  <2>3. ASSUME NEW x \in Placed, x[3] = Len(SymbolsOf(x[2])), productions[x[2]].target # ROOT
        PROVE  <<x[1], x[2], x[4]>> \in MadeReductions'
    <3>1. PICK t \in Transitions : x[4] \in follows[t] /\ [state |-> x[1], prod |-> x[2]] \in lookback[t]
      BY <2>1, <2>3, WantedFound
    <3> DEFINE l == [state |-> x[1], prod |-> x[2]]
    <3>2. l \in lookback[t] /\ l.state = x[1] /\ l.prod = x[2]
      BY <3>1
    <3> HIDE DEF l
    <3>3. /\ l.state \in DOMAIN states' /\ x[4] \in DOMAIN states'[l.state].reductions
          /\ l.prod \in states'[l.state].reductions[x[4]]
      BY <1>3, <3>1, <3>2, LookaheadsEntered
    <3> QED BY <3>2, <3>3 DEF MadeReductions
  <2>4. WantedReductions \subseteq MadeReductions'
    BY <2>3 DEF WantedReductions
  <2> QED BY <2>2, <2>4
<1> QED BY <1>1, <1>2, <1>3

\* Nothing is wanted before the first step.
LEMMA InitCInv == Init => CInv
<1> SUFFICES ASSUME Init PROVE CInv
  OBVIOUS
<1>1. phase = "configure" /\ states = <<>> /\ candidate.closure = {}
  BY DEF Init, GenInit, Nobody
<1>2. ItemSetsClosed
  BY <1>1 DEF ItemSetsClosed
<1> QED BY <1>1, <1>2 DEF CInv, FirstsLeast, ReadsMade, RelationsMade, FollowsMade, LookaheadsComplete

LEMMA CInvStep == GInv /\ CInv /\ [Next]_vars => CInv'
<1> SUFFICES ASSUME GInv, CInv, [Next]_vars PROVE CInv'
  OBVIOUS
<1>1. FirstsLeast /\ ItemSetsClosed /\ ReadsMade /\ RelationsMade /\ FollowsMade
  BY DEF CInv
<1>2. FirstsLeast' /\ ItemSetsClosed' /\ ReadsMade' /\ RelationsMade' /\ FollowsMade'
  BY <1>1, FirstsLeastStep, ItemSetsClosedStep, RelationsStep
<1> QED BY <1>2, LookaheadsCompleteStep DEF CInv

-----------------------------------------------------------------------------
(* Theorems                                                                 *)

\* The tables are sound and the stacks a path through them, always.
LEMMA Invariants == Spec => [](GInv /\ RInv)
<1>1. Init => GInv /\ RInv
  BY InitGInv, InitRInv
<1>2. GInv /\ RInv /\ [Next]_vars => (GInv /\ RInv)'
  BY GInvStep, RInvStep
<1> QED BY <1>1, <1>2, PTL DEF Spec

\* A reduction finds its right-hand side on the stack, and a transition on its
\* nonterminal in the state under it, in every turn of every parse.
THEOREM HandleIsOnStack == Spec => []HandleOnStack
<1>1. GInv /\ RInv => HandleOnStack
  <2> SUFFICES ASSUME GInv, RInv, status = "running",
                      NEW i \in Run!curr.closure, IsDone(i), productions[i.prod].target # ROOT
               PROVE  LET n == Len(SymbolsOf(i.prod))
                          left == Len(parse_stack_matches) - n
                      IN  /\ left >= 0
                          /\ \A d \in 1 .. n :
                               \E g \in DOMAIN Run!TagsOf(parse_stack_matches[left + d]) :
                                 Run!TagsOf(parse_stack_matches[left + d])[g] = SymbolsOf(i.prod)[d]
                          /\ productions[i.prod].target
                               \in DOMAIN states[parse_stack_states[left + 1]].next
    BY DEF HandleOnStack
  <2> DEFINE n == Len(SymbolsOf(i.prod))
             left == Len(parse_stack_matches) - n
  <2>1. /\ left \in Nat
        /\ \A d \in 1 .. n :
             \E g \in DOMAIN Run!TagsOf(parse_stack_matches[left + d]) :
               Run!TagsOf(parse_stack_matches[left + d])[g] = SymbolsOf(i.prod)[d]
        /\ productions[i.prod].target
             \in DOMAIN states[parse_stack_states[left + 1]].next
    BY HandleFacts
  <2> HIDE DEF left
  <2>2. left >= 0
    BY <2>1
  <2> QED BY <2>1, <2>2 DEF left
<1> QED BY <1>1, Invariants, PTL

\* The assertions at the end of parse() hold.
THEOREM AcceptsOneMatch == Spec => []AcceptedWhole
<1>1. RInv => AcceptedWhole
  BY DEF RInv
<1> QED BY <1>1, Invariants, PTL

\* No two states have the same kernel, each transition leads to the state of
\* its items advanced, and in the end none is missing.
THEOREM StatesAreCanonical == Spec => []StatesCanonical
<1>1. PInv /\ GInv /\ RInv => StatesCanonical
  <2> SUFFICES ASSUME PInv, GInv, RInv PROVE StatesCanonical
    OBVIOUS
  <2>1. /\ \A q, u \in DOMAIN states : states[q].kernel = states[u].kernel => q = u
        /\ \A q \in DOMAIN states : \A s \in DOMAIN states[q].next :
             states[Goto(q, s)].kernel = GotoKernel(states[q].closure, s)
        /\ \A q \in DOMAIN states : states[q].kernel \subseteq states[q].closure
    BY DEF GInv, StatesMade, ItemSetMade
  <2>2. type \in {"LALR1", "LR1"}
    BY GrammarAssumption DEF GInv
  <2>3. nullable \subseteq Nonterminals
    BY DEF GInv, PhaseMade, GrammarMade
  <2>4. /\ \A n \in DOMAIN queue : queue[n] \in DOMAIN states
        /\ \A n \in DOMAIN parse_stack_states : parse_stack_states[n] \in DOMAIN states
    <3>1. queue \in Seq(DOMAIN states) /\ parse_stack_states \in Seq(DOMAIN states)
      BY DEF GInv, WorkLeft, RInv, StacksMade
    <3> QED BY <3>1
  <2>5. \A n \in DOMAIN parse_stack_matches :
          parse_stack_matches[n].prod \in DOMAIN productions \cup {0}
    <3>1. CASE phase # "ready"
      <4>1. parse_stack_matches = <<>>
        BY <3>1 DEF RInv, StacksMade, Run!RunInit
      <4> QED BY <4>1
    <3>2. CASE phase = "ready"
      <4>1. DOMAIN productions = 1 .. Len(productions) /\ Len(productions) \in Nat
        BY <3>2 DEF GInv, PhaseMade, GrammarMade
      <4> QED BY <4>1 DEF RInv, StacksMade, IsMatch
    <3> QED BY <3>1, <3>2
  <2>6. status \in {"idle", "running", "accepted", "null", "undefined"}
    BY DEF RInv, StacksMade
  <2>7. TypeOK
    BY <2>1, <2>2, <2>3, <2>4, <2>5, <2>6 DEF TypeOK, PInv
  <2>8. ASSUME AutomatonMade, NEW q \in DOMAIN states
        PROVE  DOMAIN states[q].next = SymbolsAfterDots(states[q].closure)
    <3>1. SymbolsAfterDots(states[q].closure) \subseteq DOMAIN states[q].next
      BY <2>8, AllFollowed
    <3>2. \A s \in DOMAIN states[q].next : s \in SymbolsAfterDots(states[q].closure)
      BY DEF GInv, StatesMade
    <3> QED BY <3>1, <3>2
  <2> QED BY <2>1, <2>7, <2>8 DEF StatesCanonical, GotoKernel, AutomatonMade
<1> QED BY <1>1, PInvAlways, Invariants, PTL

\* DeRemer and Pennello's method, as generate_read_sets and what follows it in
\* generate() code it, misses no lookahead of LALR(1).
THEOREM LookaheadsAreComplete == Spec => []LookaheadsComplete
<1>1. Init => GInv /\ CInv
  BY InitGInv, InitCInv
<1>2. GInv /\ CInv /\ [Next]_vars => (GInv /\ CInv)'
  BY GInvStep, CInvStep
<1>3. CInv => LookaheadsComplete
  BY DEF CInv
<1> QED BY <1>1, <1>2, <1>3, PTL DEF Spec
=============================================================================
