--------------------------- MODULE Language_proof ---------------------------
(***************************************************************************)
(* What parse() reads and accepts, for every grammar and every text: what  *)
(* the tables and the stacks are is proved in module Parser_proof.         *)
(* Derivations are followed where no handler rewrites the buffer.          *)
(*                                                                         *)
(* SInv: each match is a derivation of the tokens it spans, so an accepted *)
(* text is a sentence of the grammar.                                      *)
(*                                                                         *)
(* Complete: tables made without a conflict, nor a decision by precedence, *)
(* can take every step that an item set offers.  From where a parse of a   *)
(* sentence is they lead to its acceptance, and as each turn takes the     *)
(* only way on, it stays so: no sentence is rejected.                      *)
(*                                                                         *)
(* KeptInv: the matches on the stack and in the buffer have the places of  *)
(* the tokens read so far, in their order, whatever orderly handlers do.   *)
(***************************************************************************)
EXTENDS Parser_proof

-----------------------------------------------------------------------------
(* What has been read                                                       *)

\* D has the spans of the text's tokens, whichever of its tags a token has, and
\* of whatever the productions make of spans in D that lie next to each other:
\* <<i, j, s>> is for s from before token i to before token j.
Closed(D, tokens) ==
  /\ \A i \in DOMAIN tokens : \A g \in DOMAIN tokens[i] : <<i, i + 1, tokens[i][g]>> \in D
  /\ \A k \in DOMAIN grammar.productions : \A f \in [Nat -> Nat] :
       LET w == grammar.productions[k].symbols
       IN  (\A d \in DOMAIN w : <<f[d - 1], f[d], w[d]>> \in D)
             => <<f[0], f[Len(w)], grammar.productions[k].target>> \in D

\* The grammar derives the text from its start symbol.
Sentence(tokens) ==
  \A D : Closed(D, tokens) => <<1, Len(tokens) + 1, grammar.start>> \in D

\* A match is a token at place i, or spans what it was reduced from.
Spans(D, i, m, j) ==
  IF m.prod = 0 THEN i \in DOMAIN input /\ m.tags = input[i] /\ j = i + 1
  ELSE <<i, j, productions[m.prod].target>> \in D

\* The token t at place p has been read, or END behind the last one.
Lies(t, p, next) ==
  IF p <= Len(input) THEN t.tags = input[p] /\ next = p + 1
  ELSE t.tags = <<END>> /\ next = p

\* The matches on the stack, a nonterminal in the buffer, and the token in it or
\* else the lexer's place, follow one another; match n ends at f[n].
Reading(D, f) ==
  LET n == Len(parse_stack_matches)
      b == Len(symbol_buffer)
  IN  /\ f[0] = 1
      /\ \A x \in 1 .. n : Spans(D, f[x - 1], parse_stack_matches[x], f[x])
      /\ \E p \in 1 .. Len(input) + 1 :
           /\ IF b = 2 THEN Spans(D, f[n], symbol_buffer[1], p) ELSE p = f[n]
           /\ IF b = 0 THEN pos = p ELSE Lies(symbol_buffer[b], p, pos)

\* A parse ends with an empty buffer, and what was reduced last can be taken.
BufferUsed ==
  /\ status # "running" => symbol_buffer = <<>>
  /\ status = "running" /\ Len(symbol_buffer) = 2 =>
       productions[symbol_buffer[1].prod].target \in DOMAIN Run!curr.actions

\* Whatever is closed spans the text up to where the parse is.
TextRead ==
  status = "running" =>
    /\ \A i \in DOMAIN input : \A g \in DOMAIN input[i] : input[i][g] # END
    /\ \A D : Closed(D, input) => \E f \in [Nat -> Nat] : Reading(D, f)

\* parse() accepts only what the grammar derives.
OnlySentences == NoRewrites /\ status = "accepted" => Sentence(input)

\* The inductive invariant of what is read, as long as no handler rewrites it.
SInv == (NoRewrites => BufferUsed /\ TextRead) /\ OnlySentences

\* What is spanned does not change while the text and the tables stay.
LEMMA SameText ==
  ASSUME UNCHANGED genVars, UNCHANGED input
  PROVE  /\ \A D : Closed(D, input)' <=> Closed(D, input)
         /\ Sentence(input)' <=> Sentence(input)
         /\ \A D, i, m, j : Spans(D, i, m, j)' <=> Spans(D, i, m, j)
         /\ \A t, p, next : Lies(t, p, next)' <=> Lies(t, p, next)
<1>1. \A D : Closed(D, input)' <=> Closed(D, input)
  BY DEF Closed, genVars
<1>2. Sentence(input)' <=> Sentence(input)
  BY <1>1, SameTables DEF Sentence
<1>3. \A D, i, m, j : Spans(D, i, m, j)' <=> Spans(D, i, m, j)
  BY SameTables DEF Spans
<1>4. \A t, p, next : Lies(t, p, next)' <=> Lies(t, p, next)
  BY DEF Lies
<1> QED BY <1>1, <1>2, <1>3, <1>4

\* Where the symbol of a turn lies.
LEMMA SymbolLies ==
  ASSUME GInv, RInv, NoRewrites, status = "running",
         NEW D, NEW f \in [Nat -> Nat], Reading(D, f)
  PROVE  LET n == Len(parse_stack_matches)
             s == Run!Symbol
         IN  \E p \in 1 .. Len(input) + 1 :
               \/ /\ s.prod # 0 /\ Len(symbol_buffer) = 2 /\ Len(Run!BufferLeft) = 1
                  /\ s = symbol_buffer[1]
                  /\ Spans(D, f[n], s, p) /\ Lies(Run!BufferLeft[1], p, Run!PosAfter)
               \/ /\ s.prod = 0 /\ Run!BufferLeft = <<>>
                  /\ p = f[n] /\ Lies(s, p, Run!PosAfter)
<1> DEFINE b == symbol_buffer
           n == Len(parse_stack_matches)
           s == Run!Symbol
<1>1. /\ b \in Seq(Range(b)) /\ Len(b) \in Nat /\ Len(b) <= 2
      /\ Len(b) = 1 => b[1].prod = 0
      /\ Len(b) = 2 => b[1].prod # 0 /\ b[2].prod = 0
  <2>1. b \in Seq(Range(b))
    BY DEF RInv, StacksMade
  <2> QED BY <2>1 DEF RInv, BufferShort
<1>2. PICK p \in 1 .. Len(input) + 1 :
        /\ IF Len(b) = 2 THEN Spans(D, f[n], b[1], p) ELSE p = f[n]
        /\ IF Len(b) = 0 THEN pos = p ELSE Lies(b[Len(b)], p, pos)
  BY DEF Reading
<1>3. CASE Len(b) = 0
  <2>1. b = <<>>
    BY <1>1, <1>3, EmptySeq
  <2>2. p = f[n] /\ pos = p
    BY <1>2, <1>3
  <2>3. Run!BufferLeft = <<>>
    BY <2>1 DEF Run!BufferLeft
  <2>4. s.prod = 0 /\ s.tags = IF pos <= Len(input) THEN input[pos] ELSE <<END>>
    BY <2>1 DEF Run!Symbol, Run!Terminal
  <2>5. Run!PosAfter = IF pos <= Len(input) THEN pos + 1 ELSE pos
    BY <2>1 DEF Run!PosAfter
  <2>6. Lies(s, p, Run!PosAfter)
    BY <2>2, <2>4, <2>5 DEF Lies
  <2> HIDE DEF s, n
  <2> QED BY <2>2, <2>3, <2>4, <2>6 DEF s, n
<1>4. CASE Len(b) # 0
  <2> DEFINE t == Tail(b)
  <2>1. /\ b # <<>> /\ Head(b) = b[1] /\ Len(t) = Len(b) - 1
        /\ \A x \in 1 .. Len(b) - 1 : t[x] = b[x + 1]
    BY <1>1, <1>4
  <2>2. s = b[1] /\ Run!BufferLeft = t /\ Run!PosAfter = pos
    BY <2>1 DEF Run!Symbol, Run!BufferLeft, Run!PosAfter
  <2>3. t \in Seq(Range(b))
    BY <1>1, <2>1
  <2> HIDE DEF t
  <2>4. CASE Len(b) = 1
    <3>1. t = <<>>
      <4>1. Len(t) = 0
        BY <2>1, <2>4
      <4> QED BY <2>3, <4>1, EmptySeq
    <3>2. p = f[n] /\ Lies(b[1], p, pos) /\ b[1].prod = 0
      BY <1>1, <1>2, <2>4
    <3> QED BY <2>2, <3>1, <3>2
  <2>5. CASE Len(b) = 2
    <3>1. Len(t) = 1 /\ t[1] = b[2]
      BY <2>1, <2>5
    <3>2. Spans(D, f[n], b[1], p) /\ Lies(b[2], p, pos) /\ b[1].prod # 0
      BY <1>1, <1>2, <2>5
    <3> QED BY <2>2, <2>5, <3>1, <3>2
  <2>6. Len(b) = 1 \/ Len(b) = 2
    <3> DEFINE l == Len(b)
    <3>1. l \in Nat /\ l <= 2 /\ l # 0
      BY <1>1, <1>4
    <3> HIDE DEF l
    <3>2. l = 1 \/ l = 2
      BY <3>1
    <3> QED BY <3>2 DEF l
  <2> QED BY <2>4, <2>5, <2>6
<1> QED BY <1>3, <1>4

\* A nonterminal in the buffer can always be taken; so a turn that fails is
\* about a token.
LEMMA NonterminalUsable ==
  ASSUME GInv, RInv, SInv, NoRewrites, Run!BadToken \/ Run!Reject
  PROVE  Run!BufferLeft = <<>>
<1> DEFINE b == symbol_buffer
           s == Run!Symbol
<1>0. status = "running" /\ (Run!IsBad \/ Run!Usable = {})
  BY DEF Run!BadToken, Run!Reject
<1>1. phase = "ready"
  BY <1>0, StackFacts
<1>2. SUFFICES ASSUME s.prod # 0, Len(Run!BufferLeft) = 1 PROVE FALSE
  BY <1>1, SymbolFacts
<1>3. /\ b \in Seq(Range(b)) /\ Len(b) \in Nat /\ Len(b) <= 2
      /\ Len(b) = 1 => b[1].prod = 0
  BY DEF RInv, StacksMade, BufferShort
<1>4. b # <<>>
  <2> SUFFICES ASSUME b = <<>> PROVE FALSE
    OBVIOUS
  <2>1. Run!BufferLeft = <<>> /\ Len(<<>>) = 0
    BY DEF Run!BufferLeft
  <2> QED BY <1>2, <2>1
<1>5. s = b[1] /\ Run!BufferLeft = Tail(b)
  BY <1>3, <1>4 DEF Run!Symbol, Run!BufferLeft
<1>6. Len(b) = 2
  BY <1>2, <1>3, <1>4, <1>5
<1>7. productions[s.prod].target \in DOMAIN Run!curr.actions
  BY <1>0, <1>5, <1>6 DEF SInv, BufferUsed
<1> HIDE DEF s
<1>8. Run!TagsOf(s) = <<productions[s.prod].target>>
  BY <1>2 DEF Run!TagsOf
<1>9. 1 \in DOMAIN Run!TagsOf(s) /\ Run!TagsOf(s)[1] = productions[s.prod].target
  BY <1>8
<1>10. Run!Usable # {}
  BY <1>7, <1>9 DEF Run!Usable, s
<1> QED BY <1>0, <1>2, <1>10 DEF Run!IsBad, s

\* A production that is not the one of ROOT is the client's.
LEMMA ClientProduction ==
  ASSUME GrammarMade, grammar \in Grammars, NEW k \in DOMAIN productions, k # Len(productions)
  PROVE  /\ k \in DOMAIN grammar.productions /\ productions[k] = grammar.productions[k]
         /\ SymbolsOf(k) \in Seq(grammar.terminals \cup grammar.nonterminals)
<1> DEFINE prods == productions
           given == grammar.productions
<1>1. /\ prods \in Seq(Range(prods)) /\ given \in Seq(Range(given))
      /\ Len(prods) = Len(given) + 1
  BY GrammarAssumption DEF GrammarMade
<1>2. /\ \A x \in DOMAIN given : x \in DOMAIN prods /\ prods[x] = given[x]
      /\ \A x \in DOMAIN given : given[x].symbols \in Seq(grammar.terminals \cup grammar.nonterminals)
  BY GrammarAssumption DEF GrammarMade
<1>3. k \in DOMAIN prods /\ k # Len(prods)
  OBVIOUS
<1> HIDE DEF prods, given
<1>4. k \in DOMAIN given
  BY <1>1, <1>3
<1>5. productions[k] = given[k]
  BY <1>2, <1>4 DEF prods
<1> QED BY <1>2, <1>4, <1>5 DEF given, SymbolsOf

\* No state goes anywhere with END.
LEMMA EndNotFollowed ==
  ASSUME GInv, AutomatonMade, NEW q \in DOMAIN states
  PROVE  END \notin DOMAIN states[q].next
<1> SUFFICES ASSUME END \in DOMAIN states[q].next PROVE FALSE
  OBVIOUS
<1>1. END \in SymbolsAfterDots(states[q].closure)
  BY DEF GInv, StatesMade
<1>2. /\ GrammarMade /\ grammar \in Grammars /\ states[q].closure \subseteq Items
  BY TableFacts DEF AutomatonMade
<1>3. PICK j \in states[q].closure : ~IsDone(j) /\ NextSymbol(j) = END
  BY <1>1 DEF SymbolsAfterDots
<1>4. /\ j.prod \in DOMAIN productions /\ j.dot + 1 \in DOMAIN SymbolsOf(j.prod)
      /\ SymbolsOf(j.prod)[j.dot + 1] = END
  BY <1>2, <1>3, ItemFacts DEF NextSymbol
<1>5. END \notin grammar.terminals \cup grammar.nonterminals /\ grammar.start \in grammar.nonterminals
  BY <1>2, GrammarAssumption
<1>6. CASE j.prod = Len(productions)
  <2>1. SymbolsOf(j.prod) = <<grammar.start>>
    BY <1>2, <1>6 DEF GrammarMade
  <2> QED BY <1>4, <1>5, <2>1
<1>7. CASE j.prod # Len(productions)
  <2>1. SymbolsOf(j.prod) \in Seq(grammar.terminals \cup grammar.nonterminals)
    BY <1>2, <1>4, <1>7, ClientProduction
  <2> QED BY <1>4, <1>5, <2>1
<1> QED BY <1>6, <1>7

\* A match and a token put back.
LEMMA TwoBack ==
  ASSUME NEW m, NEW s
  PROVE  LET c == <<m>> \o <<s>> \o <<>>
         IN  Len(c) = 2 /\ c[1] = m /\ c[2] = s
<1> DEFINE one == <<m>>
           two == <<s>>
           c == one \o two
<1>1. /\ one \in Seq({m, s}) /\ two \in Seq({m, s})
      /\ Len(one) = 1 /\ Len(two) = 1 /\ one[1] = m /\ two[1] = s
  OBVIOUS
<1> HIDE DEF one, two
<1>2. /\ c \in Seq({m, s}) /\ Len(c) = Len(one) + Len(two)
      /\ \A x \in 1 .. Len(one) + Len(two) :
           c[x] = IF x <= Len(one) THEN one[x] ELSE two[x - Len(one)]
  BY <1>1, ConcatProperties
<1>3. Len(c) = 2 /\ c[1] = m /\ c[2] = s
  BY <1>1, <1>2
<1> HIDE DEF c
<1>4. c \o <<>> = c
  BY <1>2, ConcatEmptySeq
<1> QED BY <1>3, <1>4 DEF c, one, two

\* A parse begins with all of its text to read.
LEMMA ParseReads ==
  ASSUME GInv, RInv, SInv, NEW tokens \in grammar.inputs, Parse(tokens)
  PROVE  SInv'
<1>0. /\ phase = "ready" /\ UNCHANGED genVars /\ status # "running"
      /\ input' = tokens /\ pos' = 1 /\ parse_stack_matches' = <<>>
      /\ status' = "running" /\ symbol_buffer' = symbol_buffer
  BY DEF Parse, Run!Parse, Run!Idle
<1>1. OnlySentences'
  BY <1>0 DEF OnlySentences
<1> SUFFICES ASSUME NoRewrites PROVE BufferUsed' /\ TextRead'
  BY <1>0, <1>1, SameTables DEF SInv
<1>2. symbol_buffer' = <<>> /\ Len(<<>>) = 0
  BY <1>0 DEF SInv, BufferUsed
<1>3. BufferUsed'
  BY <1>0, <1>2 DEF BufferUsed
<1>4. \A i \in DOMAIN tokens : \A g \in DOMAIN tokens[i] : tokens[i][g] # END
  <2> DEFINE tags == grammar.terminals \cup {BAD}
             T == Seq(tags) \ {<<>>}
  <2>1. grammar \in Grammars
    BY DEF GInv
  <2>2. END \notin tags /\ tokens \in Seq(T)
    BY <2>1, GrammarAssumption, TextAssumption
  <2> HIDE DEF T
  <2>3. \A i \in DOMAIN tokens : tokens[i] \in T
    BY <2>2
  <2> HIDE DEF tags
  <2>4. \A w \in T : \A g \in DOMAIN w : w[g] \in tags
    BY DEF T
  <2> QED BY <2>2, <2>3, <2>4
<1>5. Len(tokens) \in Nat
  <2>1. grammar \in Grammars
    BY DEF GInv
  <2>2. tokens \in Seq(Seq(grammar.terminals \cup {BAD}) \ {<<>>})
    BY <2>1, TextAssumption
  <2> QED BY <2>2
<1>6. ASSUME NEW D
      PROVE  \E f \in [Nat -> Nat] : Reading(D, f)'
  <2> DEFINE f == [x \in Nat |-> 1]
  <2>1. f \in [Nat -> Nat] /\ f[0] = 1
    OBVIOUS
  <2> HIDE DEF f
  <2>2. 1 .. 0 = {} /\ 1 \in 1 .. Len(tokens) + 1
    BY <1>5
  <2>3. Reading(D, f)'
    BY <1>0, <1>2, <2>1, <2>2 DEF Reading
  <2> QED BY <2>1, <2>3
<1>7. TextRead'
  BY <1>0, <1>4, <1>6 DEF TextRead
<1> QED BY <1>3, <1>7

\* A parse that stops leaves the buffer empty.
LEMMA GiveUpReads ==
  ASSUME GInv, RInv, SInv, UNCHANGED genVars, Run!BadToken \/ Run!Reject
  PROVE  SInv'
<1>1. status' \in {"null", "undefined"} /\ symbol_buffer' = Run!BufferLeft
  BY DEF Run!BadToken, Run!Reject, Run!GiveUp
<1>2. OnlySentences' /\ TextRead'
  BY <1>1 DEF OnlySentences, TextRead
<1>3. NoRewrites => BufferUsed'
  BY <1>1, NonterminalUsable DEF BufferUsed
<1> QED BY <1>2, <1>3, SameTables DEF SInv

\* What is shifted ends where the rest begins.
LEMMA ShiftReads ==
  ASSUME GInv, RInv, SInv, UNCHANGED genVars, Run!Shift
  PROVE  SInv'
<1> DEFINE pm == parse_stack_matches
           n == Len(pm)
           s == Run!Symbol
           t == Run!tag
           q == parse_stack_states[Len(parse_stack_states)]
<1>0. /\ Run!Proceed /\ ~(Run!curr.accept /\ t = END) /\ Run!curr.actions[t].shift # 0
      /\ pos' = Run!PosAfter /\ symbol_buffer' = Run!BufferLeft /\ pm' = Append(pm, s)
      /\ UNCHANGED <<input, status>> /\ status = "running"
  BY DEF Run!Shift, Run!Proceed
<1>1. OnlySentences'
  BY <1>0 DEF OnlySentences
<1> SUFFICES ASSUME NoRewrites PROVE BufferUsed' /\ TextRead'
  BY <1>1, SameTables DEF SInv
<1>2. /\ phase = "ready" /\ AutomatonMade /\ n \in Nat /\ DOMAIN pm = 1 .. n
      /\ pm \in Seq(Range(pm))
  BY <1>0, StackFacts DEF RInv, StacksMade
<1>3. IsMatch(s) /\ (Run!BufferLeft = <<>> \/ Len(Run!BufferLeft) = 1)
  BY <1>2, SymbolFacts
<1>4. BufferUsed'
  <2> DEFINE b == Run!BufferLeft
             l == Len(b)
  <2> HIDE DEF b
  <2>1. Len(<<>>) = 0 /\ (b = <<>> \/ l = 1)
    BY <1>3 DEF b
  <2>2. l # 2
    BY <2>1
  <2> QED BY <1>0, <2>2 DEF BufferUsed, b
<1>5. t # END /\ \E g \in DOMAIN Run!TagsOf(s) : Run!TagsOf(s)[g] = t
  <2>1. q \in DOMAIN states /\ Run!curr = states[q]
    BY <1>0, TopFacts
  <2>2. t \in DOMAIN Run!curr.actions
    BY <1>0, <1>3, TagFacts
  <2>3. t \in DOMAIN states[q].next
    BY <1>0, <1>2, <2>1, <2>2 DEF GInv, ActionsMade
  <2> HIDE DEF q, t
  <2>4. t # END
    BY <1>2, <2>1, <2>3, EndNotFollowed
  <2> QED BY <1>0, <1>3, <2>4, TagFacts DEF t
<1>6. /\ \A i \in DOMAIN input : \A g \in DOMAIN input[i] : input[i][g] # END
      /\ \A D : Closed(D, input) => \E f \in [Nat -> Nat] : Reading(D, f)
  BY <1>0 DEF SInv, TextRead
<1>7. /\ Len(pm') = n + 1 /\ pm'[n + 1] = s /\ \A x \in 1 .. n : pm'[x] = pm[x]
  BY <1>0, <1>2
<1>8. Len(input) \in Nat /\ DOMAIN input = 1 .. Len(input)
  BY DEF RInv, StacksMade
<1>9. ASSUME NEW D, Closed(D, input)
      PROVE  \E f \in [Nat -> Nat] : Reading(D, f)'
  <2>1. PICK f \in [Nat -> Nat] : Reading(D, f)
    BY <1>6, <1>9
  <2>2. PICK p \in 1 .. Len(input) + 1 :
               \/ /\ s.prod # 0 /\ Len(symbol_buffer) = 2 /\ Len(Run!BufferLeft) = 1
                  /\ s = symbol_buffer[1]
                  /\ Spans(D, f[n], s, p) /\ Lies(Run!BufferLeft[1], p, Run!PosAfter)
               \/ /\ s.prod = 0 /\ Run!BufferLeft = <<>>
                  /\ p = f[n] /\ Lies(s, p, Run!PosAfter)
    BY <1>0, <2>1, SymbolLies
  <2> DEFINE b == Run!BufferLeft
  <2>3. PICK e \in 1 .. Len(input) + 1 :
          /\ Spans(D, f[n], s, e)
          /\ IF Len(b) = 0 THEN Run!PosAfter = e ELSE Lies(b[Len(b)], e, Run!PosAfter)
          /\ Len(b) # 2
    <3>1. CASE s.prod # 0
      <4>1. Len(b) = 1 /\ Spans(D, f[n], s, p) /\ Lies(b[1], p, Run!PosAfter)
        BY <2>2, <3>1
      <4> HIDE DEF s, n, b
      <4> QED BY <4>1
    <3>2. CASE s.prod = 0
      <4>1. b = <<>> /\ p = f[n] /\ Lies(s, p, Run!PosAfter)
        BY <2>2, <3>2
      <4>2. Run!TagsOf(s) = s.tags
        BY <3>2 DEF Run!TagsOf
      <4> HIDE DEF s, n, b
      <4>3. p <= Len(input)
        <5> SUFFICES ASSUME ~ (p <= Len(input)) PROVE FALSE
          OBVIOUS
        <5>1. s.tags = <<END>>
          BY <4>1 DEF Lies
        <5> QED BY <1>5, <4>2, <5>1
      <4>4. p + 1 \in 1 .. Len(input) + 1 /\ p \in DOMAIN input
        BY <1>8, <4>3
      <4>5. Spans(D, p, s, p + 1) /\ Run!PosAfter = p + 1
        BY <3>2, <4>1, <4>3, <4>4 DEF Lies, Spans
      <4>6. Len(b) = 0
        BY <4>1
      <4> QED BY <4>1, <4>4, <4>5, <4>6
    <3> QED BY <3>1, <3>2
  <2> HIDE DEF s, n, b
  <2>4. PICK h \in [Nat -> Nat] : h[n + 1] = e /\ \A x \in 0 .. n : h[x] = f[x]
    <3>1. e \in Nat /\ n + 1 \in Nat /\ \A x \in 0 .. n : x \in Nat /\ x # n + 1
      BY <1>2, <1>8
    <3> DEFINE g == [f EXCEPT ![n + 1] = e]
    <3>2. g \in [Nat -> Nat] /\ g[n + 1] = e /\ \A x \in 0 .. n : g[x] = f[x]
      BY <3>1
    <3> HIDE DEF g
    <3> QED BY <3>2
  <2>5. f[0] = 1 /\ \A x \in 1 .. n : Spans(D, f[x - 1], pm[x], f[x])
    BY <2>1 DEF Reading, n
  <2>6. \A x \in 1 .. n + 1 : Spans(D, h[x - 1], pm'[x], h[x])
    <3> SUFFICES ASSUME NEW x \in 1 .. n + 1
                 PROVE  Spans(D, h[x - 1], pm'[x], h[x])
      OBVIOUS
    <3>1. CASE x = n + 1
      <4>1. x - 1 = n /\ n \in 0 .. n
        BY <1>2, <3>1
      <4> QED BY <1>7, <2>3, <2>4, <3>1, <4>1
    <3>2. CASE x # n + 1
      <4>1. x \in 1 .. n /\ x - 1 \in 0 .. n /\ x \in 0 .. n
        BY <1>2, <3>2
      <4> QED BY <1>7, <2>4, <2>5, <4>1
    <3> QED BY <3>1, <3>2
  <2>7. h[0] = 1
    BY <1>2, <2>4, <2>5
  <2>8. Reading(D, h)'
    <3>1. /\ symbol_buffer' = b /\ pos' = Run!PosAfter /\ input' = input
          /\ parse_stack_matches' = pm' /\ Len(parse_stack_matches') = n + 1
      BY <1>0, <1>7 DEF b
    <3>2. (\A x \in 1 .. Len(parse_stack_matches) :
             Spans(D, h[x - 1], parse_stack_matches[x], h[x]))'
      BY <1>0, <2>6, <3>1, SameText
    <3>3. (\E x \in 1 .. Len(input) + 1 :
           /\ IF Len(symbol_buffer) = 2
                THEN Spans(D, h[Len(parse_stack_matches)], symbol_buffer[1], x)
                ELSE x = h[Len(parse_stack_matches)]
           /\ IF Len(symbol_buffer) = 0 THEN pos = x
              ELSE Lies(symbol_buffer[Len(symbol_buffer)], x, pos))'
      BY <1>0, <2>3, <2>4, <3>1, SameText
    <3> QED BY <2>7, <3>2, <3>3 DEF Reading
  <2> QED BY <2>8
<1>10. TextRead'
  BY <1>0, <1>6, <1>9, SameText DEF TextRead
<1> QED BY <1>4, <1>10

\* A match that offers a symbol makes a span of it.
LEMMA SpanOfTag ==
  ASSUME NEW D, Closed(D, input), NEW i, NEW m, NEW j, Spans(D, i, m, j),
         NEW g \in DOMAIN Run!TagsOf(m)
  PROVE  <<i, j, Run!TagsOf(m)[g]>> \in D
<1>1. CASE m.prod = 0
  <2>1. Run!TagsOf(m) = input[i] /\ i \in DOMAIN input /\ j = i + 1
    BY <1>1 DEF Run!TagsOf, Spans
  <2> QED BY <2>1 DEF Closed
<1>2. CASE m.prod # 0
  <2>1. Run!TagsOf(m) = <<productions[m.prod].target>> /\ <<i, j, productions[m.prod].target>> \in D
    BY <1>2 DEF Run!TagsOf, Spans
  <2> QED BY <2>1
<1> QED BY <1>1, <1>2

\* What lies next to each other spans what a production makes of it.
LEMMA SpansJoin ==
  ASSUME NEW D, Closed(D, input), NEW f \in [Nat -> Nat], NEW left \in Nat,
         NEW k \in DOMAIN grammar.productions, NEW w, NEW num \in Nat,
         w = grammar.productions[k].symbols, DOMAIN w = 1 .. num, Len(w) = num,
         \A d \in 1 .. num : <<f[left + d - 1], f[left + d], w[d]>> \in D
  PROVE  <<f[left], f[left + num], grammar.productions[k].target>> \in D
<1>1. PICK h \in [Nat -> Nat] : \A x \in Nat : h[x] = f[left + x]
  <2> DEFINE e == [x \in Nat |-> f[left + x]]
  <2>1. \A x \in Nat : left + x \in Nat
    OBVIOUS
  <2>2. e \in [Nat -> Nat] /\ \A x \in Nat : e[x] = f[left + x]
    BY <2>1
  <2> HIDE DEF e
  <2> QED BY <2>2
<1>2. ASSUME NEW d \in 1 .. num
      PROVE  <<h[d - 1], h[d], w[d]>> \in D
  <2>1. d - 1 \in Nat /\ d \in Nat /\ left + d - 1 = left + (d - 1)
    OBVIOUS
  <2>2. h[d - 1] = f[left + d - 1] /\ h[d] = f[left + d]
    BY <1>1, <2>1
  <2> QED BY <2>2
<1>3. <<h[0], h[num], grammar.productions[k].target>> \in D
  <2>1. (\A d \in DOMAIN w : <<h[d - 1], h[d], w[d]>> \in D)
          => <<h[0], h[Len(w)], grammar.productions[k].target>> \in D
    BY DEF Closed
  <2> QED BY <1>2, <2>1
<1>4. h[0] = f[left] /\ h[num] = f[left + num]
  <2>1. left + 0 = left /\ 0 \in Nat
    OBVIOUS
  <2> QED BY <1>1, <2>1
<1> QED BY <1>3, <1>4

\* A reading that the next state has, with a nonterminal pushed in front.
LEMMA ReadingNext ==
  ASSUME UNCHANGED genVars, UNCHANGED input, NEW D, NEW f \in [Nat -> Nat],
         NEW l, NEW m, NEW t, NEW p \in 1 .. Len(input) + 1, NEW next,
         Len(parse_stack_matches') = l, f[0] = 1,
         \A x \in 1 .. l : Spans(D, f[x - 1], parse_stack_matches'[x], f[x]),
         Len(symbol_buffer') = 2, symbol_buffer'[1] = m, symbol_buffer'[2] = t,
         pos' = next, Spans(D, f[l], m, p), Lies(t, p, next)
  PROVE  Reading(D, f)'
<1>1. (\A x \in 1 .. Len(parse_stack_matches) :
         Spans(D, f[x - 1], parse_stack_matches[x], f[x]))'
  BY SameTables DEF Spans
<1>2. (Spans(D, f[Len(parse_stack_matches)], symbol_buffer[1], p))'
  BY SameTables DEF Spans
<1>3. (Lies(symbol_buffer[Len(symbol_buffer)], p, pos))'
  BY DEF Lies
<1>4. (/\ IF Len(symbol_buffer) = 2
            THEN Spans(D, f[Len(parse_stack_matches)], symbol_buffer[1], p)
            ELSE p = f[Len(parse_stack_matches)]
       /\ IF Len(symbol_buffer) = 0 THEN pos = p
          ELSE Lies(symbol_buffer[Len(symbol_buffer)], p, pos))'
  BY <1>2, <1>3
<1> QED BY <1>1, <1>4 DEF Reading

\* A reduction spans what its right-hand side spanned.
LEMMA ReduceReads ==
  ASSUME GInv, RInv, SInv, UNCHANGED genVars, Run!Reduce
  PROVE  SInv'
<1> DEFINE ps == parse_stack_states
           pm == parse_stack_matches
           n == Len(pm)
           s == Run!Symbol
           k == Run!curr.actions[Run!tag].reduce
           num == Len(SymbolsOf(k))
           left == n - num
           terms == SubSeq(pm, left + 1, n)
           A == productions[k].target
           q == ps[left + 1]
           m == Run!Nonterminal(k, terms)
<1>0. /\ pos' = Run!PosAfter
      /\ symbol_buffer' = Run!Reduced(k, terms) \o <<s>> \o Run!BufferLeft
      /\ ps' = SubSeq(ps, 1, left + 1) /\ pm' = SubSeq(pm, 1, left)
      /\ UNCHANGED <<input, status>> /\ status = "running"
  BY DEF Run!Reduce, Run!Proceed, SymbolsOf
<1>1. OnlySentences'
  BY <1>0 DEF OnlySentences
<1> SUFFICES ASSUME NoRewrites PROVE BufferUsed' /\ TextRead'
  BY <1>1, SameTables DEF SInv
<1>2. /\ phase = "ready" /\ AutomatonMade /\ n \in Nat /\ DOMAIN pm = 1 .. n /\ Len(ps) = n + 1
      /\ DOMAIN ps = 1 .. n + 1
      /\ ps \in Seq(DOMAIN states) /\ pm \in Seq(Range(pm)) /\ \A x \in DOMAIN pm : IsMatch(pm[x])
  BY <1>0, StackFacts DEF RInv, StacksMade
<1>3. GrammarMade /\ grammar \in Grammars /\ terminals \cap Nonterminals = {}
  <2>1. GrammarMade /\ grammar \in Grammars
    BY <1>2, TableFacts DEF AutomatonMade
  <2> QED BY <2>1, GrammarAssumption DEF GrammarMade, Nonterminals
<1>4. /\ s.prod = 0 /\ k \in DOMAIN productions /\ k # Len(productions)
      /\ \E i \in Run!curr.closure : IsDone(i) /\ i.prod = k
  BY ReduceChoice
<1> HIDE DEF s, k
<1>5. /\ num \in Nat /\ left \in Nat
      /\ \A d \in 1 .. num : \E g \in DOMAIN Run!TagsOf(pm[left + d]) :
           Run!TagsOf(pm[left + d])[g] = SymbolsOf(k)[d]
      /\ A \in DOMAIN states[q].next
  <2>1. PICK i \in Run!curr.closure : IsDone(i) /\ i.prod = k
    BY <1>4
  <2>2. A # ROOT
    BY <1>3, <1>4 DEF GrammarMade
  <2> QED BY <1>0, <2>1, <2>2, HandleFacts
<1>6. left + num = n /\ left <= n /\ left + 1 \in DOMAIN ps
  BY <1>2, <1>5
<1>7. symbol_buffer' = <<m>> \o <<s>> \o <<>>
  <2>1. Run!Reduced(k, terms) = <<m>>
    <3> HIDE DEF left, m
    <3> QED BY <1>0, <1>4, <1>5, <1>6, ReducedFacts DEF m
  <2>2. Run!BufferLeft = <<>>
    BY <1>2, <1>4, SymbolFacts DEF s
  <2> QED BY <1>0, <2>1, <2>2
<1>8. m.prod = k /\ k # 0
  BY <1>3, <1>4 DEF Run!Nonterminal, GrammarMade
<1> HIDE DEF m, q, A
<1>9. Len(symbol_buffer') = 2 /\ symbol_buffer'[1] = m /\ symbol_buffer'[2] = s
  BY <1>7, TwoBack
<1>10. /\ Len(ps') = left + 1 /\ ps'[left + 1] = q /\ q \in DOMAIN states
       /\ Len(pm') = left /\ \A x \in 1 .. left : pm'[x] = pm[x]
  <2> HIDE DEF left
  <2>1. Len(ps') = left + 1 /\ ps'[left + 1] = ps[left + 1] /\ ps[left + 1] \in DOMAIN states
    BY <1>0, <1>2, <1>5, <1>6
  <2>2. Len(pm') = left /\ \A x \in 1 .. left : pm'[x] = pm[x]
    BY <1>0, <1>2, <1>5, <1>6
  <2> QED BY <2>1, <2>2 DEF q
<1>11. BufferUsed'
  <2>1. A \in DOMAIN states[q].actions
    <3>1. A \notin terminals
      BY <1>3, <1>4 DEF GrammarMade, A
    <3> QED BY <1>2, <1>5, <1>10, <3>1 DEF GInv, ActionsMade
  <2>2. Run!curr' = states[q]
    BY <1>10, SameTables DEF Run!curr
  <2>3. productions'[symbol_buffer'[1].prod].target = A
    BY <1>8, <1>9, SameTables DEF A
  <2> QED BY <1>0, <2>1, <2>2, <2>3 DEF BufferUsed
<1>12. /\ \A i \in DOMAIN input : \A g \in DOMAIN input[i] : input[i][g] # END
       /\ \A D : Closed(D, input) => \E f \in [Nat -> Nat] : Reading(D, f)
  BY <1>0 DEF SInv, TextRead
<1>13. ASSUME NEW D, Closed(D, input), NEW f \in [Nat -> Nat], Reading(D, f)
       PROVE  Reading(D, f)'
  <2>1. PICK p \in 1 .. Len(input) + 1 : p = f[n] /\ Lies(s, p, Run!PosAfter)
    BY <1>0, <1>4, <1>13, SymbolLies DEF s
  <2>2. f[0] = 1 /\ \A x \in 1 .. n : Spans(D, f[x - 1], pm[x], f[x])
    BY <1>13 DEF Reading
  <2> HIDE DEF left, num, n
  <2>3. num \in Nat /\ left \in Nat /\ n \in Nat /\ left + num = n
    BY <1>2, <1>5, <1>6
  <2>4. <<f[left], f[n], A>> \in D
    <3>1. /\ k \in DOMAIN grammar.productions /\ grammar.productions[k].target = A
          /\ SymbolsOf(k) = grammar.productions[k].symbols
          /\ SymbolsOf(k) \in Seq(grammar.terminals \cup grammar.nonterminals)
      BY <1>3, <1>4, ClientProduction DEF SymbolsOf, A
    <3>2. PICK w : w = SymbolsOf(k) /\ DOMAIN w = 1 .. num /\ Len(w) = num
      <4>1. DOMAIN SymbolsOf(k) = 1 .. Len(SymbolsOf(k))
        <5>1. PICK u : u = SymbolsOf(k) /\ u \in Seq(grammar.terminals \cup grammar.nonterminals)
          BY <3>1
        <5>2. DOMAIN u = 1 .. Len(u)
          BY <5>1
        <5> QED BY <5>1, <5>2
      <4>2. DOMAIN SymbolsOf(k) = 1 .. num /\ Len(SymbolsOf(k)) = num
        BY <4>1 DEF num
      <4> HIDE DEF num
      <4> QED BY <4>2
    <3>3. ASSUME NEW d \in 1 .. num
          PROVE  <<f[left + d - 1], f[left + d], w[d]>> \in D
      <4>1. left + d \in 1 .. n
        BY <2>3
      <4>2. Spans(D, f[left + d - 1], pm[left + d], f[left + d])
        <5>1. \A x \in 1 .. n : Spans(D, f[x - 1], pm[x], f[x])
          BY <2>2
        <5>2. PICK x : x = left + d /\ x \in 1 .. n
          BY <4>1
        <5>3. Spans(D, f[x - 1], pm[x], f[x])
          BY <5>1, <5>2
        <5>4. x - 1 = left + d - 1
          BY <2>3, <5>2
        <5> HIDE DEF pm
        <5> QED BY <5>2, <5>3, <5>4
      <4>3. PICK g \in DOMAIN Run!TagsOf(pm[left + d]) : Run!TagsOf(pm[left + d])[g] = w[d]
        BY <1>5, <3>2
      <4>4. <<f[left + d - 1], f[left + d], Run!TagsOf(pm[left + d])[g]>> \in D
        BY <1>13, <4>2, SpanOfTag
      <4> QED BY <4>3, <4>4
    <3>4. <<f[left], f[left + num], A>> \in D
      BY <2>3, <1>13, <3>1, <3>2, <3>3, SpansJoin
    <3> QED BY <2>3, <3>4
  <2>5. Spans(D, f[left], m, p)
    BY <1>8, <2>1, <2>4 DEF Spans, A
  <2>6. /\ input' = input /\ pos' = Run!PosAfter /\ parse_stack_matches' = pm'
    BY <1>0
  <2>7. \A x \in 1 .. left : x \in 1 .. n
    BY <1>2, <1>5, <1>6
  <2>8. \A x \in 1 .. left : Spans(D, f[x - 1], pm'[x], f[x])
    BY <1>10, <2>2, <2>7
  <2>9. Lies(s, p, Run!PosAfter) /\ f[0] = 1
    BY <2>1, <2>2
  <2> QED BY <1>0, <1>9, <1>10, <2>5, <2>8, <2>9, ReadingNext
<1>14. TextRead'
  BY <1>0, <1>12, <1>13, SameText DEF TextRead
<1> QED BY <1>11, <1>14

\* A text is accepted when the start symbol spans it all.
LEMMA AcceptReads ==
  ASSUME GInv, RInv, SInv, UNCHANGED genVars, Run!Accept
  PROVE  SInv'
<1> DEFINE pm == parse_stack_matches
           s == Run!Symbol
<1>0. /\ Run!Proceed /\ Run!curr.accept /\ Run!tag = END
      /\ status' = "accepted" /\ result' = pm[Len(pm)]
      /\ UNCHANGED <<input, parse_stack_states>> /\ status = "running"
  BY DEF Run!Accept, Run!Proceed
<1>1. /\ phase = "ready" /\ Len(pm) \in Nat /\ Len(parse_stack_states) = Len(pm) + 1
  BY <1>0, StackFacts
<1>2. RInv'
  BY AcceptStep
<1>3. /\ Len(parse_stack_states) = 2 /\ pm[Len(pm)].prod # 0
      /\ productions[pm[Len(pm)].prod].target = grammar.start
      /\ NoRewrites => symbol_buffer' = <<>>
  BY <1>0, <1>2, SameTables DEF RInv, AcceptedWhole
<1>4. Len(pm) = 1
  <2> DEFINE l == Len(pm)
  <2>1. l \in Nat /\ l + 1 = 2
    BY <1>1, <1>3
  <2> HIDE DEF l
  <2>2. l = 1
    BY <2>1
  <2> QED BY <2>2 DEF l
<1>5. NoRewrites => BufferUsed' /\ TextRead'
  BY <1>0, <1>3 DEF BufferUsed, TextRead
<1>6. ASSUME NoRewrites, NEW D, Closed(D, input)
      PROVE  <<1, Len(input) + 1, grammar.start>> \in D
  <2>1. PICK f \in [Nat -> Nat] : Reading(D, f)
    BY <1>0, <1>6 DEF SInv, TextRead
  <2>2. PICK g \in DOMAIN Run!TagsOf(s) : Run!TagsOf(s)[g] = END
    <3>1. IsMatch(s)
      BY <1>1, SymbolFacts
    <3> QED BY <1>0, <3>1, TagFacts
  <2>3. s.prod = 0
    <3>1. IsMatch(s)
      BY <1>1, SymbolFacts
    <3>2. END \notin Nonterminals
      BY GrammarAssumption DEF GInv, Nonterminals
    <3> QED BY <1>1, <2>2, <3>1, <3>2, MatchTags
  <2>4. PICK p \in 1 .. Len(input) + 1 : p = f[Len(pm)] /\ Lies(s, p, Run!PosAfter)
    BY <1>0, <1>6, <2>1, <2>3, SymbolLies
  <2> HIDE DEF s
  <2>5. Run!TagsOf(s) = s.tags
    BY <2>3 DEF Run!TagsOf
  <2>6. \A i \in DOMAIN input : \A x \in DOMAIN input[i] : input[i][x] # END
    BY <1>0, <1>6 DEF SInv, TextRead
  <2>7. Len(input) \in Nat /\ DOMAIN input = 1 .. Len(input)
    BY DEF RInv, StacksMade
  <2>8. ~ (p <= Len(input))
    <3> SUFFICES ASSUME p <= Len(input) PROVE FALSE
      OBVIOUS
    <3>1. s.tags = input[p] /\ p \in DOMAIN input
      BY <2>4, <2>7 DEF Lies
    <3> QED BY <2>2, <2>5, <2>6, <3>1
  <2>9. f[1] = Len(input) + 1
    <3>1. p = Len(input) + 1
      BY <2>4, <2>7, <2>8
    <3> QED BY <1>4, <2>4, <3>1
  <2>10. f[0] = 1 /\ Spans(D, f[0], pm[1], f[1])
    <3>1. 1 \in 1 .. 1 /\ 1 - 1 = 0
      OBVIOUS
    <3> QED BY <1>4, <2>1, <3>1 DEF Reading
  <2> QED BY <1>3, <1>4, <2>9, <2>10 DEF Spans
<1>7. NoRewrites => Sentence(input)
  BY <1>6 DEF Sentence
<1>8. OnlySentences'
  BY <1>0, <1>7, SameText, SameTables DEF OnlySentences
<1> QED BY <1>5, <1>8, SameTables DEF SInv

\* Nothing is read before the first parse.
LEMMA NothingRead == Run!RunInit => SInv
BY DEF Run!RunInit, SInv, BufferUsed, TextRead, OnlySentences

\* Every turn of a parse keeps what is on the stack spelling the text.
LEMMA SInvStep == GInv /\ RInv /\ SInv /\ [Next]_vars => SInv'
<1> SUFFICES ASSUME GInv, RInv, SInv, [Next]_vars PROVE SInv'
  OBVIOUS
<1>1. ASSUME UNCHANGED genVars, UNCHANGED runtimeVars PROVE SInv'
  <2>0. /\ UNCHANGED <<input, pos, symbol_buffer, parse_stack_states, parse_stack_matches, status>>
    BY <1>1 DEF runtimeVars
  <2>1. \A D, f : Reading(D, f)' <=> Reading(D, f)
    BY <1>1, <2>0, SameText DEF Reading
  <2>2. TextRead' <=> TextRead
    BY <1>1, <2>0, <2>1, SameText DEF TextRead
  <2>3. Run!curr' = Run!curr
    BY <1>1, <2>0, SameTables DEF Run!curr
  <2>4. BufferUsed' <=> BufferUsed
    BY <1>1, <2>0, <2>3, SameTables DEF BufferUsed
  <2>5. OnlySentences' <=> OnlySentences
    BY <1>1, <2>0, SameText, SameTables DEF OnlySentences
  <2> QED BY <1>1, <2>2, <2>4, <2>5, SameTables DEF SInv
<1>2. CASE GenNext /\ UNCHANGED runtimeVars
  <2>1. CASE ~ UNCHANGED genVars
    <3>1. Run!RunInit'
      BY <1>2, <2>1, GenerateFirst DEF RInv, StacksMade, Run!RunInit, runtimeVars
    <3>2. Run!RunInit' => SInv'
      BY NothingRead, PTL
    <3> QED BY <3>1, <3>2
  <2> QED BY <1>1, <1>2, <2>1
<1>3. ASSUME NEW tokens \in grammar.inputs, Parse(tokens) PROVE SInv'
  BY <1>3, ParseReads
<1>4. CASE Turn
  <2>1. UNCHANGED genVars /\ Run!Turn
    BY <1>4 DEF Turn
  <2> QED BY <2>1, GiveUpReads, AcceptReads, ShiftReads, ReduceReads DEF Run!Turn
<1>5. CASE UNCHANGED vars
  BY <1>1, <1>5 DEF vars
<1> QED BY <1>2, <1>3, <1>4, <1>5 DEF Next

-----------------------------------------------------------------------------
(* What the grammar derives is accepted                                     *)

\* Turns that add members of a finite set only, as many as the set has, end where
\* another adds nothing.
LEMMA TurnsEnough ==
  ASSUME NEW N, IsFiniteSet(N), NEW c, c = Cardinality(N),
         NEW U, NEW M, NEW S, NEW g, Turned(g, c, U, M, S),
         \A T \in U : T \subseteq M[T] /\ M[T] \subseteq T \cup N
  PROVE  M[g[c]] = g[c]
<1>1. c \in Nat
  BY FS_CardinalityType
<1>2. /\ \A n \in 0 .. c : g[n] \in U
      /\ \A n \in 1 .. c : n \in 0 .. c /\ n - 1 \in 0 .. c /\ g[n] = M[g[n - 1]]
  <2>1. \A n \in 1 .. c : n \in 0 .. c /\ n - 1 \in 0 .. c /\ n # 0
    BY <1>1
  <2> QED BY <2>1 DEF Turned
<1> DEFINE P == {n \in 0 .. c : M[g[n]] = g[n] \/ Cardinality(g[n] \cap N) >= n}
<1>3. \A T : IsFiniteSet(T \cap N) /\ Cardinality(T \cap N) \in Nat
  BY FS_Subset, FS_CardinalityType
<1>4. 0 \in P
  <2> DEFINE b == Cardinality(g[0] \cap N)
  <2>1. b \in Nat /\ 0 \in 0 .. c
    BY <1>1, <1>3
  <2>2. b >= 0
    <3> HIDE DEF b
    <3> QED BY <2>1
  <2> QED BY <2>1, <2>2
<1>5. ASSUME NEW n \in 1 .. c, n - 1 \in P
      PROVE  n \in P
  <2> DEFINE T == g[n - 1]
  <2>1. g[n] = M[T] /\ T \in U /\ n \in 0 .. c
    BY <1>2
  <2>2. CASE M[T] = T
    BY <2>1, <2>2
  <2>3. CASE M[T] # T
    <3>0. M[T] = T \/ Cardinality(T \cap N) >= n - 1
      BY <1>5
    <3> HIDE DEF T
    <3>1. T \subseteq M[T] /\ M[T] \subseteq T \cup N
      BY <2>1
    <3>2. PICK x \in M[T] : x \notin T
      BY <2>3, <3>1
    <3>3. (T \cap N) \cup {x} \subseteq M[T] \cap N
      BY <3>1, <3>2
    <3>4. Cardinality((T \cap N) \cup {x}) = Cardinality(T \cap N) + 1
      BY <1>3, <3>2, FS_AddElement
    <3>5. Cardinality((T \cap N) \cup {x}) <= Cardinality(M[T] \cap N)
      BY <1>3, <3>3, FS_Subset
    <3> DEFINE a == Cardinality(T \cap N)
               b == Cardinality(M[T] \cap N)
    <3>6. a \in Nat /\ b \in Nat /\ a >= n - 1 /\ a + 1 <= b
      BY <1>3, <2>3, <3>0, <3>4, <3>5
    <3> HIDE DEF a, b
    <3>7. b >= n
      BY <3>6, <1>1
    <3> QED BY <2>1, <3>7 DEF b
  <2> QED BY <2>2, <2>3
<1>6. c \in P
  <2> HIDE DEF P
  <2>1. 0 .. c \subseteq P
    BY <1>1, <1>4, <1>5, UpTo
  <2> QED BY <1>1, <2>1
<1>7. CASE Cardinality(g[c] \cap N) >= c
  <2> DEFINE b == Cardinality(g[c] \cap N)
  <2>1. g[c] \cap N \in SUBSET N /\ b <= c /\ b \in Nat
    BY <1>3, FS_Subset
  <2>2. b = c
    BY <1>1, <1>7, <2>1
  <2>3. N = g[c] \cap N
    BY <2>1, <2>2, FS_Subset
  <2>4. g[c] \in U
    BY <1>1, <1>2
  <2>5. g[c] \subseteq M[g[c]] /\ M[g[c]] \subseteq g[c] \cup N
    BY <2>4
  <2> QED BY <2>3, <2>5
<1> QED BY <1>6, <1>7

\* What is made turn by turn from a member of U is in U.
LEMMA TurnsTaken ==
  ASSUME NEW c \in Nat, NEW U, NEW M, \A N \in U : M[N] \in U, NEW S \in U,
         NEW g, g = [n \in 0 .. c |-> g[n]], g[0] = S,
         \A n \in 1 .. c : g[n - 1] \in U => g[n] = M[g[n - 1]]
  PROVE  Turned(g, c, U, M, S)
<1> DEFINE P == {n \in 0 .. c : g[n] \in U}
<1>0. \A n \in 1 .. c : n \in 0 .. c /\ n - 1 \in 0 .. c
  OBVIOUS
<1>1. \A n \in 1 .. c : n - 1 \in P => n \in P
  BY <1>0
<1>2. 0 \in P
  OBVIOUS
<1>3. 0 .. c \subseteq P
  <2> HIDE DEF P
  <2> QED BY <1>1, <1>2, UpTo
<1>4. \A n \in 0 .. c : n = 0 \/ (n \in 1 .. c /\ n - 1 \in 0 .. c)
  OBVIOUS
<1>5. \A n \in 0 .. c : g[n] \in U /\ g[n] = IF n = 0 THEN S ELSE M[g[n - 1]]
  BY <1>3, <1>4
<1> QED BY <1>5 DEF Turned

\* No production adds a symbol to those that NullableOf finds.
LEMMA NullableClosed ==
  ASSUME grammar \in Grammars, NEW prods,
         \A k \in DOMAIN prods : prods[k].target \in Nonterminals
  PROVE  Vanishing(prods, NullableOf(prods)) \subseteq NullableOf(prods)
<1> DEFINE c == Cardinality(Nonterminals)
           More(T) == T \cup Vanishing(prods, T)
           Eq(g) == g = [n \in 0 .. c |-> IF n = 0 THEN {} ELSE More(g[n - 1])]
           upto == CHOOSE g : Eq(g)
           U == SUBSET Nonterminals
           M == [N \in U |-> More(N)]
<1>1. NullableOf(prods) = upto[c]
  BY DEF NullableOf, LeastFrom
<1>2. IsFiniteSet(Nonterminals) /\ c \in Nat
  <2>1. IsFiniteSet(Nonterminals)
    BY GrammarAssumption, FS_AddElement DEF Nonterminals
  <2> QED BY <2>1, FS_CardinalityType
<1>3. \A N : Vanishing(prods, N) \subseteq Nonterminals
  BY DEF Vanishing
<1>4. {} \in U /\ \A N \in U : M[N] = More(N) /\ M[N] \in U /\ N \subseteq M[N]
                       /\ M[N] \subseteq N \cup Nonterminals
  BY <1>3
<1>5. \A N : N \subseteq More(N) /\ Vanishing(prods, N) \subseteq More(N)
  OBVIOUS
<1> HIDE DEF U, M, More
<1>6. \E g : Turned(g, c, U, M, {}) /\ Eq(g)
  <2>3. PICK g : Turned(g, c, U, M, {})
    <3> HIDE DEF c
    <3> QED BY <1>2, <1>4, Turns
  <2> HIDE DEF c
  <2>4. \A n \in 0 .. c : n # 0 => n - 1 \in 0 .. c
    BY <1>2
  <2>5. \A n \in 0 .. c : g[n] = IF n = 0 THEN {} ELSE More(g[n - 1])
    BY <1>4, <2>3, <2>4 DEF Turned
  <2>6. g = [n \in 0 .. c |-> g[n]]
    BY <2>3 DEF Turned
  <2>7. Eq(g)
    BY <2>5, <2>6
  <2> HIDE DEF Eq
  <2> QED BY <2>3, <2>7
<1>7. Eq(upto)
  <2> HIDE DEF Eq
  <2> QED BY <1>6
<1> HIDE DEF upto
<1>8. Turned(upto, c, U, M, {})
  <2> HIDE DEF c
  <2>0. \A n \in 1 .. c : n \in 0 .. c /\ n # 0
    BY <1>2
  <2>1. \A n \in 0 .. c : upto[n] = IF n = 0 THEN {} ELSE More(upto[n - 1])
    BY <1>7
  <2>2. upto = [n \in 0 .. c |-> upto[n]]
    BY <1>7
  <2>3. 0 \in 0 .. c /\ \A n \in 1 .. c : upto[n] = More(upto[n - 1])
    BY <1>2, <2>0, <2>1
  <2>4. /\ upto = [n \in 0 .. c |-> upto[n]] /\ upto[0] = {}
        /\ \A n \in 1 .. c : upto[n] = More(upto[n - 1])
    BY <2>1, <2>2, <2>3
  <2> QED BY <1>2, <1>4, <2>4, TurnsTaken
<1>9. M[upto[c]] = upto[c] /\ upto[c] \in U
  <2>1. \A T \in U : T \subseteq M[T] /\ M[T] \subseteq T \cup Nonterminals
    BY <1>4
  <2>2. M[upto[c]] = upto[c]
    BY <1>2, <1>8, <2>1, TurnsEnough
  <2>3. upto[c] \in U
    BY <1>2, <1>8 DEF Turned
  <2> QED BY <2>2, <2>3
<1> QED BY <1>1, <1>4, <1>9, <1>5

\* What can begin with a token, found turn by turn, is closed under the productions.
LEMMA BeginningClosed ==
  ASSUME grammar \in Grammars, NEW terms, NEW prods, NEW nulls,
         \A k \in DOMAIN prods : prods[k].target \in Nonterminals, NEW a \in terms
  PROVE  \E D : /\ a \in D /\ Beginning(prods, nulls, D) \subseteq D
                /\ D \subseteq {a} \cup Nonterminals
                /\ \A s \in terms \cup Nonterminals : a \in FirstsOf(terms, prods, nulls)[s] <=> s \in D
<1> DEFINE c == Cardinality(Nonterminals)
           More(T) == T \cup Beginning(prods, nulls, T)
           Eq(g) == g = [n \in 0 .. c |-> IF n = 0 THEN {a} ELSE More(g[n - 1])]
           upto == CHOOSE g : Eq(g)
           U == SUBSET ({a} \cup Nonterminals)
           M == [N \in U |-> More(N)]
<1>1. \A s \in terms \cup Nonterminals : a \in FirstsOf(terms, prods, nulls)[s] <=> s \in upto[c]
  <2>1. LeastFrom({a}, LAMBDA T : Beginning(prods, nulls, T)) = upto[c]
    BY DEF LeastFrom
  <2>2. \A s \in terms \cup Nonterminals : a \in FirstsOf(terms, prods, nulls)[s]
          <=> s \in LeastFrom({a}, LAMBDA T : Beginning(prods, nulls, T))
    BY DEF FirstsOf
  <2> QED BY <2>1, <2>2
<1>2. IsFiniteSet(Nonterminals) /\ c \in Nat
  <2>1. IsFiniteSet(Nonterminals)
    BY GrammarAssumption, FS_AddElement DEF Nonterminals
  <2> QED BY <2>1, FS_CardinalityType
<1>3. \A N : Beginning(prods, nulls, N) \subseteq Nonterminals
  BY DEF Beginning
<1>4. {a} \in U /\ \A N \in U : M[N] = More(N) /\ M[N] \in U /\ N \subseteq M[N]
                       /\ M[N] \subseteq N \cup Nonterminals
  BY <1>3
<1>5. \A N : N \subseteq More(N) /\ Beginning(prods, nulls, N) \subseteq More(N)
  OBVIOUS
<1> HIDE DEF M, More
<1>6. \E g : Eq(g)
  <2> HIDE DEF c, U
  <2>1. PICK g : Turned(g, c, U, M, {a})
    BY <1>2, <1>4, Turns
  <2>2. \A n \in 0 .. c : n # 0 => n - 1 \in 0 .. c
    BY <1>2
  <2>3. \A n \in 0 .. c : g[n] = IF n = 0 THEN {a} ELSE More(g[n - 1])
    BY <1>4, <2>1, <2>2 DEF Turned
  <2>4. g = [n \in 0 .. c |-> g[n]]
    BY <2>1 DEF Turned
  <2>5. Eq(g)
    BY <2>3, <2>4
  <2> HIDE DEF Eq
  <2> QED BY <2>5
<1>7. Eq(upto)
  <2> HIDE DEF Eq
  <2> QED BY <1>6
<1> HIDE DEF upto
<1> DEFINE D == upto[c]
<1>8. Turned(upto, c, U, M, {a})
  <2> HIDE DEF c, U, D
  <2>0. \A n \in 1 .. c : n \in 0 .. c /\ n # 0
    BY <1>2
  <2>1. \A n \in 0 .. c : upto[n] = IF n = 0 THEN {a} ELSE More(upto[n - 1])
    BY <1>7
  <2>2. upto = [n \in 0 .. c |-> upto[n]]
    BY <1>7
  <2>3. 0 \in 0 .. c /\ \A n \in 1 .. c : upto[n] = More(upto[n - 1])
    BY <1>2, <2>0, <2>1
  <2>4. /\ upto = [n \in 0 .. c |-> upto[n]] /\ upto[0] = {a}
        /\ \A n \in 1 .. c : upto[n] = More(upto[n - 1])
    BY <2>1, <2>2, <2>3
  <2>5. {a} \in U /\ c \in Nat
    BY <1>2, <1>4
  <2>6. \A N \in U : M[N] \in U
    BY <1>4
  <2>7. \A n \in 1 .. c : upto[n - 1] \in U => upto[n] = M[upto[n - 1]]
    BY <1>4, <2>4
  <2> QED BY ONLY <2>4, <2>5, <2>6, <2>7, TurnsTaken
<1>9. M[D] = D /\ D \in U
  <2> HIDE DEF U
  <2>1. \A T \in U : T \subseteq M[T] /\ M[T] \subseteq T \cup Nonterminals
    BY <1>4
  <2>2. M[D] = D
    BY <1>2, <1>8, <2>1, TurnsEnough
  <2>3. D \in U
    <3> HIDE DEF c
    <3>1. c \in 0 .. c /\ \A n \in 0 .. c : upto[n] \in U
      <4>1. c \in 0 .. c
        BY <1>2
      <4>2. \A n \in 0 .. c : upto[n] \in U
        BY <1>8 DEF Turned
      <4> QED BY <4>1, <4>2
    <3> QED BY <3>1
  <2> QED BY <2>2, <2>3
<1>10. a \in D
  <2> HIDE DEF c
  <2> DEFINE P == {n \in 0 .. c : a \in upto[n]}
  <2>1. 0 \in P
    BY <1>2, <1>7
  <2>2. \A n \in 1 .. c : n \in 0 .. c /\ n # 0
    BY <1>2
  <2>3. \A n \in 1 .. c : n \in 0 .. c /\ upto[n] = More(upto[n - 1])
    BY <1>7, <2>2
  <2>4. \A n \in 1 .. c : n - 1 \in P => n \in P
    BY <1>5, <2>3
  <2>5. 0 .. c \subseteq P
    <3> HIDE DEF P
    <3> QED BY <1>2, <2>1, <2>4, UpTo
  <2> QED BY <1>2, <2>5
<1>11. Beginning(prods, nulls, D) \subseteq D
  BY <1>4, <1>5, <1>9
<1>12. D \subseteq {a} \cup Nonterminals
  BY <1>9
<1>13. \A s \in terms \cup Nonterminals : a \in FirstsOf(terms, prods, nulls)[s] <=> s \in D
  BY <1>1
<1> HIDE DEF D
<1> QED BY <1>10, <1>11, <1>12, <1>13

\* The first sets miss nothing the productions ask for.
FirstsEnough ==
  phase # "configure" =>
    /\ \A a \in terminals : a \in firsts[a]
    /\ \A k \in DOMAIN productions :
         LET w == SymbolsOf(k)
             A == productions[k].target
         IN  /\ Vanishes(w) => A \in nullable
             /\ \A j \in Visible(w) : firsts[w[j]] \subseteq firsts[A]

LEMMA FirstsEnoughStep == GInv /\ FirstsEnough /\ [Next]_vars => FirstsEnough'
<1> SUFFICES ASSUME GInv, FirstsEnough, [Next]_vars PROVE FirstsEnough'
  OBVIOUS
<1>1. CASE Generate
  <2> DEFINE terms == terminals'
             prods == productions'
             nulls == nullable'
  <2>1. grammar \in Grammars /\ phase = "configure" /\ grammar' = grammar
    BY <1>1 DEF GInv, Generate, tableVars
  <2>2. GrammarMade'
    BY <1>1, <2>1, GenerateGrammar
  <2>3. /\ \A k \in DOMAIN prods : prods[k].target \in Nonterminals /\ prods[k].symbols \in Seq(Symbols')
        /\ Symbols' \subseteq terms \cup Nonterminals
    BY <2>1, <2>2 DEF GrammarMade, Symbols, Nonterminals, SymbolsOf
  <2>4. nulls = NullableOf(prods) /\ firsts' = FirstsOf(terms, prods, nulls)
    BY <1>1 DEF Generate
  <2>5. \A s \in terms \cup Nonterminals : firsts'[s] \subseteq terms
    BY <2>4 DEF FirstsOf
  <2> HIDE DEF terms, prods, nulls
  <2>6. ASSUME NEW a \in terms
        PROVE  a \in firsts'[a]
    BY <2>1, <2>3, <2>4, BeginningClosed
  <2>7. ASSUME NEW k \in DOMAIN prods, \A j \in DOMAIN prods[k].symbols : prods[k].symbols[j] \in nulls
        PROVE  prods[k].target \in nulls
    <3>1. prods[k].target \in Vanishing(prods, nulls)
      BY <2>7 DEF Vanishing
    <3> QED BY <2>1, <2>3, <2>4, <3>1, NullableClosed
  <2>8. ASSUME NEW k \in DOMAIN prods, NEW j \in DOMAIN prods[k].symbols,
               \A i \in 1 .. j - 1 : prods[k].symbols[i] \in nulls,
               NEW a \in firsts'[prods[k].symbols[j]]
        PROVE  a \in firsts'[prods[k].target]
    <3>1. prods[k].symbols[j] \in terms \cup Nonterminals /\ prods[k].target \in terms \cup Nonterminals
      BY <2>3
    <3>2. a \in terms
      BY <2>5, <2>8, <3>1
    <3>3. PICK D : /\ Beginning(prods, nulls, D) \subseteq D
                   /\ \A s \in terms \cup Nonterminals : a \in firsts'[s] <=> s \in D
      BY <2>1, <2>3, <2>4, <3>2, BeginningClosed
    <3>4. prods[k].symbols[j] \in D
      BY <2>8, <3>1, <3>3
    <3>5. prods[k].target \in Beginning(prods, nulls, D)
      BY <2>8, <3>4 DEF Beginning
    <3> QED BY <3>1, <3>3, <3>5
  <2> QED BY <2>6, <2>7, <2>8 DEF FirstsEnough, SymbolsOf, Vanishes, Visible, terms, prods, nulls
<1>2. CASE UNCHANGED tableVars /\ (phase = "configure" => phase' = "configure")
  BY <1>2 DEF FirstsEnough, tableVars, SymbolsOf, Vanishes, Visible
<1> QED BY <1>1, <1>2, GenerateOnce

\* The states have the reductions that their items, or those of LALR(1), ask for.
ReductionsEnough ==
  /\ type = "LR1" =>
       \A q \in DOMAIN states : \A i \in states[q].closure :
         IsDone(i) => /\ i.la \in DOMAIN states[q].reductions
                      /\ i.prod \in states[q].reductions[i.la]
  /\ type = "LALR1" /\ phase \in {"actions", "ready"} => WantedReductions \subseteq MadeReductions

LEMMA ReductionsEnoughStep == GInv /\ CInv /\ ReductionsEnough /\ [Next]_vars => ReductionsEnough'
<1> SUFFICES ASSUME GInv, CInv, ReductionsEnough, [Next]_vars PROVE ReductionsEnough'
  OBVIOUS
<1>1. CASE Register
  <2>1. UNCHANGED tableVars /\ phase' = phase
    BY <1>1 DEF Register
  <2>2. phase = "itemsets"
    BY <1>1 DEF Register, GInv, CandidateMade, Nobody
  <2>3. ASSUME type = "LR1", NEW q \in DOMAIN states', NEW i \in states'[q].closure, IsDone(i)
        PROVE  i.la \in DOMAIN states'[q].reductions /\ i.prod \in states'[q].reductions[i.la]
    <3>1. CASE /\ states'[q].closure = candidate.closure
               /\ states'[q].reductions = ReductionsOf(candidate.closure)
      BY <2>3, <3>1 DEF ReductionsOf
    <3>2. CASE /\ q \in DOMAIN states /\ states'[q].closure = states[q].closure
               /\ states'[q].reductions = states[q].reductions
      BY <2>3, <3>2 DEF ReductionsEnough
    <3> QED BY <1>1, <3>1, <3>2, RegisterClosures
  <2>4. type' = type /\ \A i : IsDone(i)' <=> IsDone(i)
    BY <2>1, Fixed DEF tableVars
  <2> QED BY <2>1, <2>2, <2>3, <2>4 DEF ReductionsEnough
<1>2. CASE GenerateActions
  <2>1. UNCHANGED tableVars /\ phase = "actions" /\ AutomatonMade
    BY <1>2 DEF GenerateActions, AutomatonMade
  <2>2. /\ DOMAIN states' = DOMAIN states
        /\ \A q \in DOMAIN states :
             /\ states'[q].closure = states[q].closure /\ states'[q].next = states[q].next
             /\ states'[q].reductions = states[q].reductions
    BY <1>2, ActionsEntered DEF Kept
  <2>3. WantedReductions' = WantedReductions
    BY <2>1, <2>2, SamePlaces
  <2>4. MadeReductions' = MadeReductions
    BY <2>2 DEF MadeReductions
  <2>5. type' = type /\ \A i : IsDone(i)' <=> IsDone(i)
    BY <2>1, Fixed DEF tableVars
  <2> QED BY <2>1, <2>2, <2>3, <2>4, <2>5 DEF ReductionsEnough
<1>3. CASE GenerateLookaheads
  <2>1. UNCHANGED tableVars /\ phase = "lookaheads" /\ phase' = "actions" /\ type = "LALR1"
    BY <1>3 DEF GenerateLookaheads, GInv, PhaseMade
  <2>2. type' = "LALR1"
    BY <2>1 DEF tableVars
  <2> QED BY <2>1, <2>2, LookaheadsCompleteStep DEF LookaheadsComplete, ReductionsEnough
<1>4. CASE Generate
  <2>1. states' = <<>> /\ phase' = "itemsets"
    BY <1>4 DEF Generate, GInv, PhaseMade
  <2> QED BY <2>1 DEF ReductionsEnough
<1>5. CASE /\ states' = states /\ UNCHANGED tableVars
           /\ phase' \in {"actions", "ready"} /\ type' = "LALR1" => phase = phase'
  <2>1. type' = type /\ \A i : IsDone(i)' <=> IsDone(i)
    BY <1>5, Fixed DEF tableVars
  <2>2. type = "LALR1" /\ phase' \in {"actions", "ready"} => WantedReductions' = WantedReductions
    BY <1>5, <2>1, SamePlaces DEF AutomatonMade
  <2>3. MadeReductions' = MadeReductions
    BY <1>5 DEF MadeReductions
  <2> QED BY <1>5, <2>1, <2>2, <2>3 DEF ReductionsEnough
<1>6. [Next]_vars => \/ Register \/ GenerateActions \/ GenerateLookaheads \/ Generate
                     \/ /\ states' = states /\ UNCHANGED tableVars
                        /\ phase' \in {"actions", "ready"} /\ type' = "LALR1" => phase = phase'
  <2>1. Configure \/ CloseItem \/ PopState \/ FollowSymbol
          => states' = states /\ UNCHANGED tableVars /\ phase' = phase
    BY DEF Configure, CloseItem, PopState, FollowSymbol, genVars, tableVars
  <2>2. ItemsetsDone => states' = states /\ UNCHANGED tableVars /\ (type' = "LALR1" => phase' = "reads")
    BY DEF ItemsetsDone, tableVars
  <2>3. GenerateReads \/ GenerateIncludesLookback \/ GenerateFollowSets
          => states' = states /\ UNCHANGED tableVars /\ phase' \notin {"actions", "ready"}
    BY DEF GenerateReads, GenerateIncludesLookback, GenerateFollowSets
  <2>4. (\E tokens \in grammar.inputs : Parse(tokens)) \/ Turn \/ UNCHANGED vars
          => states' = states /\ UNCHANGED tableVars /\ phase' = phase
    BY DEF Parse, Turn, vars, genVars, tableVars
  <2> QED BY <2>1, <2>2, <2>3, <2>4 DEF Next, GenNext, Itemsets, Lalr
<1> QED BY <1>1, <1>2, <1>3, <1>4, <1>5, <1>6

\* Without conflicts and precedence the tables leave no choice.
Unconfigured == precedence = <<>> /\ production_precedence = <<>>
Decided ==
  phase = "ready" /\ conflicts = {} /\ Unconfigured =>
    \A q \in DOMAIN states :
      /\ \A s \in DOMAIN states[q].next :
           s \in DOMAIN states[q].actions /\ states[q].actions[s] = Shift(Goto(q, s))
      /\ \A s \in DOMAIN states[q].reductions :
           /\ s \in DOMAIN states[q].actions
           /\ \A k \in states[q].reductions[s] : states[q].actions[s] = Reduce(k)

LEMMA NoConflict ==
  ASSUME GInv, phase = "actions", Unconfigured, NEW q \in DOMAIN states, ConflictsOf(q) = {}
  PROVE  /\ Contested(states[q]) = {}
         /\ \A s \in DOMAIN states[q].reductions : \A k \in states[q].reductions[s] :
              states[q].reductions[s] = {k}
<1> DEFINE st == states[q]
<1>1. ASSUME NEW s \in Contested(st) PROVE FALSE
  <2>1. SymbolPrecedence(s) = UNDEFINED
    BY DEF SymbolPrecedence, Unconfigured
  <2>2. ASSUME NEW k PROVE ProductionPrecedence(k, SymbolsOf(k), terminals) = UNDEFINED
    BY DEF ProductionPrecedence, SymbolPrecedence, Unconfigured
  <2>3. Verdict(st, s) = "conflict"
    BY <2>1, <2>2 DEF Verdict, Resolve, UNDEFINED
  <2> QED BY <2>3 DEF ConflictsOf
<1>2. ASSUME NEW s \in DOMAIN st.reductions, NEW k \in st.reductions[s], NEW o \in st.reductions[s], o # k
      PROVE  FALSE
  <2> DEFINE ks == st.reductions[s]
  <2>1. ~ (Cardinality(ks) > 1)
    BY DEF ConflictsOf
  <2>2. ks \subseteq DOMAIN productions
    <3>1. \A x \in ks : \E i \in st.closure : i.prod = x
      BY DEF GInv, ReductionsMade
    <3>2. GrammarMade /\ st.closure \subseteq Items
      BY TableFacts
    <3> QED BY <3>1, <3>2, ItemFacts
  <2>3. IsFiniteSet(ks) /\ Cardinality(ks) \in Nat
    <3>1. productions \in Seq(Range(productions))
      BY TableFacts DEF GrammarMade
    <3>2. DOMAIN productions = 1 .. Len(productions) /\ Len(productions) \in Nat
      BY <3>1
    <3>3. IsFiniteSet(DOMAIN productions)
      BY <3>2, FS_Interval
    <3> QED BY <2>2, <3>3, FS_Subset, FS_CardinalityType
  <2>4. IsFiniteSet({k}) /\ Cardinality({k}) = 1
    BY FS_Singleton
  <2>5. Cardinality({k} \cup {o}) = 2
    <3>1. o \notin {k}
      BY <1>2
    <3>2. Cardinality({k} \cup {o}) = Cardinality({k}) + 1
      BY ONLY <2>4, <3>1, FS_AddElement
    <3> QED BY <2>4, <3>2
  <2>6. {k} \cup {o} \in SUBSET ks
    BY <1>2
  <2> HIDE DEF ks
  <2>7. 2 <= Cardinality(ks)
    BY <2>3, <2>5, <2>6, FS_Subset
  <2> QED BY <2>1, <2>3, <2>7
<1> QED BY <1>1, <1>2

LEMMA DecidedStep == GInv /\ Decided /\ [Next]_vars => Decided'
<1> SUFFICES ASSUME GInv, Decided, [Next]_vars, phase' = "ready", conflicts' = {}, Unconfigured'
             PROVE  Decided'
  BY DEF Decided
<1>1. CASE GenerateActions
  <2>1. /\ UNCHANGED tableVars /\ phase = "actions" /\ AutomatonMade /\ Unconfigured
        /\ conflicts' = UNION {ConflictsOf(q) : q \in DOMAIN states}
    BY <1>1 DEF GenerateActions, AutomatonMade, Unconfigured, precVars
  <2> SUFFICES ASSUME NEW q \in DOMAIN states
               PROVE  /\ \A s \in DOMAIN states'[q].next :
                           /\ s \in DOMAIN states'[q].actions
                           /\ states'[q].actions[s] = Shift(states'[q].next[s])
                      /\ \A s \in DOMAIN states'[q].reductions :
                           /\ s \in DOMAIN states'[q].actions
                           /\ \A k \in states'[q].reductions[s] : states'[q].actions[s] = Reduce(k)
    BY <1>1, ActionsEntered DEF Decided, Goto, Shift, Reduce
  <2>2. /\ states'[q].next = states[q].next /\ states'[q].reductions = states[q].reductions
        /\ states'[q].actions = ActionsOf(states[q])
    BY <1>1, ActionsEntered DEF Kept
  <2>3. ConflictsOf(q) = {}
    BY <2>1
  <2>4. /\ Contested(states[q]) = {}
        /\ \A s \in DOMAIN states[q].reductions : \A k \in states[q].reductions[s] :
              states[q].reductions[s] = {k}
    BY <2>1, <2>3, NoConflict
  <2>5. \A s \in DOMAIN states[q].next :
          s \in DOMAIN ActionsOf(states[q]) /\ ActionsOf(states[q])[s] = Shift(states[q].next[s])
    BY <2>4 DEF ActionsOf
  <2>6. ASSUME NEW s \in DOMAIN states[q].reductions
        PROVE  /\ s \in DOMAIN ActionsOf(states[q])
               /\ \A k \in states[q].reductions[s] : ActionsOf(states[q])[s] = Reduce(k)
    <3>1. s \notin DOMAIN states[q].next
      BY <2>4 DEF Contested
    <3>2. s \in DOMAIN ActionsOf(states[q]) /\ ActionsOf(states[q])[s] = Reduce(Preferred(states[q].reductions[s]))
      BY <2>4, <3>1 DEF ActionsOf
    <3>3. ASSUME NEW k \in states[q].reductions[s]
          PROVE  Preferred(states[q].reductions[s]) = k
      <4>1. states[q].reductions[s] = {k}
        BY <2>4
      <4> QED BY <4>1 DEF Preferred
    <3> QED BY <3>2, <3>3
  <2> QED BY <2>2, <2>5, <2>6
<1>2. CASE UNCHANGED <<states, phase, conflicts, precedence, production_precedence>>
  BY <1>2 DEF Decided, Unconfigured, Goto, Shift, Reduce
<1>3. GenerateActions \/ UNCHANGED <<states, phase, conflicts, precedence, production_precedence>>
  <2>1. ~Configure /\ ~Generate /\ ~CloseItem /\ ~Register /\ ~PopState /\ ~FollowSymbol
    <3>1. candidate # Nobody => phase = "itemsets"
      BY DEF GInv, CandidateMade
    <3> QED BY <3>1 DEF Configure, Generate, CloseItem, Register, PopState, FollowSymbol, genVars, Nobody
  <2>2. ~ItemsetsDone /\ ~Lalr
    BY DEF ItemsetsDone, Lalr, GenerateReads, GenerateIncludesLookback, GenerateFollowSets, GenerateLookaheads
  <2>3. (\E tokens \in grammar.inputs : Parse(tokens)) \/ Turn \/ UNCHANGED vars
          => UNCHANGED <<states, phase, conflicts, precedence, production_precedence>>
    BY DEF Parse, Turn, vars, genVars, precVars
  <2> QED BY <2>1, <2>2, <2>3 DEF Next, GenNext, Itemsets
<1> QED BY <1>1, <1>2, <1>3

\* Production k with the dot after d symbols, followed by t, is an LR(1) item of state q;
\* for LALR(1), of some LR(1) state with the items of q.
Valid(q, k, d, t) ==
  q \in DOMAIN states
    /\ IF type = "LR1" THEN [prod |-> k, dot |-> d, la |-> t] \in states[q].closure
       ELSE <<q, k, d, t>> \in Placed

\* Places are closed under the steps from them.
LEMMA PlacedClosed ==
  ASSUME GInv, ItemSetsClosed, AutomatonMade, type = "LALR1"
  PROVE  /\ <<1, Len(productions), 0, END>> \in Placed /\ Placed \subseteq ItemPlaces
         /\ \A x \in Placed : StepsOf(x) \subseteq Placed
<1> DEFINE nodes == ItemPlaces
           r == [x \in nodes |-> StepsOf(x)]
           root == <<1, Len(productions), 0, END>>
           first == {root}
<1>1. IsFiniteSet(nodes)
  BY PlacesFinite
<1>2. \A x \in nodes : r[x] \subseteq nodes
  <2>1. \A x \in nodes : \A y \in StepsOf(x) : y \in nodes
    BY StepFacts
  <2> QED BY <2>1
<1>3. root \in nodes
  <2>1. 1 \in DOMAIN states /\ states[1].kernel = {RootItem} /\ states[1].kernel \subseteq states[1].closure
    BY FirstState DEF GInv, StatesMade, ItemSetMade
  <2>2. [prod |-> Len(productions), dot |-> 0, la |-> NONE] \in states[1].closure
    BY <2>1 DEF RootItem
  <2>3. END \in terminals
    BY TableFacts DEF GrammarMade, AutomatonMade
  <2> QED BY <2>1, <2>2, <2>3, IsPlace
<1>4. Placed = LedTo(nodes, r, first)
  BY DEF Placed
<1>5. \A x \in nodes : r[x] = StepsOf(x)
  OBVIOUS
<1>6. first \in SUBSET nodes
  BY <1>3
<1> HIDE DEF r, nodes
<1>7. /\ first \subseteq Placed /\ Placed \subseteq nodes
      /\ \A x \in Placed : r[x] \subseteq Placed
  BY <1>1, <1>2, <1>4, <1>6, LedToFacts
<1> QED BY <1>5, <1>7 DEF nodes

\* What a valid item is made of.
LEMMA ValidFacts ==
  ASSUME GInv, ItemSetsClosed, AutomatonMade, NEW q, NEW k, NEW d, NEW t, Valid(q, k, d, t)
  PROVE  /\ q \in DOMAIN states /\ k \in DOMAIN productions /\ t \in terminals
         /\ SymbolsOf(k) \in Seq(Symbols) /\ Len(SymbolsOf(k)) \in Nat /\ d \in 0 .. Len(SymbolsOf(k))
         /\ \E la : [prod |-> k, dot |-> d, la |-> la] \in states[q].closure
<1>1. q \in DOMAIN states
  BY DEF Valid
<1>2. CASE type = "LR1"
  <2> DEFINE i == [prod |-> k, dot |-> d, la |-> t]
  <2>1. i \in states[q].closure /\ i.prod = k /\ i.dot = d /\ i.la = t
    BY <1>2 DEF Valid
  <2>2. GrammarMade /\ states[q].closure \subseteq Items
    BY <1>1, TableFacts DEF AutomatonMade
  <2>3. Lookaheads = terminals
    BY <1>2 DEF Lookaheads
  <2> HIDE DEF i
  <2>4. i \in Items
    BY <2>1, <2>2
  <2>5. /\ i.prod \in DOMAIN productions /\ i.la \in Lookaheads
        /\ i.dot \in 0 .. Len(SymbolsOf(i.prod))
        /\ SymbolsOf(i.prod) \in Seq(Symbols) /\ Len(SymbolsOf(i.prod)) \in Nat
    BY <2>2, <2>4, ItemFacts
  <2> QED BY <1>1, <2>1, <2>3, <2>5 DEF i
<1>3. CASE type # "LR1"
  <2>1. type = "LALR1"
    BY <1>3, TableFacts DEF AutomatonMade
  <2> DEFINE x == <<q, k, d, t>>
  <2>2. x \in ItemPlaces
    BY <1>3, <2>1, PlacedClosed DEF Valid
  <2>3. x[1] = q /\ x[2] = k /\ x[3] = d /\ x[4] = t
    OBVIOUS
  <2> HIDE DEF x
  <2>4. /\ x[2] \in DOMAIN productions /\ x[4] \in terminals
        /\ [prod |-> x[2], dot |-> x[3], la |-> NONE] \in states[x[1]].closure
        /\ SymbolsOf(x[2]) \in Seq(Symbols) /\ Len(SymbolsOf(x[2])) \in Nat
        /\ x[3] \in 0 .. Len(SymbolsOf(x[2]))
    BY <2>1, <2>2, PlaceFacts
  <2> QED BY <1>1, <2>3, <2>4
<1> QED BY <1>2, <1>3

LEMMA ValidRoot ==
  ASSUME GInv, ItemSetsClosed, AutomatonMade
  PROVE  Valid(1, Len(productions), 0, END)
<1>1. 1 \in DOMAIN states /\ states[1].kernel = {RootItem} /\ states[1].kernel \subseteq states[1].closure
  BY FirstState DEF GInv, StatesMade, ItemSetMade
<1>2. CASE type = "LR1"
  BY <1>1, <1>2 DEF Valid, RootItem
<1>3. CASE type # "LR1"
  <2>1. type = "LALR1"
    BY <1>3, TableFacts DEF AutomatonMade
  <2> QED BY <1>1, <1>3, <2>1, PlacedClosed DEF Valid
<1> QED BY <1>2, <1>3

\* Moving the dot over the next symbol goes along a transition.
LEMMA ValidMoves ==
  ASSUME GInv, ItemSetsClosed, AutomatonMade, NEW q, NEW k, NEW d, NEW t, Valid(q, k, d, t),
         d # Len(SymbolsOf(k))
  PROVE  /\ d + 1 \in DOMAIN SymbolsOf(k)
         /\ SymbolsOf(k)[d + 1] \in DOMAIN states[q].next
         /\ Valid(Goto(q, SymbolsOf(k)[d + 1]), k, d + 1, t)
<1> DEFINE w == SymbolsOf(k)
           s == w[d + 1]
<1>1. PICK la : [prod |-> k, dot |-> d, la |-> la] \in states[q].closure
  BY ValidFacts
<1>2. q \in DOMAIN states /\ d \in 0 .. Len(w) /\ Len(w) \in Nat /\ w \in Seq(Symbols)
  BY ValidFacts
<1>3. d + 1 \in DOMAIN w
  <2> DEFINE n == Len(w)
  <2>1. n \in Nat /\ d \in 0 .. n /\ d # n /\ DOMAIN w = 1 .. n
    BY <1>2
  <2> HIDE DEF n
  <2> QED BY <2>1
<1>4. ASSUME NEW b, [prod |-> k, dot |-> d, la |-> b] \in states[q].closure
      PROVE  /\ s \in DOMAIN states[q].next /\ Goto(q, s) \in DOMAIN states
             /\ [prod |-> k, dot |-> d + 1, la |-> b] \in states[Goto(q, s)].closure
  <2> DEFINE i == [prod |-> k, dot |-> d, la |-> b]
  <2>1. i.prod = k /\ i.dot = d /\ i.la = b
    OBVIOUS
  <2>2. i \in states[q].closure
    BY <1>4
  <2> HIDE DEF i
  <2>3. ~IsDone(i) /\ NextSymbol(i) = s
    BY <2>1 DEF IsDone, NextSymbol
  <2> QED BY <1>2, <2>1, <2>2, <2>3, GotoMoves
<1>5. CASE type = "LR1"
  BY <1>3, <1>4, <1>5 DEF Valid
<1>6. CASE type # "LR1"
  <2>1. type = "LALR1"
    BY <1>6, TableFacts DEF AutomatonMade
  <2> DEFINE x == <<q, k, d, t>>
  <2>2. x \in Placed /\ x[1] = q /\ x[2] = k /\ x[3] = d /\ x[4] = t
    BY <1>6 DEF Valid
  <2> HIDE DEF x
  <2>3. <<Goto(q, s), k, d + 1, t>> \in StepsOf(x)
    BY <2>2 DEF StepsOf
  <2>4. <<Goto(q, s), k, d + 1, t>> \in Placed
    BY <2>1, <2>2, <2>3, PlacedClosed
  <2> QED BY <1>1, <1>3, <1>4, <1>6, <2>4 DEF Valid
<1> QED BY <1>5, <1>6

\* The productions of the next symbol begin in the same state.
LEMMA ValidPredicts ==
  ASSUME GInv, ItemSetsClosed, AutomatonMade, NEW q, NEW k, NEW d, NEW t, Valid(q, k, d, t),
         d # Len(SymbolsOf(k)), NEW o \in ProductionsOf(SymbolsOf(k)[d + 1]),
         NEW a \in Upcoming(<<q, k, d, t>>)
  PROVE  Valid(q, o, 0, a)
<1> DEFINE x == <<q, k, d, t>>
<1>0. x[1] = q /\ x[2] = k /\ x[3] = d /\ x[4] = t
  OBVIOUS
<1> HIDE DEF x
<1>1. q \in DOMAIN states
  BY DEF Valid
<1>2. CASE type = "LR1"
  <2> DEFINE i == [prod |-> k, dot |-> d, la |-> t]
  <2>1. i \in states[q].closure /\ i.prod = k /\ i.dot = d /\ i.la = t
    BY <1>2 DEF Valid
  <2> HIDE DEF i
  <2>2. ~IsDone(i) /\ NextSymbol(i) = SymbolsOf(k)[d + 1]
    BY <2>1 DEF IsDone, NextSymbol
  <2>3. NextSymbol(i) \notin terminals
    <3>1. NextSymbol(i) \in Nonterminals
      BY <2>2, TableFacts DEF GrammarMade, ProductionsOf, AutomatonMade
    <3> QED BY <3>1, TableFacts, GrammarAssumption DEF GrammarMade, AutomatonMade, Nonterminals
  <2>4. Upcoming(x) = LookaheadsAfter(i)
    BY <1>0, <2>1 DEF Upcoming, LookaheadsAfter
  <2>5. [prod |-> o, dot |-> 0, la |-> a] \in Predicted(i)
    BY <1>2, <2>2, <2>3, <2>4 DEF Predicted, x
  <2> QED BY <1>1, <1>2, <2>1, <2>5 DEF Valid, ItemSetsClosed
<1>3. CASE type # "LR1"
  <2>1. type = "LALR1"
    BY <1>3, TableFacts DEF AutomatonMade
  <2>2. x \in Placed
    BY <1>3 DEF Valid, x
  <2>3. <<q, o, 0, a>> \in StepsOf(x)
    BY <1>0 DEF StepsOf, x
  <2>4. <<q, o, 0, a>> \in Placed
    BY <2>1, <2>2, <2>3, PlacedClosed
  <2> QED BY <1>1, <1>3, <2>4 DEF Valid
<1> QED BY <1>2, <1>3

\* Where a production of the client's is complete, the state reduces by it.
LEMMA ValidReduces ==
  ASSUME GInv, ItemSetsClosed, ReductionsEnough, phase = "ready", NEW q, NEW k, NEW t,
         Valid(q, k, Len(SymbolsOf(k)), t), k # Len(productions)
  PROVE  t \in DOMAIN states[q].reductions /\ k \in states[q].reductions[t]
<1>0. AutomatonMade
  BY DEF AutomatonMade
<1>1. q \in DOMAIN states /\ k \in DOMAIN productions
  BY <1>0, ValidFacts
<1>2. CASE type = "LR1"
  <2> DEFINE i == [prod |-> k, dot |-> Len(SymbolsOf(k)), la |-> t]
  <2>1. i \in states[q].closure /\ i.prod = k /\ i.dot = Len(SymbolsOf(k)) /\ i.la = t
    BY <1>2 DEF Valid
  <2> HIDE DEF i
  <2>2. IsDone(i)
    BY <2>1 DEF IsDone
  <2> QED BY <1>1, <1>2, <2>1, <2>2 DEF ReductionsEnough
<1>3. CASE type # "LR1"
  <2>1. type = "LALR1"
    BY <1>0, <1>3, TableFacts DEF AutomatonMade
  <2>2. productions[k].target # ROOT
    BY <1>0, <1>1, TableFacts DEF GrammarMade, AutomatonMade
  <2> DEFINE x == <<q, k, Len(SymbolsOf(k)), t>>
  <2>3. x \in Placed /\ x[1] = q /\ x[2] = k /\ x[3] = Len(SymbolsOf(x[2])) /\ x[4] = t
    BY <1>3 DEF Valid
  <2> HIDE DEF x
  <2>4. <<q, k, t>> \in WantedReductions
    BY <2>2, <2>3 DEF WantedReductions
  <2>5. <<q, k, t>> \in MadeReductions
    BY <2>1, <2>4 DEF ReductionsEnough
  <2> QED BY <2>5 DEF MadeReductions
<1> QED BY <1>2, <1>3

\* The state behind the start symbol accepts.
LEMMA ValidAccepts ==
  ASSUME GInv, ItemSetsClosed, AutomatonMade, NEW q, Valid(q, Len(productions), 1, END)
  PROVE  states[q].accept
<1>1. PICK la : [prod |-> Len(productions), dot |-> 1, la |-> la] \in states[q].closure
  BY ValidFacts
<1> DEFINE i == [prod |-> Len(productions), dot |-> 1, la |-> la]
<1>2. i \in states[q].closure /\ i.prod = Len(productions) /\ i.dot = 1
  BY <1>1
<1> HIDE DEF i
<1>3. q \in DOMAIN states /\ ItemSetMade(states[q])
  BY ValidFacts, TableFacts DEF AutomatonMade
<1>4. i \in states[q].kernel
  BY <1>2, <1>3 DEF ItemSetMade, Grounded
<1>5. IsDone(i) /\ productions[i.prod].target = ROOT
  <2>1. GrammarMade /\ Len(productions) \in DOMAIN productions
    BY ValidFacts, TableFacts DEF AutomatonMade
  <2>2. SymbolsOf(i.prod) = <<grammar.start>> /\ productions[i.prod].target = ROOT
    BY <1>2, <2>1 DEF GrammarMade
  <2>3. Len(<<grammar.start>>) = 1
    OBVIOUS
  <2> QED BY <1>2, <2>2, <2>3 DEF IsDone
<1> QED BY <1>3, <1>4, <1>5 DEF ItemSetMade, Accepting

\* The token at a place of the text: END at the last.
TokenAt(tokens, p) == IF p <= Len(tokens) THEN tokens[p][1] ELSE END

Places(tokens) == 1 .. Len(tokens) + 1
Stacks == Seq(DOMAIN states) \ {<<>>}
Top(st) == st[Len(st)]

\* A configuration is a stack of states and a place.  The tables have a shift or a
\* reduction that leads from one to the other, a reduction with the transition after it.
Moves(tokens, st, p, c) ==
  LET q == states[Top(st)]
      a == TokenAt(tokens, p)
  IN  \/ p <= Len(tokens) /\ a \in DOMAIN q.next /\ c = <<Append(st, q.next[a]), p + 1>>
      \/ /\ a \in DOMAIN q.reductions
         /\ \E k \in q.reductions[a] :
              LET left == Len(st) - Len(SymbolsOf(k))
                  A == productions[k].target
              IN  /\ left \in 1 .. Len(st) /\ A \in DOMAIN states[st[left]].next
                  /\ c = <<Append(SubSeq(st, 1, left), Goto(st[left], A)), p>>

\* G has each configuration that accepts, and those that lead to one it has.
Reaching(G, tokens) ==
  \A st \in Stacks : \A p \in Places(tokens) :
    /\ states[Top(st)].accept /\ TokenAt(tokens, p) = END => <<st, p>> \in G
    /\ \A c \in G : Moves(tokens, st, p, c) => <<st, p>> \in G

\* The stack that grows over st by following m symbols of w.
Grown(st, w, m) ==
  [x \in 1 .. Len(st) + m |-> IF x <= Len(st) THEN st[x] ELSE After(Top(st), w, x - Len(st))]

LEMMA AfterNothing == ASSUME NEW q, NEW w PROVE After(q, w, 0) = q
<1> DEFINE f == [n \in {0} |-> q]
<1>1. f[0] = q /\ \A k \in 1 .. 0 : f[k] = Goto(f[k - 1], w[k])
  OBVIOUS
<1> HIDE DEF f
<1>2. After(q, w, 0) = f[0]
  BY <1>1, AfterEnds
<1> QED BY <1>1, <1>2

LEMMA GrownFacts ==
  ASSUME GInv, ItemSetsClosed, AutomatonMade, NEW st \in Stacks, NEW k, NEW t, Valid(Top(st), k, 0, t)
  PROVE  LET w == SymbolsOf(k)
             n == Len(w)
             at(m) == Grown(st, w, m)
         IN  /\ Len(st) \in Nat \ {0} /\ n \in Nat /\ at(0) = st
             /\ \A m \in 0 .. n : /\ at(m) \in Stacks /\ Len(at(m)) = Len(st) + m
                                  /\ Valid(Top(at(m)), k, m, t)
             /\ \A m \in 1 .. n : /\ w[m] \in DOMAIN states[Top(at(m - 1))].next
                                  /\ at(m) = Append(at(m - 1), Goto(Top(at(m - 1)), w[m]))
             /\ SubSeq(at(n), 1, Len(st)) = st /\ at(n)[Len(st)] = Top(st)
<1> DEFINE w == SymbolsOf(k)
           n == Len(w)
           l == Len(st)
           q == Top(st)
           at(m) == Grown(st, w, m)
<1>1. /\ st \in Seq(DOMAIN states) /\ l \in Nat \ {0} /\ DOMAIN st = 1 .. l /\ st[l] = q
      /\ q \in DOMAIN states
  BY DEF Stacks, Top
<1>2. n \in Nat /\ DOMAIN w = 1 .. n
  BY ValidFacts
<1>3. PICK la : [prod |-> k, dot |-> 0, la |-> la] \in states[q].closure
  BY ValidFacts
<1>4. ASSUME NEW m \in 0 .. n
      PROVE  /\ After(q, w, m) \in DOMAIN states
             /\ m # 0 => After(q, w, m) = Goto(After(q, w, m - 1), w[m])
  <2> DEFINE i == [prod |-> k, dot |-> 0, la |-> la]
  <2>1. i \in states[q].closure /\ i.prod = k /\ i.dot = 0
    BY <1>3
  <2> HIDE DEF i
  <2>2. \A d \in 1 .. m : w[d] = SymbolsOf(i.prod)[i.dot + d]
    BY <2>1
  <2>3. i.dot + m <= Len(SymbolsOf(i.prod)) /\ m \in Nat
    BY <1>2, <2>1
  <2> HIDE DEF w, q, n
  <2>4. q \in DOMAIN states /\ i \in states[q].closure
    BY <1>1, <2>1
  <2> QED BY ONLY GInv, AutomatonMade, <2>2, <2>3, <2>4, AfterMoves
<1>5. After(q, w, 0) = q
  BY AfterNothing
<1> HIDE DEF n, l, q
<1>6. ASSUME NEW m \in 0 .. n
      PROVE  /\ at(m) \in Seq(DOMAIN states) /\ Len(at(m)) = l + m /\ DOMAIN at(m) = 1 .. l + m
             /\ \A x \in 1 .. l : at(m)[x] = st[x]
             /\ \A x \in 1 .. m : at(m)[l + x] = After(q, w, x)
             /\ Top(at(m)) = After(q, w, m)
  <2>1. at(m) = [x \in 1 .. l + m |-> IF x <= l THEN st[x] ELSE After(q, w, x - l)]
    BY DEF Grown, l, q
  <2>2. \A x \in 1 .. l + m : x <= l \/ (x - l \in 1 .. m /\ x - l \in 0 .. n)
    BY <1>1, <1>2
  <2>3. \A x \in 1 .. l : x \in 1 .. l + m /\ x <= l
    BY <1>1, <1>2
  <2>4. \A x \in 1 .. m : l + x \in 1 .. l + m /\ ~(l + x <= l) /\ (l + x) - l = x
    BY <1>1, <1>2
  <2>5. l + m \in Nat /\ l + m \in 1 .. l + m /\ (m = 0 \/ m \in 1 .. m)
    BY <1>1, <1>2
  <2> DEFINE g == at(m)
  <2>6. \A x \in 1 .. l + m : g[x] \in DOMAIN states
    <3> SUFFICES ASSUME NEW x \in 1 .. l + m PROVE g[x] \in DOMAIN states
      OBVIOUS
    <3>1. CASE x <= l
      <4>1. g[x] = st[x] /\ x \in 1 .. l
        BY <1>1, <1>2, <2>1, <3>1
      <4> QED BY <1>1, <4>1
    <3>2. CASE ~(x <= l)
      BY <1>4, <2>1, <2>2, <3>2
    <3> QED BY <3>1, <3>2
  <2>7. g = [x \in 1 .. l + m |-> g[x]]
    BY <2>1
  <2>8. /\ \A x \in 1 .. l : g[x] = st[x]
        /\ \A x \in 1 .. m : g[l + x] = After(q, w, x)
    BY <2>1, <2>3, <2>4
  <2> HIDE DEF g
  <2>9. g \in Seq(DOMAIN states) /\ Len(g) = l + m /\ DOMAIN g = 1 .. l + m
    BY <2>5, <2>6, <2>7
  <2>10. g[l + m] = After(q, w, m)
    <3>1. CASE m = 0
      BY <1>1, <1>5, <2>8, <3>1
    <3>2. CASE m # 0
      BY <2>5, <2>8, <3>2
    <3> QED BY <3>1, <3>2
  <2> QED BY <2>8, <2>9, <2>10 DEF g, Top
<1>7. at(0) = st
  <2>1. 0 \in 0 .. n /\ l + 0 = l
    BY <1>1, <1>2
  <2>2. at(0) \in Seq(DOMAIN states) /\ DOMAIN at(0) = 1 .. l /\ \A x \in 1 .. l : at(0)[x] = st[x]
    BY <1>6, <2>1
  <2> HIDE DEF at
  <2> QED BY <1>1, <2>2
<1>8. ASSUME NEW m \in 1 .. n
      PROVE  at(m) = Append(at(m - 1), Goto(Top(at(m - 1)), w[m]))
  <2>1. m \in 0 .. n /\ m - 1 \in 0 .. n /\ m # 0 /\ (l + (m - 1)) + 1 = l + m /\ m \in 1 .. m
    BY <1>1, <1>2
  <2> DEFINE a == at(m - 1)
             b == at(m)
             u == After(q, w, m)
  <2>2. /\ a \in Seq(DOMAIN states) /\ Len(a) = l + (m - 1) /\ Top(a) = After(q, w, m - 1)
        /\ \A x \in 1 .. l : a[x] = st[x]
        /\ \A x \in 1 .. m - 1 : a[l + x] = After(q, w, x)
    BY <1>6, <2>1
  <2>3. /\ b \in Seq(DOMAIN states) /\ Len(b) = l + m /\ DOMAIN b = 1 .. l + m
        /\ \A x \in 1 .. l : b[x] = st[x]
        /\ \A x \in 1 .. m : b[l + x] = After(q, w, x)
    BY <1>6, <2>1
  <2>4. u = Goto(Top(a), w[m]) /\ u \in DOMAIN states
    BY <1>4, <2>1, <2>2
  <2> HIDE DEF a, b, at, u
  <2>5. \A x \in 1 .. l + (m - 1) : x \in 1 .. l \/ (x - l \in 1 .. m - 1 /\ x - l \in 1 .. m /\ l + (x - l) = x)
    BY <1>1, <1>2
  <2>6. ASSUME NEW x \in 1 .. l + (m - 1) PROVE a[x] = b[x]
    <3>1. CASE x \in 1 .. l
      BY <2>2, <2>3, <3>1
    <3>2. CASE x \notin 1 .. l
      <4>1. x - l \in 1 .. m - 1 /\ x - l \in 1 .. m /\ l + (x - l) = x
        BY <2>5, <3>2
      <4>2. a[l + (x - l)] = After(q, w, x - l) /\ b[l + (x - l)] = After(q, w, x - l)
        BY <2>2, <2>3, <4>1
      <4> QED BY <4>1, <4>2
    <3> QED BY <3>1, <3>2
  <2>7. b[l + m] = u
    BY <2>1, <2>3 DEF u
  <2>8. /\ Append(a, u) \in Seq(DOMAIN states) /\ Len(Append(a, u)) = l + m
        /\ \A x \in 1 .. l + (m - 1) : Append(a, u)[x] = a[x]
        /\ Append(a, u)[l + m] = u
    BY <2>1, <2>2, <2>4
  <2>9. \A x \in 1 .. l + m : x \in 1 .. l + (m - 1) \/ x = l + m
    BY <1>1, <1>2
  <2>10. b = Append(a, u)
    <3> DEFINE c == Append(a, u)
    <3>1. c \in Seq(DOMAIN states) /\ Len(c) = l + m
      BY <2>8
    <3>2. \A x \in 1 .. l + m : c[x] = b[x]
      BY <2>6, <2>7, <2>8, <2>9
    <3> HIDE DEF c
    <3>3. c = b
      BY <2>3, <3>1, <3>2
    <3> QED BY <3>3 DEF c
  <2> QED BY <2>4, <2>10 DEF a, b
<1> DEFINE S == {m \in 0 .. n : Valid(Top(at(m)), k, m, t)}
<1>9. 0 \in S
  BY <1>2, <1>7 DEF q
<1>10. ASSUME NEW m \in 1 .. n, m - 1 \in S
       PROVE  m \in S /\ w[m] \in DOMAIN states[Top(at(m - 1))].next
  <2>1. m \in 0 .. n /\ m - 1 \in 0 .. n /\ m # 0 /\ (m - 1) + 1 = m /\ m - 1 # n
    BY <1>2
  <2>2. Valid(Top(at(m - 1)), k, m - 1, t) /\ m - 1 # Len(SymbolsOf(k))
    BY <1>10, <2>1 DEF n
  <2>3. /\ w[m] \in DOMAIN states[Top(at(m - 1))].next
        /\ Valid(Goto(Top(at(m - 1)), w[m]), k, m, t)
    <3> HIDE DEF at
    <3> QED BY <2>1, <2>2, ValidMoves
  <2>4. Goto(Top(at(m - 1)), w[m]) = Top(at(m))
    BY <1>4, <1>6, <2>1
  <2> QED BY <2>1, <2>3, <2>4
<1>11. 0 .. n \subseteq S
  <2> HIDE DEF S
  <2> QED BY <1>2, <1>9, <1>10, UpTo
<1>12. \A m \in 0 .. n : at(m) \in Stacks
  <2> SUFFICES ASSUME NEW m \in 0 .. n PROVE at(m) \in Stacks
    OBVIOUS
  <2>1. at(m) \in Seq(DOMAIN states) /\ Len(at(m)) = l + m /\ l + m # 0
    BY <1>1, <1>2, <1>6
  <2> HIDE DEF at
  <2> QED BY <2>1 DEF Stacks
<1>13. SubSeq(at(n), 1, l) = st /\ at(n)[l] = q
  <2>1. n \in 0 .. n /\ l \in 1 .. l /\ l <= l + n
    BY <1>1, <1>2
  <2> DEFINE b == at(n)
  <2>2. b \in Seq(DOMAIN states) /\ Len(b) = l + n /\ \A x \in 1 .. l : b[x] = st[x]
    BY <1>6, <2>1
  <2> HIDE DEF b
  <2>3. SubSeq(b, 1, l) = st
    <3> DEFINE c == SubSeq(b, 1, l)
    <3>1. c = [x \in 1 .. l |-> b[x]]
      BY <1>1, <2>1, <2>2
    <3>2. st = [x \in 1 .. l |-> st[x]]
      BY <1>1
    <3> HIDE DEF c
    <3> QED BY <2>2, <3>1, <3>2 DEF c
  <2> QED BY <1>1, <2>1, <2>2, <2>3 DEF b
<1>14. \A m \in 1 .. n : m - 1 \in S
  BY <1>2, <1>11
<1> HIDE DEF at
<1>15. /\ \A m \in 0 .. n : Valid(Top(at(m)), k, m, t)
       /\ \A m \in 1 .. n : w[m] \in DOMAIN states[Top(at(m - 1))].next
  BY <1>10, <1>11, <1>14
<1>16. \A m \in 0 .. n : Len(at(m)) = l + m
  BY <1>6
<1> QED BY <1>1, <1>2, <1>7, <1>8, <1>12, <1>13, <1>15, <1>16 DEF at, n, l, q

\* Without a conflict the following holds of what a grammar's symbol X derives between
\* places i and j, whatever is on the stack: it begins with the token at i, or vanishes,
\* and where X is next and the token at j can follow it, parsing gets from i to j over X.
Fits(G, tokens, i, j, X) ==
  /\ j \in Places(tokens) /\ i <= j
  /\ IF i = j THEN X \in nullable ELSE TokenAt(tokens, i) \in firsts[X]
  /\ \A st \in Stacks : \A k, d, t :
       /\ Valid(Top(st), k, d, t) /\ d # Len(SymbolsOf(k)) /\ SymbolsOf(k)[d + 1] = X
       /\ TokenAt(tokens, j) \in Upcoming(<<Top(st), k, d, t>>)
       /\ <<Append(st, Goto(Top(st), X)), j>> \in G
       => <<st, i>> \in G

Fitting(G, tokens) ==
  {x \in Nat \X Nat \X (Symbols \cup {BAD}) :
     x[1] \in Places(tokens) /\ x[3] \in Symbols => Fits(G, tokens, x[1], x[2], x[3])}

\* What spans of the symbols of w, one after the other, begin with.
LEMMA BegunBackward ==
  ASSUME NEW tokens, NEW n \in Nat, NEW f \in [Nat -> Nat], NEW w,
         \A m \in 1 .. n :
           /\ f[m - 1] <= f[m]
           /\ IF f[m - 1] = f[m] THEN w[m] \in nullable ELSE TokenAt(tokens, f[m - 1]) \in firsts[w[m]],
         NEW m \in 0 .. n
  PROVE  /\ f[m] <= f[n]
         /\ IF f[m] = f[n] THEN \A d \in m + 1 .. n : w[d] \in nullable
            ELSE \E d \in m + 1 .. n : /\ TokenAt(tokens, f[m]) \in firsts[w[d]]
                                       /\ \A e \in m + 1 .. d - 1 : w[e] \in nullable
<1> DEFINE Begun(b) == /\ f[b] <= f[n]
                       /\ IF f[b] = f[n] THEN \A d \in b + 1 .. n : w[d] \in nullable
                          ELSE \E d \in b + 1 .. n : /\ TokenAt(tokens, f[b]) \in firsts[w[d]]
                                                     /\ \A e \in b + 1 .. d - 1 : w[e] \in nullable
           S == {x \in 0 .. n : Begun(n - x)}
<1>1. 0 \in S
  <2>1. n - 0 = n /\ \A d \in n + 1 .. n : FALSE
    OBVIOUS
  <2>2. f[n] <= f[n]
    OBVIOUS
  <2> QED BY <2>1, <2>2
<1>2. ASSUME NEW x \in 1 .. n, x - 1 \in S PROVE x \in S
  <2> DEFINE b == n - x
  <2>1. b \in Nat /\ b + 1 \in 1 .. n /\ n - (x - 1) = b + 1 /\ (b + 1) - 1 = b
    OBVIOUS
  <2>2. Begun(b + 1)
    BY <1>2, <2>1
  <2>3. /\ f[b] <= f[b + 1]
        /\ IF f[b] = f[b + 1] THEN w[b + 1] \in nullable ELSE TokenAt(tokens, f[b]) \in firsts[w[b + 1]]
    BY <2>1
  <2>4. f[b] \in Nat /\ f[b + 1] \in Nat /\ f[n] \in Nat
    BY <2>1
  <2> HIDE DEF b
  <2>5. f[b] <= f[n]
    BY <2>2, <2>3, <2>4
  <2>6. \A d \in b + 1 .. n : d = b + 1 \/ d \in (b + 1) + 1 .. n
    BY <2>1
  <2>7. CASE f[b] = f[b + 1] /\ f[b] = f[n]
    <3>1. \A d \in b + 1 .. n : w[d] \in nullable
      BY <2>2, <2>3, <2>6, <2>7
    <3> QED BY <2>5, <2>7, <3>1 DEF b
  <2>8. CASE f[b] = f[b + 1] /\ f[b] # f[n]
    <3>1. PICK d \in (b + 1) + 1 .. n : /\ TokenAt(tokens, f[b + 1]) \in firsts[w[d]]
                                        /\ \A e \in (b + 1) + 1 .. d - 1 : w[e] \in nullable
      BY <2>2, <2>8
    <3>2. d \in b + 1 .. n /\ \A e \in b + 1 .. d - 1 : e = b + 1 \/ e \in (b + 1) + 1 .. d - 1
      BY <2>1
    <3>3. \A e \in b + 1 .. d - 1 : w[e] \in nullable
      BY <2>3, <2>8, <3>1, <3>2
    <3>4. \E c \in b + 1 .. n : /\ TokenAt(tokens, f[b]) \in firsts[w[c]]
                                /\ \A e \in b + 1 .. c - 1 : w[e] \in nullable
      BY <2>8, <3>1, <3>2, <3>3
    <3>5. Begun(b)
      BY <2>5, <2>8, <3>4
    <3> QED BY <3>5 DEF b
  <2>9. CASE f[b] # f[b + 1]
    <3>1. f[b] # f[n]
      BY <2>2, <2>3, <2>4, <2>9
    <3>2. b + 1 \in b + 1 .. n /\ \A e \in b + 1 .. (b + 1) - 1 : FALSE
      BY <2>1
    <3>3. TokenAt(tokens, f[b]) \in firsts[w[b + 1]]
      BY <2>3, <2>9
    <3>4. \E c \in b + 1 .. n : /\ TokenAt(tokens, f[b]) \in firsts[w[c]]
                                /\ \A e \in b + 1 .. c - 1 : w[e] \in nullable
      BY <3>2, <3>3
    <3>5. Begun(b)
      BY <2>5, <3>1, <3>4
    <3> QED BY <3>5 DEF b
  <2> QED BY <2>7, <2>8, <2>9
<1>3. 0 .. n \subseteq S
  <2> HIDE DEF S
  <2> QED BY <1>1, <1>2, UpTo
<1>4. n - m \in 0 .. n /\ n - (n - m) = m
  OBVIOUS
<1>5. Begun(m)
  BY <1>3, <1>4
<1> QED BY <1>5

\* What the tokens of a text are for a parser without choices.
Plainly(tokens) ==
  /\ tokens \in Seq(Seq(terminals \cup {BAD}))
  /\ \A i \in DOMAIN tokens : Len(tokens[i]) = 1 /\ tokens[i][1] # END

\* What is needed of the tables to get over what the grammar derives.
TablesEnough ==
  GInv /\ ItemSetsClosed /\ FirstsEnough /\ ReductionsEnough /\ phase = "ready"

LEMMA TokenFits ==
  ASSUME TablesEnough, NEW tokens, Plainly(tokens), NEW G, Reaching(G, tokens),
         NEW i \in DOMAIN tokens, tokens[i][1] \in Symbols
  PROVE  Fits(G, tokens, i, i + 1, tokens[i][1])
<1> DEFINE a == tokens[i][1]
<1>0. GInv /\ ItemSetsClosed /\ FirstsEnough /\ phase = "ready" /\ AutomatonMade
  BY DEF TablesEnough, AutomatonMade
<1>1. DOMAIN tokens = 1 .. Len(tokens) /\ Len(tokens) \in Nat
  BY DEF Plainly
<1>2. /\ i \in Places(tokens) /\ i + 1 \in Places(tokens) /\ i <= i + 1 /\ i # i + 1 /\ i <= Len(tokens)
      /\ TokenAt(tokens, i) = a
  <2>1. i \in Nat /\ 1 <= i /\ i <= Len(tokens)
    BY <1>1
  <2>2. i \in Places(tokens) /\ i + 1 \in Places(tokens)
    BY <1>1, <2>1 DEF Places
  <2>3. TokenAt(tokens, i) = a
    BY <1>1 DEF TokenAt
  <2> QED BY <2>1, <2>2, <2>3
<1>3. a \in terminals
  <2> DEFINE T == terminals \cup {BAD}
             u == tokens[i]
  <2>1. u \in Seq(T) /\ Len(u) = 1
    BY DEF Plainly
  <2> HIDE DEF T, u
  <2>2. u[1] \in T
    <3>1. \A v \in Seq(T) : \A n \in 1 .. Len(v) : v[n] \in T
      OBVIOUS
    <3>2. 1 \in 1 .. Len(u)
      BY <2>1
    <3> QED BY <2>1, <3>1, <3>2
  <2>3. BAD \notin Symbols
    <3>1. GrammarMade /\ grammar \in Grammars
      BY <1>0, TableFacts
    <3>2. BAD \notin grammar.terminals \cup grammar.nonterminals \cup {ROOT, END}
      BY <3>1, TextAssumption
    <3> QED BY <3>1, <3>2 DEF Symbols, GrammarMade
  <2> QED BY <2>2, <2>3 DEF T, u
<1>4. a \in firsts[a]
  BY <1>0, <1>3 DEF FirstsEnough
<1>5. ASSUME NEW st \in Stacks, NEW k, NEW d, NEW t,
             Valid(Top(st), k, d, t), d # Len(SymbolsOf(k)), SymbolsOf(k)[d + 1] = a,
             <<Append(st, Goto(Top(st), a)), i + 1>> \in G
      PROVE  <<st, i>> \in G
  <2>1. a \in DOMAIN states[Top(st)].next
    BY <1>0, <1>5, ValidMoves
  <2>2. <<Append(st, states[Top(st)].next[a]), i + 1>> \in G
    BY <1>5 DEF Goto
  <2>3. Moves(tokens, st, i, <<Append(st, states[Top(st)].next[a]), i + 1>>)
    BY <1>2, <2>1 DEF Moves
  <2> QED BY <1>2, <2>2, <2>3 DEF Reaching
<1> HIDE DEF a
<1>6. Fits(G, tokens, i, i + 1, a)
  BY <1>2, <1>4, <1>5 DEF Fits
<1> QED BY <1>6 DEF a

\* Reducing by a production gets over its target if parsing gets over its symbols.
LEMMA ProductionFits ==
  ASSUME TablesEnough, NEW tokens, Plainly(tokens), NEW G, Reaching(G, tokens),
         NEW k \in DOMAIN grammar.productions, NEW f \in [Nat -> Nat],
         NEW n, n = Len(SymbolsOf(k)), \A m \in 0 .. n : f[m] \in Places(tokens),
         \A m \in 1 .. n : Fits(G, tokens, f[m - 1], f[m], SymbolsOf(k)[m])
  PROVE  Fits(G, tokens, f[0], f[n], productions[k].target)
<1> DEFINE w == SymbolsOf(k)
           A == productions[k].target
<1>0. GInv /\ ItemSetsClosed /\ FirstsEnough /\ ReductionsEnough /\ phase = "ready" /\ AutomatonMade
      /\ GrammarMade /\ phase # "configure" /\ grammar \in Grammars
  BY TableFacts DEF TablesEnough, AutomatonMade
<1>1. /\ k \in DOMAIN productions /\ k # Len(productions) /\ A \in Symbols /\ w \in Seq(Symbols)
      /\ n \in Nat /\ DOMAIN w = 1 .. n
  <2>1. /\ k \in DOMAIN productions /\ productions[k] = grammar.productions[k] /\ w \in Seq(Symbols)
        /\ grammar.productions[k].target \in grammar.nonterminals
    BY <1>0, GrammarAssumption DEF GrammarMade
  <2>2. k # Len(productions)
    <3> DEFINE l == Len(grammar.productions)
    <3>1. Len(productions) = l + 1 /\ grammar.productions \in Seq(Range(grammar.productions))
      BY <1>0, GrammarAssumption DEF GrammarMade
    <3> DEFINE gp == grammar.productions
    <3>2. gp \in Seq(Range(gp)) /\ k \in DOMAIN gp
      BY <3>1
    <3> HIDE DEF gp
    <3>3. DOMAIN gp = 1 .. Len(gp) /\ Len(gp) \in Nat
      BY <3>2
    <3>4. k \in 1 .. Len(gp)
      BY <3>2, <3>3
    <3>5. l \in Nat /\ k \in 1 .. l
      BY <3>3, <3>4 DEF gp
    <3> HIDE DEF l
    <3> QED BY <3>1, <3>5
  <2>3. n \in Nat /\ DOMAIN w = 1 .. n
    BY <2>1
  <2>4. A \in Symbols
    BY <2>1 DEF Symbols
  <2> QED BY <2>1, <2>2, <2>3, <2>4
<1> HIDE DEF w, A
<1>2. \A m \in 1 .. n :
        /\ f[m - 1] <= f[m]
        /\ IF f[m - 1] = f[m] THEN w[m] \in nullable ELSE TokenAt(tokens, f[m - 1]) \in firsts[w[m]]
  BY DEF Fits, w
<1>3. ASSUME NEW m \in 0 .. n
      PROVE  /\ f[m] <= f[n]
             /\ IF f[m] = f[n] THEN \A d \in m + 1 .. n : w[d] \in nullable
                ELSE \E d \in m + 1 .. n : /\ TokenAt(tokens, f[m]) \in firsts[w[d]]
                                           /\ \A e \in m + 1 .. d - 1 : w[e] \in nullable
  <2>1. /\ n \in Nat /\ f \in [Nat -> Nat] /\ m \in 0 .. n
        /\ \A x \in 1 .. n :
             /\ f[x - 1] <= f[x]
             /\ IF f[x - 1] = f[x] THEN w[x] \in nullable ELSE TokenAt(tokens, f[x - 1]) \in firsts[w[x]]
    BY <1>1, <1>2
  <2> QED BY ONLY <2>1, BegunBackward
<1>4. 0 \in 0 .. n /\ n \in 0 .. n /\ f[n] \in Places(tokens) /\ f[0] <= f[n]
  <2>1. 0 \in 0 .. n /\ n \in 0 .. n
    BY <1>1
  <2> QED BY <1>1, <1>3, <2>1
<1>5. IF f[0] = f[n] THEN A \in nullable ELSE TokenAt(tokens, f[0]) \in firsts[A]
  <2>1. /\ Vanishes(w) => A \in nullable
        /\ \A j \in Visible(w) : firsts[w[j]] \subseteq firsts[A]
    BY <1>0, <1>1 DEF FirstsEnough, w, A
  <2>2. CASE f[0] = f[n]
    <3>1. \A d \in DOMAIN w : w[d] \in nullable
      BY <1>1, <1>3, <1>4, <2>2
    <3> QED BY <2>1, <2>2, <3>1 DEF Vanishes
  <2>3. CASE f[0] # f[n]
    <3>1. PICK d \in 0 + 1 .. n : /\ TokenAt(tokens, f[0]) \in firsts[w[d]]
                              /\ \A e \in 0 + 1 .. d - 1 : w[e] \in nullable
      BY <1>3, <1>4, <2>3
    <3>2. d \in Visible(w)
      BY <1>1, <3>1 DEF Visible
    <3> QED BY <2>1, <2>3, <3>1, <3>2
  <2> QED BY <2>2, <2>3
<1>6. ASSUME NEW m \in 1 .. n, NEW q
      PROVE  TokenAt(tokens, f[m]) \in Upcoming(<<q, k, m - 1, TokenAt(tokens, f[n])>>)
  <2> DEFINE x == <<q, k, m - 1, TokenAt(tokens, f[n])>>
             rest == SubSeq(w, m + 1, n)
  <2>1. x[2] = k /\ x[3] + 2 = m + 1 /\ x[4] = TokenAt(tokens, f[n])
    BY <1>1
  <2> HIDE DEF x
  <2>2. Upcoming(x) = (UNION {firsts[rest[j]] : j \in Visible(rest)})
                        \cup (IF Vanishes(rest) THEN {TokenAt(tokens, f[n])} ELSE {})
    <3>1. SubSeq(SymbolsOf(x[2]), x[3] + 2, Len(SymbolsOf(x[2]))) = rest
      BY <2>1 DEF w
    <3> HIDE DEF rest
    <3> QED BY <2>1, <3>1 DEF Upcoming
  <2>3. DOMAIN rest = 1 .. n - m /\ \A j \in 1 .. n - m : rest[j] = w[m + j] /\ m + j \in m + 1 .. n
    <3>1. n - (m + 1) + 1 = n - m /\ \A j \in 1 .. n - m : m + j \in m + 1 .. n /\ j + (m + 1) - 1 = m + j
      BY <1>1
    <3>2. rest = [j \in 1 .. n - (m + 1) + 1 |-> w[j + (m + 1) - 1]]
      BY <1>1
    <3> HIDE DEF rest
    <3>3. DOMAIN rest = 1 .. n - m
      BY <3>1, <3>2
    <3>4. \A j \in 1 .. n - m : rest[j] = w[m + j]
      BY <3>1, <3>2
    <3> QED BY <3>1, <3>3, <3>4
  <2> HIDE DEF rest
  <2>4. m \in 0 .. n
    BY <1>1
  <2>5. CASE f[m] = f[n]
    <3>1. Vanishes(rest)
      BY <1>3, <2>3, <2>4, <2>5 DEF Vanishes
    <3> QED BY <2>2, <2>5, <3>1 DEF x
  <2>6. CASE f[m] # f[n]
    <3>1. PICK d \in m + 1 .. n : /\ TokenAt(tokens, f[m]) \in firsts[w[d]]
                                  /\ \A e \in m + 1 .. d - 1 : w[e] \in nullable
      BY <1>3, <2>4, <2>6
    <3>2. /\ d - m \in 1 .. n - m /\ m + (d - m) = d
          /\ \A e \in 1 .. (d - m) - 1 : e \in 1 .. n - m /\ m + e \in m + 1 .. d - 1
      BY <1>1, <2>4
    <3>3. d - m \in Visible(rest) /\ rest[d - m] = w[d]
      BY <2>3, <3>1, <3>2 DEF Visible
    <3> QED BY <2>2, <3>1, <3>3 DEF x
  <2> QED BY <2>5, <2>6
<1>7. ASSUME NEW st \in Stacks, NEW o, NEW d, NEW t,
             Valid(Top(st), o, d, t), d # Len(SymbolsOf(o)), SymbolsOf(o)[d + 1] = A,
             TokenAt(tokens, f[n]) \in Upcoming(<<Top(st), o, d, t>>),
             <<Append(st, Goto(Top(st), A)), f[n]>> \in G
      PROVE  <<st, f[0]>> \in G
  <2> DEFINE a == TokenAt(tokens, f[n])
             at(m) == Grown(st, w, m)
             l == Len(st)
  <2>1. k \in ProductionsOf(A)
    BY <1>1 DEF ProductionsOf, A
  <2>2. Valid(Top(st), k, 0, a)
    BY <1>0, <1>7, <2>1, ValidPredicts
  <2>3. A \in DOMAIN states[Top(st)].next
    BY <1>0, <1>7, ValidMoves
  <2> HIDE DEF a
  <2>4. /\ l \in Nat \ {0} /\ at(0) = st
        /\ \A m \in 0 .. n : /\ at(m) \in Stacks /\ Len(at(m)) = l + m
                             /\ Valid(Top(at(m)), k, m, a)
        /\ \A m \in 1 .. n : /\ w[m] \in DOMAIN states[Top(at(m - 1))].next
                             /\ at(m) = Append(at(m - 1), Goto(Top(at(m - 1)), w[m]))
        /\ SubSeq(at(n), 1, l) = st /\ at(n)[l] = Top(st)
    <3>1. LET y == SymbolsOf(k)
              z == Len(y)
              on(m) == Grown(st, y, m)
          IN  /\ Len(st) \in Nat \ {0} /\ z \in Nat /\ on(0) = st
              /\ \A m \in 0 .. z : /\ on(m) \in Stacks /\ Len(on(m)) = Len(st) + m
                                   /\ Valid(Top(on(m)), k, m, a)
              /\ \A m \in 1 .. z : /\ y[m] \in DOMAIN states[Top(on(m - 1))].next
                                   /\ on(m) = Append(on(m - 1), Goto(Top(on(m - 1)), y[m]))
              /\ SubSeq(on(z), 1, Len(st)) = st /\ on(z)[Len(st)] = Top(st)
      BY <1>0, <2>2, GrownFacts
    <3> QED BY <3>1 DEF w
  <2> HIDE DEF at, l
  <2>5. <<at(n), f[n]>> \in G
    <3> DEFINE b == at(n)
    <3>1. b \in Stacks /\ Valid(Top(b), k, n, a) /\ Len(b) = l + n
      BY <1>4, <2>4
    <3>2. a \in DOMAIN states[Top(b)].reductions /\ k \in states[Top(b)].reductions[a]
      BY <1>0, <1>1, <3>1, ValidReduces
    <3>3. Len(b) - Len(SymbolsOf(k)) = l /\ l \in 1 .. Len(b)
      BY <1>1, <2>4, <3>1
    <3>4. SubSeq(b, 1, l) = st /\ b[l] = Top(st)
      BY <2>4
    <3> HIDE DEF b
    <3>5. /\ productions[k].target \in DOMAIN states[b[l]].next
          /\ <<Append(SubSeq(b, 1, l), Goto(b[l], productions[k].target)), f[n]>> \in G
      BY <1>7, <2>3, <3>4 DEF A
    <3> DEFINE c == <<Append(SubSeq(b, 1, l), Goto(b[l], productions[k].target)), f[n]>>
    <3>6. Moves(tokens, b, f[n], c)
      BY <3>2, <3>3, <3>5 DEF Moves, a
    <3>7. <<b, f[n]>> \in G
      BY <1>4, <3>1, <3>5, <3>6 DEF Reaching
    <3> QED BY <3>7 DEF b
  <2> DEFINE S == {x \in 0 .. n : <<at(n - x), f[n - x]>> \in G}
  <2>6. 0 \in S
    <3>1. n - 0 = n
      BY <1>1
    <3> QED BY <1>4, <2>5, <3>1
  <2>7. ASSUME NEW x \in 1 .. n, x - 1 \in S PROVE x \in S
    <3> DEFINE m == n - x + 1
    <3>1. m \in 1 .. n /\ n - (x - 1) = m /\ n - x = m - 1 /\ m \in 0 .. n /\ m - 1 \in 0 .. n
          /\ (m - 1) + 1 = m /\ m - 1 # n
      <4> HIDE DEF S
      <4>1. n \in Nat /\ x \in 1 .. n
        BY <1>1
      <4> QED BY ONLY <4>1
    <3>2. <<at(m), f[m]>> \in G
      BY <2>7, <3>1
    <3> HIDE DEF m
    <3> DEFINE u == at(m - 1)
    <3>3. u \in Stacks /\ Valid(Top(u), k, m - 1, a) /\ at(m) = Append(u, Goto(Top(u), w[m]))
      BY <2>4, <3>1
    <3>4. TokenAt(tokens, f[m]) \in Upcoming(<<Top(u), k, m - 1, a>>)
      BY <1>6, <3>1 DEF a
    <3>5. m - 1 # Len(SymbolsOf(k)) /\ SymbolsOf(k)[(m - 1) + 1] = w[m]
      BY <3>1 DEF w
    <3>6. Fits(G, tokens, f[m - 1], f[m], w[m])
      BY <3>1 DEF w
    <3> HIDE DEF u
    <3>7. <<u, f[m - 1]>> \in G
      BY <3>2, <3>3, <3>4, <3>5, <3>6 DEF Fits
    <3>8. at(n - x) = u /\ f[n - x] = f[m - 1]
      BY <3>1 DEF u
    <3>9. x \in 0 .. n
      BY <1>1
    <3> HIDE DEF at
    <3> QED BY <3>7, <3>8, <3>9
  <2>8. n \in S
    <3> HIDE DEF S
    <3>1. 0 .. n \subseteq S
      BY <1>1, <2>6, <2>7, UpTo
    <3> QED BY <1>4, <3>1
  <2>9. n - n = 0
    BY <1>1
  <2> QED BY <2>4, <2>8, <2>9
<1>8. Fits(G, tokens, f[0], f[n], A)
  BY <1>4, <1>5, <1>7 DEF Fits
<1> QED BY <1>8 DEF A

\* So what parsing gets over has the tokens, and what the productions make of it.
LEMMA FittingClosed ==
  ASSUME TablesEnough, NEW tokens, Plainly(tokens), NEW G, Reaching(G, tokens)
  PROVE  Closed(Fitting(G, tokens), tokens)
<1> DEFINE D == Fitting(G, tokens)
<1>0. GrammarMade /\ grammar \in Grammars
  BY TableFacts DEF TablesEnough
<1>1. /\ DOMAIN tokens = 1 .. Len(tokens) /\ Len(tokens) \in Nat
      /\ \A i \in DOMAIN tokens : tokens[i] \in Seq(terminals \cup {BAD}) /\ Len(tokens[i]) = 1
  BY DEF Plainly
<1>2. ASSUME NEW i \in DOMAIN tokens, NEW g \in DOMAIN tokens[i]
      PROVE  <<i, i + 1, tokens[i][g]>> \in D
  <2>1. g = 1 /\ tokens[i][1] \in terminals \cup {BAD}
    <3> DEFINE u == tokens[i]
               T == terminals \cup {BAD}
    <3>1. u \in Seq(T) /\ Len(u) = 1 /\ g \in DOMAIN u
      BY <1>1
    <3> HIDE DEF u, T
    <3>2. g = 1 /\ u[1] \in T
      BY <3>1
    <3> QED BY <3>2 DEF u, T
  <2>2. i \in Nat /\ i + 1 \in Nat
    BY <1>1
  <2> DEFINE a == tokens[i][1]
  <2>3. a \in Symbols => Fits(G, tokens, i, i + 1, a)
    BY TokenFits
  <2>4. a \in Symbols \cup {BAD}
    BY <2>1 DEF Symbols
  <2> HIDE DEF a
  <2>5. <<i, i + 1, a>> \in D
    BY <2>2, <2>3, <2>4 DEF Fitting
  <2> QED BY <2>1, <2>5 DEF a
<1>3. ASSUME NEW k \in DOMAIN grammar.productions, NEW f \in [Nat -> Nat],
             \A d \in DOMAIN grammar.productions[k].symbols :
               <<f[d - 1], f[d], grammar.productions[k].symbols[d]>> \in D
      PROVE  <<f[0], f[Len(grammar.productions[k].symbols)], grammar.productions[k].target>> \in D
  <2> DEFINE w == SymbolsOf(k)
             n == Len(w)
             A == productions[k].target
  <2>1. /\ productions[k] = grammar.productions[k] /\ w \in Seq(Symbols)
        /\ grammar.productions[k].target \in grammar.nonterminals
        /\ w = grammar.productions[k].symbols
    BY <1>0, GrammarAssumption DEF GrammarMade, SymbolsOf
  <2>2. n \in Nat /\ DOMAIN w = 1 .. n /\ A \in Symbols /\ \A m \in 1 .. n : w[m] \in Symbols
    <3>1. A \in Symbols
      BY <2>1 DEF Symbols
    <3> HIDE DEF w
    <3>2. w \in Seq(Symbols)
      BY <2>1
    <3> QED BY <3>1, <3>2
  <2>3. \A m \in 1 .. n : <<f[m - 1], f[m], w[m]>> \in D
    BY <1>3, <2>1, <2>2
  <2>4. 0 \in 0 .. n /\ n \in 0 .. n /\ f[0] \in Nat /\ f[n] \in Nat
    BY <2>2
  <2>5. n = Len(SymbolsOf(k))
    OBVIOUS
  <2> HIDE DEF w, n, A
  <2>6. \A m \in 1 .. n : f[m - 1] \in Places(tokens) => Fits(G, tokens, f[m - 1], f[m], w[m])
    BY <2>2, <2>3 DEF Fitting
  <2>7. f[0] \in Places(tokens) => Fits(G, tokens, f[0], f[n], A)
    <3> SUFFICES ASSUME f[0] \in Places(tokens) PROVE Fits(G, tokens, f[0], f[n], A)
      OBVIOUS
    <3> DEFINE S == {m \in 0 .. n : f[m] \in Places(tokens)}
    <3>1. 0 \in S
      BY <2>4
    <3>2. \A m \in 1 .. n : m - 1 \in S => m \in S
      <4> SUFFICES ASSUME NEW m \in 1 .. n, m - 1 \in S PROVE m \in S
        OBVIOUS
      <4>1. f[m] \in Places(tokens)
        BY <2>6 DEF Fits
      <4>2. m \in 0 .. n
        BY <2>2
      <4> QED BY <4>1, <4>2
    <3>3. 0 .. n \subseteq S
      <4> HIDE DEF S
      <4> QED BY <2>2, <3>1, <3>2, UpTo
    <3>4. \A m \in 0 .. n : f[m] \in Places(tokens)
      BY <3>3
    <3>5. \A m \in 1 .. n : m - 1 \in 0 .. n
      BY <2>2
    <3>6. \A m \in 1 .. n : Fits(G, tokens, f[m - 1], f[m], SymbolsOf(k)[m])
      BY <2>6, <3>4, <3>5 DEF w
    <3> QED BY <2>5, <3>4, <3>6, ProductionFits DEF A
  <2>8. <<f[0], f[n], A>> \in D
    BY <2>2, <2>4, <2>7 DEF Fitting
  <2> QED BY <2>1, <2>8 DEF n, A
<1> HIDE DEF D
<1>4. Closed(D, tokens)
  BY <1>2, <1>3 DEF Closed
<1> QED BY <1>4 DEF D

\* The tables lead from the first state over all of what the grammar derives.
LEMMA SentenceReaches ==
  ASSUME TablesEnough, NEW tokens, Plainly(tokens), NEW G, Reaching(G, tokens), Sentence(tokens)
  PROVE  <<<<1>>, 1>> \in G
<1> DEFINE e == Len(tokens) + 1
           r == Len(productions)
           S == grammar.start
           st == <<1>>
<1>0. /\ GInv /\ ItemSetsClosed /\ phase = "ready" /\ AutomatonMade
      /\ GrammarMade /\ grammar \in Grammars
  BY TableFacts DEF TablesEnough, AutomatonMade
<1>1. <<1, e, S>> \in Fitting(G, tokens)
  BY FittingClosed DEF Sentence
<1>2. /\ 1 \in Places(tokens) /\ e \in Places(tokens)
      /\ TokenAt(tokens, e) = END
  <2>1. Len(tokens) \in Nat
    BY DEF Plainly
  <2> QED BY <2>1 DEF Places, TokenAt
<1>3. SymbolsOf(r) = <<S>> /\ S \in Symbols
  BY <1>0, GrammarAssumption DEF GrammarMade, SymbolsOf, Symbols
<1>4. Fits(G, tokens, 1, e, S)
  BY <1>1, <1>2, <1>3 DEF Fitting
<1>5. 1 \in DOMAIN states /\ st \in Stacks /\ Top(st) = 1 /\ Append(st, Goto(1, S)) = <<1, Goto(1, S)>>
  <2>1. 1 \in DOMAIN states
    BY <1>0, FirstState
  <2>2. st \in Seq(DOMAIN states) /\ Len(st) = 1 /\ st[1] = 1 /\ st # <<>>
    BY <2>1
  <2>3. ASSUME NEW u PROVE Append(st, u) = <<1, u>>
    <3>1. <<1>> \in Seq({1, u}) /\ u \in {1, u} /\ <<1, u>> \in Seq({1, u})
      OBVIOUS
    <3>2. Len(Append(<<1>>, u)) = 2 /\ Append(<<1>>, u)[1] = 1 /\ Append(<<1>>, u)[2] = u
          /\ Append(<<1>>, u) \in Seq({1, u})
      BY <3>1
    <3> DEFINE a == Append(<<1>>, u)
               b == <<1, u>>
    <3>3. a \in Seq({1, u}) /\ b \in Seq({1, u}) /\ Len(a) = 2 /\ Len(b) = 2
      BY <3>1, <3>2
    <3>4. a[1] = b[1] /\ a[2] = b[2]
      BY <3>2
    <3> HIDE DEF a, b
    <3>5. \A x \in 1 .. 2 : a[x] = b[x]
      BY <3>4
    <3>6. a = b
      BY <3>3, <3>5
    <3> QED BY <3>6 DEF a, b
  <2> HIDE DEF st
  <2> QED BY <2>1, <2>2, <2>3 DEF Stacks, Top
<1>6. Valid(1, r, 0, END)
  BY <1>0, ValidRoot
<1>7. Len(SymbolsOf(r)) = 1 /\ 0 # Len(SymbolsOf(r)) /\ SymbolsOf(r)[0 + 1] = S
  BY <1>3
<1>8. S \in DOMAIN states[1].next /\ Valid(Goto(1, S), r, 1, END)
  <2> HIDE DEF S, r
  <2>1. /\ SymbolsOf(r)[0 + 1] \in DOMAIN states[1].next
        /\ Valid(Goto(1, SymbolsOf(r)[0 + 1]), r, 0 + 1, END)
    BY <1>0, <1>6, <1>7, ValidMoves
  <2> QED BY <1>7, <2>1
<1>9. states[Goto(1, S)].accept /\ Goto(1, S) \in DOMAIN states
  BY <1>0, <1>8, ValidAccepts DEF Valid
<1>10. <<<<1, Goto(1, S)>>, e>> \in G
  <2> DEFINE u == <<1, Goto(1, S)>>
  <2>1. u \in Stacks /\ Top(u) = Goto(1, S)
    BY <1>5, <1>9 DEF Stacks, Top
  <2> HIDE DEF u
  <2>2. <<u, e>> \in G
    BY <1>2, <1>9, <2>1 DEF Reaching
  <2> QED BY <2>2 DEF u
<1>11. END \in Upcoming(<<1, r, 0, END>>)
  <2> DEFINE x == <<1, r, 0, END>>
             rest == SubSeq(SymbolsOf(r), 0 + 2, Len(SymbolsOf(r)))
  <2>1. x[2] = r /\ x[3] = 0 /\ x[4] = END
    OBVIOUS
  <2>2. rest = <<>>
    BY <1>3, <1>7
  <2>3. Vanishes(rest)
    BY <2>2 DEF Vanishes
  <2> HIDE DEF x, r
  <2>4. SubSeq(SymbolsOf(x[2]), x[3] + 2, Len(SymbolsOf(x[2]))) = rest
    BY <2>1
  <2> HIDE DEF rest
  <2>5. END \in Upcoming(x)
    BY <2>1, <2>3, <2>4 DEF Upcoming
  <2> QED BY <2>5 DEF x
<1> HIDE DEF S, r, e, st
<1>12. <<st, 1>> \in G
  <2>1. TokenAt(tokens, e) \in Upcoming(<<Top(st), r, 0, END>>)
    BY <1>2, <1>5, <1>11
  <2>2. <<Append(st, Goto(Top(st), S)), e>> \in G
    BY <1>5, <1>10
  <2>3. Valid(Top(st), r, 0, END)
    BY <1>5, <1>6
  <2> QED BY <1>4, <1>5, <1>7, <2>1, <2>2, <2>3 DEF Fits
<1> QED BY <1>12 DEF st

\* Nothing left to choose: generate() found no conflict and took no decision by
\* precedence, and the text has no choice of tags.  It is in the language.
Choiceless ==
  NoRewrites /\ conflicts = {} /\ Unconfigured /\ OneTag /\ Sentence(input)

\* Before the token at p, which may be in the buffer already.
AtPlace(p) ==
  IF Len(symbol_buffer) = 0 THEN pos = p ELSE Lies(symbol_buffer[Len(symbol_buffer)], p, pos)

\* The stack once a nonterminal in the buffer is on it.
StackSeen ==
  IF Len(symbol_buffer) = 2
    THEN Append(parse_stack_states,
                Goto(Top(parse_stack_states), productions[symbol_buffer[1].prod].target))
    ELSE parse_stack_states

\* The tables lead from where the parse is to where it accepts.
WillAccept ==
  \E p \in Places(input) :
    AtPlace(p) /\ \A G : Reaching(G, input) => <<StackSeen, p>> \in G

\* The inductive invariant of the parses that may not fail.
LInv ==
  Choiceless => /\ status = "running" => WillAccept
                /\ status \notin {"null", "undefined"}

\* Where there is a way to go, it is the action of the table.
LEMMA MovesByAction ==
  ASSUME GInv, phase = "ready", Decided, conflicts = {}, Unconfigured,
         NEW tokens, NEW st \in Stacks, NEW p, NEW c, Moves(tokens, st, p, c)
  PROVE  LET acts == states[Top(st)].actions
             a == TokenAt(tokens, p)
             left == Len(st) - Len(SymbolsOf(acts[a].reduce))
         IN  /\ a \in DOMAIN acts
             /\ IF acts[a].shift # 0 THEN c = <<Append(st, acts[a].shift), p + 1>>
                ELSE c = <<Append(SubSeq(st, 1, left),
                                  Goto(st[left], productions[acts[a].reduce].target)), p>>
<1> DEFINE q == Top(st)
           a == TokenAt(tokens, p)
<1>1. q \in DOMAIN states
  BY DEF Stacks, Top
<1>2. CASE a \in DOMAIN states[q].next /\ c = <<Append(st, states[q].next[a]), p + 1>>
  <2>1. a \in DOMAIN states[q].actions /\ states[q].actions[a] = Shift(Goto(q, a))
    BY <1>1, <1>2 DEF Decided
  <2>2. Goto(q, a) \in DOMAIN states /\ 0 \notin DOMAIN states
    BY <1>1, <1>2, TableFacts DEF GInv, StatesMade
  <2>3. states[q].actions[a].shift = Goto(q, a)
    BY <2>1 DEF Shift
  <2> HIDE DEF a, q
  <2>4. states[q].actions[a].shift # 0
    BY <2>2, <2>3
  <2> QED BY <1>2, <2>1, <2>3, <2>4 DEF Goto, a, q
<1>3. ASSUME a \in DOMAIN states[q].reductions, NEW k \in states[q].reductions[a],
             c = <<Append(SubSeq(st, 1, Len(st) - Len(SymbolsOf(k))),
                          Goto(st[Len(st) - Len(SymbolsOf(k))], productions[k].target)), p>>
      PROVE  /\ a \in DOMAIN states[q].actions /\ states[q].actions[a].shift = 0
             /\ states[q].actions[a].reduce = k
  <2>1. a \in DOMAIN states[q].actions /\ states[q].actions[a] = Reduce(k)
    BY <1>1, <1>3 DEF Decided
  <2> QED BY <2>1 DEF Reduce
<1>4. CASE ~ (a \in DOMAIN states[q].next /\ c = <<Append(st, states[q].next[a]), p + 1>>)
  <2>1. a \in DOMAIN states[q].reductions /\ \E k \in states[q].reductions[a] :
          c = <<Append(SubSeq(st, 1, Len(st) - Len(SymbolsOf(k))),
                       Goto(st[Len(st) - Len(SymbolsOf(k))], productions[k].target)), p>>
    BY <1>4 DEF Moves
  <2> HIDE DEF a, q
  <2> QED BY <1>3, <2>1 DEF a, q
<1> QED BY <1>2, <1>4

\* What has no way into G, and does not accept, G can do without.
LEMMA ReachingLess ==
  ASSUME NEW tokens, NEW G, Reaching(G, tokens), NEW st, NEW p,
         ~ (states[Top(st)].accept /\ TokenAt(tokens, p) = END),
         \A c \in G : ~ Moves(tokens, st, p, c)
  PROVE  Reaching(G \ {<<st, p>>}, tokens)
BY DEF Reaching

LEMMA AllReaching ==
  ASSUME NEW tokens
  PROVE  Reaching(Stacks \X Places(tokens), tokens)
BY DEF Reaching

\* A turn about a token, in a parse that may not fail.
LEMMA TokenTurn ==
  ASSUME GInv, RInv, SInv, LInv, Choiceless, status = "running",
         Run!BufferLeft = <<>> \/ Run!Symbol.prod = 0
  PROVE  \E p \in Places(input) :
           LET a == TokenAt(input, p) IN
           /\ Run!Symbol.prod = 0 /\ Run!BufferLeft = <<>>
           /\ DOMAIN Run!TagsOf(Run!Symbol) = {1} /\ Run!TagsOf(Run!Symbol)[1] = a
           /\ Run!Symbol.tags = Run!TagsOf(Run!Symbol)
           /\ Lies(Run!Symbol, p, Run!PosAfter)
           /\ \A G : Reaching(G, input) => <<parse_stack_states, p>> \in G
<1> DEFINE b == symbol_buffer
           s == Run!Symbol
<1>1. /\ b \in Seq(Range(b)) /\ Len(b) \in Nat /\ Len(b) <= 2
      /\ Len(b) = 1 => b[1].prod = 0
      /\ Len(b) = 2 => b[1].prod # 0 /\ b[2].prod = 0
  <2>1. b \in Seq(Range(b))
    BY DEF RInv, StacksMade
  <2> QED BY <2>1 DEF RInv, BufferShort, Choiceless
<1>2. PICK p \in Places(input) :
        AtPlace(p) /\ \A G : Reaching(G, input) => <<StackSeen, p>> \in G
  BY DEF LInv, WillAccept
<1>3. /\ DOMAIN input = 1 .. Len(input) /\ Len(input) \in Nat
      /\ \A i \in DOMAIN input : DOMAIN input[i] = {1}
  <2>1. input \in Seq(Seq(terminals \cup {BAD}))
    BY DEF RInv, StacksMade
  <2>2. ASSUME NEW i \in DOMAIN input PROVE DOMAIN input[i] = {1}
    <3> DEFINE u == input[i]
               T == terminals \cup {BAD}
    <3>1. u \in Seq(T) /\ Len(u) = 1
      BY <2>1 DEF Choiceless, OneTag
    <3> HIDE DEF u, T
    <3>2. DOMAIN u = {1}
      BY <3>1
    <3> QED BY <3>2 DEF u
  <2> QED BY <2>1, <2>2
<1>4. /\ s.prod = 0 /\ Run!BufferLeft = <<>> /\ Len(b) # 2
      /\ Lies(s, p, Run!PosAfter)
  <2>1. CASE Len(b) = 0
    <3>1. b = <<>>
      BY <1>1, <2>1, EmptySeq
    <3>2. pos = p
      BY <1>2, <2>1 DEF AtPlace
    <3>3. Run!BufferLeft = <<>>
      BY <3>1 DEF Run!BufferLeft
    <3>4. s.prod = 0 /\ s.tags = IF pos <= Len(input) THEN input[pos] ELSE <<END>>
      BY <3>1 DEF Run!Symbol, Run!Terminal
    <3>5. Run!PosAfter = IF pos <= Len(input) THEN pos + 1 ELSE pos
      BY <3>1 DEF Run!PosAfter
    <3>6. Lies(s, p, Run!PosAfter)
      BY <3>2, <3>4, <3>5 DEF Lies
    <3> QED BY <2>1, <3>3, <3>4, <3>6
  <2>2. CASE Len(b) # 0
    <3> DEFINE t == Tail(b)
    <3>1. /\ b # <<>> /\ Head(b) = b[1] /\ Len(t) = Len(b) - 1 /\ t \in Seq(Range(b))
      BY <1>1, <2>2
    <3>2. s = b[1] /\ Run!BufferLeft = t /\ Run!PosAfter = pos
      BY <3>1 DEF Run!Symbol, Run!BufferLeft, Run!PosAfter
    <3> HIDE DEF t
    <3>3. Len(b) # 2
      <4> SUFFICES ASSUME Len(b) = 2 PROVE FALSE
        OBVIOUS
      <4>1. b[1].prod # 0 /\ Len(t) = 1
        BY <1>1, <3>1
      <4>2. t = <<>>
        BY <3>2, <4>1
      <4>3. Len(<<>>) = 0
        OBVIOUS
      <4> QED BY <4>1, <4>2, <4>3
    <3>4. Len(b) = 1
      <4> DEFINE l == Len(b)
      <4>1. l \in Nat /\ l <= 2 /\ l # 0 /\ l # 2
        BY <1>1, <2>2, <3>3
      <4> HIDE DEF l
      <4>2. l = 1
        BY <4>1
      <4> QED BY <4>2 DEF l
    <3>5. t = <<>>
      <4>1. Len(t) = 0
        BY <3>1, <3>4
      <4> QED BY <3>1, <4>1, EmptySeq
    <3>6. Lies(b[1], p, pos) /\ b[1].prod = 0
      BY <1>1, <1>2, <3>4, <2>2 DEF AtPlace
    <3> QED BY <3>2, <3>3, <3>5, <3>6
  <2> QED BY <2>1, <2>2
<1>5. StackSeen = parse_stack_states
  BY <1>4 DEF StackSeen
<1> HIDE DEF s, b
<1>6. Run!TagsOf(s) = s.tags
  BY <1>4 DEF Run!TagsOf
<1>7. DOMAIN s.tags = {1} /\ s.tags[1] = TokenAt(input, p)
  <2>1. CASE p <= Len(input)
    <3>1. p \in DOMAIN input
      BY <1>3, <2>1 DEF Places
    <3> QED BY <1>3, <1>4, <2>1, <3>1 DEF Lies, TokenAt
  <2>2. CASE ~ (p <= Len(input))
    <3>1. s.tags = <<END>> /\ TokenAt(input, p) = END
      BY <1>4, <2>2 DEF Lies, TokenAt
    <3> QED BY <3>1
  <2> QED BY <2>1, <2>2
<1> QED BY <1>2, <1>4, <1>5, <1>6, <1>7 DEF s

\* What a parse does changes neither its text nor the tables.
LEMMA SameChoices ==
  ASSUME UNCHANGED <<genVars, precVars>>, UNCHANGED input
  PROVE  /\ Choiceless' <=> Choiceless
         /\ \A G : Reaching(G, input)' <=> Reaching(G, input)
         /\ Places(input)' = Places(input)
         /\ \A t, p, next : Lies(t, p, next)' <=> Lies(t, p, next)
         /\ \A q, s : Goto(q, s)' = Goto(q, s)
<1>1. /\ states' = states /\ productions' = productions /\ conflicts' = conflicts
      /\ precedence' = precedence /\ production_precedence' = production_precedence
  BY DEF genVars, precVars
<1>2. \A q, s : Goto(q, s)' = Goto(q, s)
  BY <1>1 DEF Goto
<1>3. \A p : TokenAt(input, p)' = TokenAt(input, p)
  BY DEF TokenAt
<1>4. \A st, p, c : Moves(input, st, p, c)' <=> Moves(input, st, p, c)
  BY <1>1, <1>2, <1>3 DEF Moves, SymbolsOf, Top
<1>5. Places(input)' = Places(input) /\ Stacks' = Stacks
  BY <1>1 DEF Places, Stacks
<1>6. \A G : Reaching(G, input)' <=> Reaching(G, input)
  BY <1>1, <1>3, <1>4, <1>5 DEF Reaching, Top
<1>7. Choiceless' <=> Choiceless
  <2>1. OneTag' <=> OneTag
    BY DEF OneTag
  <2>2. (Sentence(input)' <=> Sentence(input)) /\ (NoRewrites' <=> NoRewrites)
    BY SameText, SameTables
  <2>3. Unconfigured' <=> Unconfigured
    BY <1>1 DEF Unconfigured
  <2> QED BY <1>1, <2>1, <2>2, <2>3 DEF Choiceless
<1> QED BY <1>2, <1>5, <1>6, <1>7, SameText

\* The state on top, and the stack as one that the tables lead from.
LEMMA StackOfRun ==
  ASSUME GInv, RInv, status = "running"
  PROVE  /\ parse_stack_states \in Stacks
         /\ Run!curr = states[Top(parse_stack_states)] /\ Top(parse_stack_states) \in DOMAIN states
         /\ phase = "ready" /\ AutomatonMade
<1>1. /\ Len(parse_stack_states) = Len(parse_stack_matches) + 1 /\ Len(parse_stack_matches) \in Nat
      /\ phase = "ready" /\ AutomatonMade
  BY StackFacts
<1>2. parse_stack_states \in Seq(DOMAIN states)
  BY DEF RInv, StacksMade
<1>3. parse_stack_states # <<>>
  <2>1. Len(parse_stack_states) # 0 /\ Len(<<>>) = 0
    BY <1>1
  <2> QED BY <2>1
<1> QED BY <1>1, <1>2, <1>3, TopFacts DEF Stacks, Top

\* The tables lead from the beginning of a text in the language to its end.
LEMMA ParseWill ==
  ASSUME GInv, RInv, SInv, ItemSetsClosed, FirstsEnough, ReductionsEnough,
         NEW tokens \in grammar.inputs, Parse(tokens)
  PROVE  LInv'
<1>0. /\ phase = "ready" /\ UNCHANGED genVars /\ status # "running" /\ UNCHANGED precVars
      /\ input' = tokens /\ pos' = 1 /\ parse_stack_states' = <<1>>
      /\ status' = "running" /\ symbol_buffer' = symbol_buffer
  BY DEF Parse, Run!Parse, Run!Idle
<1> SUFFICES ASSUME Choiceless' PROVE WillAccept'
  BY <1>0 DEF LInv
<1>1. NoRewrites /\ (\A i \in DOMAIN tokens : Len(tokens[i]) = 1)
  BY <1>0, SameTables DEF Choiceless, OneTag
<1>2. Sentence(tokens)
  <2>1. \A D : Closed(D, tokens)' <=> Closed(D, tokens)
    BY <1>0 DEF Closed, genVars
  <2>2. Sentence(input)'
    BY DEF Choiceless
  <2>3. grammar' = grammar
    BY <1>0, SameTables
  <2>4. \A D : Closed(D, input)' <=> Closed(D, tokens)
    BY <1>0, <2>3 DEF Closed
  <2> QED BY <1>0, <2>2, <2>3, <2>4 DEF Sentence
<1>3. Plainly(tokens)
  <2>1. RInv' /\ SInv'
    BY ParseStep, ParseReads
  <2>2. input' \in Seq(Seq(terminals \cup {BAD}))
    BY <1>0, <2>1, SameTables DEF RInv, StacksMade
  <2>3. \A i \in DOMAIN input' : \A g \in DOMAIN input'[i] : input'[i][g] # END
    BY <1>0, <1>1, <2>1, SameTables DEF SInv, TextRead
  <2>4. \A i \in DOMAIN tokens : 1 \in DOMAIN tokens[i]
    <3> SUFFICES ASSUME NEW i \in DOMAIN tokens PROVE 1 \in DOMAIN tokens[i]
      OBVIOUS
    <3> DEFINE u == tokens[i]
               T == terminals \cup {BAD}
    <3>1. u \in Seq(T) /\ Len(u) = 1
      BY <1>0, <1>1, <2>2
    <3> HIDE DEF u, T
    <3>2. 1 \in DOMAIN u
      BY <3>1
    <3> QED BY <3>2 DEF u
  <2> QED BY <1>0, <1>1, <2>2, <2>3, <2>4 DEF Plainly
<1>4. symbol_buffer' = <<>> /\ Len(<<>>) = 0
  BY <1>0, <1>1 DEF SInv, BufferUsed
<1>5. TablesEnough
  BY <1>0 DEF TablesEnough
<1>6. \A G : Reaching(G, tokens) => <<<<1>>, 1>> \in G
  BY <1>2, <1>3, <1>5, SentenceReaches
<1>7. StackSeen' = <<1>> /\ AtPlace(1)' /\ 1 \in Places(input)'
  <2>1. Len(tokens) \in Nat
    BY <1>3 DEF Plainly
  <2> QED BY <1>0, <1>4, <2>1 DEF StackSeen, AtPlace, Places
<1>8. \A G : Reaching(G, input)' <=> Reaching(G, tokens)
  <2>1. states' = states /\ productions' = productions
    BY <1>0 DEF genVars
  <2> QED BY <1>0, <2>1 DEF Reaching, Places, Stacks, Top, TokenAt, Moves, SymbolsOf, Goto
<1> QED BY <1>6, <1>7, <1>8 DEF WillAccept

\* A parse of a text in the language does not fail.
LEMMA NeverGivesUp ==
  ASSUME GInv, RInv, SInv, Decided, LInv, Choiceless, Run!BadToken \/ Run!Reject
  PROVE  FALSE
<1> DEFINE ps == parse_stack_states
           s == Run!Symbol
<1>0. status = "running" /\ (Run!IsBad \/ Run!Usable = {})
  BY DEF Run!BadToken, Run!Reject
<1>1. NoRewrites /\ conflicts = {} /\ Unconfigured
  BY DEF Choiceless
<1>2. Run!BufferLeft = <<>>
  BY <1>1, NonterminalUsable
<1>3. PICK p \in Places(input) :
        /\ s.prod = 0 /\ DOMAIN Run!TagsOf(s) = {1} /\ Run!TagsOf(s)[1] = TokenAt(input, p)
        /\ s.tags = Run!TagsOf(s)
        /\ \A G : Reaching(G, input) => <<ps, p>> \in G
  BY <1>0, <1>2, TokenTurn
<1> DEFINE a == TokenAt(input, p)
           q == Top(ps)
<1>4. ps \in Stacks /\ Run!curr = states[q] /\ q \in DOMAIN states /\ phase = "ready"
  BY <1>0, StackOfRun
<1>5. ~ (states[q].accept /\ a = END) /\ a \notin DOMAIN states[q].actions
  <2>1. CASE Run!Usable = {}
    BY <1>3, <1>4, <2>1 DEF Run!Usable
  <2>2. CASE Run!IsBad
    <3>1. a = BAD
      BY <1>3, <2>2 DEF Run!IsBad
    <3>2. GrammarMade /\ grammar \in Grammars
      BY <1>4, TableFacts
    <3>3. BAD # END /\ BAD \notin Symbols /\ BAD \notin terminals
      BY <3>2, TextAssumption DEF GrammarMade, Symbols
    <3>4. BAD \notin DOMAIN states[q].actions
      <4> SUFFICES ASSUME BAD \in DOMAIN states[q].actions PROVE FALSE
        OBVIOUS
      <4> HIDE DEF q
      <4>1. BAD \in DOMAIN states[q].next \/ BAD \in DOMAIN states[q].reductions
        BY <1>4 DEF GInv, ActionsMade
      <4>2. DOMAIN states[q].next \subseteq Symbols
        BY <1>4, TableFacts DEF GInv, StatesMade
      <4>3. DOMAIN states[q].reductions \subseteq terminals
        BY <1>4 DEF GInv, ReductionsMade
      <4> QED BY <3>3, <4>1, <4>2, <4>3
    <3> QED BY <3>1, <3>3, <3>4
  <2> QED BY <1>0, <2>1, <2>2
<1> DEFINE G == Stacks \X Places(input)
<1>6. Reaching(G, input)
  BY AllReaching
<1>7. \A c \in G : ~ Moves(input, ps, p, c)
  BY <1>1, <1>4, <1>5, MovesByAction
<1> HIDE DEF G, ps
<1>8. Reaching(G \ {<<ps, p>>}, input)
  BY <1>5, <1>6, <1>7, ReachingLess
<1>9. <<ps, p>> \in G \ {<<ps, p>>}
  BY <1>3, <1>8
<1> QED BY <1>9

\* A shift goes where the tables lead.
LEMMA ShiftWill ==
  ASSUME GInv, RInv, SInv, Decided, LInv, UNCHANGED <<genVars, precVars>>, Run!Shift
  PROVE  LInv'
<1> DEFINE ps == parse_stack_states
           b == symbol_buffer
           s == Run!Symbol
           t == Run!tag
           u == Run!curr.actions[t].shift
           q == Top(ps)
<1>0. /\ Run!Proceed /\ ~(Run!curr.accept /\ t = END) /\ u # 0
      /\ pos' = Run!PosAfter /\ b' = Run!BufferLeft /\ ps' = Append(ps, u)
      /\ UNCHANGED <<input, status>> /\ status = "running"
  BY DEF Run!Shift, Run!Proceed
<1> SUFFICES ASSUME Choiceless PROVE WillAccept'
  BY <1>0, SameChoices DEF LInv
<1>1. NoRewrites /\ conflicts = {} /\ Unconfigured
  BY DEF Choiceless
<1>2. ps \in Stacks /\ Run!curr = states[q] /\ q \in DOMAIN states /\ phase = "ready" /\ AutomatonMade
  BY <1>0, StackOfRun
<1>3. IsMatch(s) /\ (Run!BufferLeft = <<>> \/ (s.prod # 0 /\ Len(Run!BufferLeft) = 1))
  BY <1>1, <1>2, SymbolFacts
<1>4. t \in DOMAIN Run!curr.actions /\ \E g \in DOMAIN Run!TagsOf(s) : Run!TagsOf(s)[g] = t
  BY <1>0, <1>3, TagFacts
<1>5. t \in DOMAIN states[q].next /\ u = Goto(q, t)
  BY <1>0, <1>2, <1>4 DEF GInv, ActionsMade
<1>6. t # END
  <2> HIDE DEF q, t
  <2> QED BY <1>2, <1>5, EndNotFollowed
<1>7. CASE Run!BufferLeft = <<>>
  <2>1. PICK p \in Places(input) :
          /\ DOMAIN Run!TagsOf(s) = {1} /\ Run!TagsOf(s)[1] = TokenAt(input, p)
          /\ Lies(s, p, Run!PosAfter)
          /\ \A G : Reaching(G, input) => <<ps, p>> \in G
    BY <1>0, <1>7, TokenTurn
  <2>2. t = TokenAt(input, p)
    BY <1>4, <2>1
  <2>3. Len(input) \in Nat
    BY DEF RInv, StacksMade
  <2>4. p <= Len(input) /\ p + 1 \in Places(input) /\ Run!PosAfter = p + 1
    <3>1. p <= Len(input)
      BY <1>6, <2>2 DEF TokenAt
    <3> QED BY <2>1, <2>3, <3>1 DEF Places, Lies
  <2>5. Len(b') = 0 /\ pos' = p + 1
    BY <1>0, <1>7, <2>4
  <2>6. StackSeen' = Append(ps, u) /\ AtPlace(p + 1)'
    BY <1>0, <2>5 DEF StackSeen, AtPlace
  <2> HIDE DEF s, t, u, ps, b
  <2>7. ASSUME NEW G, Reaching(G, input)
        PROVE  <<Append(ps, u), p + 1>> \in G
    <3> SUFFICES ASSUME <<Append(ps, u), p + 1>> \notin G PROVE FALSE
      OBVIOUS
    <3>1. \A c \in G : ~ Moves(input, ps, p, c)
      <4> SUFFICES ASSUME NEW c \in G, Moves(input, ps, p, c) PROVE FALSE
        OBVIOUS
      <4>1. /\ t \in DOMAIN states[q].actions
            /\ states[q].actions[t].shift # 0 => c = <<Append(ps, states[q].actions[t].shift), p + 1>>
        <5>1. LET acts == states[Top(ps)].actions
                  a == TokenAt(input, p)
                  left == Len(ps) - Len(SymbolsOf(acts[a].reduce))
              IN  /\ a \in DOMAIN acts
                  /\ IF acts[a].shift # 0 THEN c = <<Append(ps, acts[a].shift), p + 1>>
                     ELSE c = <<Append(SubSeq(ps, 1, left),
                                       Goto(ps[left], productions[acts[a].reduce].target)), p>>
          BY <1>1, <1>2, MovesByAction
        <5> QED BY <2>2, <5>1
      <4>2. states[q].actions[t].shift = u /\ u # 0
        BY <1>0, <1>2 DEF u, t
      <4> QED BY <4>1, <4>2
    <3>2. ~ (states[q].accept /\ TokenAt(input, p) = END)
      BY <1>6, <2>2
    <3>3. Reaching(G \ {<<ps, p>>}, input)
      BY <2>7, <3>1, <3>2, ReachingLess
    <3>4. <<ps, p>> \in G \ {<<ps, p>>}
      BY <2>1, <3>3 DEF ps
    <3> QED BY <3>4
  <2>8. \A G : Reaching(G, input)' => <<StackSeen', p + 1>> \in G
    BY <1>0, <2>6, <2>7, SameChoices
  <2> QED BY <1>0, <2>4, <2>6, <2>8, SameChoices DEF WillAccept
<1>8. CASE s.prod # 0 /\ Len(Run!BufferLeft) = 1
  <2>1. /\ b \in Seq(Range(b)) /\ Len(b) \in Nat /\ b # <<>>
    <3>1. b \in Seq(Range(b))
      BY DEF RInv, StacksMade
    <3>2. b = <<>> => Run!BufferLeft = <<>>
      BY DEF Run!BufferLeft
    <3>3. Len(<<>>) = 0
      OBVIOUS
    <3> QED BY <1>8, <3>1, <3>2, <3>3
  <2>2. s = b[1] /\ Run!BufferLeft = Tail(b) /\ Run!PosAfter = pos
    BY <2>1 DEF Run!Symbol, Run!BufferLeft, Run!PosAfter
  <2>3. Len(b) = 2 /\ Tail(b)[1] = b[2]
    <3> DEFINE r == Tail(b)
    <3>1. Len(r) = Len(b) - 1 /\ \A x \in 1 .. Len(b) - 1 : r[x] = b[x + 1]
      BY <2>1
    <3>2. Len(r) = 1
      BY <1>8, <2>2
    <3> DEFINE l == Len(b)
    <3>3. l \in Nat /\ l - 1 = 1
      BY <2>1, <3>1, <3>2
    <3> HIDE DEF r, l
    <3>4. l = 2
      BY <3>3
    <3>5. Len(b) = 2
      BY <3>4 DEF l
    <3> QED BY <3>1, <3>5 DEF r
  <2>4. t = productions[b[1].prod].target
    <3>1. Run!TagsOf(s) = <<productions[s.prod].target>>
      BY <1>8 DEF Run!TagsOf
    <3> HIDE DEF s, t
    <3> QED BY <1>4, <2>2, <3>1
  <2>5. StackSeen = Append(ps, u)
    BY <1>5, <2>3, <2>4 DEF StackSeen
  <2>6. Len(b') = 1 /\ b'[1] = b[2] /\ pos' = pos
    BY <1>0, <1>8, <2>2, <2>3
  <2>7. StackSeen' = StackSeen
    BY <1>0, <2>5, <2>6 DEF StackSeen
  <2>8. \A p : AtPlace(p) => AtPlace(p)'
    BY <1>0, <2>3, <2>6, SameChoices DEF AtPlace
  <2>9. PICK p \in Places(input) :
          AtPlace(p) /\ \A G : Reaching(G, input) => <<StackSeen, p>> \in G
    BY <1>0 DEF LInv, WillAccept
  <2> QED BY <1>0, <2>7, <2>8, <2>9, SameChoices DEF WillAccept
<1> QED BY <1>3, <1>7, <1>8

\* So does a reduction, and the nonterminal it leaves in the buffer.
LEMMA ReduceWill ==
  ASSUME GInv, RInv, SInv, Decided, LInv, UNCHANGED <<genVars, precVars>>, Run!Reduce
  PROVE  LInv'
<1> DEFINE ps == parse_stack_states
           pm == parse_stack_matches
           n == Len(pm)
           s == Run!Symbol
           t == Run!tag
           k == Run!curr.actions[t].reduce
           num == Len(SymbolsOf(k))
           left == n - num
           terms == SubSeq(pm, left + 1, n)
           A == productions[k].target
           m == Run!Nonterminal(k, terms)
           q == Top(ps)
<1>0. /\ Run!Proceed /\ ~(Run!curr.accept /\ t = END) /\ Run!curr.actions[t].shift = 0
      /\ pos' = Run!PosAfter
      /\ symbol_buffer' = Run!Reduced(k, terms) \o <<s>> \o Run!BufferLeft
      /\ ps' = SubSeq(ps, 1, left + 1)
      /\ UNCHANGED <<input, status>> /\ status = "running"
  BY DEF Run!Reduce, Run!Proceed, SymbolsOf
<1> SUFFICES ASSUME Choiceless PROVE WillAccept'
  BY <1>0, SameChoices DEF LInv
<1>1. NoRewrites /\ conflicts = {} /\ Unconfigured
  BY DEF Choiceless
<1>2. ps \in Stacks /\ Run!curr = states[q] /\ q \in DOMAIN states /\ phase = "ready" /\ AutomatonMade
      /\ GrammarMade
  BY <1>0, StackOfRun, TableFacts DEF AutomatonMade
<1>3. /\ s.prod = 0 /\ k \in DOMAIN productions /\ k # Len(productions)
      /\ \E i \in Run!curr.closure : IsDone(i) /\ i.prod = k
  BY ReduceChoice
<1>4. IsMatch(s)
  BY <1>2, SymbolFacts
<1>5. PICK p \in Places(input) :
        /\ Run!BufferLeft = <<>>
        /\ DOMAIN Run!TagsOf(s) = {1} /\ Run!TagsOf(s)[1] = TokenAt(input, p)
        /\ Lies(s, p, Run!PosAfter)
        /\ \A G : Reaching(G, input) => <<ps, p>> \in G
  BY <1>0, <1>3, TokenTurn
<1>6. t = TokenAt(input, p)
  <2>1. \E g \in DOMAIN Run!TagsOf(s) : Run!TagsOf(s)[g] = t
    BY <1>0, <1>4, TagFacts
  <2> QED BY <1>5, <2>1
<1>7. /\ n \in Nat /\ Len(ps) = n + 1 /\ num \in Nat /\ left \in Nat /\ left + num = n
      /\ ps \in Seq(DOMAIN states)
  <2>1. n \in Nat /\ Len(ps) = n + 1
    BY <1>0, StackFacts
  <2>2. PICK i \in Run!curr.closure : IsDone(i) /\ i.prod = k
    BY <1>3
  <2>3. A # ROOT
    BY <1>2, <1>3 DEF GrammarMade
  <2>4. num \in Nat /\ left \in Nat
    <3> HIDE DEF k
    <3> QED BY <1>0, <2>2, <2>3, HandleFacts
  <2> HIDE DEF num, n
  <2> QED BY <1>2, <2>1, <2>4 DEF Stacks
<1> HIDE DEF s, k
<1>8. symbol_buffer' = <<m>> \o <<s>> \o <<>>
  <2>1. Run!Reduced(k, terms) = <<m>>
    <3> HIDE DEF left, m
    <3> QED BY <1>0, <1>1, <1>3, <1>7, ReducedFacts DEF m
  <2> QED BY <1>0, <1>5, <2>1
<1>9. m.prod = k
  BY DEF Run!Nonterminal
<1> HIDE DEF m, A
<1>10. Len(symbol_buffer') = 2 /\ symbol_buffer'[1] = m /\ symbol_buffer'[2] = s
  BY <1>8, TwoBack
<1>11. /\ left + 1 = Len(ps) - num /\ ps' = SubSeq(ps, 1, left + 1)
       /\ Top(ps') = ps[left + 1]
  <2> HIDE DEF left, num, n
  <2>1. Len(ps') = left + 1 /\ ps'[left + 1] = ps[left + 1]
    BY <1>0, <1>7
  <2> QED BY <1>0, <1>7, <2>1 DEF Top
<1> DEFINE next == Append(SubSeq(ps, 1, left + 1), Goto(ps[left + 1], A))
<1>12. StackSeen' = next /\ AtPlace(p)'
  <2>1. productions' = productions /\ states' = states
    BY SameTables
  <2>2. StackSeen' = Append(ps', Goto(Top(ps'), A))
    <3>1. productions'[symbol_buffer'[1].prod].target = A
      BY <1>9, <1>10, <2>1 DEF A
    <3>2. StackSeen' = Append(ps', states'[ps'[Len(ps')]].next[productions'[symbol_buffer'[1].prod].target])
      BY <1>10 DEF StackSeen, Goto, Top
    <3> QED BY <2>1, <3>1, <3>2 DEF Goto, Top
  <2>3. AtPlace(p)'
    BY <1>0, <1>5, <1>10, SameChoices DEF AtPlace
  <2> HIDE DEF left
  <2> QED BY <1>11, <2>2, <2>3
<1>13. ASSUME NEW G, Reaching(G, input)
       PROVE  <<next, p>> \in G
  <2> SUFFICES ASSUME <<next, p>> \notin G PROVE FALSE
    OBVIOUS
  <2>1. \A c \in G : ~ Moves(input, ps, p, c)
    <3> SUFFICES ASSUME NEW c \in G, Moves(input, ps, p, c) PROVE FALSE
      OBVIOUS
    <3> DEFINE a == TokenAt(input, p)
               o == states[q].actions[a].reduce
               l == Len(ps) - Len(SymbolsOf(o))
    <3>1. /\ a \in DOMAIN states[q].actions
          /\ states[q].actions[a].shift = 0 =>
               c = <<Append(SubSeq(ps, 1, l), Goto(ps[l], productions[o].target)), p>>
      BY <1>1, <1>2, MovesByAction
    <3>2. states[q].actions[a].shift = 0 /\ o = k
      BY <1>0, <1>2, <1>6 DEF k
    <3>3. l = left + 1 /\ productions[o].target = A
      BY <1>11, <3>2 DEF A
    <3>4. c = <<Append(SubSeq(ps, 1, l), Goto(ps[l], productions[o].target)), p>>
      BY <3>1, <3>2
    <3> HIDE DEF l, o, left
    <3>5. c = <<next, p>>
      BY <3>3, <3>4
    <3> QED BY <3>5
  <2>2. ~ (states[q].accept /\ TokenAt(input, p) = END)
    BY <1>0, <1>2, <1>6
  <2> HIDE DEF ps
  <2>3. Reaching(G \ {<<ps, p>>}, input)
    BY <1>13, <2>1, <2>2, ReachingLess
  <2>4. <<ps, p>> \in G \ {<<ps, p>>}
    BY <1>5, <2>3 DEF ps
  <2> QED BY <2>4
<1> HIDE DEF next
<1>14. \A G : Reaching(G, input)' => <<StackSeen', p>> \in G
  BY <1>0, <1>12, <1>13, SameChoices
<1> QED BY <1>0, <1>12, <1>14, SameChoices DEF WillAccept

LEMMA LInvStep ==
  GInv /\ RInv /\ SInv /\ ItemSetsClosed /\ FirstsEnough /\ ReductionsEnough /\ Decided /\ LInv
    /\ [Next]_vars => LInv'
<1> SUFFICES ASSUME GInv, RInv, SInv, ItemSetsClosed, FirstsEnough, ReductionsEnough, Decided, LInv,
                    [Next]_vars
             PROVE  LInv'
  OBVIOUS
<1>1. ASSUME UNCHANGED <<genVars, precVars>>, UNCHANGED runtimeVars PROVE LInv'
  <2>0. /\ UNCHANGED <<input, pos, symbol_buffer, parse_stack_states, parse_stack_matches, status>>
    BY <1>1 DEF runtimeVars
  <2>1. \A p : AtPlace(p)' <=> AtPlace(p)
    BY <1>1, <2>0, SameChoices DEF AtPlace
  <2>2. StackSeen' = StackSeen
    BY <1>1, <2>0, SameTables DEF StackSeen, Goto, Top
  <2>3. WillAccept' <=> WillAccept
    BY <1>1, <2>0, <2>1, <2>2, SameChoices DEF WillAccept
  <2> QED BY <1>1, <2>0, <2>3, SameChoices DEF LInv
<1>2. CASE GenNext /\ UNCHANGED runtimeVars
  <2>1. CASE phase # "ready"
    <3>1. status' = "idle"
      BY <1>2, <2>1 DEF RInv, StacksMade, Run!RunInit, runtimeVars
    <3> QED BY <3>1 DEF LInv
  <2>2. CASE phase = "ready"
    <3>1. UNCHANGED genVars
      BY <1>2, <2>2, GenerateFirst
    <3>2. Configure => phase = "configure"
      BY DEF Configure
    <3>3. UNCHANGED precVars
      BY <1>2, <2>2, <3>2, OthersKeep DEF GenNext
    <3> QED BY <1>1, <1>2, <3>1, <3>3
  <2> QED BY <2>1, <2>2
<1>3. ASSUME NEW tokens \in grammar.inputs, Parse(tokens) PROVE LInv'
  BY <1>3, ParseWill
<1>4. CASE Turn
  <2>1. UNCHANGED <<genVars, precVars>> /\ Run!Turn
    BY <1>4 DEF Turn
  <2>2. CASE Run!BadToken \/ Run!Reject
    <3>1. ~ Choiceless
      BY <2>2, NeverGivesUp
    <3>2. UNCHANGED input
      BY <2>2 DEF Run!BadToken, Run!Reject, Run!GiveUp
    <3> QED BY <2>1, <3>1, <3>2, SameChoices DEF LInv
  <2>3. CASE Run!Accept
    BY <2>3 DEF Run!Accept, LInv
  <2> QED BY <2>1, <2>2, <2>3, ShiftWill, ReduceWill DEF Run!Turn
<1>5. CASE UNCHANGED vars
  BY <1>1, <1>5 DEF vars
<1> QED BY <1>2, <1>3, <1>4, <1>5 DEF Next

\* f goes from place to place over spans of the first n symbols of w.
Along(D, w, f, n) == \A m \in 1 .. n : <<f[m - 1], f[m], w[m]>> \in D

\* EndsOf is where such ways end.
LEMMA EndsOfFacts ==
  ASSUME NEW T, NEW D \in SUBSET (Nat \X Nat \X T), NEW w, Len(w) \in Nat, NEW i \in Nat, NEW j
  PROVE  j \in EndsOf(D, w, i) <=>
           \E f \in [Nat -> Nat] : f[0] = i /\ f[Len(w)] = j /\ Along(D, w, f, Len(w))
<1> DEFINE n == Len(w)
           U == SUBSET Nat
           After1(E, m) == {x[2] : x \in {y \in D : y[1] \in E /\ y[3] = w[m]}}
           Eq(e) == e = [m \in 0 .. n |-> IF m = 0 THEN {i}
                         ELSE {x[2] : x \in {x \in D : x[1] \in e[m - 1] /\ x[3] = w[m]}}]
           ends == CHOOSE e : Eq(e)
           Ways(m) == {y \in Nat : \E f \in [Nat -> Nat] : f[0] = i /\ f[m] = y /\ Along(D, w, f, m)}
           h == [m \in 0 .. n |-> Ways(m)]
<1>0. EndsOf(D, w, i) = ends[n]
  BY DEF EndsOf
<1>1. \A x \in D : x = <<x[1], x[2], x[3]>> /\ x[1] \in Nat /\ x[2] \in Nat
  OBVIOUS
<1>2. Ways(0) = {i}
  <2>1. i \in Ways(0)
    <3> DEFINE f == [x \in Nat |-> i]
    <3>1. f \in [Nat -> Nat] /\ f[0] = i
      OBVIOUS
    <3>2. 1 .. 0 = {}
      OBVIOUS
    <3> HIDE DEF f
    <3>3. Along(D, w, f, 0)
      BY <3>2 DEF Along
    <3> QED BY <3>1, <3>3
  <2>2. \A y \in Ways(0) : y = i
    OBVIOUS
  <2> HIDE DEF Ways
  <2> QED BY <2>1, <2>2
<1>3. ASSUME NEW m \in 1 .. n
      PROVE  Ways(m) = After1(Ways(m - 1), m)
  <2>0. m \in Nat /\ m - 1 \in Nat /\ (m - 1) + 1 = m
    BY DEF n
  <2>1. ASSUME NEW y \in Ways(m) PROVE y \in After1(Ways(m - 1), m)
    <3>1. PICK f \in [Nat -> Nat] : f[0] = i /\ f[m] = y /\ Along(D, w, f, m)
      OBVIOUS
    <3>2. m \in 1 .. m /\ \A k \in 1 .. m - 1 : k \in 1 .. m
      BY <2>0
    <3> DEFINE x == <<f[m - 1], f[m], w[m]>>
    <3>3. x \in D /\ x[1] = f[m - 1] /\ x[2] = y /\ x[3] = w[m]
      BY <3>1, <3>2 DEF Along
    <3>4. Along(D, w, f, m - 1)
      BY <3>1, <3>2 DEF Along
    <3>5. f[m - 1] \in Ways(m - 1)
      BY <2>0, <3>1, <3>4
    <3> HIDE DEF x, Ways
    <3> QED BY <3>3, <3>5
  <2>2. ASSUME NEW y \in After1(Ways(m - 1), m) PROVE y \in Ways(m)
    <3>1. PICK x \in D : x[1] \in Ways(m - 1) /\ x[3] = w[m] /\ x[2] = y
      OBVIOUS
    <3>2. PICK f \in [Nat -> Nat] : f[0] = i /\ f[m - 1] = x[1] /\ Along(D, w, f, m - 1)
      BY <3>1
    <3> DEFINE g == [f EXCEPT ![m] = y]
    <3>3. y \in Nat /\ x = <<x[1], y, w[m]>>
      BY <1>1, <3>1
    <3>4. \A k \in 0 .. m - 1 : k \in Nat /\ k # m
      BY <2>0
    <3>5. g \in [Nat -> Nat] /\ g[m] = y /\ \A k \in 0 .. m - 1 : g[k] = f[k]
      BY <2>0, <3>3, <3>4
    <3> HIDE DEF g
    <3>6. Along(D, w, g, m)
      <4> SUFFICES ASSUME NEW k \in 1 .. m PROVE <<g[k - 1], g[k], w[k]>> \in D
        BY DEF Along
      <4>1. CASE k = m
        <5>1. m - 1 \in 0 .. m - 1
          BY <2>0
        <5> QED BY <3>1, <3>2, <3>3, <3>5, <4>1, <5>1
      <4>2. CASE k # m
        <5> HIDE DEF n
        <5>0. k \in 1 .. m /\ m \in Nat /\ k # m
          BY <2>0, <4>2
        <5>1. k \in 1 .. m - 1 /\ k \in 0 .. m - 1 /\ k - 1 \in 0 .. m - 1
          BY ONLY <5>0
        <5> QED BY <3>2, <3>5, <5>1 DEF Along
      <4> QED BY <4>1, <4>2
    <3>7. g[0] = i
      <4>1. 0 \in 0 .. m - 1
        BY <2>0
      <4> QED BY <3>2, <3>5, <4>1
    <3> QED BY <3>3, <3>5, <3>6, <3>7
  <2> HIDE DEF Ways, After1
  <2> QED BY <2>1, <2>2
<1> HIDE DEF Ways
<1>4. Eq(h)
  <2>1. \A m \in 0 .. n : m = 0 \/ (m \in 1 .. n /\ m # 0 /\ m - 1 \in 0 .. n)
    BY DEF n
  <2> HIDE DEF n
  <2> SUFFICES ASSUME NEW m \in 0 .. n
               PROVE  Ways(m) = IF m = 0 THEN {i}
                                ELSE {x[2] : x \in {x \in D : x[1] \in h[m - 1] /\ x[3] = w[m]}}
    OBVIOUS
  <2>2. CASE m = 0
    BY <1>2, <2>2
  <2>3. CASE m # 0
    <3>1. m \in 1 .. n /\ h[m - 1] = Ways(m - 1)
      BY <2>1, <2>3
    <3>2. Ways(m) = After1(Ways(m - 1), m)
      BY <1>3, <3>1
    <3> HIDE DEF h
    <3> QED BY <2>3, <3>1, <3>2
  <2> QED BY <2>2, <2>3
<1>5. Eq(ends)
  <2> HIDE DEF Eq, h
  <2> QED BY <1>4
<1> HIDE DEF ends
<1> DEFINE S == {m \in 0 .. n : ends[m] = Ways(m)}
<1>6. 0 \in S
  <2>1. 0 \in 0 .. n
    OBVIOUS
  <2> QED BY <1>2, <1>5, <2>1
<1>7. ASSUME NEW m \in 1 .. n, m - 1 \in S PROVE m \in S
  <2>1. m \in 0 .. n /\ m # 0
    BY DEF n
  <2>2. ends[m] = {x[2] : x \in {x \in D : x[1] \in ends[m - 1] /\ x[3] = w[m]}}
    BY <1>5, <2>1
  <2>3. ends[m - 1] = Ways(m - 1)
    BY <1>7
  <2>4. ends[m] = Ways(m)
    BY <1>3, <2>2, <2>3
  <2> QED BY <2>1, <2>4
<1>8. 0 .. n \subseteq S
  <2> HIDE DEF S
  <2> QED BY <1>6, <1>7, UpTo
<1>9. n \in 0 .. n
  OBVIOUS
<1>10. ends[n] = Ways(n)
  BY <1>8, <1>9
<1>11. j \in Ways(n) <=> \E f \in [Nat -> Nat] : f[0] = i /\ f[n] = j /\ Along(D, w, f, n)
  BY DEF Ways
<1> QED BY <1>0, <1>10, <1>11

\* What a grammar derives by spans of the text's places is what every closed set of
\* spans has.
LEMMA DerivesSentence ==
  ASSUME grammar \in Grammars, NEW tokens \in Seq(Seq(grammar.terminals \cup {BAD}))
  PROVE  Derives(grammar, tokens) <=> Sentence(tokens)
<1> DEFINE places == 1 .. Len(tokens) + 1
           tags == grammar.terminals \cup grammar.nonterminals \cup {BAD}
           all == places \X places \X tags
           leaves == UNION {{<<i, i + 1, tokens[i][n]>> : n \in DOMAIN tokens[i]} : i \in DOMAIN tokens}
           made(D) == UNION {UNION {{<<i, j, p.target>> : j \in EndsOf(D, p.symbols, i)} :
                                    p \in Range(grammar.productions)} : i \in places}
           Eq(h) == h = [D \in SUBSET all |->
                           LET more == D \cup made(D) IN IF more = D THEN D ELSE h[more]]
           spans == CHOOSE h : Eq(h)
           goal == <<1, Len(tokens) + 1, grammar.start>>
           prods == grammar.productions
           M == [D \in SUBSET all |-> D \cup made(D)]
<1>0. Derives(grammar, tokens) <=> goal \in spans[leaves]
  BY DEF Derives
<1>1. /\ Len(tokens) \in Nat /\ DOMAIN tokens = 1 .. Len(tokens)
      /\ \A i \in DOMAIN tokens : \A n \in DOMAIN tokens[i] : tokens[i][n] \in tags
  <2> DEFINE T == grammar.terminals \cup {BAD}
  <2>1. tokens \in Seq(Seq(T)) /\ T \subseteq tags
    OBVIOUS
  <2> HIDE DEF T, tags
  <2>2. \A i \in DOMAIN tokens : tokens[i] \in Seq(T)
    BY <2>1
  <2>3. \A u \in Seq(T) : \A n \in DOMAIN u : u[n] \in T
    OBVIOUS
  <2> QED BY <2>1, <2>2, <2>3
<1>2. /\ prods \in Seq(Range(prods)) /\ Range(prods) = {prods[k] : k \in DOMAIN prods}
      /\ \A k \in DOMAIN prods : /\ prods[k].target \in tags
                                 /\ Len(prods[k].symbols) \in Nat
                                 /\ DOMAIN prods[k].symbols = 1 .. Len(prods[k].symbols)
  <2>1. /\ prods \in Seq(Range(prods))
        /\ \A k \in DOMAIN prods : /\ prods[k].target \in grammar.nonterminals
                                   /\ prods[k].symbols \in Seq(grammar.terminals \cup grammar.nonterminals)
    BY GrammarAssumption
  <2>2. \A u \in Seq(grammar.terminals \cup grammar.nonterminals) : Len(u) \in Nat /\ DOMAIN u = 1 .. Len(u)
    OBVIOUS
  <2>3. \A k \in DOMAIN prods : /\ Len(prods[k].symbols) \in Nat
                                /\ DOMAIN prods[k].symbols = 1 .. Len(prods[k].symbols)
    BY <2>1, <2>2
  <2>4. \A k \in DOMAIN prods : prods[k].target \in tags
    BY <2>1
  <2> QED BY <2>1, <2>3, <2>4 DEF Range
<1>3. places \subseteq Nat /\ IsFiniteSet(places) /\ 1 \in places
      /\ \A i \in DOMAIN tokens : i \in places /\ i + 1 \in places
  <2>1. Len(tokens) + 1 \in Nat
    BY <1>1
  <2>2. IsFiniteSet(places)
    BY <2>1, FS_Interval
  <2> QED BY <1>1, <2>2
<1>4. IsFiniteSet(tags)
  <2>1. IsFiniteSet(grammar.terminals) /\ IsFiniteSet(grammar.nonterminals)
    BY GrammarAssumption
  <2>2. IsFiniteSet(grammar.terminals \cup grammar.nonterminals)
    BY <2>1, FS_Union
  <2> QED BY <2>2, FS_AddElement
<1>5. \A x : x \in leaves => \E i \in DOMAIN tokens : \E n \in DOMAIN tokens[i] :
                               x = <<i, i + 1, tokens[i][n]>>
  OBVIOUS
<1>6. \A i \in DOMAIN tokens : \A n \in DOMAIN tokens[i] : <<i, i + 1, tokens[i][n]>> \in leaves
  OBVIOUS
<1> HIDE DEF tags
<1>7. leaves \in SUBSET all
  <2> SUFFICES ASSUME NEW x \in leaves PROVE x \in all
    OBVIOUS
  <2>1. PICK i \in DOMAIN tokens : \E n \in DOMAIN tokens[i] : x = <<i, i + 1, tokens[i][n]>>
    BY <1>5
  <2>2. PICK n \in DOMAIN tokens[i] : x = <<i, i + 1, tokens[i][n]>>
    BY <2>1
  <2> HIDE DEF leaves, places
  <2> QED BY <1>1, <1>3, <2>2
<1> HIDE DEF places, leaves
<1>8. IsFiniteSet(all)
  <2> DEFINE A == places \X places
             AB == A \X tags
             f == [z \in AB |-> <<z[1][1], z[1][2], z[2]>>]
             Image == {f[z] : z \in AB}
  <2>1. IsFiniteSet(A)
    BY <1>3, FS_Product
  <2>2. IsFiniteSet(AB)
    <3> HIDE DEF A
    <3> QED BY <1>4, <2>1, FS_Product
  <2>3. f \in Surjection(AB, Image)
    <3> HIDE DEF AB
    <3> QED BY DEF Surjection
  <2>4. IsFiniteSet(Image)
    <3> HIDE DEF AB, f, Image
    <3> QED BY <2>2, <2>3, FS_Surjection
  <2>5. ASSUME NEW x \in all PROVE x \in Image
    <3>1. x = <<x[1], x[2], x[3]>> /\ x[1] \in places /\ x[2] \in places /\ x[3] \in tags
      OBVIOUS
    <3> DEFINE z == <<<<x[1], x[2]>>, x[3]>>
    <3>2. z \in AB
      BY <3>1
    <3>3. <<z[1][1], z[1][2], z[2]>> = x
      BY <3>1
    <3> HIDE DEF z, AB
    <3>4. f[z] = x
      BY <3>2, <3>3
    <3> QED BY <3>2, <3>4
  <2>6. all \in SUBSET Image
    BY <2>5
  <2> HIDE DEF Image
  <2> QED BY <2>4, <2>6, FS_Subset
\* What is made of D: the ends of ways over it.
<1> DEFINE MadeBy(D, i, k, f, x) ==
             /\ f[0] = i /\ Along(D, prods[k].symbols, f, Len(prods[k].symbols))
             /\ x = <<i, f[Len(prods[k].symbols)], prods[k].target>>
           Made(D, x) == \E i \in places, k \in DOMAIN prods : \E f \in [Nat -> Nat] : MadeBy(D, i, k, f, x)
<1>9. ASSUME NEW D \in SUBSET all, NEW x
      PROVE  x \in made(D) <=> Made(D, x)
  <2>1. D \in SUBSET (Nat \X Nat \X tags)
    BY <1>3
  <2> DEFINE Gets(i, k, j) ==
               \E f \in [Nat -> Nat] : /\ f[0] = i /\ f[Len(prods[k].symbols)] = j
                                       /\ Along(D, prods[k].symbols, f, Len(prods[k].symbols))
  <2>2. ASSUME NEW i \in places, NEW k \in DOMAIN prods, NEW j
        PROVE  j \in EndsOf(D, prods[k].symbols, i) <=> Gets(i, k, j)
    <3> DEFINE w == prods[k].symbols
    <3>1. i \in Nat /\ Len(w) \in Nat
      BY <1>2, <1>3
    <3> HIDE DEF prods, all, w
    <3>2. j \in EndsOf(D, w, i) <=>
            \E f \in [Nat -> Nat] : f[0] = i /\ f[Len(w)] = j /\ Along(D, w, f, Len(w))
      BY <2>1, <3>1, EndsOfFacts
    <3> QED BY <3>2 DEF w
  <2>3. x \in made(D) <=> \E i \in places, k \in DOMAIN prods :
                            \E j \in EndsOf(D, prods[k].symbols, i) : x = <<i, j, prods[k].target>>
    <3>1. x \in made(D) <=> \E i \in places, p \in Range(prods) :
                              \E j \in EndsOf(D, p.symbols, i) : x = <<i, j, p.target>>
      OBVIOUS
    <3> HIDE DEF made, prods
    <3> QED BY <1>2, <3>1
  <2> HIDE DEF made, prods, all, Gets
  <2>4. ASSUME NEW i \in places, NEW k \in DOMAIN prods
        PROVE  (\E j \in EndsOf(D, prods[k].symbols, i) : x = <<i, j, prods[k].target>>) <=>
                 \E f \in [Nat -> Nat] : MadeBy(D, i, k, f, x)
    <3>1. ASSUME NEW j \in EndsOf(D, prods[k].symbols, i), x = <<i, j, prods[k].target>>
          PROVE  \E f \in [Nat -> Nat] : MadeBy(D, i, k, f, x)
      <4>1. PICK f \in [Nat -> Nat] : /\ f[0] = i /\ f[Len(prods[k].symbols)] = j
                                      /\ Along(D, prods[k].symbols, f, Len(prods[k].symbols))
        <5>1. Gets(i, k, j)
          BY <2>2
        <5> QED BY <5>1 DEF Gets
      <4>2. MadeBy(D, i, k, f, x)
        BY <3>1, <4>1
      <4> HIDE DEF MadeBy
      <4> QED BY <4>2
    <3>2. ASSUME NEW f \in [Nat -> Nat], MadeBy(D, i, k, f, x)
          PROVE  \E j \in EndsOf(D, prods[k].symbols, i) : x = <<i, j, prods[k].target>>
      <4> DEFINE j == f[Len(prods[k].symbols)]
      <4>1. Gets(i, k, j)
        BY <3>2 DEF Gets
      <4>2. j \in EndsOf(D, prods[k].symbols, i)
        <5> HIDE DEF j
        <5> QED BY <2>2, <4>1
      <4> QED BY <3>2, <4>2
    <3> HIDE DEF MadeBy
    <3> QED BY <3>1, <3>2
  <2> HIDE DEF MadeBy
  <2> QED BY <2>3, <2>4
<1> HIDE DEF made, prods, Made
<1>10. ASSUME NEW D \in SUBSET all PROVE made(D) \subseteq all
  <2> SUFFICES ASSUME NEW x \in made(D) PROVE x \in all
    OBVIOUS
  <2>1. Made(D, x)
    <3> HIDE DEF all
    <3> QED BY <1>9
  <2> HIDE DEF MadeBy
  <2>2. PICK i \in places, k \in DOMAIN prods : \E f \in [Nat -> Nat] : MadeBy(D, i, k, f, x)
    BY <2>1 DEF Made
  <2>3. PICK f \in [Nat -> Nat] : MadeBy(D, i, k, f, x)
    BY <2>2
  <2> USE DEF MadeBy
  <2> DEFINE n == Len(prods[k].symbols)
  <2>4. f[n] \in places
    <3>1. CASE n = 0
      BY <2>3, <3>1
    <3>2. CASE n # 0
      <4>1. n \in Nat
        BY <1>2
      <4> HIDE DEF n
      <4>2. n \in 1 .. n
        BY <3>2, <4>1
      <4>3. <<f[n - 1], f[n], prods[k].symbols[n]>> \in D
        BY <2>3, <4>2 DEF Along, n
      <4> QED BY <4>3
    <3> QED BY <3>1, <3>2
  <2> QED BY <1>2, <2>3, <2>4
<1>11. ASSUME NEW D \in SUBSET all, NEW E \in SUBSET all, D \subseteq E
       PROVE  made(D) \subseteq made(E)
  <2> SUFFICES ASSUME NEW x \in made(D) PROVE x \in made(E)
    OBVIOUS
  <2>1. \A w, f, n : Along(D, w, f, n) => Along(E, w, f, n)
    BY <1>11 DEF Along
  <2>2. \A i, k, f : MadeBy(D, i, k, f, x) => MadeBy(E, i, k, f, x)
    BY <2>1
  <2> HIDE DEF all, MadeBy
  <2>3. Made(D, x) => Made(E, x)
    BY <2>2 DEF Made
  <2> QED BY <1>9, <2>3
<1>12. Widens(M, all)
  <2> HIDE DEF all
  <2>1. \A D \in SUBSET all : M[D] = D \cup made(D)
    OBVIOUS
  <2> HIDE DEF M
  <2> QED BY <1>10, <1>11, <2>1 DEF Widens
<1>13. Widest(spans, M, all)
  <2>1. ASSUME NEW h PROVE Eq(h) <=> Widest(h, M, all)
    <3> HIDE DEF all
    <3> QED BY DEF Widest
  <2>2. \E h : Eq(h)
    <3> HIDE DEF Eq, M, all
    <3> QED BY <1>12, <2>1, WidestExists
  <2>3. Eq(spans)
    <3> HIDE DEF Eq
    <3> QED BY <2>2
  <2> HIDE DEF spans, Eq, M, all
  <2> QED BY <2>1, <2>3
<1> DEFINE end == spans[leaves]
<1>14. /\ leaves \subseteq end /\ end \subseteq all /\ made(end) \subseteq end
       /\ \A C \in SUBSET all : leaves \subseteq C /\ made(C) \subseteq C => end \subseteq C
  <2>1. \A D \in SUBSET all : M[D] = D <=> made(D) \subseteq D
    OBVIOUS
  <2> HIDE DEF spans, M, all
  <2>2. /\ leaves \subseteq end /\ end \subseteq all /\ M[end] = end
        /\ \A C \in SUBSET all : leaves \subseteq C /\ M[C] = C => end \subseteq C
    BY <1>7, <1>8, <1>12, <1>13, WidestFacts
  <2> HIDE DEF end
  <2> QED BY <2>1, <2>2
<1> HIDE DEF end
<1>15. ASSUME goal \in end, NEW D, Closed(D, tokens) PROVE goal \in D
  <2> DEFINE C == D \cap all
  <2>1. leaves \subseteq C
    <3> HIDE DEF all
    <3> QED BY <1>5, <1>7, <1>15 DEF Closed
  <2>2. ASSUME NEW x \in made(C) PROVE x \in C
    <3> HIDE DEF all
    <3>1. C \in SUBSET all /\ x \in all
      BY <1>10
    <3> HIDE DEF C, all
    <3>2. Made(C, x)
      BY <1>9, <3>1
    <3> HIDE DEF MadeBy
    <3>3. PICK i \in places, k \in DOMAIN prods : \E f \in [Nat -> Nat] : MadeBy(C, i, k, f, x)
      BY <3>2 DEF Made
    <3>4. PICK f \in [Nat -> Nat] : MadeBy(C, i, k, f, x)
      BY <3>3
    <3>5. \A d \in DOMAIN prods[k].symbols : <<f[d - 1], f[d], prods[k].symbols[d]>> \in D
      BY <1>2, <3>4 DEF Along, C, MadeBy
    <3>6. <<f[0], f[Len(prods[k].symbols)], prods[k].target>> \in D
      BY <1>15, <3>5 DEF Closed, prods
    <3> QED BY <3>1, <3>4, <3>6 DEF C, MadeBy
  <2>3. C \in SUBSET all
    OBVIOUS
  <2> HIDE DEF all
  <2>4. end \subseteq C
    <3> HIDE DEF C
    <3> QED BY <1>14, <2>1, <2>2, <2>3
  <2> QED BY <1>15, <2>4
<1> DEFINE Beyond == {x \in Nat \X Nat \X tags : x[1] \notin places}
           D1 == end \cup Beyond
<1>16. ASSUME NEW k \in DOMAIN prods, NEW f \in [Nat -> Nat],
              \A d \in DOMAIN prods[k].symbols : <<f[d - 1], f[d], prods[k].symbols[d]>> \in D1
       PROVE  <<f[0], f[Len(prods[k].symbols)], prods[k].target>> \in D1
  <2> DEFINE n == Len(prods[k].symbols)
             w == prods[k].symbols
  <2>1. n \in Nat /\ prods[k].target \in tags /\ f[0] \in Nat /\ f[n] \in Nat
    BY <1>2
  <2>2. \A m \in 1 .. n : <<f[m - 1], f[m], w[m]>> \in D1
    BY <1>2, <1>16
  <2> HIDE DEF n, w
  <2>3. ASSUME NEW m \in 1 .. n, f[m - 1] \in places
        PROVE  <<f[m - 1], f[m], w[m]>> \in end /\ f[m] \in places
    <3> DEFINE x == <<f[m - 1], f[m], w[m]>>
    <3>1. x \in D1 /\ x[1] \in places
      BY <2>2, <2>3
    <3>2. x \in end
      <4> HIDE DEF x
      <4> QED BY <3>1
    <3>3. x \in all
      <4> HIDE DEF x, all
      <4> QED BY <1>14, <3>2
    <3> QED BY <3>2, <3>3
  <2>4. CASE f[0] \in places
    <3> DEFINE S == {m \in 0 .. n : f[m] \in places}
    <3>1. 0 \in S
      BY <2>1, <2>4
    <3>2. \A m \in 1 .. n : m - 1 \in S => m \in S
      <4> SUFFICES ASSUME NEW m \in 1 .. n, m - 1 \in S PROVE m \in S
        OBVIOUS
      <4>1. m \in 0 .. n
        BY <2>1
      <4> QED BY <2>3, <4>1
    <3>3. 0 .. n \subseteq S
      <4> HIDE DEF S
      <4> QED BY <2>1, <3>1, <3>2, UpTo
    <3>4. \A m \in 1 .. n : m - 1 \in S
      BY <2>1, <3>3
    <3>5. Along(end, w, f, n)
      BY <2>3, <3>4 DEF Along
    <3>6. end \in SUBSET all
      BY <1>14
    <3>7. MadeBy(end, f[0], k, f, <<f[0], f[n], prods[k].target>>)
      BY <3>5 DEF n, w
    <3>8. Made(end, <<f[0], f[n], prods[k].target>>)
      <4> HIDE DEF MadeBy
      <4> QED BY <2>4, <3>7 DEF Made
    <3>9. <<f[0], f[n], prods[k].target>> \in made(end)
      <4> HIDE DEF all
      <4> QED BY <1>9, <3>6, <3>8
    <3> QED BY <1>14, <3>9 DEF n
  <2>5. CASE f[0] \notin places
    BY <2>1, <2>5 DEF n
  <2> QED BY <2>4, <2>5
<1>17. ASSUME Sentence(tokens) PROVE goal \in end
  <2>1. \A i \in DOMAIN tokens : \A g \in DOMAIN tokens[i] : <<i, i + 1, tokens[i][g]>> \in D1
    BY <1>6, <1>14
  <2> HIDE DEF Beyond
  <2> HIDE DEF D1
  <2>2. Closed(D1, tokens)
    BY <1>16, <2>1 DEF Closed, prods
  <2>3. goal \in D1
    BY <1>17, <2>2 DEF Sentence
  <2>4. goal[1] = 1
    OBVIOUS
  <2> HIDE DEF goal
  <2> QED BY <1>3, <2>3, <2>4 DEF D1, Beyond
<1> HIDE DEF goal
<1>18. goal \in end <=> Sentence(tokens)
  BY <1>15, <1>17 DEF Sentence, goal
<1> QED BY <1>0, <1>18 DEF end

\* A text is one the grammar gives, or the empty one before the first.
TextGiven == input \in Seq(Seq(grammar.terminals \cup {BAD}))

LEMMA TextGivenStep == GInv /\ TextGiven /\ [Next]_vars => TextGiven'
<1> SUFFICES ASSUME GInv, TextGiven, [Next]_vars PROVE TextGiven'
  OBVIOUS
<1>1. grammar' = grammar /\ grammar \in Grammars
  BY GrammarKept DEF GInv
<1>2. ASSUME NEW tokens \in grammar.inputs, Parse(tokens) PROVE TextGiven'
  <2>1. input' = tokens
    BY <1>2 DEF Parse, Run!Parse
  <2>2. tokens \in Seq(Seq(grammar.terminals \cup {BAD}) \ {<<>>})
    BY <1>1, TextAssumption
  <2> DEFINE T == Seq(grammar.terminals \cup {BAD})
  <2>3. tokens \in Seq(T \ {<<>>})
    BY <2>2
  <2> HIDE DEF T
  <2>4. tokens \in Seq(T)
    BY <2>3
  <2> QED BY <1>1, <2>1, <2>4 DEF T, TextGiven
<1>3. CASE UNCHANGED input
  BY <1>1, <1>3 DEF TextGiven
<1>4. CASE Turn
  <2>1. input' = input
    BY <1>4 DEF Turn, Run!Turn, Run!Shift, Run!Reduce, Run!Accept, Run!Reject, Run!BadToken, Run!GiveUp
  <2> QED BY <1>3, <2>1
<1> QED BY <1>2, <1>3, <1>4 DEF Next, vars, runtimeVars

\* All that is true of the tables and the parses, together.
Complete ==
  /\ GInv /\ RInv /\ CInv /\ SInv /\ TextGiven
  /\ FirstsEnough /\ ReductionsEnough /\ Decided /\ LInv

LEMMA InitComplete == Init => Complete
<1> SUFFICES ASSUME Init PROVE Complete
  OBVIOUS
<1>1. GInv /\ RInv /\ CInv
  BY InitGInv, InitRInv, InitCInv
<1>2. /\ Run!RunInit /\ phase = "configure" /\ states = <<>>
  BY DEF Init, GenInit
<1>3. SInv
  BY <1>2, NothingRead
<1>4. input = <<>> /\ status = "idle"
  BY <1>2 DEF Run!RunInit
<1>5. TextGiven
  BY <1>4 DEF TextGiven
<1>6. FirstsEnough /\ Decided
  BY <1>2 DEF FirstsEnough, Decided
<1>7. ReductionsEnough
  <2>1. DOMAIN states = {}
    BY <1>2
  <2> QED BY <1>2, <2>1 DEF ReductionsEnough
<1>8. LInv
  BY <1>4 DEF LInv
<1> QED BY <1>1, <1>3, <1>5, <1>6, <1>7, <1>8 DEF Complete

LEMMA CompleteStep == Complete /\ [Next]_vars => Complete'
<1> SUFFICES ASSUME Complete, [Next]_vars PROVE Complete'
  OBVIOUS
<1>1. /\ GInv /\ RInv /\ CInv /\ SInv /\ TextGiven
      /\ FirstsEnough /\ ReductionsEnough /\ Decided /\ LInv
  BY DEF Complete
<1>2. ItemSetsClosed
  BY <1>1 DEF CInv
<1>3. GInv' /\ RInv' /\ CInv' /\ SInv' /\ TextGiven'
  BY <1>1, GInvStep, RInvStep, CInvStep, SInvStep, TextGivenStep
<1>4. FirstsEnough' /\ ReductionsEnough' /\ Decided'
  BY <1>1, FirstsEnoughStep, ReductionsEnoughStep, DecidedStep
<1>5. LInv'
  BY <1>1, <1>2, LInvStep
<1> QED BY <1>3, <1>4, <1>5 DEF Complete

-----------------------------------------------------------------------------
(* The tokens read are kept                                                 *)

\* Matches that know the places of their tokens.
Holding(T) == \A x \in T : x.places \in Seq(Nat)

\* Concatenation, named so that the provers reason with what is known of it.
Cat(x, y) == x \o y

LEMMA Regrouped ==
  \A x, y, z \in Seq(Nat) :
    Cat(Cat(x, y), z) = Cat(x, Cat(y, z)) /\ Cat(y, z) \in Seq(Nat)
<1> SUFFICES ASSUME NEW x \in Seq(Nat), NEW y \in Seq(Nat), NEW z \in Seq(Nat)
             PROVE  (x \o y) \o z = x \o (y \o z) /\ y \o z \in Seq(Nat)
  BY DEF Cat
<1> QED OBVIOUS

LEMMA RegroupedTwice ==
  \A a, b, c, d \in Seq(Nat) :
    Cat(a, Cat(Cat(b, c), d)) = Cat(Cat(Cat(a, b), c), d)
<1> SUFFICES ASSUME NEW a \in Seq(Nat), NEW b \in Seq(Nat), NEW c \in Seq(Nat), NEW d \in Seq(Nat)
             PROVE  Cat(a, Cat(Cat(b, c), d)) = Cat(Cat(Cat(a, b), c), d)
  OBVIOUS
<1>1. Cat(Cat(a, b), c) = Cat(a, Cat(b, c)) /\ Cat(b, c) \in Seq(Nat)
  BY Regrouped
<1>2. Cat(Cat(a, Cat(b, c)), d) = Cat(a, Cat(Cat(b, c), d))
  BY <1>1, Regrouped
<1> QED BY <1>1, <1>2

\* PlacesOf puts together the places of one match after the other.
Gathers(f, ms) ==
  /\ Run!PlacesOf(ms) = f[Len(ms)] /\ f[0] = <<>>
  /\ \A n \in 0 .. Len(ms) : f[n] \in Seq(Nat)
  /\ \A n \in 1 .. Len(ms) : f[n] = f[n - 1] \o ms[n].places

LEMMA PlacesMade ==
  ASSUME NEW T, Holding(T), NEW ms \in Seq(T)
  PROVE  \E f : Gathers(f, ms)
<1> DEFINE l == Len(ms)
           Eq(f) == f = [n \in 0 .. l |-> IF n = 0 THEN <<>> ELSE f[n - 1] \o ms[n].places]
           places == CHOOSE f : Eq(f)
           D == [n \in 0 .. l |-> Seq(Nat)]
           F == [n \in 1 .. l |-> [x \in Seq(Nat) |-> x \o ms[n].places]]
<1>1. Run!PlacesOf(ms) = places[l]
  BY DEF Run!PlacesOf
<1>2. l \in Nat /\ \A n \in 1 .. l : ms[n].places \in Seq(Nat)
  BY DEF Holding
<1> HIDE DEF l
<1>3. <<>> \in D[0] /\ \A n \in 0 .. l : D[n] = Seq(Nat)
  BY <1>2
<1>4. Leads(F, D, l)
  <2> SUFFICES ASSUME NEW n \in 1 .. l, NEW x \in D[n - 1] PROVE F[n][x] \in D[n]
    BY DEF Leads
  <2>1. n \in 0 .. l /\ n - 1 \in 0 .. l
    BY <1>2
  <2>2. x \in Seq(Nat) /\ ms[n].places \in Seq(Nat)
    BY <1>2, <1>3, <2>1
  <2>3. x \o ms[n].places \in Seq(Nat)
    BY <2>2
  <2> HIDE DEF D
  <2> QED BY <1>3, <2>1, <2>2, <2>3
<1> HIDE DEF D, F
<1>5. PICK f : Iterates(f, <<>>, F, D, l)
  BY <1>2, <1>3, <1>4, Iteration
<1>6. \A n \in 1 .. l : f[n] = f[n - 1] \o ms[n].places
  <2> SUFFICES ASSUME NEW n \in 1 .. l PROVE f[n] = f[n - 1] \o ms[n].places
    OBVIOUS
  <2>1. n - 1 \in 0 .. l
    BY <1>2
  <2>2. f[n - 1] \in Seq(Nat) /\ f[n] = F[n][f[n - 1]]
    BY <1>3, <1>5, <2>1 DEF Iterates
  <2> QED BY <2>2 DEF F
<1>7. Eq(f)
  <2>1. \A n \in 0 .. l : n # 0 => n \in 1 .. l
    BY <1>2
  <2>2. f = [n \in 0 .. l |-> f[n]] /\ f[0] = <<>>
    BY <1>5 DEF Iterates
  <2> QED BY <1>6, <2>1, <2>2
<1>8. Eq(places)
  <2> HIDE DEF Eq
  <2> QED BY <1>7
<1> HIDE DEF places
<1>9. places[0] = <<>> /\ \A n \in 1 .. l : places[n] = places[n - 1] \o ms[n].places
  <2>1. \A n \in 1 .. l : n \in 0 .. l /\ n # 0
    BY <1>2
  <2>2. 0 \in 0 .. l
    BY <1>2
  <2> QED BY <1>8, <2>1, <2>2
<1> HIDE DEF Eq
<1>10. \A n \in 0 .. l : places[n] \in Seq(Nat)
  <2> DEFINE S == {n \in 0 .. l : places[n] \in Seq(Nat)}
  <2>1. 0 \in S
    <3>1. 0 \in 0 .. l /\ <<>> \in Seq(Nat)
      BY <1>2
    <3> QED BY <1>9, <3>1
  <2>2. ASSUME NEW n \in 1 .. l, n - 1 \in S PROVE n \in S
    <3>1. n \in 0 .. l /\ places[n - 1] \in Seq(Nat) /\ ms[n].places \in Seq(Nat)
      BY <1>2, <2>2
    <3>2. places[n - 1] \o ms[n].places \in Seq(Nat)
      BY <3>1
    <3> QED BY <1>9, <3>1, <3>2
  <2>3. 0 .. l \subseteq S
    <3> HIDE DEF S
    <3> QED BY <1>2, <2>1, <2>2, UpTo
  <2> QED BY <2>3
<1> QED BY <1>1, <1>9, <1>10 DEF l, Gathers

\* The places of one sequence of matches after another.
LEMMA PlacesConcat ==
  ASSUME NEW T, Holding(T), NEW a \in Seq(T), NEW b \in Seq(T)
  PROVE  /\ Run!PlacesOf(a) \in Seq(Nat)
         /\ Run!PlacesOf(a \o b) = Run!PlacesOf(a) \o Run!PlacesOf(b)
<1> DEFINE c == a \o b
           m == Len(a)
           n == Len(b)
<1>1. /\ m \in Nat /\ n \in Nat /\ c \in Seq(T) /\ Len(c) = m + n
      /\ \A i \in 1 .. m : c[i] = a[i]
      /\ \A i \in 1 .. n : c[m + i] = b[i]
  OBVIOUS
<1>2. \A i \in 1 .. n : b[i].places \in Seq(Nat)
  BY DEF Holding
<1> HIDE DEF c
<1>3. PICK f, g, h : Gathers(f, a) /\ Gathers(g, b) /\ Gathers(h, c)
  BY <1>1, PlacesMade
<1>4. /\ Run!PlacesOf(a) = f[m] /\ f[0] = <<>>
      /\ \A i \in 0 .. m : f[i] \in Seq(Nat)
      /\ \A i \in 1 .. m : f[i] = f[i - 1] \o a[i].places
  BY <1>3 DEF Gathers
<1>5. /\ Run!PlacesOf(b) = g[n] /\ g[0] = <<>>
      /\ \A i \in 0 .. n : g[i] \in Seq(Nat)
      /\ \A i \in 1 .. n : g[i] = g[i - 1] \o b[i].places
  BY <1>3 DEF Gathers
<1>6. /\ Run!PlacesOf(c) = h[m + n] /\ h[0] = <<>>
      /\ \A i \in 0 .. m + n : h[i] \in Seq(Nat)
      /\ \A i \in 1 .. m + n : h[i] = h[i - 1] \o c[i].places
  BY <1>3, <1>1 DEF Gathers
<1> HIDE DEF m, n
<1>7. h[m] = f[m]
  <2> DEFINE S == {i \in 0 .. m : h[i] = f[i]}
  <2>1. 0 \in S
    BY <1>1, <1>4, <1>6
  <2>2. ASSUME NEW i \in 1 .. m, i - 1 \in S PROVE i \in S
    <3>1. i \in 0 .. m /\ i \in 1 .. m + n
      BY <1>1
    <3>2. h[i - 1] = f[i - 1] /\ c[i] = a[i]
      BY <1>1, <2>2
    <3> QED BY <1>4, <1>6, <3>1, <3>2
  <2>3. 0 .. m \subseteq S
    <3> HIDE DEF S
    <3> QED BY <1>1, <2>1, <2>2, UpTo
  <2>4. m \in 0 .. m
    BY <1>1
  <2> QED BY <2>3, <2>4
<1>8. f[m] \in Seq(Nat)
  <2>1. m \in 0 .. m
    BY <1>1
  <2> QED BY <1>4, <2>1
<1>9. h[m + n] = f[m] \o g[n]
  <2> DEFINE S == {i \in 0 .. n : h[m + i] = f[m] \o g[i]}
  <2>1. 0 \in S
    <3>1. 0 \in 0 .. n /\ m + 0 = m
      BY <1>1
    <3>2. f[m] \o <<>> = f[m]
      BY <1>8, ConcatEmptySeq
    <3> QED BY <1>5, <1>7, <3>1, <3>2
  <2>2. ASSUME NEW i \in 1 .. n, i - 1 \in S PROVE i \in S
    <3>1. i \in 0 .. n /\ i - 1 \in 0 .. n /\ m + i \in 1 .. m + n /\ (m + i) - 1 = m + (i - 1)
      BY <1>1
    <3>2. h[m + i] = h[(m + i) - 1] \o c[m + i].places
      BY <1>6, <3>1
    <3>3. h[(m + i) - 1] = f[m] \o g[i - 1] /\ c[m + i] = b[i]
      BY <1>1, <2>2, <3>1
    <3>4. g[i - 1] \in Seq(Nat) /\ b[i].places \in Seq(Nat) /\ g[i] = g[i - 1] \o b[i].places
      BY <1>2, <1>5, <3>1 DEF n
    <3>5. (f[m] \o g[i - 1]) \o b[i].places = f[m] \o (g[i - 1] \o b[i].places)
      <4>1. Cat(Cat(f[m], g[i - 1]), b[i].places) = Cat(f[m], Cat(g[i - 1], b[i].places))
        BY <1>8, <3>4, Regrouped
      <4> QED BY <4>1 DEF Cat
    <3>6. h[m + i] = f[m] \o g[i]
      BY <3>2, <3>3, <3>4, <3>5
    <3> QED BY <3>1, <3>6
  <2>3. 0 .. n \subseteq S
    <3> HIDE DEF S
    <3> QED BY <1>1, <2>1, <2>2, UpTo
  <2>4. n \in 0 .. n
    BY <1>1
  <2> QED BY <2>3, <2>4
<1> QED BY <1>4, <1>5, <1>6, <1>8, <1>9 DEF c

LEMMA PlacesOfOne ==
  ASSUME NEW x, x.places \in Seq(Nat)
  PROVE  Run!PlacesOf(<<x>>) = x.places /\ Run!PlacesOf(<<>>) = <<>>
<1> DEFINE T == {x}
           a == <<x>>
<1>1. Holding(T) /\ a \in Seq(T) /\ Len(a) = 1 /\ a[1] = x
  BY DEF Holding
<1> HIDE DEF a, T
<1>2. PICK f : Gathers(f, a)
  BY <1>1, PlacesMade
<1>3. /\ Run!PlacesOf(a) = f[1] /\ f[0] = <<>>
      /\ \A n \in 1 .. 1 : f[n] = f[n - 1] \o a[n].places
  BY <1>2, <1>1 DEF Gathers
<1>4. f[1] = f[0] \o a[1].places
  <2>1. 1 \in 1 .. 1 /\ 1 - 1 = 0
    OBVIOUS
  <2> QED BY <1>3, <2>1
<1>5. <<>> \o x.places = x.places
  BY ConcatEmptySeq
<1>6. Run!PlacesOf(<<>>) = <<>>
  <2> DEFINE b == <<>>
  <2>1. b \in Seq(T) /\ Len(b) = 0
    OBVIOUS
  <2> HIDE DEF b
  <2>2. PICK g : Gathers(g, b)
    BY <1>1, <2>1, PlacesMade
  <2>3. Run!PlacesOf(b) = <<>>
    BY <2>1, <2>2 DEF Gathers
  <2> QED BY <2>3 DEF b
<1> QED BY <1>1, <1>3, <1>4, <1>5, <1>6 DEF a

\* An orderly handler puts back the symbols it is given, and tokens of no place.
LEMMA PulledKeeps ==
  ASSUME grammar \in Grammars, NEW k \in DOMAIN grammar.rewrites, Orderly(k),
         NEW T, Holding(T), NEW terms \in Seq(T),
         Len(terms) = Len(grammar.productions[k].symbols)
  PROVE  \E U : /\ T \subseteq U /\ Holding(U) /\ Run!Pulled(k, terms) \in Seq(U)
                /\ Run!PlacesOf(Run!Pulled(k, terms)) = Run!PlacesOf(terms)
<1> DEFINE r == grammar.rewrites[k]
           l == Len(r)
           num == Len(terms)
           own == {Run!Terminal(r[i].tags, <<>>) : i \in DOMAIN r}
           U == T \cup own
           children(n) == {i \in 1 .. n : r[i].child # 0}
           count(n) == Cardinality(children(n))
           made == Run!Pulled(k, terms)
<1>1. /\ l \in Nat /\ DOMAIN r = 1 .. l
      /\ \A i \in 1 .. l : r[i].child \in 0 .. num
      /\ num \in Nat
  <2> DEFINE R == [child : 0 .. num, tags : Seq(grammar.terminals)]
  <2>1. r \in Seq(R)
    BY TextAssumption
  <2>2. \A x \in R : x.child \in 0 .. num
    OBVIOUS
  <2> HIDE DEF R, r
  <2>3. num \in Nat /\ l \in Nat /\ DOMAIN r = 1 .. l /\ \A i \in 1 .. l : r[i] \in R
    BY <2>1
  <2> QED BY <2>2, <2>3
<1>2. /\ \A i \in children(l) : r[i].child = count(i)
      /\ count(l) = num
  BY DEF Orderly
<1>3. made = [i \in 1 .. l |-> IF r[i].child # 0 THEN terms[r[i].child] ELSE Run!Terminal(r[i].tags, <<>>)]
  BY <1>1 DEF Run!Pulled
<1>4. \A i \in 1 .. l : Run!Terminal(r[i].tags, <<>>) \in own
  BY <1>1
<1>5. \A x \in own : x.places = <<>>
  BY DEF Run!Terminal
<1>6. Holding(U)
  <2>1. <<>> \in Seq(Nat)
    OBVIOUS
  <2> HIDE DEF own
  <2> QED BY <1>5, <2>1 DEF Holding
<1> HIDE DEF own, made, r
<1>7. \A i \in 1 .. l : made[i] = IF r[i].child # 0 THEN terms[r[i].child] ELSE Run!Terminal(r[i].tags, <<>>)
  BY <1>3
<1>8. \A i \in 1 .. num : terms[i] \in T
  OBVIOUS
<1>9. made \in Seq(U) /\ Len(made) = l
  <2>1. ASSUME NEW i \in 1 .. l PROVE made[i] \in U
    <3>1. CASE r[i].child # 0
      <4>1. r[i].child \in 1 .. num
        BY <1>1, <3>1
      <4> QED BY <1>7, <1>8, <3>1, <4>1
    <3>2. CASE r[i].child = 0
      BY <1>4, <1>7, <3>2
    <3> QED BY <3>1, <3>2
  <2>2. made = [i \in 1 .. l |-> made[i]]
    BY <1>3
  <2> HIDE DEF U, l
  <2> QED BY <1>1, <2>1, <2>2
<1>10. children(0) = {} /\ count(0) = 0
  <2>1. children(0) = {}
    BY <1>1
  <2> QED BY <2>1, FS_EmptySet
<1>11. ASSUME NEW n \in 1 .. l
       PROVE  /\ r[n].child = 0 => count(n) = count(n - 1)
              /\ r[n].child # 0 => count(n) = count(n - 1) + 1
              /\ count(n - 1) \in Nat
  <2>0. n - 1 \in Nat /\ n \notin 1 .. n - 1
    BY <1>1
  <2>1. IsFiniteSet(children(n - 1)) /\ count(n - 1) \in Nat
    <3>1. IsFiniteSet(1 .. n - 1)
      BY <2>0, FS_Interval
    <3>2. IsFiniteSet(children(n - 1))
      BY <3>1, FS_Subset
    <3> QED BY <3>2, FS_CardinalityType
  <2>2. CASE r[n].child = 0
    <3>1. children(n) = children(n - 1)
      BY <1>1, <2>2
    <3> QED BY <2>1, <2>2, <3>1
  <2>3. CASE r[n].child # 0
    <3>1. children(n) = children(n - 1) \cup {n} /\ n \notin children(n - 1)
      BY <1>1, <2>0, <2>3
    <3> HIDE DEF children
    <3>2. Cardinality(children(n - 1) \cup {n}) = Cardinality(children(n - 1)) + 1
      BY <2>1, <3>1, FS_AddElement
    <3> QED BY <2>1, <2>3, <3>1, <3>2
  <2> QED BY <2>1, <2>2, <2>3
<1>12. \A n \in 1 .. l : r[n].child # 0 => n \in children(l)
  OBVIOUS
<1> HIDE DEF U, count, children
<1>13. PICK f, g : Gathers(f, made) /\ Gathers(g, terms)
  BY <1>6, <1>9, PlacesMade
<1>14. /\ Run!PlacesOf(made) = f[l] /\ f[0] = <<>>
       /\ \A n \in 1 .. l : f[n] = f[n - 1] \o made[n].places
       /\ \A n \in 0 .. l : f[n] \in Seq(Nat)
  BY <1>9, <1>13 DEF Gathers
<1>15. /\ Run!PlacesOf(terms) = g[num] /\ g[0] = <<>>
       /\ \A n \in 1 .. num : g[n] = g[n - 1] \o terms[n].places
  BY <1>13 DEF Gathers
<1> HIDE DEF l, num
<1> DEFINE S == {n \in 0 .. l : f[n] = g[count(n)]}
<1>16. 0 \in S
  BY <1>1, <1>10, <1>14, <1>15
<1>17. ASSUME NEW n \in 1 .. l, n - 1 \in S PROVE n \in S
  <2>1. n \in 0 .. l /\ n - 1 \in 0 .. l /\ f[n - 1] = g[count(n - 1)]
    BY <1>1, <1>17
  <2>2. f[n] = f[n - 1] \o made[n].places /\ f[n - 1] \in Seq(Nat)
    BY <1>14, <2>1
  <2>3. CASE r[n].child = 0
    <3>1. made[n].places = <<>>
      BY <1>4, <1>5, <1>7, <2>3
    <3>2. f[n - 1] \o <<>> = f[n - 1]
      BY <2>2, ConcatEmptySeq
    <3> QED BY <1>11, <2>1, <2>2, <2>3, <3>1, <3>2
  <2>4. CASE r[n].child # 0
    <3> DEFINE c == count(n)
    <3>1. c = r[n].child /\ c \in 0 .. num /\ c # 0
      BY <1>1, <1>2, <1>12, <2>4
    <3>2. c - 1 = count(n - 1) /\ c \in 1 .. num
      <4>1. c = count(n - 1) + 1 /\ count(n - 1) \in Nat
        BY <1>11, <2>4
      <4> HIDE DEF c
      <4> QED BY <1>1, <3>1, <4>1
    <3>3. made[n] = terms[c]
      BY <1>7, <2>4, <3>1
    <3> HIDE DEF c
    <3>4. g[c] = g[c - 1] \o terms[c].places
      BY <1>15, <3>2
    <3>5. f[n] = g[c]
      BY <2>1, <2>2, <3>2, <3>3, <3>4
    <3> QED BY <2>1, <3>5 DEF c
  <2> QED BY <2>3, <2>4
<1>18. 0 .. l \subseteq S
  <2> HIDE DEF S
  <2> QED BY <1>1, <1>16, <1>17, UpTo
<1>19. f[l] = g[num]
  <2>1. l \in 0 .. l
    BY <1>1
  <2> QED BY <1>2, <1>18, <2>1
<1>20. T \subseteq U
  BY DEF U
<1> QED BY <1>6, <1>9, <1>14, <1>15, <1>19, <1>20 DEF made

PlacesUpTo(n) == [i \in 1 .. n |-> i]

\* What the symbol of a turn, with what is left behind it, adds to the places.
LEMMA SymbolPlaces ==
  ASSUME RInv, Holding(Range(parse_stack_matches)), Holding(Range(symbol_buffer)),
         Run!PlacesOf(parse_stack_matches \o symbol_buffer) = PlacesUpTo(pos - 1)
  PROVE  \E T : /\ Holding(T) /\ parse_stack_matches \in Seq(T)
                /\ Run!Symbol \in T /\ Run!BufferLeft \in Seq(T)
                /\ Run!PlacesOf(parse_stack_matches \o <<Run!Symbol>> \o Run!BufferLeft)
                     = PlacesUpTo(Run!PosAfter - 1)
<1> DEFINE pm == parse_stack_matches
           b == symbol_buffer
           s == Run!Symbol
           rest == Run!BufferLeft
           T == Range(pm) \cup Range(b) \cup {s}
<1>1. /\ pm \in Seq(Range(pm)) /\ b \in Seq(Range(b)) /\ pos \in Nat \ {0}
      /\ input \in Seq(Seq(terminals \cup {BAD}))
  BY DEF RInv, StacksMade
<1>2. CASE b # <<>>
  <2>1. s = Head(b) /\ rest = Tail(b) /\ Run!PosAfter = pos
    BY <1>2 DEF Run!Symbol, Run!BufferLeft, Run!PosAfter
  <2>2. s \in Range(b) /\ rest \in Seq(Range(b))
    BY <1>1, <1>2, <2>1
  <2>3. Holding(T)
    BY <2>2 DEF Holding
  <2> DEFINE x == <<s>>
  <2>4. x \o rest = b
    <3>1. /\ x \o rest \in Seq(Range(b)) /\ Len(x \o rest) = Len(b) /\ Len(b) \in Nat
          /\ \A i \in 1 .. Len(b) : (x \o rest)[i] = b[i]
      BY <1>1, <1>2, <2>1, <2>2
    <3> DEFINE c == x \o rest
               R == Range(b)
    <3>2. c \in Seq(R) /\ b \in Seq(R) /\ Len(c) = Len(b) /\ \A i \in 1 .. Len(b) : c[i] = b[i]
      BY <1>1, <3>1
    <3> HIDE DEF c, R, b
    <3>3. c = b
      BY <3>2
    <3> QED BY <3>3 DEF c
  <2>5. pm \in Seq(T) /\ x \in Seq(T) /\ rest \in Seq(T) /\ s \in T
    BY <1>1, <2>2
  <2>6. pm \o x \o rest = pm \o b
    <3> HIDE DEF pm, x, rest, T, b
    <3>1. (pm \o x) \o rest = pm \o (x \o rest)
      BY <2>5
    <3> QED BY <2>4, <3>1
  <2> HIDE DEF T
  <2> QED BY <2>1, <2>3, <2>5, <2>6
<1>3. CASE b = <<>>
  <2>1. rest = <<>> /\ rest \in Seq(T) /\ s \in T /\ pm \in Seq(T)
    BY <1>1, <1>3 DEF Run!BufferLeft
  <2>2. /\ s.places = IF pos <= Len(input) THEN <<pos>> ELSE <<>>
        /\ Run!PosAfter = IF pos <= Len(input) THEN pos + 1 ELSE pos
    BY <1>3 DEF Run!Symbol, Run!PosAfter, Run!Terminal
  <2>3. s.places \in Seq(Nat)
    BY <1>1, <2>2
  <2>4. Holding(T)
    <3> HIDE DEF s
    <3> QED BY <2>3 DEF Holding
  <2> DEFINE x == <<s>>
  <2>5. pm \o b = pm /\ x \in Seq(T) /\ pm \o x \in Seq(T)
    <3>1. x \in Seq(T)
      BY <2>1
    <3> HIDE DEF x, T, pm
    <3>2. pm \o <<>> = pm
      BY <2>1, ConcatEmptySeq
    <3> QED BY <1>3, <2>1, <3>1, <3>2
  <2>6. pm \o x \o rest = pm \o x
    <3> DEFINE c == pm \o x
    <3> HIDE DEF c, T
    <3>1. c \o <<>> = c
      BY <2>5, ConcatEmptySeq DEF c
    <3> QED BY <2>1, <3>1 DEF c
  <2>7. Run!PlacesOf(pm \o x) = PlacesUpTo(pos - 1) \o s.places
    <3>1. Run!PlacesOf(x) = s.places
      <4> HIDE DEF s
      <4> QED BY <2>3, PlacesOfOne
    <3> HIDE DEF T, x, pm
    <3>2. Run!PlacesOf(pm \o x) = Run!PlacesOf(pm) \o Run!PlacesOf(x)
      BY <2>1, <2>4, <2>5, PlacesConcat
    <3>3. Run!PlacesOf(pm) = PlacesUpTo(pos - 1)
      BY <2>5 DEF pm, b
    <3> QED BY <3>1, <3>2, <3>3
  <2>8. PlacesUpTo(pos - 1) \o s.places = PlacesUpTo(Run!PosAfter - 1)
    <3>0. PlacesUpTo(pos - 1) \in Seq(Nat) /\ Len(PlacesUpTo(pos - 1)) = pos - 1
      BY <1>1 DEF PlacesUpTo
    <3>1. CASE pos <= Len(input)
      <4> DEFINE u == PlacesUpTo(pos - 1)
                 p == pos
      <4>1. u \in Seq(Nat) /\ Len(u) = p - 1 /\ p \in Nat \ {0} /\ \A i \in 1 .. p - 1 : u[i] = i
        BY <1>1, <3>0 DEF PlacesUpTo
      <4> HIDE DEF u, p
      <4>2. /\ u \o <<p>> \in Seq(Nat) /\ Len(u \o <<p>>) = p
            /\ \A i \in 1 .. p : (u \o <<p>>)[i] = i
        BY <4>1
      <4>3. u \o <<p>> = [i \in 1 .. p |-> i]
        <5> DEFINE c == u \o <<p>>
        <5>1. c \in Seq(Nat) /\ Len(c) = p /\ \A i \in 1 .. p : c[i] = i
          BY <4>2
        <5> HIDE DEF c
        <5>2. c = [i \in 1 .. p |-> i]
          BY <4>1, <5>1
        <5> QED BY <5>2 DEF c
      <4>4. Run!PosAfter - 1 = p /\ s.places = <<p>>
        BY <1>1, <2>2, <3>1 DEF p
      <4> HIDE DEF s
      <4> QED BY <4>3, <4>4 DEF u, PlacesUpTo
    <3>2. CASE ~ (pos <= Len(input))
      <4>1. Run!PosAfter = pos /\ s.places = <<>>
        BY <2>2, <3>2
      <4>2. PlacesUpTo(pos - 1) \o <<>> = PlacesUpTo(pos - 1)
        BY <3>0, ConcatEmptySeq
      <4> HIDE DEF s
      <4> QED BY <4>1, <4>2
    <3> QED BY <3>1, <3>2
  <2> HIDE DEF T, s, rest
  <2> QED BY <2>1, <2>4, <2>6, <2>7, <2>8 DEF s, rest
<1> QED BY <1>2, <1>3

\* What a reduction puts back has the places of what it took.
LEMMA PutBackKeeps ==
  ASSUME grammar \in Grammars, NEW k, k \in DOMAIN grammar.rewrites => Orderly(k),
         NEW T, Holding(T), NEW terms \in Seq(T),
         Len(terms) = Len(grammar.productions[k].symbols)
  PROVE  \E U : /\ T \subseteq U /\ Holding(U) /\ Run!Reduced(k, terms) \in Seq(U)
                /\ Run!PlacesOf(Run!Reduced(k, terms)) = Run!PlacesOf(terms)
<1>1. CASE k \in DOMAIN grammar.rewrites
  <2>1. Run!Reduced(k, terms) = Run!Pulled(k, terms)
    BY <1>1 DEF Run!Reduced
  <2>2. \E U : /\ T \subseteq U /\ Holding(U) /\ Run!Pulled(k, terms) \in Seq(U)
               /\ Run!PlacesOf(Run!Pulled(k, terms)) = Run!PlacesOf(terms)
    BY <1>1, PulledKeeps
  <2> QED BY <2>1, <2>2
<1>2. CASE k \notin DOMAIN grammar.rewrites
  <2> DEFINE m == Run!Nonterminal(k, terms)
             U == T \cup {m}
             one == <<m>>
  <2>1. Run!Reduced(k, terms) = one
    BY <1>2 DEF Run!Reduced
  <2>2. m.places = Run!PlacesOf(terms)
    BY DEF Run!Nonterminal
  <2> HIDE DEF m
  <2>3. m.places \in Seq(Nat)
    BY <2>2, PlacesConcat
  <2>4. Holding(U) /\ one \in Seq(U) /\ T \subseteq U
    BY <2>3 DEF Holding
  <2>5. Run!PlacesOf(one) = m.places
    BY <2>3, PlacesOfOne
  <2> HIDE DEF one, U
  <2> QED BY <2>1, <2>2, <2>4, <2>5
<1> QED BY <1>1, <1>2

\* What is watched, and that there is nothing in the buffer before the first parse.
KeptInv ==
  /\ parses \in Nat
  /\ parses = 0 => symbol_buffer = <<>> /\ status # "running"
  /\ status = "running" /\ parses = 1 /\ (\A k \in DOMAIN grammar.rewrites : Orderly(k)) =>
       /\ Holding(Range(parse_stack_matches)) /\ Holding(Range(symbol_buffer))
       /\ Run!PlacesOf(parse_stack_matches \o symbol_buffer) = PlacesUpTo(pos - 1)

LEMMA ReduceKeeps ==
  ASSUME GInv, RInv, Run!Reduce, \A k \in DOMAIN grammar.rewrites : Orderly(k),
         Holding(Range(parse_stack_matches)), Holding(Range(symbol_buffer)),
         Run!PlacesOf(parse_stack_matches \o symbol_buffer) = PlacesUpTo(pos - 1)
  PROVE  /\ Holding(Range(parse_stack_matches')) /\ Holding(Range(symbol_buffer'))
         /\ Run!PlacesOf(parse_stack_matches' \o symbol_buffer') = PlacesUpTo(pos' - 1)
<1> DEFINE pm == parse_stack_matches
           n == Len(pm)
           s == Run!Symbol
           x == <<s>>
           rest == Run!BufferLeft
           k == Run!curr.actions[Run!tag].reduce
           num == Len(SymbolsOf(k))
           left == n - num
           terms == SubSeq(pm, left + 1, n)
           under == SubSeq(pm, 1, left)
           made == Run!Reduced(k, terms)
<1>0. /\ pos' = Run!PosAfter /\ status = "running"
      /\ symbol_buffer' = made \o x \o rest /\ parse_stack_matches' = under
  BY DEF Run!Reduce, Run!Proceed, SymbolsOf
<1>1. PICK T : /\ Holding(T) /\ pm \in Seq(T) /\ s \in T /\ rest \in Seq(T)
               /\ Run!PlacesOf(pm \o x \o rest) = PlacesUpTo(Run!PosAfter - 1)
  BY SymbolPlaces
<1>2. phase = "ready" /\ GrammarMade /\ grammar \in Grammars /\ AutomatonMade
  <2>1. phase = "ready"
    BY <1>0, StackFacts
  <2> QED BY <2>1, TableFacts DEF AutomatonMade
<1>3. /\ k \in DOMAIN productions /\ k # Len(productions)
      /\ \E i \in Run!curr.closure : IsDone(i) /\ i.prod = k
  BY ReduceChoice
<1> HIDE DEF s, k
<1>4. num \in Nat /\ left \in Nat /\ n \in Nat /\ left + num = n /\ left <= n
  <2>1. PICK i \in Run!curr.closure : IsDone(i) /\ i.prod = k
    BY <1>3
  <2>2. num \in Nat /\ left \in Nat
    BY <1>0, <2>1, HandleFacts
  <2>3. n \in Nat
    BY <1>1
  <2> HIDE DEF n, num
  <2> QED BY <2>2, <2>3
<1>5. SymbolsOf(k) = grammar.productions[k].symbols
  BY <1>2, <1>3, ClientProduction DEF SymbolsOf
<1>6. /\ under \in Seq(T) /\ terms \in Seq(T) /\ Len(terms) = num
      /\ under \o terms = pm
  <2> DEFINE l == left
             p == pm
  <2>1. /\ p \in Seq(T) /\ l \in Nat /\ num \in Nat /\ Len(p) = l + num
        /\ under = SubSeq(p, 1, l) /\ terms = SubSeq(p, l + 1, l + num)
    BY <1>1, <1>4
  <2> HIDE DEF l, p, num, under, terms
  <2>2. under \in Seq(T) /\ Len(under) = l /\ \A i \in 1 .. l : under[i] = p[i]
    BY <2>1
  <2>3. terms \in Seq(T) /\ Len(terms) = num /\ \A i \in 1 .. num : terms[i] = p[l + i]
    BY <2>1
  <2>4. under \o terms = p
    <3> DEFINE c == under \o terms
    <3>1. c \in Seq(T) /\ Len(c) = l + num
          /\ \A i \in 1 .. l + num : c[i] = IF i <= l THEN under[i] ELSE terms[i - l]
      BY <2>1, <2>2, <2>3
    <3>2. ASSUME NEW i \in 1 .. l + num PROVE c[i] = p[i]
      <4>1. CASE i <= l
        <5>1. i \in 1 .. l
          BY <2>1, <4>1
        <5> QED BY <2>2, <3>1, <4>1, <5>1
      <4>2. CASE ~(i <= l)
        <5>1. i - l \in 1 .. num /\ l + (i - l) = i
          BY <2>1, <4>2
        <5>2. terms[i - l] = p[l + (i - l)]
          BY <2>3, <5>1
        <5> QED BY <3>1, <4>2, <5>1, <5>2
      <4> QED BY <4>1, <4>2
    <3> HIDE DEF c
    <3>3. c = p
      BY <2>1, <3>1, <3>2
    <3> QED BY <3>3 DEF c
  <2> QED BY <2>2, <2>3, <2>4 DEF p
<1>7. PICK U : /\ T \subseteq U /\ Holding(U) /\ made \in Seq(U)
               /\ Run!PlacesOf(made) = Run!PlacesOf(terms)
  <2>1. Len(terms) = Len(grammar.productions[k].symbols)
    BY <1>5, <1>6
  <2> HIDE DEF terms
  <2> QED BY <1>1, <1>2, <1>6, <2>1, PutBackKeeps
<1> HIDE DEF under, terms, made, left, num, n, rest
<1>8. /\ under \in Seq(U) /\ terms \in Seq(U) /\ x \in Seq(U) /\ rest \in Seq(U)
  BY <1>1, <1>6, <1>7
<1> HIDE DEF x
<1> DEFINE A == Run!PlacesOf(under)
           B == Run!PlacesOf(terms)
           C == Run!PlacesOf(x)
           D == Run!PlacesOf(rest)
<1>9. A \in Seq(Nat) /\ B \in Seq(Nat) /\ C \in Seq(Nat) /\ D \in Seq(Nat)
  BY <1>7, <1>8, PlacesConcat
<1>10. Run!PlacesOf(pm \o x \o rest) = ((A \o B) \o C) \o D
  <2>1. (under \o terms) \in Seq(U) /\ (under \o terms) \o x \in Seq(U)
    BY <1>8
  <2>2. Run!PlacesOf(under \o terms) = A \o B
    BY <1>7, <1>8, PlacesConcat
  <2>3. Run!PlacesOf((under \o terms) \o x) = (A \o B) \o C
    BY <1>7, <1>8, <2>1, <2>2, PlacesConcat
  <2>4. Run!PlacesOf(((under \o terms) \o x) \o rest) = ((A \o B) \o C) \o D
    BY <1>7, <1>8, <2>1, <2>3, PlacesConcat
  <2> HIDE DEF pm
  <2> QED BY <1>6, <2>4
<1>11. Run!PlacesOf(under \o (made \o x \o rest)) = A \o ((B \o C) \o D)
  <2>1. made \o x \in Seq(U) /\ made \o x \o rest \in Seq(U)
    BY <1>7, <1>8
  <2>2. Run!PlacesOf(made \o x) = B \o C
    BY <1>7, <1>8, PlacesConcat
  <2>3. Run!PlacesOf((made \o x) \o rest) = (B \o C) \o D
    BY <1>7, <1>8, <2>1, <2>2, PlacesConcat
  <2> DEFINE c == made \o x \o rest
  <2>4. c \in Seq(U) /\ Run!PlacesOf(c) = (B \o C) \o D
    BY <2>1, <2>3
  <2> HIDE DEF c
  <2>5. Run!PlacesOf(under \o c) = A \o Run!PlacesOf(c)
    BY <1>7, <1>8, <2>4, PlacesConcat
  <2> QED BY <2>4, <2>5 DEF c
<1>12. A \o ((B \o C) \o D) = ((A \o B) \o C) \o D
  <2> HIDE DEF A, B, C, D
  <2>1. Cat(A, Cat(Cat(B, C), D)) = Cat(Cat(Cat(A, B), C), D)
    BY <1>9, RegroupedTwice
  <2> QED BY <2>1 DEF Cat
<1>13. Holding(Range(under)) /\ Holding(Range(made \o x \o rest))
  <2>1. made \o x \o rest \in Seq(U)
    BY <1>7, <1>8
  <2>2. \A u \in Seq(U) : Range(u) \subseteq U
    BY DEF Range
  <2> QED BY <1>7, <1>8, <2>1, <2>2 DEF Holding
<1> QED BY <1>0, <1>1, <1>10, <1>11, <1>12, <1>13

LEMMA ShiftKeeps ==
  ASSUME GInv, RInv, Run!Shift,
         Holding(Range(parse_stack_matches)), Holding(Range(symbol_buffer)),
         Run!PlacesOf(parse_stack_matches \o symbol_buffer) = PlacesUpTo(pos - 1)
  PROVE  /\ Holding(Range(parse_stack_matches')) /\ Holding(Range(symbol_buffer'))
         /\ Run!PlacesOf(parse_stack_matches' \o symbol_buffer') = PlacesUpTo(pos' - 1)
<1> DEFINE pm == parse_stack_matches
           s == Run!Symbol
           x == <<s>>
           rest == Run!BufferLeft
<1>0. pos' = Run!PosAfter /\ symbol_buffer' = rest /\ parse_stack_matches' = Append(pm, s)
  BY DEF Run!Shift
<1>1. PICK T : /\ Holding(T) /\ pm \in Seq(T) /\ s \in T /\ rest \in Seq(T)
               /\ Run!PlacesOf(pm \o x \o rest) = PlacesUpTo(Run!PosAfter - 1)
  BY SymbolPlaces
<1> HIDE DEF s, rest
<1>2. Append(pm, s) = pm \o x /\ Append(pm, s) \in Seq(T)
  BY <1>1
<1>3. \A u \in Seq(T) : Range(u) \subseteq T
  BY DEF Range
<1>4. Holding(Range(Append(pm, s))) /\ Holding(Range(rest))
  BY <1>1, <1>2, <1>3 DEF Holding
<1> QED BY <1>0, <1>1, <1>2, <1>4

LEMMA KeptInvStep == GInv /\ RInv /\ KeptInv /\ [Next]_vars => KeptInv'
<1> SUFFICES ASSUME GInv, RInv, KeptInv, [Next]_vars PROVE KeptInv'
  OBVIOUS
<1>0. grammar' = grammar
  BY GrammarKept
<1>1. \A k : Orderly(k)' <=> Orderly(k)
  BY <1>0 DEF Orderly
<1>2. CASE UNCHANGED runtimeVars
  <2>1. /\ parses' = parses /\ symbol_buffer' = symbol_buffer /\ status' = status /\ pos' = pos
        /\ parse_stack_matches' = parse_stack_matches
    BY <1>2 DEF runtimeVars
  <2>2. (Run!PlacesOf(parse_stack_matches \o symbol_buffer) = PlacesUpTo(pos - 1))'
          <=> Run!PlacesOf(parse_stack_matches \o symbol_buffer) = PlacesUpTo(pos - 1)
    BY <2>1 DEF Run!PlacesOf, PlacesUpTo
  <2>3. /\ Holding(Range(parse_stack_matches))' <=> Holding(Range(parse_stack_matches))
        /\ Holding(Range(symbol_buffer))' <=> Holding(Range(symbol_buffer))
    BY <2>1 DEF Holding, Range
  <2> QED BY <1>0, <1>1, <2>1, <2>2, <2>3 DEF KeptInv
<1>3. ASSUME NEW tokens \in grammar.inputs, Parse(tokens) PROVE KeptInv'
  <2>1. /\ pos' = 1 /\ parse_stack_matches' = <<>> /\ symbol_buffer' = symbol_buffer
        /\ parses' = parses + 1
    BY <1>3 DEF Parse, Run!Parse
  <2>2. parses \in Nat /\ (parses = 0 => symbol_buffer = <<>>)
    BY DEF KeptInv
  <2>3. parses' \in Nat /\ parses' # 0 /\ (parses' = 1 => parses = 0)
    BY <2>1, <2>2
  <2>4. Holding(Range(<<>>))
    BY DEF Holding, Range
  <2>5. Run!PlacesOf(<<>> \o <<>>) = PlacesUpTo(1 - 1)
    <3> DEFINE z == [places |-> <<>>]
    <3>1. z.places \in Seq(Nat)
      OBVIOUS
    <3> HIDE DEF z
    <3>2. Run!PlacesOf(<<>>) = <<>>
      BY <3>1, PlacesOfOne
    <3>3. <<>> \o <<>> = <<>>
      OBVIOUS
    <3>4. PlacesUpTo(1 - 1) = <<>>
      BY DEF PlacesUpTo
    <3> QED BY <3>2, <3>3, <3>4
  <2>6. parses = 0 => /\ Holding(Range(parse_stack_matches')) /\ Holding(Range(symbol_buffer'))
                      /\ (Run!PlacesOf(parse_stack_matches \o symbol_buffer) = PlacesUpTo(pos - 1))'
    <3> SUFFICES ASSUME parses = 0
                 PROVE  /\ Holding(Range(parse_stack_matches')) /\ Holding(Range(symbol_buffer'))
                        /\ (Run!PlacesOf(parse_stack_matches \o symbol_buffer) = PlacesUpTo(pos - 1))'
      OBVIOUS
    <3>1. pos' = 1 /\ parse_stack_matches' = <<>> /\ symbol_buffer' = <<>>
      BY <2>1, <2>2
    <3>2. (Run!PlacesOf(parse_stack_matches \o symbol_buffer) = PlacesUpTo(pos - 1))'
            <=> Run!PlacesOf(<<>> \o <<>>) = PlacesUpTo(1 - 1)
      BY <3>1 DEF Run!PlacesOf, PlacesUpTo
    <3> QED BY <2>4, <2>5, <3>1, <3>2
  <2> QED BY <2>3, <2>6 DEF KeptInv, Holding
<1>4. CASE Turn
  <2>1. parses' = parses /\ status = "running"
    BY <1>4 DEF Turn, Run!Turn, Run!Shift, Run!Reduce, Run!Accept, Run!Reject, Run!BadToken, Run!Proceed
  <2>2. parses \in Nat /\ parses # 0
    BY <2>1 DEF KeptInv
  <2>3. CASE status' # "running"
    BY <2>1, <2>2, <2>3 DEF KeptInv
  <2>4. CASE Run!Shift \/ Run!Reduce
    <3> SUFFICES ASSUME parses = 1, \A k \in DOMAIN grammar.rewrites : Orderly(k)
                 PROVE  /\ Holding(Range(parse_stack_matches'))
                        /\ Holding(Range(symbol_buffer'))
                        /\ (Run!PlacesOf(parse_stack_matches \o symbol_buffer) = PlacesUpTo(pos - 1))'
      BY <1>0, <1>1, <2>1, <2>2 DEF KeptInv, Holding
    <3>1. /\ Holding(Range(parse_stack_matches)) /\ Holding(Range(symbol_buffer))
          /\ Run!PlacesOf(parse_stack_matches \o symbol_buffer) = PlacesUpTo(pos - 1)
      BY <2>1 DEF KeptInv
    <3>2. /\ Holding(Range(parse_stack_matches')) /\ Holding(Range(symbol_buffer'))
          /\ Run!PlacesOf(parse_stack_matches' \o symbol_buffer') = PlacesUpTo(pos' - 1)
      BY <2>4, <3>1, ShiftKeeps, ReduceKeeps
    <3> QED BY <3>2 DEF Run!PlacesOf, PlacesUpTo
  <2>5. Run!Accept \/ Run!Reject \/ Run!BadToken => status' # "running"
    BY DEF Run!Accept, Run!Reject, Run!BadToken, Run!GiveUp
  <2> QED BY <1>4, <2>3, <2>4, <2>5 DEF Turn, Run!Turn
<1> QED BY <1>2, <1>3, <1>4 DEF Next, vars

-----------------------------------------------------------------------------
(* Theorems                                                                 *)

\* What parse() accepts the grammar derives: whatever the grammar, however its
\* conflicts were decided, and whichever of its tags each token went by.  And a
\* text that it derives, of tokens with one tag each, is accepted by tables made
\* without a conflict.  Both are about grammars without rewrites.
THEOREM LanguageAccepted == Spec => []AcceptsTheLanguage
<1>1. Complete => AcceptsTheLanguage
  <2> SUFFICES ASSUME Complete, NoRewrites
               PROVE  /\ status = "accepted" => Derives(grammar, input)
                      /\ status \in {"null", "undefined"} /\ OneTag /\ conflicts = {}
                           /\ precedence = <<>> /\ production_precedence = <<>>
                           => ~ Derives(grammar, input)
    BY DEF AcceptsTheLanguage
  <2>1. Derives(grammar, input) <=> Sentence(input)
    <3>1. grammar \in Grammars /\ input \in Seq(Seq(grammar.terminals \cup {BAD}))
      BY DEF Complete, GInv, TextGiven
    <3> QED BY <3>1, DerivesSentence
  <2>2. status = "accepted" => Sentence(input)
    BY DEF Complete, SInv, OnlySentences
  <2>3. Choiceless => status \notin {"null", "undefined"}
    BY DEF Complete, LInv
  <2> QED BY <2>1, <2>2, <2>3 DEF Choiceless, Unconfigured
<1> QED BY <1>1, InitComplete, CompleteStep, PTL DEF Spec

\* Without rewrites a parse leaves nothing in the buffer for the next one, however
\* it ends: reset() need not empty it.
THEOREM NothingLeftBehind == Spec => [](NoRewrites => BufferEmptied)
<1>1. Complete => (NoRewrites => BufferEmptied)
  BY DEF Complete, SInv, BufferUsed, BufferEmptied
<1> QED BY <1>1, InitComplete, CompleteStep, PTL DEF Spec

\* While a text is parsed for the first time, by orderly handlers if any, no
\* token is lost, repeated or swapped on its way through the stack and the buffer.
THEOREM TokensAreKept == Spec => []TokensKept
<1>1. Init => GInv /\ RInv /\ KeptInv
  <2>1. Init => KeptInv
    BY DEF Init, Run!RunInit, KeptInv
  <2> QED BY <2>1, InitGInv, InitRInv
<1>2. GInv /\ RInv /\ KeptInv /\ [Next]_vars => (GInv /\ RInv /\ KeptInv)'
  BY GInvStep, RInvStep, KeptInvStep
<1>3. KeptInv => TokensKept
  BY DEF KeptInv, TokensKept, PlacesUpTo
<1> QED BY <1>1, <1>2, <1>3, PTL DEF Spec
=============================================================================
