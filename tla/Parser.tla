------------------------------- MODULE Parser -------------------------------
(***************************************************************************)
(* A Parser as its clients use it: configured, generated once, then asked  *)
(* to parse one text after another.  ParserGenerator makes the tables and  *)
(* LRParser runs on them; they share `productions' and `states', and the   *)
(* rewrite handlers come with the grammar.                                 *)
(***************************************************************************)
EXTENDS ParserGenerator

CONSTANTS
  BAD,        \* Lexer::TOKEN_BAD
  MaxParses   \* bound on the calls of parse

\* The lexer tags a token with what rules it has, or as bad, which is its own tag; a
\* rewrite handler returns children of the match it is given, and tokens.
ASSUME TextAssumption ==
  \A g \in Grammars :
    /\ BAD \notin g.terminals \cup g.nonterminals \cup {ROOT, END}
    /\ \A text \in g.inputs : text \in Seq(Seq(g.terminals \cup {BAD}) \ {<<>>})
    /\ \A k \in DOMAIN g.rewrites :
         /\ k \in DOMAIN g.productions
         /\ g.rewrites[k] \in
              Seq([child : 0 .. Len(g.productions[k].symbols), tags : Seq(g.terminals)])

VARIABLES
  input, pos, symbol_buffer, parse_stack_states, parse_stack_matches, status, result,
  parses      \* calls of parse so far

runtimeVars == <<input, pos, symbol_buffer, parse_stack_states, parse_stack_matches,
                 status, result, parses>>
vars == <<genVars, precVars, runtimeVars>>

Run == INSTANCE LRParser WITH rewrites <- grammar.rewrites

Init ==
  /\ GenInit
  /\ Run!RunInit
  /\ parses = 0

Parse(tokens) ==
  /\ phase = "ready"
  /\ parses < MaxParses
  /\ UNCHANGED <<genVars, precVars>>
  /\ Run!Parse(tokens)
  /\ parses' = parses + 1

Turn ==
  /\ UNCHANGED <<genVars, precVars, parses>>
  /\ Run!Turn

Next ==
  \/ GenNext /\ UNCHANGED runtimeVars
  \/ \E tokens \in grammar.inputs : Parse(tokens)
  \/ Turn

Spec == Init /\ [][Next]_vars

\* generate() and parse() run to their end once called.
FairSpec ==
  /\ Spec
  /\ WF_vars((Itemsets \/ Lalr \/ GenerateActions) /\ UNCHANGED runtimeVars)
  /\ WF_vars(Turn)

TypeOK ==
  /\ PrecTypeOK
  /\ type \in {"LALR1", "LR1"}
  /\ nullable \subseteq Nonterminals
  /\ \A q \in DOMAIN states : states[q].kernel \subseteq states[q].closure
  /\ \A n \in DOMAIN queue : queue[n] \in DOMAIN states
  /\ \A n \in DOMAIN parse_stack_states : parse_stack_states[n] \in DOMAIN states
  /\ \A n \in DOMAIN parse_stack_matches :
       parse_stack_matches[n].prod \in DOMAIN productions \cup {0}
  /\ status \in {"idle", "running", "accepted", "null", "undefined"}

-----------------------------------------------------------------------------
(* Properties                                                               *)

\* register_state finds a state that exists: two states never have the same
\* kernel, and a transition leads to the state whose kernel is made of the items
\* advanced over its symbol.  Once the list of states is empty, every symbol
\* after a dot has its transition.
StatesCanonical ==
  /\ TypeOK
  /\ \A q, u \in DOMAIN states : states[q].kernel = states[u].kernel => q = u
  /\ \A q \in DOMAIN states : \A s \in DOMAIN states[q].next :
       states[Goto(q, s)].kernel =
         {Advanced(i) : i \in {j \in states[q].closure : ~IsDone(j) /\ NextSymbol(j) = s}}
  /\ phase \notin {"configure", "itemsets"} =>
       \A q \in DOMAIN states : DOMAIN states[q].next = SymbolsAfterDots(states[q].closure)

\* The LR(1) items of the grammar, placed in the LR(0) states they run through:
\* <<state, production, dot, lookahead>>.
ItemPlaces ==
  UNION {{<<q, i.prod, i.dot, t>> : i \in states[q].closure, t \in terminals} : q \in DOMAIN states}

\* What can come after the next symbol of the item: what the rest of the right-hand
\* side begins with, and the lookahead if that can vanish.
Upcoming(x) ==
  LET w == SymbolsOf(x[2])
      rest == SubSeq(w, x[3] + 2, Len(w))
  IN  (UNION {firsts[rest[j]] : j \in Visible(rest)}) \cup (IF Vanishes(rest) THEN {x[4]} ELSE {})

\* Advancing over the next symbol, and predicting its productions.
StepsOf(x) ==
  LET w == SymbolsOf(x[2])
      s == w[x[3] + 1]
  IN  IF x[3] = Len(w) THEN {}
      ELSE {<<Goto(x[1], s), x[2], x[3] + 1, x[4]>>}
             \cup {<<x[1], k, 0, t>> : k \in ProductionsOf(s), t \in Upcoming(x)}

Placed ==
  LedTo(ItemPlaces, [x \in ItemPlaces |-> StepsOf(x)], {<<1, Len(productions), 0, END>>})

\* The reductions LALR(1) has, and those the code computes.
WantedReductions ==
  {<<x[1], x[2], x[4]>> :
     x \in {y \in Placed : y[3] = Len(SymbolsOf(y[2])) /\ productions[y[2]].target # ROOT}}
MadeReductions ==
  UNION {UNION {{<<q, k, t>> : k \in states[q].reductions[t]} :
                  t \in DOMAIN states[q].reductions} : q \in DOMAIN states}

\* DeRemer and Pennello's method, as coded, misses no lookahead: wherever
\* LALR(1) reduces, by the LR(1) items of states with equal LR(0) items taken
\* together, so do the tables.
LookaheadsComplete ==
  phase = "actions" /\ type = "LALR1" => WantedReductions \subseteq MadeReductions

\* A reduction finds its right-hand side on the stack, symbol by symbol, and
\* the state under it has somewhere to go with the nonterminal.
HandleOnStack ==
  status = "running" =>
    \A i \in {i \in Run!curr.closure : IsDone(i) /\ productions[i.prod].target # ROOT} :
      LET n == Len(SymbolsOf(i.prod))
          left == Len(parse_stack_matches) - n
      IN  /\ left >= 0
          /\ \A d \in 1 .. n :
               \E g \in DOMAIN Run!TagsOf(parse_stack_matches[left + d]) :
                 Run!TagsOf(parse_stack_matches[left + d])[g] = SymbolsOf(i.prod)[d]
          /\ productions[i.prod].target
               \in DOMAIN states[parse_stack_states[left + 1]].next

NoRewrites == DOMAIN grammar.rewrites = {}

\* The assertions at the end of parse(): one match, for the start symbol, and
\* nothing left over.  The buffer is empty again unless a rewrite filled it.
AcceptedWhole ==
  status = "accepted" =>
    /\ Len(parse_stack_states) = 2 /\ parse_stack_matches = <<>>
    /\ result.prod # 0 /\ productions[result.prod].target = grammar.start
    /\ NoRewrites => symbol_buffer = <<>>

-----------------------------------------------------------------------------
(* What a grammar derives                                                   *)

\* Spans <<i, j, s>> of a text: s from before token i to before token j.  Here those
\* of w, one after the other, from before token i: where they end.
EndsOf(D, w, i) ==
  LET ends[n \in 0 .. Len(w)] ==
        IF n = 0 THEN {i} ELSE {x[2] : x \in {x \in D : x[1] \in ends[n - 1] /\ x[3] = w[n]}}
  IN  ends[Len(w)]

\* The grammar derives the text from its start symbol: its spans are those of the
\* tokens, whichever of its tags a token has, and what productions make of spans.
Derives(g, tokens) ==
  LET places == 1 .. Len(tokens) + 1
      all == places \X places \X (g.terminals \cup g.nonterminals \cup {BAD})
      leaves == UNION {{<<i, i + 1, tokens[i][n]>> : n \in DOMAIN tokens[i]} : i \in DOMAIN tokens}
      made(D) == UNION {UNION {{<<i, j, p.target>> : j \in EndsOf(D, p.symbols, i)} :
                               p \in Range(g.productions)} : i \in places}
      spans[D \in SUBSET all] ==
        LET more == D \cup made(D) IN IF more = D THEN D ELSE spans[more]
  IN  <<1, Len(tokens) + 1, g.start>> \in spans[leaves]

OneTag == \A i \in DOMAIN input : Len(input[i]) = 1

\* parse() accepts only what the grammar derives, however conflicts were
\* resolved and whichever of a token's tags were used; and of the texts whose
\* tokens have one tag each it accepts all that the grammar derives, when
\* generate() found no conflict and took no decision by precedence.  Of grammars
\* with rewrites nothing is said.
AcceptsTheLanguage ==
  NoRewrites =>
    /\ status = "accepted" => Derives(grammar, input)
    /\ status \in {"null", "undefined"} /\ OneTag /\ conflicts = {}
         /\ precedence = <<>> /\ production_precedence = <<>> => ~ Derives(grammar, input)

\* A handler returns all children of the match it is given, in their order.
Orderly(k) ==
  LET r == grammar.rewrites[k]
      children(n) == {i \in 1 .. n : r[i].child # 0}
  IN  /\ \A i \in children(Len(r)) : r[i].child = Cardinality(children(i))
      /\ Cardinality(children(Len(r))) = Len(grammar.productions[k].symbols)

\* While a parse runs, the matches on the stack and then the buffer hold the
\* tokens read so far, each once and in the order of the text: reductions, and
\* rewrites that put all of the symbols back, lose, repeat or swap none.
TokensKept ==
  status = "running" /\ parses = 1 /\ (\A k \in DOMAIN grammar.rewrites : Orderly(k)) =>
    Run!PlacesOf(parse_stack_matches \o symbol_buffer) = [i \in 1 .. pos - 1 |-> i]

\* What a handler returns is derived from the nonterminal whose production it rewrites.
Rereads(k) ==
  LET p == grammar.productions[k]
      r == grammar.rewrites[k]
      tagsOf(x) == IF x.child # 0 THEN <<p.symbols[x.child]>> ELSE x.tags
  IN  /\ \A i \in DOMAIN r : Len(tagsOf(r[i])) = 1
      /\ Derives([grammar EXCEPT !.start = p.target], [i \in DOMAIN r |-> tagsOf(r[i])])

\* A parse that ends, a rejected one too, leaves nothing in the buffer, which reset() does
\* not empty: not without rewrites, whatever the tables; nor with them, if what handlers
\* put there can be read in its place and the tables leave no choice.
BufferEmptied ==
  status # "running"
    /\ (NoRewrites \/ (OneTag /\ conflicts = {} /\ precedence = <<>> /\ production_precedence = <<>>
                        /\ \A k \in DOMAIN grammar.rewrites : Rereads(k)))
  => symbol_buffer = <<>>

\* generate() and parse() return.
GenerateReturns == [](phase = "itemsets" => <>(phase = "ready"))
ParseReturns == [](status = "running" => <>(status # "running"))
=============================================================================
