------------------------------ MODULE LRParser ------------------------------
(***************************************************************************)
(* Parser::parse and what it calls: the loop that takes a symbol from      *)
(* `symbol_buffer' or from the lexer and shifts it, reduces, accepts or    *)
(* gives up.  One action is one turn of the loop.                          *)
(*                                                                         *)
(* A reduction puts the symbol it has seen back into the buffer and the    *)
(* new nonterminal before it; a production with a rewrite handler puts     *)
(* back the symbols the handler returns instead.  The buffer belongs to    *)
(* the Parser and is not emptied between two calls of parse.               *)
(*                                                                         *)
(* The tables, `states' and `productions', are those of generate() (module *)
(* ParserGenerator) and are only read here.                                *)
(***************************************************************************)
EXTENDS Naturals, Sequences

CONSTANTS
  END, BAD     \* Lexer::TOKEN_END and Lexer::TOKEN_BAD

VARIABLES
  productions,           \* [target, symbols], in order of index
  states,                \* lr1_states: kernel, closure, accept, next, actions
  rewrites,              \* production -> what its rewrite handler returns
  input,                 \* the tokens of the text, each its sequence of tags
  pos,                   \* the token the lexer is at
  symbol_buffer,         \* top first
  parse_stack_states,    \* bottom first
  parse_stack_matches,   \* bottom first
  status,                \* "idle", "running", "accepted", "null" or "undefined"
  result                 \* the match parse() returned last

tables == <<productions, states, rewrites>>

\* The places of the text's tokens under matches, one after the other.
PlacesOf(ms) ==
  LET places[n \in 0 .. Len(ms)] == IF n = 0 THEN <<>> ELSE places[n - 1] \o ms[n].places
  IN  places[Len(ms)]

\* A MatchedTerminal, for a token at a place of the text, at none if it is END or made
\* by a rewrite handler; and a MatchedNonterminal.
Terminal(tags, places) == [prod |-> 0, tags |-> tags, places |-> places, terms |-> <<>>]
Nonterminal(k, terms) == [prod |-> k, tags |-> <<>>, places |-> PlacesOf(terms), terms |-> terms]
NoMatch == Terminal(<<>>, <<>>)

\* The symbols parse_advance tries for a match, in order.
TagsOf(m) == IF m.prod = 0 THEN m.tags ELSE <<productions[m.prod].target>>

RunInit ==
  /\ input = <<>> /\ pos = 1
  /\ symbol_buffer = <<>> /\ parse_stack_states = <<>> /\ parse_stack_matches = <<>>
  /\ status = "idle"
  /\ result = NoMatch

Idle == status \in {"idle", "accepted", "null"}

\* A fault: the stacks are not reset.
ParseOnTop(tokens) ==
  /\ Idle
  /\ input' = tokens /\ pos' = 1
  /\ parse_stack_states' = Append(parse_stack_states, 1)
  /\ status' = "running"
  /\ result' = NoMatch
  /\ UNCHANGED <<tables, symbol_buffer, parse_stack_matches>>

\* reset() empties the two stacks, and leaves the buffer.
Parse(tokens) ==
  /\ Idle
  /\ input' = tokens /\ pos' = 1
  /\ parse_stack_states' = <<1>>
  /\ parse_stack_matches' = <<>>
  /\ status' = "running"
  /\ result' = NoMatch
  /\ UNCHANGED <<tables, symbol_buffer>>

-----------------------------------------------------------------------------
(* The symbol a turn is about, and what the state on top says of it.        *)

\* next_symbol: the buffer first; past the last token the lexer returns END
\* as often as it is asked.
Symbol ==
  IF symbol_buffer # <<>> THEN Head(symbol_buffer)
  ELSE IF pos <= Len(input) THEN Terminal(input[pos], <<pos>>)
  ELSE Terminal(<<END>>, <<>>)

BufferLeft == IF symbol_buffer = <<>> THEN <<>> ELSE Tail(symbol_buffer)
PosAfter == IF symbol_buffer = <<>> /\ pos <= Len(input) THEN pos + 1 ELSE pos

curr == states[parse_stack_states[Len(parse_stack_states)]]

\* The first tag with an action, if any; in an accepting state, END is one.
Usable ==
  {i \in DOMAIN TagsOf(Symbol) :
     \/ TagsOf(Symbol)[i] \in DOMAIN curr.actions
     \/ curr.accept /\ TagsOf(Symbol)[i] = END}
tag == TagsOf(Symbol)[CHOOSE i \in Usable : \A j \in Usable : i <= j]

IsBad == Symbol.prod = 0 /\ Symbol.tags[1] = BAD

Proceed ==
  /\ status = "running"
  /\ ~IsBad
  /\ Usable # {}

\* parse() reads the top of the stack of matches once the loop has ended.  If
\* there is none that is undefined; else null is returned.
GiveUp ==
  /\ status' \in IF parse_stack_matches = <<>> THEN {"null", "undefined"} ELSE {"null"}
  /\ UNCHANGED <<input, parse_stack_states, parse_stack_matches, result, tables>>

-----------------------------------------------------------------------------
BadToken ==
  /\ status = "running"
  /\ IsBad
  /\ pos' = PosAfter /\ symbol_buffer' = BufferLeft
  /\ GiveUp

\* A fault: the symbol that is refused is put back.
RejectKept ==
  /\ status = "running"
  /\ ~IsBad
  /\ Usable = {}
  /\ pos' = PosAfter /\ symbol_buffer' = <<Symbol>> \o BufferLeft
  /\ GiveUp

Reject ==
  /\ status = "running"
  /\ ~IsBad
  /\ Usable = {}
  /\ pos' = PosAfter /\ symbol_buffer' = BufferLeft
  /\ GiveUp

Accept ==
  /\ Proceed
  /\ curr.accept /\ tag = END
  /\ pos' = PosAfter /\ symbol_buffer' = BufferLeft
  /\ status' = "accepted"
  /\ result' = parse_stack_matches[Len(parse_stack_matches)]
  /\ parse_stack_matches' =
       SubSeq(parse_stack_matches, 1, Len(parse_stack_matches) - 1)
  /\ UNCHANGED <<input, parse_stack_states, tables>>

Shift ==
  /\ Proceed
  /\ ~(curr.accept /\ tag = END)
  /\ curr.actions[tag].shift # 0
  /\ pos' = PosAfter /\ symbol_buffer' = BufferLeft
  /\ parse_stack_states' = Append(parse_stack_states, curr.actions[tag].shift)
  /\ parse_stack_matches' = Append(parse_stack_matches, Symbol)
  /\ UNCHANGED <<input, status, result, tables>>

\* Faults: the symbols are pushed first to last onto the stack that the buffer
\* is; the tokens of the handler's own are lost.
PulledForward(k, terms) ==
  [i \in DOMAIN rewrites[k] |->
     LET r == rewrites[k][Len(rewrites[k]) + 1 - i]
     IN  IF r.child # 0 THEN terms[r.child] ELSE Terminal(r.tags, <<>>)]
PulledChildren(k, terms) == terms

\* What pull_symbols puts into the buffer for the match a handler returns: a
\* child of the reduced match, or a token of the handler's own.
Pulled(k, terms) ==
  [i \in DOMAIN rewrites[k] |->
     IF rewrites[k][i].child # 0 THEN terms[rewrites[k][i].child]
     ELSE Terminal(rewrites[k][i].tags, <<>>)]

Reduced(k, terms) ==
  IF k \in DOMAIN rewrites THEN Pulled(k, terms) ELSE <<Nonterminal(k, terms)>>

Reduce ==
  /\ Proceed
  /\ ~(curr.accept /\ tag = END)
  /\ curr.actions[tag].shift = 0
  /\ LET k == curr.actions[tag].reduce
         left == Len(parse_stack_matches) - Len(productions[k].symbols)
         terms == SubSeq(parse_stack_matches, left + 1, Len(parse_stack_matches))
     IN  /\ symbol_buffer' = Reduced(k, terms) \o <<Symbol>> \o BufferLeft
         /\ parse_stack_states' = SubSeq(parse_stack_states, 1, left + 1)
         /\ parse_stack_matches' = SubSeq(parse_stack_matches, 1, left)
  /\ pos' = PosAfter
  /\ UNCHANGED <<input, status, result, tables>>

Turn == BadToken \/ Reject \/ Accept \/ Shift \/ Reduce
=============================================================================
