----------------------------- MODULE SiyuLexer -----------------------------
(***************************************************************************)
(* The lexers of siyu and tk.  Rules may be added at any time: the next    *)
(* scan() then generates the automata again, on top of the NFA there is.   *)
(* Rules of siyu are texts, parsed when the automata are generated; those  *)
(* of tk are syntax trees.                                                 *)
(***************************************************************************)
EXTENDS SiyuAutomata, FiniteSets, RegexWords

CONSTANTS
  Patterns, Regexes,   \* what rules of siyu, and of tk, may be
  Texts,               \* sequences of bytes
  MaxRules,            \* bound: rules
  MaxGenerations       \* bound: times the automata are generated

VARIABLES
  tk,                  \* tk's lexer, or siyu's
  rules, regenerate,
  generator, dfa,
  buffer, buffer_pos, eof,
  in,                  \* what is left in the stream
  token,               \* what scan() returned, if it was the last call
  text, from,          \* auxiliary: the text, and where that scan began
  generations          \* auxiliary: counts generate()

lexer == <<tk, rules, regenerate, generator, dfa, buffer, buffer_pos, eof, in, generations>>
vars == <<lexer, token, text, from>>

NoDfa == [root |-> {}, next_states |-> <<>>, tags |-> <<>>]   \* nullptr

Token(tag, lexeme) == [outcome |-> "token", tag |-> tag, lexeme |-> lexeme]
Nothing == [outcome |-> "none", tag |-> NONE, lexeme |-> <<>>]
NoToken == [outcome |-> "null", tag |-> NONE, lexeme |-> <<>>]
Thrown == [outcome |-> "thrown", tag |-> NONE, lexeme |-> <<>>]

Init ==
  /\ tk \in BOOLEAN
  /\ rules = <<>> /\ regenerate = FALSE
  /\ generator = Generator /\ dfa = NoDfa
  /\ buffer = <<>> /\ buffer_pos = 0 /\ eof = FALSE
  /\ text \in Texts /\ in = text
  /\ token = Nothing /\ from = 0 /\ generations = 0

AddRule(tag, regex) ==
  /\ Len(rules) < MaxRules
  /\ rules' = Append(rules, [tag |-> tag, regex |-> regex])
  /\ regenerate' = TRUE
  /\ token' = Nothing
  /\ UNCHANGED <<tk, generator, dfa, buffer, buffer_pos, eof, in, text, from, generations>>

-----------------------------------------------------------------------------
(* generate()                                                               *)

Parsed(rule) == IF tk THEN [outcome |-> "regex", regex |-> rule.regex] ELSE ParseSiyu(rule.regex)
Tree(rule) == Parsed(rule).regex
Valid(parsed) == parsed.outcome = "regex"

\* A range from 0: the loop over an unsigned number does not end.  One to 0: it begins at
\* the largest number, and a tree of 2 ^ 32 nodes counts as no end.
RECURSIVE Ends(_)
Ends(x) ==
  CASE x.kind = "range" -> x.lower # 0 /\ x.upper # 0
    [] x.kind = "chain" -> \A i \in DOMAIN x.sequence : Ends(x.sequence[i])
    [] x.kind = "or" -> Ends(x.left) /\ Ends(x.right)
    [] x.kind = "multiplication" -> Ends(x.node)
    [] OTHER -> TRUE

\* Rules before the first that is not valid are visited in any case.
VisitedRules(parsed) == {i \in DOMAIN parsed : \A j \in 1 .. i : Valid(parsed[j])}

Visited(parsed) ==
  FoldLeft(LAMBDA g, i : Visit(NewRule(g, rules[i].tag), parsed[i].regex),
           Reset(generator), Count(Cardinality(VisitedRules(parsed))))

\* Which of two tags an ambiguous state is given depends on where its NFA states lie in
\* memory.
Data(d) ==
  LET ambiguous == {s \in DOMAIN d.tags : Cardinality(d.tags[s]) > 1}
      tags == {rules[i].tag : i \in DOMAIN rules}
  IN  {[s \in DOMAIN d.tags |->
          IF s \in ambiguous THEN first[s] ELSE CHOOSE tag \in d.tags[s] \cup {NONE} : d.tags[s] = {} \/ tag # NONE] :
         first \in {first \in [ambiguous -> tags] : \A s \in ambiguous : first[s] \in d.tags[s]}}

Tagged(d, data) == [root |-> d.root, next_states |-> d.next_states, data |-> data]

-----------------------------------------------------------------------------
(* scan()                                                                   *)

\* A byte as read() returns it: a char has a sign.
Read(c) == IF c > 127 THEN c + 2 ^ UINT_WIDTH - 256 ELSE c

Next1(d, s, c) ==
  LET row == d.next_states[s]
      key == IF tk /\ Read(c) \notin DOMAIN row THEN WILDCARD ELSE Read(c)
  IN  IF c = 0 \/ key \notin DOMAIN row THEN {} ELSE row[key]

\* What is yet to come: in the buffer, then in the stream unless its end was seen.
Ahead == SubSeq(buffer, buffer_pos + 1, Len(buffer)) \o (IF eof THEN <<>> ELSE in)

\* The state after n characters; {} is none.
StateAfter(d, n) ==
  FoldLeft(LAMBDA s, c : IF s = {} THEN {} ELSE Next1(d, s, c), d.root, SubSeq(Ahead, 1, n))

Followed(d) == CHOOSE n \in 0 .. Len(Ahead) :
  /\ StateAfter(d, n) # {}
  /\ n = Len(Ahead) \/ StateAfter(d, n + 1) = {}

\* The lengths of the matches; the last is the token.
Matches(d, followed) == {n \in 0 .. followed : d.data[StateAfter(d, n)] # NONE}

\* One character more is read than is followed, if it is there.
ReadOn(followed) ==
  LET needed == followed + 1 - (Len(buffer) - buffer_pos)
      taken == IF eof \/ needed <= 0 THEN 0 ELSE IF needed > Len(in) THEN Len(in) ELSE needed
  IN  /\ buffer' = buffer \o SubSeq(in, 1, taken)
      /\ in' = SubSeq(in, taken + 1, Len(in))
      /\ eof' = (eof \/ needed > Len(in))

Take(d, matches) ==
  IF matches = {} THEN token' = NoToken /\ UNCHANGED buffer_pos
  ELSE \E n \in matches :
         /\ \A k \in matches : k <= n
         /\ token' = Token(d.data[StateAfter(d, n)], SubSeq(Ahead, 1, n))
         /\ buffer_pos' = buffer_pos + n

ScanUpTo(d, followed) == ReadOn(followed) /\ Take(d, Matches(d, followed))
ScanWith(d) == ScanUpTo(d, Followed(d))

\* No rule has been added since the automata were made, or none at all.
ScanOn ==
  /\ ~ regenerate
  /\ from' = buffer_pos
  /\ IF dfa = NoDfa THEN token' = NoToken /\ UNCHANGED <<buffer, buffer_pos, eof, in>> ELSE ScanWith(dfa)
  /\ UNCHANGED <<tk, rules, regenerate, generator, dfa, text, generations>>

ScanWithNew(d) ==
  \E data \in Data(d) : dfa' = Tagged(d, data) /\ ScanWith(dfa')

Generate(parsed) ==
  /\ \A i \in VisitedRules(parsed) : Ends(parsed[i].regex)
  /\ generator' = Visited(parsed)
  /\ IF \A i \in DOMAIN parsed : Valid(parsed[i])
     THEN regenerate' = FALSE /\ ScanWithNew(ToDfa(generator'.nfa))
     ELSE token' = Thrown /\ UNCHANGED <<regenerate, dfa, buffer, buffer_pos, eof, in>>

\* The automata are generated before.
ScanAnew ==
  /\ regenerate /\ generations < MaxGenerations
  /\ Generate([i \in DOMAIN rules |-> Parsed(rules[i])])
  /\ from' = buffer_pos /\ generations' = generations + 1
  /\ UNCHANGED <<tk, rules, text>>

\* Only tk's lexer can be reset, for another text.
Restart(str) ==
  /\ tk
  /\ buffer' = <<>> /\ buffer_pos' = 0 /\ eof' = FALSE
  /\ in' = str /\ text' = str
  /\ token' = Nothing /\ from' = 0
  /\ UNCHANGED <<tk, rules, regenerate, generator, dfa, generations>>

Next ==
  \/ \E regex \in (IF tk THEN Regexes ELSE Patterns) : AddRule(Len(rules) + 1, regex)
  \/ ScanOn
  \/ ScanAnew
  \/ \E str \in Texts : Restart(str)

Spec == Init /\ [][Next]_vars

-----------------------------------------------------------------------------
(* What the syntax trees mean.                                              *)

\* A range whose ends are exchanged is its upper end; a negation is a letter.
RECURSIVE Language(_)
Language(x) ==
  CASE x.kind = "literal" -> {<<x.ch>>} \cap Words
    [] x.kind = "wildcard" -> {<<c>> : c \in Letters}
    [] x.kind = "range" -> {<<c>> : c \in Letters \cap ({x.upper} \cup x.lower .. x.upper)}
    [] x.kind = "chain" -> FoldLeft(LAMBDA A, y : Both(A, Language(y)), {<<>>}, x.sequence)
    [] x.kind = "or" -> Language(x.left) \cup Language(x.right)
    [] x.kind = "multiplication" -> Repeated(Language(x.node), x.min, x.max)
    [] x.kind = "not" -> {<<c>> : c \in {c \in Letters : <<c>> \notin Language(x.node)}}

RECURSIVE Negates(_)
Negates(x) ==
  \/ x.kind = "not"
  \/ x.kind = "chain" /\ \E i \in DOMAIN x.sequence : Negates(x.sequence[i])
  \/ x.kind = "or" /\ (Negates(x.left) \/ Negates(x.right))
  \/ x.kind = "multiplication" /\ Negates(x.node)

-----------------------------------------------------------------------------
(* What scan() is to find.                                                  *)

TypeOK ==
  /\ \A i \in DOMAIN rules : rules[i].tag = i
  /\ buffer \o in = text /\ (eof => in = <<>>)
  /\ buffer_pos \in 0 .. Len(buffer)
  /\ token.outcome \in {"none", "token", "null", "thrown"}

\* The text at which the last scan began, up to a character 0, which ends it.
Rest == SubSeq(text, from + 1, Len(text))
Begins(w) == IsPrefix(w, Rest) /\ \A k \in DOMAIN w : w[k] # 0

\* What the automata lose: what follows an epsilon transition that was replaced; a
\* wildcard, where a character has a transition of its own; characters above 127, which
\* read() returns with their sign; and what is negated.
WildcardHidden ==
  \E s \in DOMAIN dfa.next_states :
    WILDCARD \in DOMAIN dfa.next_states[s] /\ DOMAIN dfa.next_states[s] # {WILDCARD}
Lost(x, w) ==
  generator.overwritten \/ WildcardHidden \/ Negates(x) \/ \E k \in DOMAIN w : w[k] > 127

LongEnough(x) ==
  \A w \in Language(x) :
    Begins(w) /\ ~ Lost(x, w) => token.outcome = "token" /\ Len(token.lexeme) >= Len(w)

\* A scan goes on as long as a rule has a longer word, and returns to the last one: no token
\* is shorter than a word of a rule the text begins with there, whatever rules were added
\* between scans.
NeverShort ==
  token.outcome \in {"token", "null"} => \A i \in DOMAIN rules : LongEnough(Tree(rules[i]))

IsWord(lexeme, x) == Exact(x) => lexeme \in Language(x)

\* A token is a piece of the text, the next one, and a word of the rule it is tagged with,
\* unless the rule has a repetition that the automata get wrong.
NeverLong ==
  /\ TypeOK
  /\ token.outcome = "token" =>
       /\ Begins(token.lexeme) /\ buffer_pos = from + Len(token.lexeme)
       /\ IsWord(token.lexeme, Tree(rules[token.tag]))
=============================================================================
