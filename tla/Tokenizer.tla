----------------------------- MODULE Tokenizer -----------------------------
(***************************************************************************)
(* What a midori Lexer promises to the Parser, without buffer, stream or   *)
(* partial matches: the text is cut, from the left, into the longest       *)
(* pieces that its automaton accepts; those tagged for skipping are left   *)
(* out; where no piece is accepted there is TOKEN_END at the end of the    *)
(* text and TOKEN_BAD elsewhere, and neither moves on.                     *)
(*                                                                         *)
(* Module Lexer implements this.                                           *)
(***************************************************************************)
EXTENDS Integers, Sequences, FiniteSets

CONSTANTS
  Chars, NL, States, Root, Dead, Tags, END, BAD, Automata, Texts   \* see Lexer

VARIABLES
  dfa,      \* the automaton and the tags to skip, fixed once generated
  text,     \* what the stream holds
  broken,   \* the stream ends in a failure (CHAR_BAD), not in CHAR_EOF
  at,       \* characters behind us
  token     \* what scan returned last of this text

tokenVars == <<dfa, text, broken, at, token>>

-----------------------------------------------------------------------------
(* Runs of the automaton                                                    *)

StepFrom(q, c) == IF q = Dead THEN Dead ELSE dfa.next[<<q, c>>]

\* The states of the run that starts after the first i characters.
Run(i) ==
  LET q[j \in i .. Len(text)] == IF j = i THEN Root ELSE StepFrom(q[j - 1], text[j])
  IN  q

AcceptedTo(i, j) == Run(i)[j] # Dead /\ dfa.terminals[Run(i)[j]] # <<>>

\* Where pieces from i on may end, and where the longest does.
Ends(i) == {j \in i .. Len(text) : AcceptedTo(i, j)}
IsLongest(i, j) == j \in Ends(i) /\ \A k \in Ends(i) : k <= j

\* How far the run from i is followed: to where it dies, or to the end.
IsFollowedTo(i, j) ==
  /\ j \in i .. Len(text)
  /\ \A k \in i .. j - 1 : Run(i)[k] # Dead
  /\ Run(i)[j] = Dead \/ j = Len(text)

\* The line of character n + 1, and its column in it; both count from one.
LineStart(n) ==
  CHOOSE p \in 0 .. n : (p = 0 \/ text[p] = NL) /\ \A i \in p + 1 .. n : text[i] # NL
LocationOf(n) ==
  [line |-> 1 + Cardinality({i \in 1 .. n : text[i] = NL}), column |-> n - LineStart(n) + 1]

Token(tags, lexeme, loc) == [tags |-> tags, lexeme |-> lexeme, loc |-> loc]
Skipped(tags) == \E i \in DOMAIN tags : tags[i] \in dfa.skip

NoToken == Token(<<>>, <<>>, [line |-> 1, column |-> 1])

-----------------------------------------------------------------------------
TokenInit ==
  /\ dfa \in Automata
  /\ text = <<>> /\ broken = FALSE /\ at = 0
  /\ token = NoToken

NewText(t, b) ==
  /\ text' = t /\ broken' = b /\ at' = 0
  /\ token' = NoToken
  /\ UNCHANGED dfa

Match(j) ==
  /\ IsLongest(at, j)
  /\ LET tags == dfa.terminals[Run(at)[j]]
     IN  token' = IF Skipped(tags) THEN token
                  ELSE Token(tags, SubSeq(text, at + 1, j), LocationOf(at))
  /\ at' = j
  /\ UNCHANGED <<dfa, text, broken>>

End ==
  /\ Ends(at) = {} /\ at = Len(text) /\ ~broken
  /\ token' = Token(<<END>>, <<>>, LocationOf(at))
  /\ UNCHANGED <<dfa, text, broken, at>>

Bad(j) ==
  /\ Ends(at) = {} /\ (at < Len(text) \/ broken)
  /\ IsFollowedTo(at, j)
  /\ token' = Token(<<BAD>>, SubSeq(text, at + 1, j), LocationOf(at))
  /\ UNCHANGED <<dfa, text, broken, at>>

TokenNext ==
  \/ \E t \in Texts, b \in BOOLEAN : NewText(t, b)
  \/ \E j \in 0 .. Len(text) : Match(j) \/ Bad(j)
  \/ End

TokenSpec == TokenInit /\ [][TokenNext]_tokenVars
=============================================================================
