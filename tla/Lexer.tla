------------------------------- MODULE Lexer -------------------------------
(***************************************************************************)
(* Lexer::scan, _scan and read: characters are taken from the stream one   *)
(* at a time, kept in `buffer', and run through the automaton of the       *)
(* rules.  A scan goes on past the last place where something matched      *)
(* until it fails, then goes back there: the characters read too far stay  *)
(* in the buffer for the next scan.                                        *)
(*                                                                         *)
(* One action is one turn of the loop in _scan.  A lexeme is the sequence  *)
(* of the characters appended to it; their UTF-8 spelling is left out.     *)
(***************************************************************************)
EXTENDS Integers, Sequences

CONSTANTS
  Chars, NL,   \* code points, among them '\n'
  States,      \* states of the automata
  Root, Dead,  \* the root, and "no next state"
  Tags,        \* names of rules
  END, BAD,    \* Lexer::TOKEN_END and Lexer::TOKEN_BAD
  Automata,    \* [next, terminals, skip]: a RegexDFA and Lexer::skip
  Texts        \* texts to scan

ASSUME LexerAssumption ==
  /\ Root \in States /\ Dead \notin States
  /\ END \notin Tags /\ BAD \notin Tags
  /\ Texts \subseteq Seq(Chars)
  /\ \A a \in Automata :
       /\ a.next \in [States \X Chars -> States \cup {Dead}]
       /\ a.terminals \in [States -> Seq(Tags)]
       /\ a.skip \subseteq Tags

VARIABLES
  dfa,                  \* Lexer::dfa and Lexer::skip
  text, broken, taken,  \* the stream: its content, how it ends, and the
                        \* characters get() has handed out
  buffer, buffer_pos, location,
  scanning,             \* inside scan
  current_state, matched, matched_tags, matched_str, matched_buffer_pos,
  saved_location, matched_location, found_buffer,   \* locals of _scan
  token,                \* what scan returned last since the reset
  start                 \* where _scan began, for the properties only

streamVars == <<dfa, text, broken>>
scanVars == <<current_state, matched, matched_tags, matched_str, matched_buffer_pos,
              saved_location, matched_location, found_buffer, start>>
vars == <<streamVars, taken, buffer, buffer_pos, location, scanning, scanVars, token>>

at == IF scanning THEN start ELSE buffer_pos
Abstract == INSTANCE Tokenizer

FirstLocation == [line |-> 1, column |-> 1]

Init ==
  /\ dfa \in Automata
  /\ text = <<>> /\ broken = FALSE /\ taken = 0
  /\ buffer = <<>> /\ buffer_pos = 0 /\ location = FirstLocation
  /\ scanning = FALSE
  /\ current_state = Root /\ matched = FALSE /\ matched_tags = <<>> /\ matched_str = <<>>
  /\ matched_buffer_pos = 0 /\ saved_location = location /\ matched_location = location
  /\ found_buffer = <<>> /\ start = 0
  /\ token = Abstract!NoToken

\* Faults: reset leaves the buffer, or the position in it.
ResetKeepsBuffer(t, b) ==
  /\ ~scanning
  /\ text' = t /\ broken' = b /\ taken' = 0
  /\ buffer_pos' = 0 /\ location' = FirstLocation
  /\ token' = Abstract!NoToken
  /\ UNCHANGED <<dfa, scanning, buffer, scanVars>>

\* Lexer::reset, and a new stream for the scans to come.
Reset(t, b) ==
  /\ ~scanning
  /\ text' = t /\ broken' = b /\ taken' = 0
  /\ buffer' = <<>> /\ buffer_pos' = 0 /\ location' = FirstLocation
  /\ token' = Abstract!NoToken
  /\ UNCHANGED <<dfa, scanning, scanVars>>

\* The locals at the start of _scan, from a position and its location.
StartScan(pos, loc) ==
  /\ start' = pos
  /\ current_state' = Root
  /\ matched' = FALSE /\ matched_tags' = <<>> /\ matched_str' = <<>>
  /\ matched_buffer_pos' = pos
  /\ saved_location' = loc /\ matched_location' = loc
  /\ found_buffer' = <<>>

Scan ==
  /\ ~scanning
  /\ scanning' = TRUE
  /\ StartScan(buffer_pos, location)
  /\ UNCHANGED <<streamVars, taken, buffer, buffer_pos, location, token>>

-----------------------------------------------------------------------------
(* A turn of the loop: note a match, read a character, follow it.           *)

terminals == dfa.terminals[current_state]
NowMatched == matched \/ terminals # <<>>

\* A fault: the first match is kept.
NotedFirst ==
  IF terminals # <<>> /\ ~matched
    THEN [tags |-> terminals, str |-> matched_str \o found_buffer, pos |-> buffer_pos,
          loc |-> location, found |-> <<>>]
    ELSE [tags |-> matched_tags, str |-> matched_str, pos |-> matched_buffer_pos,
          loc |-> matched_location, found |-> found_buffer]

\* What matched_* and found_buffer are once a match in this state is noted.
Noted ==
  IF terminals # <<>>
    THEN [tags |-> terminals, str |-> matched_str \o found_buffer, pos |-> buffer_pos,
          loc |-> location, found |-> <<>>]
    ELSE [tags |-> matched_tags, str |-> matched_str, pos |-> matched_buffer_pos,
          loc |-> matched_location, found |-> found_buffer]

\* read: the buffer first, then the stream, which has an end.
FromBuffer == buffer_pos < Len(buffer)
HasChar == FromBuffer \/ taken < Len(text)
char == IF FromBuffer THEN buffer[buffer_pos + 1] ELSE text[taken + 1]
Read ==
  IF FromBuffer \/ ~HasChar THEN UNCHANGED <<taken, buffer>>
  ELSE taken' = taken + 1 /\ buffer' = Append(buffer, char)

\* A fault: a newline leaves the column.
LocationKeepsColumn(c) ==
  [location EXCEPT !.line = IF c = NL THEN @ + 1 ELSE @, !.column = @ + 1]

LocationAfter(c) ==
  IF c = NL THEN [line |-> location.line + 1, column |-> 1]
  ELSE [location EXCEPT !.column = @ + 1]

\* There is a next state.
Advance ==
  /\ scanning
  /\ HasChar
  /\ dfa.next[<<current_state, char>>] # Dead
  /\ Read
  /\ current_state' = dfa.next[<<current_state, char>>]
  /\ buffer_pos' = buffer_pos + 1
  /\ location' = LocationAfter(char)
  /\ matched' = NowMatched /\ matched_tags' = Noted.tags /\ matched_str' = Noted.str
  /\ matched_buffer_pos' = Noted.pos /\ matched_location' = Noted.loc
  /\ found_buffer' = Append(Noted.found, char)
  /\ UNCHANGED <<streamVars, scanning, saved_location, start, token>>

\* A fault: whatever has no tag to be kept is skipped.
SkippedUnlessKept(tags) == ~ \E i \in DOMAIN tags : tags[i] \in Tags \ dfa.skip

Skipped(tags) == \E i \in DOMAIN tags : tags[i] \in dfa.skip

\* The end of _scan, and the turn of scan's own loop if the token is skipped.
Deliver(tags, lexeme) ==
  /\ buffer_pos' = Noted.pos
  /\ location' = Noted.loc
  /\ IF Skipped(tags)
       THEN StartScan(Noted.pos, Noted.loc) /\ UNCHANGED <<scanning, token>>
       ELSE /\ token' = Abstract!Token(tags, lexeme, saved_location)
            /\ scanning' = FALSE
            /\ StartScan(0, FirstLocation)   \* no locals outside _scan
  /\ UNCHANGED streamVars

\* No next state for the character.
Fail ==
  /\ scanning
  /\ HasChar
  /\ dfa.next[<<current_state, char>>] = Dead
  /\ Read
  /\ IF NowMatched THEN Deliver(Noted.tags, Noted.str)
     ELSE Deliver(<<BAD>>, Append(Noted.found, char))

\* No character.
Exhaust ==
  /\ scanning
  /\ ~HasChar
  /\ CASE NowMatched -> Deliver(Noted.tags, Noted.str)
       [] ~NowMatched /\ ~broken /\ buffer_pos = Noted.pos -> Deliver(<<END>>, <<>>)
       [] OTHER -> Deliver(<<BAD>>, Noted.found)
  /\ UNCHANGED <<taken, buffer>>

Loop == Advance \/ Fail \/ Exhaust

Next ==
  \/ \E t \in Texts, b \in BOOLEAN : Reset(t, b)
  \/ Scan
  \/ Loop

Spec == Init /\ [][Next]_vars

\* The client scans when it likes; a scan runs to its end.
FairSpec == Spec /\ WF_vars(Loop)

-----------------------------------------------------------------------------
(* Properties                                                               *)

Location == [line : Nat, column : Nat]

TypeOK ==
  /\ dfa \in Automata /\ text \in Seq(Chars) /\ broken \in BOOLEAN
  /\ taken \in 0 .. Len(text)
  /\ buffer \in Seq(Chars) /\ buffer_pos \in 0 .. Len(buffer)
  /\ location \in Location
  /\ scanning \in BOOLEAN
  /\ current_state \in States /\ matched \in BOOLEAN
  /\ matched_tags \in Seq(Tags) /\ matched_str \in Seq(Chars)
  /\ matched_buffer_pos \in Nat /\ start \in Nat
  /\ saved_location \in Location /\ matched_location \in Location
  /\ found_buffer \in Seq(Chars)
  /\ token \in [tags : Seq(Tags \cup {END, BAD}), lexeme : Seq(Chars), loc : Location]

\* The buffer is what has been taken from the stream since the last reset, each
\* character once: going back after a failed match neither loses a character
\* nor reads one again.
BufferIsText == buffer = SubSeq(text, 1, taken)

\* The location is that of the position in the buffer, however often scans went
\* back over newlines; so are the locations a scan may still go back to.
LocationTrue ==
  /\ location = Abstract!LocationOf(buffer_pos)
  /\ scanning =>
       /\ saved_location = Abstract!LocationOf(start)
       /\ matched_location = Abstract!LocationOf(matched_buffer_pos)

\* Every scan returns the longest match at its place and goes on right after
\* it: the Lexer implements the Tokenizer.
Tokens == Abstract!TokenSpec

\* A scan returns, unless a rule to be skipped matches nothing at all.
ScanReturns ==
  [](scanning => <>(~scanning \/ Abstract!Skipped(dfa.terminals[Root])))
=============================================================================
