---------------------------- MODULE RegexReader ----------------------------
(***************************************************************************)
(* The RegexParser that siyu, siyu-1 and tk/regex_old share: recursive     *)
(* descent over a text, with a stack of positions (`pos').  A function     *)
(* that reads something pushes where it ends; one that does not has to     *)
(* leave the stack as it found it.                                         *)
(*                                                                         *)
(* A function takes the state p of the parser to the one after it, with    *)
(* what it returns in `got', nullptr if it has `failed'.  `ub' is set by   *)
(* a pop of more than there is, by a look at the top of an empty stack,    *)
(* and by a node that is deleted twice: what follows is undefined.  The    *)
(* three differ in the syntax trees they make, which are parameters.       *)
(***************************************************************************)
EXTENDS Integers, Sequences, SequencesExt, TLC, Bitwise

CONSTANTS
  CodeOf,       \* the characters, one-letter strings, with their codes
  UINT_WIDTH,   \* bits of a UInt; 32 in the code
  Literal(_), Sequence(_), Either(_, _), Span(_, _),   \* make_regex_ast_*
  Repetition(_, _, _),                                     \* likewise
  Deletable(_)  \* whether a tree can be deleted

NULL == [kind |-> "null"]   \* nullptr
END == ""                   \* the character 0, behind the end of the text
ENDLESS == [kind |-> "endless"]   \* from a function that does not return: as undefined

Special == {"\\", "(", ")", "{", "}", "[", "]", "|", "*", "+", "?"}
GroupSpecial == {"[", "-", "]", "\\"}
IsDecDigit(c) == c # END /\ CodeOf[c] \in CodeOf["0"] .. CodeOf["0"] + 9
IsHexDigit(c) == IsDecDigit(c) \/ (c # END /\ CodeOf[c] \in CodeOf["a"] .. CodeOf["a"] + 5)
Printable(c) == c # END /\ CodeOf[c] \in 32 .. 126
Control == [t |-> 9, n |-> 10, r |-> 13]

Wrapped(n) == n % (2 ^ UINT_WIDTH)

-----------------------------------------------------------------------------
(* The stack of positions                                                   *)

Top(p) == IF p.pos = <<>> THEN 0 ELSE Last(p.pos)

\* buffer_char
Ahead(s, p, delta) == IF Top(p) + delta >= Len(s) THEN END ELSE s[Top(p) + delta + 1]
Char(s, p) == Ahead(s, p, 0)

Returning(p, x) == [p EXCEPT !.got = x, !.failed = FALSE]
Failing(p) == [p EXCEPT !.got = NULL, !.failed = TRUE]
Failed(p) == p.failed

\* buffer_advance
Advanced(p, delta) == [p EXCEPT !.pos = Append(@, Top(p) + delta)]

\* buffer_pop
Popped(p, times) ==
  IF times > Len(p.pos) THEN [p EXCEPT !.pos = <<>>, !.ub = TRUE]
  ELSE [p EXCEPT !.pos = SubSeq(@, 1, Len(@) - times)]

\* buffer_push(buffer_pop(times) + delta)
Replaced(p, times, delta) == [Popped(p, times) EXCEPT !.pos = Append(@, Top(p) + delta)]

\* What was read is deleted, before nullptr is returned.
Deleting(p) == Failing([p EXCEPT !.ub = @ \/ ~ Deletable(p.got)])

-----------------------------------------------------------------------------
(* Numbers                                                                  *)

\* The lower four bits, by the digit on the left (regex.cpp:439-443).
LowerBits(upper, lower) ==
  IF IsDecDigit(lower) THEN CodeOf[upper] - CodeOf["0"] ELSE CodeOf[upper] - CodeOf["a"] + 10

ParseHexByte(s, p) ==
  LET upper == Char(s, p)
      lower == Ahead(s, p, 1)
      high == IF IsDecDigit(upper) THEN CodeOf[upper] - CodeOf["0"] ELSE CodeOf[upper] - CodeOf["a"] + 10
  IN  IF IsHexDigit(upper) /\ IsHexDigit(lower)
      THEN Returning(Advanced(p, 2), (high * 16) | Wrapped(LowerBits(upper, lower)))
      ELSE Failing(p)

\* Four bytes, each with its own position until the next begins.
NextByte(s, p) ==
  LET Added(b) == IF Failed(b) THEN Popped(b, 1)
                  ELSE Returning(Replaced(b, 2, 0), Wrapped(p.got * 256 + b.got))
  IN  IF Failed(p) THEN p ELSE Added(ParseHexByte(s, p))

ParseHexInt(s, p) ==
  FoldLeft(LAMBDA q, i : NextByte(s, q), Returning(Advanced(p, 0), 0), <<1, 2, 3, 4>>)

\* Any number of digits, none included; never nullptr.
ParseDecInt(s, p) ==
  LET digits == CHOOSE delta \in 0 .. Len(s) :
                  /\ ~ IsDecDigit(Ahead(s, p, delta))
                  /\ \A d \in 0 .. delta - 1 : IsDecDigit(Ahead(s, p, d))
      x == FoldLeft(LAMBDA n, c : Wrapped(n * 10 + CodeOf[c] - CodeOf["0"]), 0,
                    SubSeq(s, Top(p) + 1, Top(p) + digits))
  IN  Returning(Advanced(p, digits), x)

-----------------------------------------------------------------------------
(* Literals and groups                                                      *)

\* An escape that means the same in a group and outside of one.
ParseAbsoluteLiteral(s, p) ==
  LET a == Advanced(p, 1)
      ch == Char(s, a)
      Done(x) == IF Failed(x) THEN Failing(Popped(x, 2)) ELSE Replaced(x, 2, 0)
  IN  IF Char(s, p) # "\\" THEN Failing(p)
      ELSE IF ch = "x" THEN Done(ParseHexByte(s, Advanced(a, 1)))
      ELSE IF ch = "u" THEN Done(ParseHexInt(s, Advanced(a, 1)))
      ELSE IF ch \in DOMAIN Control THEN Returning(Replaced(Advanced(a, 1), 2, 0), Control[ch])
      ELSE Failing(Popped(a, 1))

\* A character that stands for itself, or one that has a meaning behind a backslash.
ParsePlainLiteral(s, p, special) ==
  LET ch == Char(s, p)
      escaped == Ahead(s, p, 1)
  IN  IF ch = "\\"
      THEN IF escaped \in special THEN Returning(Advanced(p, 2), CodeOf[escaped]) ELSE Failing(p)
      ELSE IF ch \notin special /\ Printable(ch) THEN Returning(Advanced(p, 1), CodeOf[ch])
      ELSE Failing(p)

ParseCode(s, p, special) ==
  LET OrPlain(x) == IF Failed(x) THEN ParsePlainLiteral(s, x, special) ELSE x
  IN  OrPlain(ParseAbsoluteLiteral(s, p))

MakeLiteral(x) == IF Failed(x) THEN x ELSE Returning(x, Literal(x.got))
ParseLiteral(s, p) == MakeLiteral(ParseCode(s, p, Special))

ParseGroupLiteral(s, p) == ParseCode(s, p, GroupSpecial)

MakeSpan(lower, upper) ==
  LET Made(node) == Returning([Replaced(upper, 3, 0) EXCEPT !.ub = @ \/ node = ENDLESS], node)
  IN  IF Failed(upper) THEN Popped(upper, 2) ELSE Made(Span(lower.got, upper.got))

\* Mutant: the position of the lower end stays on the stack when no dash follows.
ParseGroupRangeUnpopped(s, p) ==
  LET Onwards(lower) ==
        IF Failed(lower) THEN lower
        ELSE IF Char(s, lower) # "-" THEN Failing(lower)
        ELSE MakeSpan(lower, ParseGroupLiteral(s, Advanced(lower, 1)))
  IN  Onwards(ParseGroupLiteral(s, p))

ParseGroupRange(s, p) ==
  LET Onwards(lower) ==
        IF Failed(lower) THEN lower
        ELSE IF Char(s, lower) # "-" THEN Failing(Popped(lower, 1))
        ELSE MakeSpan(lower, ParseGroupLiteral(s, Advanced(lower, 1)))
  IN  Onwards(ParseGroupLiteral(s, p))

ParseGroupElement(s, p) ==
  LET OrLiteral(range) == IF Failed(range) THEN MakeLiteral(ParseGroupLiteral(s, range)) ELSE range
  IN  OrLiteral(ParseGroupRange(s, p))

RECURSIVE ParseGroupContents(_, _)
ParseGroupContents(s, p) ==
  LET Joined(car, cdr) == IF Failed(cdr) THEN Returning(cdr, car.got)
                          ELSE Returning(Replaced(cdr, 2, 0), Either(car.got, cdr.got))
      Onwards(car) == IF Failed(car) THEN car ELSE Joined(car, ParseGroupContents(s, car))
  IN  Onwards(ParseGroupElement(s, p))

ParseGroup(s, p) ==
  LET Closed(contents) ==
        IF Failed(contents) THEN Popped(contents, 1)
        ELSE IF Char(s, contents) # "]" THEN Deleting(Popped(contents, 2))
        ELSE Replaced(Advanced(contents, 1), 3, 0)
  IN  IF Char(s, p) # "[" THEN Failing(p) ELSE Closed(ParseGroupContents(s, Advanced(p, 1)))

-----------------------------------------------------------------------------
(* Operators.  A quantifier is taken whether or not there is something      *)
(* before it: the position it pops may then be another function's.          *)

\* {lower,upper}, returned as a pair
ParseMulRange(s, p) ==
  LET Upper(lower, upper) ==
        IF Char(s, upper) # "}" THEN Failing(Popped(upper, 4))
        ELSE Returning(Replaced(upper, 4, 1), [kind |-> "range", min |-> lower.got, max |-> upper.got])
      Lower(lower) ==
        IF Char(s, lower) # "," THEN Failing(Popped(lower, 2))
        ELSE Upper(lower, ParseDecInt(s, Advanced(lower, 1)))
  IN  IF Char(s, p) # "{" THEN Failing(p) ELSE Lower(ParseDecInt(s, Advanced(p, 1)))

Quantifier == ("*" :> [min |-> 0, max |-> 0]) @@ ("+" :> [min |-> 1, max |-> 0]) @@ ("?" :> [min |-> 0, max |-> 1])

RECURSIVE ParseLrOr(_, _)

ParseParentheses(s, p) ==
  LET Closed(node) ==
        IF Failed(node) THEN Popped(node, 1)
        ELSE IF Char(s, node) # ")" THEN Deleting(Popped(node, 2))
        ELSE Replaced(node, 2, 1)
  IN  IF Char(s, p) # "(" THEN Failing(p) ELSE Closed(ParseLrOr(s, Advanced(p, 1)))

\* An atom; to look at an empty stack is undefined.
ParseNotLr(s, p) ==
  LET Lost(q) == q.ub \/ q.pos = <<>>
      OrGroup(literal) == IF Failed(literal) THEN ParseGroup(s, literal) ELSE literal
      OrLiteral(parentheses) ==
        IF ~ Failed(parentheses) THEN parentheses
        ELSE IF Lost(parentheses) THEN [parentheses EXCEPT !.ub = TRUE]
        ELSE OrGroup(ParseLiteral(s, parentheses))
  IN  IF Lost(p) THEN Failing([p EXCEPT !.ub = TRUE]) ELSE OrLiteral(ParseParentheses(s, p))

ParseLrMul(s, p) ==
  LET Repeated(l, r, bounds) == Returning(r, Repetition(l.got, bounds.min, bounds.max))
      InBraces(l, range) == IF Failed(range) THEN l ELSE Repeated(l, Replaced(range, 2, 0), range.got)
      Quantified(l) ==
        IF l.ub THEN l
        ELSE IF Char(s, l) \in DOMAIN Quantifier
        THEN Repeated(l, Replaced(Advanced(l, 1), 2, 0), Quantifier[Char(s, l)])
        ELSE InBraces(l, ParseMulRange(s, l))
  IN  Quantified(ParseNotLr(s, p))

RECURSIVE ParseMore(_, _, _)

\* The loop of parse_lr_add.  A position popped that is another function's may take the
\* parser back in the text, again and again: a chain that has become this long does not end.
MaxChain(s) == 3 * Len(s)

ParseMore(s, p, chain) ==
  LET Onwards(next) ==
        IF Failed(next) THEN Returning(next, Sequence(chain))
        ELSE ParseMore(s, Replaced(next, 2, 0), Append(chain, next.got))
  IN  IF Len(chain) > MaxChain(s) THEN Failing([p EXCEPT !.ub = TRUE]) ELSE Onwards(ParseLrMul(s, p))

ParseLrAdd(s, p) ==
  LET Onwards(car) == IF Failed(car) THEN car ELSE ParseMore(s, car, <<car.got>>)
  IN  Onwards(ParseLrMul(s, p))

ParseLrOr(s, p) ==
  LET Joined(l, r) == IF Failed(r) THEN Deleting(Returning(Popped(r, 2), l.got))
                      ELSE Returning(Replaced(r, 3, 0), Either(l.got, r.got))
      Onwards(l) == IF Failed(l) \/ l.ub \/ Char(s, l) # "|" THEN l
                    ELSE Joined(l, ParseLrOr(s, Advanced(l, 1)))
  IN  Onwards(ParseLrAdd(s, p))

-----------------------------------------------------------------------------
Start == [pos |-> <<0>>, ub |-> FALSE, got |-> NULL, failed |-> TRUE]

\* RegexParser::parse.  A parse ends with a regex, with nullptr, in an exception because
\* the stack is not as it should be (tk: with nullptr there, too), or undefined.
Parse(s) ==
  LET Ended(p, unread, done) ==
        [regex |-> done.got,
         outcome |-> IF (IF Failed(p) THEN p ELSE done).ub THEN "undefined"
                     ELSE IF Failed(p) \/ unread THEN "null"
                     ELSE IF Failed(done) THEN "unfinished"
                     ELSE "regex"]
      Checked(p, unread) == Ended(p, unread, IF unread \/ Len(p.pos) # 2 THEN Deleting(p) ELSE p)
      Read(p) == Checked(p, Top(p) # Len(s))
  IN  Read(ParseLrOr(s, Start))
=============================================================================
