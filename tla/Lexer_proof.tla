---------------------------- MODULE Lexer_proof ----------------------------
(***************************************************************************)
(* The Lexer implements the Tokenizer, for every automaton, every set of   *)
(* tags to skip and every text.                                            *)
(*                                                                         *)
(* The invariant says what the locals of _scan hold in the middle of a     *)
(* scan (Scanned): the run that began at `start' is alive and has been     *)
(* followed to buffer_pos; what is noted as matched is the longest piece   *)
(* accepted before that; matched_str and found_buffer cut the text between *)
(* them at matched_buffer_pos.  When the run dies or the text ends, that   *)
(* no longer piece is accepted follows from a dead run staying dead.       *)
(***************************************************************************)
EXTENDS Lexer, LeastElement

Run(i) == Abstract!Run(i)
StepFrom(q, c) == Abstract!StepFrom(q, c)

-----------------------------------------------------------------------------
(* Runs                                                                     *)

\* The equation of Run(i), for a function on any beginning of the text.
RunTo(i, n, g) ==
  g = [j \in i .. n |-> IF j = i THEN Root ELSE StepFrom(g[j - 1], text[j])]

\* Runs exist: a shortest beginning of the text without one has one after all.
LEMMA RunExists ==
  ASSUME text \in Seq(Chars), NEW i \in 0 .. Len(text)
  PROVE  \E g : RunTo(i, Len(text), g)
<1> DEFINE T == {d \in Nat : ~ \E g : RunTo(i, i + d, g)}
<1>1. SUFFICES ASSUME T # {} PROVE FALSE
  <2>1. Len(text) - i \in Nat /\ i + (Len(text) - i) = Len(text)
    OBVIOUS
  <2> QED BY <2>1, <1>1
<1>2. PICK d \in T : \A e \in T : d <= e
  BY <1>1, LeastNat
<1>3. CASE d = 0
  <2>1. i .. i + 0 = {i}
    OBVIOUS
  <2>2. RunTo(i, i + 0, [j \in i .. i + 0 |-> Root])
    BY <2>1 DEF RunTo
  <2> QED BY <1>2, <1>3, <2>2
<1>4. CASE d # 0
  <2>1. d - 1 \in Nat /\ d - 1 \notin T
    BY <1>2, <1>4
  <2>2. PICK g : RunTo(i, i + (d - 1), g)
    BY <2>1
  <2> DEFINE n == i + d
             h == [j \in i .. n |-> IF j = n THEN StepFrom(g[n - 1], text[n]) ELSE g[j]]
  <2>3. n \in Nat /\ n > i /\ i + (d - 1) = n - 1 /\ i \in Nat
    BY <1>4
  <2>4. h = [j \in i .. n |-> IF j = i THEN Root ELSE StepFrom(h[j - 1], text[j])]
    <3> SUFFICES ASSUME NEW j \in i .. n
                 PROVE  h[j] = IF j = i THEN Root ELSE StepFrom(h[j - 1], text[j])
      BY Zenon
    <3> HIDE DEF n
    <3>1. CASE j = n
      <4>1. h[j - 1] = g[j - 1]
        BY <2>3, <3>1
      <4> QED BY <2>3, <3>1, <4>1
    <3>2. CASE j # n /\ j # i
      <4>1. j \in i .. n - 1 /\ j - 1 \in i .. n - 1 /\ h[j] = g[j] /\ h[j - 1] = g[j - 1]
        BY <2>3, <3>2
      <4> QED BY <2>2, <2>3, <3>2, <4>1 DEF RunTo
    <3>3. CASE j = i
      BY <2>2, <2>3, <3>3 DEF RunTo
    <3> QED BY <3>1, <3>2, <3>3
  <2>5. RunTo(i, i + d, h)
    BY <2>4 DEF RunTo
  <2> QED BY <1>2, <2>5
<1> QED BY <1>3, <1>4

\* Run(i) begins at the root and goes on by StepFrom.
LEMMA RunSteps ==
  ASSUME text \in Seq(Chars), NEW i \in 0 .. Len(text)
  PROVE  /\ Run(i)[i] = Root
         /\ \A j \in i + 1 .. Len(text) : Run(i)[j] = StepFrom(Run(i)[j - 1], text[j])
<1> DEFINE R(h) == [j \in i .. Len(text) |->
                      IF j = i THEN Root ELSE StepFrom(h[j - 1], text[j])]
<1>1. Run(i) = CHOOSE h : h = R(h)
  BY DEF Run, Abstract!Run, StepFrom
<1>2. \E h : h = R(h)
  BY RunExists DEF RunTo
<1>3. (CHOOSE h : h = R(h)) = R(CHOOSE h : h = R(h))
  <2> HIDE DEF R
  <2> QED BY <1>2
<1>4. Run(i) = R(Run(i))
  BY <1>1, <1>3
<1> QED BY <1>4

\* A run that has died stays dead.
LEMMA DeadStays ==
  ASSUME text \in Seq(Chars), NEW i \in 0 .. Len(text),
         NEW j \in i .. Len(text), Run(i)[j] = Dead
  PROVE  \A k \in j .. Len(text) : Run(i)[k] = Dead
<1> DEFINE T == {k \in j .. Len(text) : Run(i)[k] # Dead}
<1>1. SUFFICES ASSUME T # {} PROVE FALSE
  OBVIOUS
<1>2. T \subseteq Nat
  OBVIOUS
<1>3. PICK k \in T : \A e \in T : k <= e
  BY <1>1, <1>2, LeastNat
<1>4. k > j /\ k - 1 \in j .. Len(text) /\ k \in i + 1 .. Len(text)
  BY <1>3
<1>5. Run(i)[k - 1] = Dead
  BY <1>3, <1>4
<1>6. Run(i)[k] = StepFrom(Dead, text[k])
  BY <1>4, <1>5, RunSteps
<1> QED BY <1>3, <1>6 DEF StepFrom, Abstract!StepFrom

-----------------------------------------------------------------------------
(* Locations                                                                *)

NLs(n) == {i \in 1 .. n : text[i] = NL}
StartsLine(p, n) ==
  /\ p \in 0 .. n
  /\ p = 0 \/ text[p] = NL
  /\ \A i \in p + 1 .. n : text[i] # NL

\* The Tokenizer has its own instance of Cardinality.
LEMMA SameCardinality == \A S : Abstract!Cardinality(S) = Cardinality(S)
BY Zenon DEF Abstract!Cardinality, Cardinality

\* The newlines before a place can be counted.
LEMMA NLsCount ==
  ASSUME NEW n \in Nat
  PROVE  IsFiniteSet(NLs(n)) /\ Cardinality(NLs(n)) \in Nat
<1>1. IsFiniteSet(1 .. n)
  BY FS_Interval
<1>2. IsFiniteSet(NLs(n))
  BY <1>1, FS_Subset DEF NLs
<1> QED BY <1>2, FS_CardinalityType

\* There is a last newline, or the beginning of the text, before each place.
LEMMA LineExists ==
  ASSUME NEW n \in Nat
  PROVE  \E p : StartsLine(p, n)
<1> DEFINE T == {d \in 0 .. n : d = n \/ text[n - d] = NL}
<1>1. T \subseteq Nat /\ n \in T
  OBVIOUS
<1>2. PICK d \in T : \A e \in T : d <= e
  <2> HIDE DEF T
  <2> QED BY <1>1, LeastNat
<1>3. \A i \in (n - d) + 1 .. n : text[i] # NL
  <2> SUFFICES ASSUME NEW i \in (n - d) + 1 .. n, text[i] = NL PROVE FALSE
    OBVIOUS
  <2>1. n - i \in 0 .. n /\ n - (n - i) = i /\ n - i < d
    OBVIOUS
  <2> QED BY <1>2, <2>1
<1>4. StartsLine(n - d, n)
  BY <1>2, <1>3 DEF StartsLine
<1> QED BY <1>4

\* A line begins at one place only.
LEMMA LineUnique ==
  ASSUME NEW n \in Nat, NEW p, NEW q, StartsLine(p, n), StartsLine(q, n)
  PROVE  p = q
BY DEF StartsLine

\* LineStart finds the beginning of the line.
LEMMA LineStartIs ==
  ASSUME NEW n \in Nat, NEW p, StartsLine(p, n)
  PROVE  Abstract!LineStart(n) = p
<1>1. Abstract!LineStart(n) = CHOOSE q \in 0 .. n : StartsLine(q, n)
  BY DEF Abstract!LineStart, StartsLine
<1>2. \A q \in 0 .. n : StartsLine(q, n) => q = p
  BY LineUnique
<1>3. p \in 0 .. n
  BY DEF StartsLine
<1> QED BY <1>1, <1>2, <1>3

\* The location of a place, from where its line begins.
LEMMA LocationIs ==
  ASSUME NEW n \in Nat, NEW p, StartsLine(p, n)
  PROVE  Abstract!LocationOf(n) = [line |-> 1 + Cardinality(NLs(n)), column |-> n - p + 1]
<1>1. Abstract!LineStart(n) = p
  BY LineStartIs
<1>2. Abstract!Cardinality(NLs(n)) = Cardinality(NLs(n))
  BY SameCardinality
<1> QED BY <1>1, <1>2 DEF Abstract!LocationOf, NLs

\* Locations are typed.
LEMMA LocationTyped ==
  ASSUME NEW n \in Nat
  PROVE  Abstract!LocationOf(n) \in Location
<1>1. PICK p : StartsLine(p, n)
  BY LineExists
<1>2. p \in 0 .. n
  BY <1>1 DEF StartsLine
<1>3. 1 + Cardinality(NLs(n)) \in Nat /\ n - p + 1 \in Nat
  BY <1>2, NLsCount
<1> QED BY <1>1, <1>3, LocationIs DEF Location

\* LocationAfter is how locations go on.
LEMMA LocationSteps ==
  ASSUME NEW n \in Nat, location = Abstract!LocationOf(n)
  PROVE  Abstract!LocationOf(n + 1) = LocationAfter(text[n + 1])
<1>1. PICK p : StartsLine(p, n)
  BY LineExists
<1>2. p \in 0 .. n
  BY <1>1 DEF StartsLine
<1>3. location = [line |-> 1 + Cardinality(NLs(n)), column |-> n - p + 1]
  BY <1>1, LocationIs
<1>4. CASE text[n + 1] = NL
  <2>1. StartsLine(n + 1, n + 1)
    BY <1>4 DEF StartsLine
  <2>2. Abstract!LocationOf(n + 1)
          = [line |-> 1 + Cardinality(NLs(n + 1)), column |-> (n + 1) - (n + 1) + 1]
    BY <2>1, LocationIs
  <2>3. NLs(n + 1) = NLs(n) \cup {n + 1} /\ n + 1 \notin NLs(n)
    BY <1>4 DEF NLs
  <2>4. Cardinality(NLs(n + 1)) = Cardinality(NLs(n)) + 1
    BY <2>3, NLsCount, FS_AddElement
  <2>5. 1 + Cardinality(NLs(n + 1)) = (1 + Cardinality(NLs(n))) + 1
    BY <2>4, NLsCount
  <2> QED BY <1>3, <1>4, <2>2, <2>5 DEF LocationAfter
<1>5. CASE text[n + 1] # NL
  <2>1. StartsLine(p, n + 1)
    BY <1>1, <1>5 DEF StartsLine
  <2>2. Abstract!LocationOf(n + 1)
          = [line |-> 1 + Cardinality(NLs(n + 1)), column |-> (n + 1) - p + 1]
    BY <2>1, LocationIs
  <2>3. NLs(n + 1) = NLs(n)
    BY <1>5 DEF NLs
  <2>4. (n + 1) - p + 1 = (n - p + 1) + 1
    BY <1>2
  <2> QED BY <1>3, <1>5, <2>2, <2>3, <2>4 DEF LocationAfter
<1> QED BY <1>4, <1>5

\* A text begins at the location a reset gives.
LEMMA LocationStarts == Abstract!LocationOf(0) = FirstLocation
<1>1. StartsLine(0, 0)
  BY DEF StartsLine
<1>2. NLs(0) = {}
  BY DEF NLs
<1>3. Cardinality({}) = 0
  BY FS_EmptySet
<1> QED BY <1>1, <1>2, <1>3, LocationIs DEF FirstLocation

-----------------------------------------------------------------------------
(* Pieces of the text                                                       *)

Piece(i, j) == SubSeq(text, i + 1, j)

\* The length and the characters of a piece.
LEMMA PieceTyped ==
  ASSUME text \in Seq(Chars), NEW i \in 0 .. Len(text), NEW j \in i .. Len(text)
  PROVE  /\ Piece(i, j) \in Seq(Chars)
         /\ Len(Piece(i, j)) = j - i
         /\ \A k \in 1 .. j - i : Piece(i, j)[k] = text[i + k]
BY DEF Piece

\* A piece that ends where it begins is empty.
LEMMA PieceEmpty ==
  ASSUME text \in Seq(Chars), NEW i \in 0 .. Len(text)
  PROVE  Piece(i, i) = <<>>
BY DEF Piece

\* A piece grows by the next character.
LEMMA PieceAppend ==
  ASSUME text \in Seq(Chars), NEW i \in 0 .. Len(text), NEW j \in i .. Len(text) - 1
  PROVE  Append(Piece(i, j), text[j + 1]) = Piece(i, j + 1)
<1>1. /\ Piece(i, j) \in Seq(Chars) /\ Len(Piece(i, j)) = j - i
      /\ \A k \in 1 .. j - i : Piece(i, j)[k] = text[i + k]
  <2>1. j \in i .. Len(text)
    OBVIOUS
  <2> QED BY <2>1, PieceTyped
<1>2. /\ Piece(i, j + 1) \in Seq(Chars) /\ Len(Piece(i, j + 1)) = (j + 1) - i
      /\ \A k \in 1 .. (j + 1) - i : Piece(i, j + 1)[k] = text[i + k]
  <2>1. j + 1 \in i .. Len(text)
    OBVIOUS
  <2> QED BY <2>1, PieceTyped
<1> DEFINE piece == Piece(i, j)
           whole == Append(piece, text[j + 1])
<1>3. /\ whole \in Seq(Chars) /\ Len(whole) = (j + 1) - i
      /\ \A k \in 1 .. j - i : whole[k] = piece[k]
      /\ whole[(j + 1) - i] = text[j + 1]
  <2>1. text[j + 1] \in Chars /\ piece \in Seq(Chars) /\ Len(piece) = j - i
    BY <1>1
  <2>2. (j + 1) - i = Len(piece) + 1
    BY <2>1
  <2> HIDE DEF piece
  <2> QED BY <2>1, <2>2
<1>4. \A k \in 1 .. (j + 1) - i : whole[k] = Piece(i, j + 1)[k]
  <2> HIDE DEF whole
  <2> SUFFICES ASSUME NEW k \in 1 .. (j + 1) - i PROVE whole[k] = Piece(i, j + 1)[k]
    OBVIOUS
  <2>1. CASE k = (j + 1) - i
    <3>1. i + k = j + 1
      BY <2>1
    <3> QED BY <2>1, <3>1, <1>2, <1>3
  <2>2. CASE k # (j + 1) - i
    <3>1. k \in 1 .. j - i
      BY <2>2
    <3> QED BY <3>1, <1>1, <1>2, <1>3
  <2> QED BY <2>1, <2>2
<1> HIDE DEF whole
<1>5. whole = Piece(i, j + 1)
  BY <1>2, <1>3, <1>4
<1> QED BY <1>5 DEF whole

\* Two pieces that meet are one.
LEMMA PieceConcat ==
  ASSUME text \in Seq(Chars), NEW i \in 0 .. Len(text),
         NEW j \in i .. Len(text), NEW k \in j .. Len(text)
  PROVE  Piece(i, j) \o Piece(j, k) = Piece(i, k)
<1>1. /\ Piece(i, j) \in Seq(Chars) /\ Len(Piece(i, j)) = j - i
      /\ \A n \in 1 .. j - i : Piece(i, j)[n] = text[i + n]
  BY PieceTyped
<1>2. /\ Piece(j, k) \in Seq(Chars) /\ Len(Piece(j, k)) = k - j
      /\ \A n \in 1 .. k - j : Piece(j, k)[n] = text[j + n]
  <2>1. j \in 0 .. Len(text)
    OBVIOUS
  <2> QED BY <2>1, PieceTyped
<1>3. /\ Piece(i, k) \in Seq(Chars) /\ Len(Piece(i, k)) = k - i
      /\ \A n \in 1 .. k - i : Piece(i, k)[n] = text[i + n]
  <2>1. k \in i .. Len(text)
    OBVIOUS
  <2> QED BY <2>1, PieceTyped
<1> DEFINE whole == Piece(i, j) \o Piece(j, k)
<1>4. /\ whole \in Seq(Chars) /\ Len(whole) = k - i
      /\ \A n \in 1 .. j - i : whole[n] = Piece(i, j)[n]
      /\ \A n \in j - i + 1 .. k - i : whole[n] = Piece(j, k)[n - (j - i)]
  <2> DEFINE left == Piece(i, j)
             right == Piece(j, k)
  <2>1. left \in Seq(Chars) /\ right \in Seq(Chars) /\ Len(left) = j - i /\ Len(right) = k - j
    BY <1>1, <1>2
  <2> HIDE DEF left, right
  <2>2. /\ left \o right \in Seq(Chars) /\ Len(left \o right) = Len(left) + Len(right)
        /\ \A n \in 1 .. Len(left) : (left \o right)[n] = left[n]
        /\ \A n \in Len(left) + 1 .. Len(left) + Len(right) :
             (left \o right)[n] = right[n - Len(left)]
    BY <2>1, SMTT(30)
  <2>3. Len(left) + Len(right) = k - i
    BY <2>1
  <2> QED BY <2>1, <2>2, <2>3 DEF left, right
<1>5. \A n \in 1 .. k - i : whole[n] = Piece(i, k)[n]
  <2> HIDE DEF whole
  <2> SUFFICES ASSUME NEW n \in 1 .. k - i PROVE whole[n] = Piece(i, k)[n]
    OBVIOUS
  <2>1. CASE n <= j - i
    BY <2>1, <1>1, <1>3, <1>4
  <2>2. CASE n > j - i
    <3>1. n - (j - i) \in 1 .. k - j /\ j + (n - (j - i)) = i + n
      BY <2>2
    <3>2. n \in j - i + 1 .. k - i
      BY <2>2
    <3> QED BY <3>1, <3>2, <1>2, <1>3, <1>4
  <2> QED BY <2>1, <2>2
<1> HIDE DEF whole
<1>6. whole = Piece(i, k)
  BY <1>3, <1>4, <1>5
<1> QED BY <1>6 DEF whole

-----------------------------------------------------------------------------
(* The invariant                                                            *)

AcceptedTo(i, j) == Abstract!AcceptedTo(i, j)

\* Inside a scan, with the run that began at `start': it is alive, it has been
\* followed to buffer_pos, and what is noted as matched is the longest piece
\* accepted before the place we are at.
Scanned ==
  scanning =>
    /\ matched_buffer_pos \in start .. buffer_pos
    /\ current_state = Run(start)[buffer_pos]
    /\ \A k \in start .. buffer_pos : Run(start)[k] # Dead
    /\ matched_str = Piece(start, matched_buffer_pos)
    /\ found_buffer = Piece(matched_buffer_pos, buffer_pos)
    /\ matched =>
         /\ AcceptedTo(start, matched_buffer_pos)
         /\ matched_tags = dfa.terminals[Run(start)[matched_buffer_pos]]
    /\ ~matched => matched_buffer_pos = start
    /\ \A k \in start .. buffer_pos - 1 :
         AcceptedTo(start, k) => matched /\ k <= matched_buffer_pos

IInv == TypeOK /\ BufferIsText /\ LocationTrue /\ Scanned

\* Where the invariant holds, the buffer is a beginning of the text and the next
\* character is the text's, whether it is read from the buffer or the stream.
LEMMA HereFacts ==
  ASSUME IInv
  PROVE  /\ text \in Seq(Chars) /\ Len(text) \in Nat
         /\ buffer_pos \in 0 .. Len(text)
         /\ Len(buffer) = taken /\ taken \in 0 .. Len(text)
         /\ HasChar <=> buffer_pos < Len(text)
         /\ HasChar => char = text[buffer_pos + 1] /\ char \in Chars
<1>1. text \in Seq(Chars) /\ taken \in 0 .. Len(text) /\ buffer_pos \in 0 .. Len(buffer)
  BY DEF IInv, TypeOK
<1>2. Len(buffer) = taken /\ \A k \in 1 .. taken : buffer[k] = text[k]
  BY <1>1 DEF IInv, BufferIsText
<1>3. HasChar <=> buffer_pos < Len(text)
  BY <1>1, <1>2 DEF HasChar, FromBuffer
<1>4. HasChar => char = text[buffer_pos + 1]
  BY <1>1, <1>2 DEF HasChar, char, FromBuffer
<1>5. HasChar => text[buffer_pos + 1] \in Chars
  BY <1>1, <1>2, <1>3
<1> QED BY <1>1, <1>2, <1>3, <1>4, <1>5

\* The automaton's parts, where the invariant holds.
LEMMA AutomatonTyped ==
  ASSUME IInv
  PROVE  /\ \A q \in States, c \in Chars : dfa.next[<<q, c>>] \in States \cup {Dead}
         /\ \A q \in States : dfa.terminals[q] \in Seq(Tags)
         /\ dfa.skip \subseteq Tags
<1>1. dfa \in Automata
  BY DEF IInv, TypeOK
<1>2. /\ dfa.next \in [States \X Chars -> States \cup {Dead}]
      /\ dfa.terminals \in [States -> Seq(Tags)] /\ dfa.skip \subseteq Tags
  BY <1>1, LexerAssumption
<1> QED BY <1>2

\* What Noted holds in a scan: the invariant about matched_*, for one place more.
LEMMA NotedFacts ==
  ASSUME IInv, scanning
  PROVE  /\ Noted.pos \in start .. buffer_pos
         /\ NowMatched =>
              /\ AcceptedTo(start, Noted.pos)
              /\ Noted.tags = dfa.terminals[Run(start)[Noted.pos]]
         /\ ~NowMatched => Noted.pos = start
         /\ Noted.str = Piece(start, Noted.pos)
         /\ Noted.found = Piece(Noted.pos, buffer_pos)
         /\ Noted.loc = Abstract!LocationOf(Noted.pos)
         /\ \A k \in start .. buffer_pos :
              AcceptedTo(start, k) => NowMatched /\ k <= Noted.pos
         /\ Noted.tags \in Seq(Tags)
<1>1. /\ text \in Seq(Chars) /\ Len(text) \in Nat /\ buffer_pos \in 0 .. Len(text)
      /\ start \in Nat /\ matched_buffer_pos \in start .. buffer_pos
  BY HereFacts DEF IInv, TypeOK, Scanned
<1>2. /\ current_state = Run(start)[buffer_pos] /\ current_state # Dead
      /\ current_state \in States
  BY <1>1 DEF IInv, TypeOK, Scanned
<1>3. AcceptedTo(start, buffer_pos) <=> terminals # <<>>
  BY <1>2 DEF AcceptedTo, Abstract!AcceptedTo, Run, terminals
<1>4. CASE terminals # <<>>
  <2>1. /\ Noted.tags = terminals /\ Noted.str = matched_str \o found_buffer
        /\ Noted.pos = buffer_pos /\ Noted.loc = location /\ Noted.found = <<>>
        /\ NowMatched
    BY <1>4 DEF Noted, NowMatched
  <2>2. matched_str \o found_buffer = Piece(start, buffer_pos)
    <3>1. /\ start \in 0 .. Len(text) /\ matched_buffer_pos \in start .. Len(text)
          /\ buffer_pos \in matched_buffer_pos .. Len(text)
      BY <1>1
    <3>2. /\ matched_str = Piece(start, matched_buffer_pos)
          /\ found_buffer = Piece(matched_buffer_pos, buffer_pos)
      BY DEF IInv, Scanned
    <3> QED BY <1>1, <3>1, <3>2, PieceConcat
  <2>3. Piece(buffer_pos, buffer_pos) = <<>>
    BY <1>1, PieceEmpty
  <2>4. terminals \in Seq(Tags) /\ terminals = dfa.terminals[Run(start)[buffer_pos]]
    BY <1>2, AutomatonTyped DEF terminals
  <2>5. location = Abstract!LocationOf(buffer_pos)
    BY DEF IInv, LocationTrue
  <2> QED BY <1>1, <1>3, <1>4, <2>1, <2>2, <2>3, <2>4, <2>5
<1>5. CASE terminals = <<>>
  <2>1. /\ Noted.tags = matched_tags /\ Noted.str = matched_str
        /\ Noted.pos = matched_buffer_pos /\ Noted.loc = matched_location
        /\ Noted.found = found_buffer /\ (NowMatched <=> matched)
    BY <1>5 DEF Noted, NowMatched
  <2>2. \A k \in start .. buffer_pos :
          AcceptedTo(start, k) => matched /\ k <= matched_buffer_pos
    BY <1>1, <1>3, <1>5 DEF IInv, Scanned
  <2>3. /\ matched_location = Abstract!LocationOf(matched_buffer_pos)
        /\ matched_tags \in Seq(Tags)
    BY DEF IInv, LocationTrue, TypeOK
  <2> QED BY <1>1, <2>1, <2>2, <2>3 DEF IInv, Scanned
<1> QED BY <1>4, <1>5

-----------------------------------------------------------------------------
(* Steps that keep the text and the automaton keep runs and locations.      *)

\* Runs, acceptance, locations and pieces depend on the automaton and the text only.
LEMMA SameRuns ==
  ASSUME UNCHANGED <<dfa, text>>
  PROVE  /\ \A i : Run(i)' = Run(i)
         /\ \A i, j : AcceptedTo(i, j)' <=> AcceptedTo(i, j)
         /\ \A i : Abstract!LocationOf(i)' = Abstract!LocationOf(i)
         /\ \A i, j : Piece(i, j)' = Piece(i, j)
BY DEF Run, Abstract!Run, Abstract!StepFrom, AcceptedTo, Abstract!AcceptedTo,
       Abstract!LocationOf, Abstract!LineStart, Piece

\* A scan begins with nothing matched and a run at the root.
LEMMA ScanStep ==
  ASSUME IInv, Scan
  PROVE  Scanned'
<1>1. /\ text \in Seq(Chars) /\ buffer_pos \in 0 .. Len(text)
  BY HereFacts
<1>2. /\ UNCHANGED <<dfa, text, buffer_pos>> /\ start' = buffer_pos
      /\ current_state' = Root /\ matched' = FALSE /\ matched_str' = <<>>
      /\ matched_buffer_pos' = buffer_pos /\ found_buffer' = <<>>
  BY DEF Scan, StartScan, streamVars
<1>3. Run(buffer_pos)[buffer_pos] = Root
  BY <1>1, RunSteps
<1>4. Run(start)' = Run(buffer_pos)
  BY <1>2, SameRuns
<1>5. Piece(start, matched_buffer_pos)' = <<>> /\ Piece(matched_buffer_pos, buffer_pos)' = <<>>
  BY <1>1, <1>2, PieceEmpty DEF Piece
<1>6. Root # Dead
  BY LexerAssumption
<1>7. /\ matched_buffer_pos' \in start' .. buffer_pos'
      /\ \A k \in start' .. buffer_pos' : k = buffer_pos
      /\ start' .. buffer_pos' - 1 = {}
  BY <1>1, <1>2
<1> QED BY <1>2, <1>3, <1>4, <1>5, <1>6, <1>7 DEF Scanned

\* A turn of the loop that finds a next state.
LEMMA AdvanceStep ==
  ASSUME IInv, Advance
  PROVE  Scanned'
<1>1. /\ text \in Seq(Chars) /\ Len(text) \in Nat /\ buffer_pos \in 0 .. Len(text) - 1
      /\ char = text[buffer_pos + 1] /\ scanning
  BY HereFacts DEF Advance
<1>2. /\ UNCHANGED <<dfa, text, start>> /\ buffer_pos' = buffer_pos + 1
      /\ current_state' = dfa.next[<<current_state, char>>] /\ current_state' # Dead
      /\ matched' = NowMatched /\ matched_tags' = Noted.tags /\ matched_str' = Noted.str
      /\ matched_buffer_pos' = Noted.pos /\ found_buffer' = Append(Noted.found, char)
  BY DEF Advance, streamVars
<1> DEFINE p == Noted.pos
           st == start
           n == buffer_pos
<1>3. st \in 0 .. n /\ p \in st .. n
  BY <1>1, NotedFacts DEF IInv, TypeOK, Scanned
<1>4. /\ \A k \in st .. n : Run(st)[k] # Dead
      /\ current_state = Run(st)[n]
  BY <1>1 DEF IInv, Scanned
<1>5. Run(st)[n + 1] = current_state'
  <2>1. n + 1 \in st + 1 .. Len(text) /\ (n + 1) - 1 = n /\ st \in 0 .. Len(text)
    BY <1>1, <1>3
  <2>2. Run(st)[n + 1] = StepFrom(Run(st)[n], text[n + 1])
    BY <1>1, <2>1, RunSteps
  <2>3. Run(st)[n] # Dead
    BY <1>1, <1>3, <1>4
  <2> QED BY <1>1, <1>2, <1>4, <2>2, <2>3 DEF StepFrom, Abstract!StepFrom
<1>6. Append(Noted.found, char) = Piece(p, n + 1)
  <2>1. Noted.found = Piece(p, n)
    BY <1>1, NotedFacts
  <2>2. p \in 0 .. Len(text) /\ n \in p .. Len(text) - 1
    BY <1>1, <1>3
  <2> QED BY <1>1, <2>1, <2>2, PieceAppend
<1>7. Noted.str = Piece(st, p)
  BY <1>1, NotedFacts
<1>8. /\ NowMatched => AcceptedTo(st, p) /\ Noted.tags = dfa.terminals[Run(st)[p]]
      /\ ~NowMatched => p = st
      /\ \A k \in st .. n : AcceptedTo(st, k) => NowMatched /\ k <= p
  BY <1>1, NotedFacts
<1>9. /\ \A k : Run(start)'[k] = Run(st)[k]
      /\ \A k : AcceptedTo(start, k)' <=> AcceptedTo(st, k)
      /\ AcceptedTo(start, matched_buffer_pos)' <=> AcceptedTo(st, p)
      /\ Piece(start, matched_buffer_pos)' = Piece(st, p)
      /\ Piece(matched_buffer_pos, buffer_pos)' = Piece(p, n + 1)
  BY <1>2, SameRuns
<1>10. /\ matched_buffer_pos' = p /\ start' = st /\ buffer_pos' = n + 1 /\ dfa' = dfa
  BY <1>2
<1>11. p \in st .. n + 1 /\ st .. (n + 1) - 1 = st .. n /\ st .. n + 1 = (st .. n) \cup {n + 1}
  BY <1>1, <1>3
<1> HIDE DEF p, st, n
<1> QED BY <1>2, <1>4, <1>5, <1>6, <1>7, <1>8, <1>9, <1>10, <1>11, SMTT(30) DEF Scanned

\* The end of _scan: another scan begins where the skipped piece ended, or none.
LEMMA DeliverStep ==
  ASSUME IInv, scanning, NEW tags, NEW lexeme, Deliver(tags, lexeme)
  PROVE  Scanned'
<1>1. /\ text \in Seq(Chars) /\ Len(text) \in Nat /\ UNCHANGED <<dfa, text>>
      /\ Noted.pos \in 0 .. Len(text)
  BY HereFacts, NotedFacts DEF Deliver, streamVars, IInv, TypeOK
<1>2. CASE ~Skipped(tags)
  BY <1>2 DEF Deliver, Scanned
<1>3. CASE Skipped(tags)
  <2> DEFINE p == Noted.pos
  <2>1. /\ buffer_pos' = p /\ start' = p
        /\ current_state' = Root /\ matched' = FALSE /\ matched_str' = <<>>
        /\ matched_buffer_pos' = p /\ found_buffer' = <<>>
    BY <1>3 DEF Deliver, StartScan
  <2>2. Run(p)[p] = Root
    BY <1>1, RunSteps
  <2>3. Run(start)' = Run(p)
    BY <1>1, <2>1, SameRuns
  <2>4. Piece(start, matched_buffer_pos)' = Piece(p, p)
        /\ Piece(matched_buffer_pos, buffer_pos)' = Piece(p, p)
    BY <1>1, <2>1, SameRuns
  <2>5. Piece(p, p) = <<>>
    BY <1>1, PieceEmpty
  <2>6. Root # Dead
    BY LexerAssumption
  <2>7. /\ matched_buffer_pos' \in start' .. buffer_pos'
        /\ \A k \in start' .. buffer_pos' : k = p
        /\ start' .. buffer_pos' - 1 = {}
    BY <1>1, <2>1
  <2> HIDE DEF p
  <2> QED BY <2>1, <2>2, <2>3, <2>4, <2>5, <2>6, <2>7 DEF Scanned
<1> QED BY <1>2, <1>3

\* Fail reads a character and ends the scan.
LEMMA FailDelivers ==
  Fail => scanning /\ HasChar /\ Read /\ \E tags, lexeme : Deliver(tags, lexeme)
BY DEF Fail

\* Exhaust ends the scan with nothing read.
LEMMA ExhaustDelivers ==
  Exhaust => scanning /\ UNCHANGED <<taken, buffer>> /\ \E tags, lexeme : Deliver(tags, lexeme)
BY DEF Exhaust

\* Every step keeps what the locals of _scan hold.
LEMMA ScannedStep ==
  ASSUME IInv, [Next]_vars
  PROVE  Scanned'
<1>1. CASE Scan
  BY <1>1, ScanStep
<1>2. CASE Advance
  BY <1>2, AdvanceStep
<1>3. CASE Fail \/ Exhaust
  BY <1>3, FailDelivers, ExhaustDelivers, DeliverStep
<1>4. ASSUME NEW t \in Texts, NEW b \in BOOLEAN, Reset(t, b)
      PROVE  Scanned'
  BY <1>4 DEF Reset, Scanned
<1>5. CASE UNCHANGED vars
  <2>1. UNCHANGED <<dfa, text, scanning, start, buffer_pos, matched_buffer_pos, current_state,
                    matched, matched_str, matched_tags, found_buffer>>
    BY <1>5 DEF vars, streamVars, scanVars
  <2>2. /\ Run(start)' = Run(start)
        /\ \A k : AcceptedTo(start, k)' <=> AcceptedTo(start, k)
        /\ AcceptedTo(start, matched_buffer_pos)' <=> AcceptedTo(start, matched_buffer_pos)
        /\ Piece(start, matched_buffer_pos)' = Piece(start, matched_buffer_pos)
        /\ Piece(matched_buffer_pos, buffer_pos)' = Piece(matched_buffer_pos, buffer_pos)
    BY <2>1, SameRuns
  <2> QED BY <2>1, <2>2 DEF IInv, Scanned
<1> QED BY <1>1, <1>2, <1>3, <1>4, <1>5 DEF Next, Loop

-----------------------------------------------------------------------------
(* The buffer and the locations                                             *)

\* A character read from the stream is the next one of the text.
LEMMA ReadStep ==
  ASSUME IInv, HasChar, Read, UNCHANGED text
  PROVE  BufferIsText' /\ taken' \in taken .. Len(text) /\ buffer_pos + 1 <= taken'
<1>1. /\ text \in Seq(Chars) /\ Len(text) \in Nat /\ taken \in 0 .. Len(text)
      /\ buffer_pos \in 0 .. Len(text) - 1 /\ Len(buffer) = taken
      /\ char = text[buffer_pos + 1] /\ buffer_pos <= taken
  BY HereFacts DEF IInv, TypeOK
<1>2. buffer = Piece(0, taken)
  BY DEF IInv, BufferIsText, Piece
<1>3. CASE FromBuffer
  <2>1. UNCHANGED <<taken, buffer>> /\ buffer_pos < taken
    BY <1>1, <1>3 DEF Read, FromBuffer
  <2> QED BY <1>1, <2>1 DEF IInv, BufferIsText
<1>4. CASE ~FromBuffer
  <2>1. taken = buffer_pos
    BY <1>1, <1>4 DEF FromBuffer
  <2>2. taken' = taken + 1 /\ buffer' = Append(buffer, char)
    BY <1>4 DEF Read
  <2>3. Append(Piece(0, taken), text[taken + 1]) = Piece(0, taken + 1)
    <3>1. 0 \in 0 .. Len(text) /\ taken \in 0 .. Len(text) - 1
      BY <1>1, <2>1
    <3> QED BY <1>1, <3>1, PieceAppend
  <2>4. buffer' = SubSeq(text, 1, taken + 1)
    BY <1>1, <1>2, <2>1, <2>2, <2>3 DEF Piece
  <2> QED BY <1>1, <2>1, <2>2, <2>4 DEF BufferIsText
<1> QED BY <1>3, <1>4

\* Every step keeps the buffer a beginning of the text.
LEMMA BufferStep ==
  ASSUME IInv, [Next]_vars
  PROVE  BufferIsText' /\ taken' \in 0 .. Len(text')
<1>1. taken \in 0 .. Len(text) /\ text \in Seq(Chars)
  BY DEF IInv, TypeOK
<1>2. CASE Scan \/ Exhaust \/ UNCHANGED vars
  <2>1. UNCHANGED <<text, taken, buffer>>
    BY <1>2, ExhaustDelivers DEF Scan, Exhaust, Deliver, vars, streamVars
  <2> QED BY <1>1, <2>1 DEF IInv, BufferIsText
<1>3. CASE Advance \/ Fail
  <2>1. HasChar /\ Read /\ UNCHANGED text
    BY <1>3 DEF Advance, Fail, Deliver, streamVars
  <2> QED BY <1>1, <2>1, ReadStep
<1>4. ASSUME NEW t \in Texts, NEW b \in BOOLEAN, Reset(t, b)
      PROVE  BufferIsText' /\ taken' \in 0 .. Len(text')
  <2>1. text' \in Seq(Chars) /\ taken' = 0 /\ buffer' = <<>>
    BY <1>4, LexerAssumption DEF Reset
  <2> QED BY <2>1 DEF BufferIsText
<1> QED BY <1>2, <1>3, <1>4 DEF Next, Loop

\* Every step keeps the locations true.
LEMMA LocationStep ==
  ASSUME IInv, [Next]_vars
  PROVE  LocationTrue'
<1>1. /\ buffer_pos \in Nat /\ location = Abstract!LocationOf(buffer_pos)
      /\ scanning => /\ saved_location = Abstract!LocationOf(start)
                     /\ matched_location = Abstract!LocationOf(matched_buffer_pos)
  BY HereFacts DEF IInv, LocationTrue
<1>2. CASE Scan
  <2>1. /\ UNCHANGED <<dfa, text, buffer_pos, location>> /\ start' = buffer_pos
        /\ matched_buffer_pos' = buffer_pos
        /\ saved_location' = location /\ matched_location' = location
    BY <1>2 DEF Scan, StartScan, streamVars
  <2>2. /\ Abstract!LocationOf(buffer_pos)' = Abstract!LocationOf(buffer_pos)
        /\ Abstract!LocationOf(start)' = Abstract!LocationOf(buffer_pos)
        /\ Abstract!LocationOf(matched_buffer_pos)' = Abstract!LocationOf(buffer_pos)
    BY <2>1, SameRuns
  <2> QED BY <1>1, <2>1, <2>2 DEF LocationTrue
<1>3. CASE Advance
  <2>1. /\ UNCHANGED <<dfa, text, start, saved_location>> /\ buffer_pos' = buffer_pos + 1
        /\ location' = LocationAfter(char) /\ matched_location' = Noted.loc
        /\ matched_buffer_pos' = Noted.pos /\ scanning /\ HasChar
    BY <1>3 DEF Advance, streamVars
  <2>2. Abstract!LocationOf(buffer_pos + 1) = LocationAfter(char)
    BY <1>1, <2>1, LocationSteps, HereFacts
  <2>3. Noted.loc = Abstract!LocationOf(Noted.pos)
    BY <2>1, NotedFacts
  <2>4. /\ Abstract!LocationOf(buffer_pos)' = Abstract!LocationOf(buffer_pos + 1)
        /\ Abstract!LocationOf(start)' = Abstract!LocationOf(start)
        /\ Abstract!LocationOf(matched_buffer_pos)' = Abstract!LocationOf(Noted.pos)
    BY <2>1, SameRuns
  <2> QED BY <1>1, <2>1, <2>2, <2>3, <2>4 DEF LocationTrue
<1>4. ASSUME scanning, NEW tags, NEW lexeme, Deliver(tags, lexeme)
      PROVE  LocationTrue'
  <2>1. /\ UNCHANGED <<dfa, text>> /\ buffer_pos' = Noted.pos /\ location' = Noted.loc
    BY <1>4 DEF Deliver, streamVars
  <2>2. Noted.loc = Abstract!LocationOf(Noted.pos)
    BY <1>4, NotedFacts
  <2>3. Abstract!LocationOf(buffer_pos)' = Abstract!LocationOf(Noted.pos)
    BY <2>1, SameRuns
  <2>4. CASE ~Skipped(tags)
    BY <1>4, <2>1, <2>2, <2>3, <2>4 DEF Deliver, LocationTrue
  <2>5. CASE Skipped(tags)
    <3>1. /\ start' = Noted.pos /\ matched_buffer_pos' = Noted.pos
          /\ saved_location' = Noted.loc /\ matched_location' = Noted.loc
      BY <1>4, <2>5 DEF Deliver, StartScan
    <3>2. /\ Abstract!LocationOf(start)' = Abstract!LocationOf(Noted.pos)
          /\ Abstract!LocationOf(matched_buffer_pos)' = Abstract!LocationOf(Noted.pos)
      BY <2>1, <3>1, SameRuns
    <3> QED BY <2>1, <2>2, <2>3, <3>1, <3>2 DEF LocationTrue
  <2> QED BY <2>4, <2>5
<1>5. CASE Fail \/ Exhaust
  BY <1>4, <1>5, FailDelivers, ExhaustDelivers
<1>6. ASSUME NEW t \in Texts, NEW b \in BOOLEAN, Reset(t, b)
      PROVE  LocationTrue'
  <2>1. buffer_pos' = 0 /\ location' = FirstLocation /\ ~scanning'
    BY <1>6 DEF Reset
  <2>2. Abstract!LocationOf(0)' = FirstLocation
    <3>1. (Abstract!LocationOf(0) = FirstLocation)'
      BY LocationStarts, PTL
    <3> QED BY <3>1 DEF FirstLocation
  <2>3. Abstract!LocationOf(buffer_pos)' = FirstLocation
    BY <2>1, <2>2
  <2> QED BY <2>1, <2>3 DEF LocationTrue
<1>7. CASE UNCHANGED vars
  <2>1. /\ UNCHANGED <<dfa, text, buffer_pos, location, scanning, start, matched_buffer_pos,
                      saved_location, matched_location>>
    BY <1>7 DEF vars, streamVars, scanVars
  <2>2. /\ Abstract!LocationOf(buffer_pos)' = Abstract!LocationOf(buffer_pos)
        /\ Abstract!LocationOf(start)' = Abstract!LocationOf(start)
        /\ Abstract!LocationOf(matched_buffer_pos)' = Abstract!LocationOf(matched_buffer_pos)
    BY <2>1, SameRuns
  <2> QED BY <1>1, <2>1, <2>2 DEF LocationTrue
<1> QED BY <1>2, <1>3, <1>5, <1>6, <1>7 DEF Next, Loop

-----------------------------------------------------------------------------
(* Types                                                                    *)

StreamTyped == dfa \in Automata /\ text \in Seq(Chars) /\ broken \in BOOLEAN
PositionTyped == buffer_pos \in 0 .. taken /\ location \in Location
LocalsTyped ==
  /\ current_state \in States /\ matched \in BOOLEAN
  /\ matched_tags \in Seq(Tags) /\ matched_str \in Seq(Chars)
  /\ matched_buffer_pos \in Nat /\ start \in Nat
  /\ saved_location \in Location /\ matched_location \in Location
  /\ found_buffer \in Seq(Chars)
ReturnTyped ==
  /\ scanning \in BOOLEAN
  /\ token \in [tags : Seq(Tags \cup {END, BAD}), lexeme : Seq(Chars), loc : Location]

\* The parts of TypeOK; the buffer has its type from the text.
LEMMA TypeParts ==
  ASSUME StreamTyped, PositionTyped, LocalsTyped, ReturnTyped,
         taken \in 0 .. Len(text), BufferIsText
  PROVE  TypeOK
<1>1. buffer \in Seq(Chars) /\ Len(buffer) = taken
  BY DEF StreamTyped, BufferIsText
<1> QED BY <1>1 DEF StreamTyped, PositionTyped, LocalsTyped, ReturnTyped, TypeOK

\* The types of what is noted.
LEMMA NotedTyped ==
  ASSUME IInv, scanning
  PROVE  /\ Noted.pos \in 0 .. buffer_pos /\ Noted.loc \in Location
         /\ Noted.tags \in Seq(Tags) /\ Noted.str \in Seq(Chars)
         /\ Noted.found \in Seq(Chars) /\ NowMatched \in BOOLEAN
<1>1. /\ text \in Seq(Chars) /\ buffer_pos \in 0 .. Len(text) /\ start \in Nat
      /\ Noted.pos \in start .. buffer_pos /\ Len(text) \in Nat
  BY HereFacts, NotedFacts DEF IInv, TypeOK
<1>2. /\ start \in 0 .. Len(text) /\ Noted.pos \in start .. Len(text)
      /\ Noted.pos \in 0 .. Len(text) /\ buffer_pos \in Noted.pos .. Len(text)
  BY <1>1
<1>3. Noted.str \in Seq(Chars) /\ Noted.found \in Seq(Chars)
  BY <1>1, <1>2, NotedFacts, PieceTyped
<1>4. Noted.loc \in Location /\ Noted.tags \in Seq(Tags)
  BY <1>2, NotedFacts, LocationTyped
<1>5. NowMatched \in BOOLEAN
  BY DEF NowMatched, IInv, TypeOK
<1> QED BY <1>1, <1>3, <1>4, <1>5

\* The locals _scan starts with are typed.
LEMMA StartTyped ==
  ASSUME NEW p \in Nat, NEW loc \in Location, StartScan(p, loc)
  PROVE  LocalsTyped'
<1>1. <<>> \in Seq(Tags) /\ <<>> \in Seq(Chars)
  OBVIOUS
<1>2. Root \in States
  BY LexerAssumption
<1> QED BY <1>1, <1>2 DEF StartScan, LocalsTyped

\* Types at the end of _scan.
LEMMA DeliverTyped ==
  ASSUME IInv, scanning, taken' \in taken .. Len(text),
         NEW tags \in Seq(Tags \cup {END, BAD}), NEW lexeme \in Seq(Chars),
         Deliver(tags, lexeme)
  PROVE  StreamTyped' /\ PositionTyped' /\ LocalsTyped' /\ ReturnTyped'
<1>1. /\ Noted.pos \in 0 .. buffer_pos /\ Noted.loc \in Location /\ buffer_pos \in 0 .. taken
      /\ saved_location \in Location /\ StreamTyped /\ ReturnTyped /\ taken \in Nat
  BY NotedTyped, HereFacts DEF IInv, TypeOK, StreamTyped, ReturnTyped
<1>2. StreamTyped'
  BY <1>1 DEF Deliver, streamVars, StreamTyped
<1>3. PositionTyped'
  BY <1>1 DEF Deliver, PositionTyped
<1>4. FirstLocation \in Location /\ 0 \in Nat /\ Noted.pos \in Nat
  BY <1>1 DEF FirstLocation, Location
<1>5. CASE Skipped(tags)
  <2>1. LocalsTyped'
    BY <1>1, <1>4, <1>5, StartTyped DEF Deliver
  <2> QED BY <1>1, <1>2, <1>3, <1>5, <2>1 DEF Deliver, ReturnTyped
<1>6. CASE ~Skipped(tags)
  <2>1. LocalsTyped'
    BY <1>4, <1>6, StartTyped DEF Deliver
  <2>2. /\ token' = [tags |-> tags, lexeme |-> lexeme, loc |-> saved_location]
        /\ scanning' = FALSE
    BY <1>6 DEF Deliver, Abstract!Token
  <2>3. ReturnTyped'
    BY <1>1, <2>2 DEF ReturnTyped
  <2> QED BY <1>2, <1>3, <2>1, <2>3
<1> QED BY <1>5, <1>6

\* Types after a turn that goes on.
LEMMA AdvanceTyped ==
  ASSUME IInv, Advance
  PROVE  StreamTyped' /\ PositionTyped' /\ LocalsTyped' /\ ReturnTyped'
<1>1. /\ scanning /\ HasChar /\ Read /\ UNCHANGED text
      /\ buffer_pos' = buffer_pos + 1 /\ location' = LocationAfter(char)
  BY DEF Advance, streamVars
<1>2. /\ taken' \in Nat /\ buffer_pos + 1 <= taken' /\ buffer_pos \in Nat
      /\ char \in Chars /\ location \in Location
  BY <1>1, ReadStep, HereFacts DEF IInv, TypeOK
<1>3. PositionTyped'
  BY <1>1, <1>2 DEF PositionTyped, LocationAfter, Location
<1>4. dfa.next[<<current_state, char>>] \in States
  BY <1>2, AutomatonTyped DEF Advance, IInv, TypeOK
<1>5. Append(Noted.found, char) \in Seq(Chars)
  BY <1>1, <1>2, NotedTyped
<1>6. /\ Noted.pos \in Nat /\ Noted.loc \in Location
      /\ Noted.tags \in Seq(Tags) /\ Noted.str \in Seq(Chars) /\ NowMatched \in BOOLEAN
  BY <1>1, NotedTyped
<1>7. LocalsTyped'
  BY <1>4, <1>5, <1>6 DEF Advance, LocalsTyped, IInv, TypeOK
<1> QED BY <1>3, <1>7 DEF Advance, StreamTyped, ReturnTyped, streamVars, IInv, TypeOK

\* Types after a turn that finds no next state.
LEMMA FailTyped ==
  ASSUME IInv, Fail
  PROVE  StreamTyped' /\ PositionTyped' /\ LocalsTyped' /\ ReturnTyped'
<1>1. scanning /\ HasChar /\ Read /\ UNCHANGED text
  BY DEF Fail, Deliver, streamVars
<1>2. taken' \in taken .. Len(text) /\ char \in Chars
  BY <1>1, ReadStep, HereFacts
<1>3. CASE NowMatched
  <2>1. Deliver(Noted.tags, Noted.str)
    BY <1>3 DEF Fail
  <2>2. Noted.tags \in Seq(Tags \cup {END, BAD}) /\ Noted.str \in Seq(Chars)
    BY <1>1, NotedTyped
  <2> QED BY <1>1, <1>2, <2>1, <2>2, DeliverTyped
<1>4. CASE ~NowMatched
  <2>1. Deliver(<<BAD>>, Append(Noted.found, char))
    BY <1>4 DEF Fail
  <2>2. <<BAD>> \in Seq(Tags \cup {END, BAD}) /\ Append(Noted.found, char) \in Seq(Chars)
    BY <1>1, <1>2, NotedTyped
  <2> QED BY <1>1, <1>2, <2>1, <2>2, DeliverTyped
<1> QED BY <1>3, <1>4

\* Types after a turn that finds no character.
LEMMA ExhaustTyped ==
  ASSUME IInv, Exhaust
  PROVE  StreamTyped' /\ PositionTyped' /\ LocalsTyped' /\ ReturnTyped'
<1>1. scanning /\ taken' = taken
  BY DEF Exhaust
<1>2. taken' \in taken .. Len(text)
  BY <1>1, HereFacts
<1>3. PICK tags \in Seq(Tags \cup {END, BAD}), lexeme \in Seq(Chars) : Deliver(tags, lexeme)
  <2>1. /\ Noted.tags \in Seq(Tags \cup {END, BAD}) /\ Noted.str \in Seq(Chars)
        /\ <<BAD>> \in Seq(Tags \cup {END, BAD}) /\ <<END>> \in Seq(Tags \cup {END, BAD})
        /\ <<>> \in Seq(Chars) /\ Noted.found \in Seq(Chars)
    BY <1>1, NotedTyped
  <2>2. \/ Deliver(Noted.tags, Noted.str) \/ Deliver(<<END>>, <<>>)
        \/ Deliver(<<BAD>>, Noted.found)
    BY DEF Exhaust
  <2> QED BY <2>1, <2>2
<1> QED BY <1>1, <1>2, <1>3, DeliverTyped

\* Every step keeps the types.
LEMMA TypeStep ==
  ASSUME IInv, [Next]_vars
  PROVE  TypeOK'
<1>1. StreamTyped /\ PositionTyped /\ LocalsTyped /\ ReturnTyped
  BY HereFacts DEF IInv, TypeOK, StreamTyped, PositionTyped, LocalsTyped, ReturnTyped
<1>2. SUFFICES StreamTyped' /\ PositionTyped' /\ LocalsTyped' /\ ReturnTyped'
  <2>1. BufferIsText' /\ taken' \in 0 .. Len(text')
    BY BufferStep
  <2>2. (StreamTyped /\ PositionTyped /\ LocalsTyped /\ ReturnTyped
         /\ taken \in 0 .. Len(text) /\ BufferIsText => TypeOK)'
    BY TypeParts, PTL
  <2> QED BY <2>1, <2>2
<1>3. CASE Scan
  <2>1. LocalsTyped'
    <3>1. buffer_pos \in Nat /\ location \in Location
      BY HereFacts DEF IInv, TypeOK
    <3> QED BY <1>3, <3>1, StartTyped DEF Scan
  <2> QED BY <1>1, <1>3, <2>1 DEF Scan, streamVars, StreamTyped, PositionTyped, ReturnTyped
<1>4. CASE Advance
  BY <1>4, AdvanceTyped
<1>5. CASE Fail
  BY <1>5, FailTyped
<1>6. CASE Exhaust
  BY <1>6, ExhaustTyped
<1>7. ASSUME NEW t \in Texts, NEW b \in BOOLEAN, Reset(t, b)
      PROVE  StreamTyped' /\ PositionTyped' /\ LocalsTyped' /\ ReturnTyped'
  <2>1. t \in Seq(Chars) /\ <<>> \in Seq(Chars) /\ <<>> \in Seq(Tags \cup {END, BAD})
    BY LexerAssumption
  <2>2. FirstLocation \in Location
    BY DEF FirstLocation, Location
  <2>3. token' = [tags |-> <<>>, lexeme |-> <<>>, loc |-> FirstLocation]
    BY <1>7 DEF Reset, Abstract!NoToken, Abstract!Token, FirstLocation
  <2>4. ReturnTyped'
    BY <1>1, <1>7, <2>1, <2>2, <2>3 DEF Reset, ReturnTyped
  <2> QED BY <1>1, <1>7, <2>1, <2>2, <2>4
          DEF Reset, StreamTyped, PositionTyped, LocalsTyped, scanVars
<1>8. CASE UNCHANGED vars
  BY <1>1, <1>8 DEF vars, streamVars, scanVars, StreamTyped, PositionTyped, LocalsTyped,
                    ReturnTyped
<1> QED BY <1>3, <1>4, <1>5, <1>6, <1>7, <1>8 DEF Next, Loop

-----------------------------------------------------------------------------
\* The invariant holds at first.
LEMMA IInvInit == Init => IInv
<1> SUFFICES ASSUME Init PROVE IInv
  OBVIOUS
<1>1. /\ dfa \in Automata /\ broken = FALSE /\ scanning = FALSE
      /\ text = <<>> /\ taken = 0 /\ buffer = <<>> /\ buffer_pos = 0
      /\ location = FirstLocation /\ saved_location = location /\ matched_location = location
      /\ current_state = Root /\ matched = FALSE /\ matched_tags = <<>> /\ matched_str = <<>>
      /\ matched_buffer_pos = 0 /\ start = 0 /\ found_buffer = <<>>
      /\ token = [tags |-> <<>>, lexeme |-> <<>>, loc |-> FirstLocation]
  BY DEF Init, Abstract!NoToken, Abstract!Token, FirstLocation
<1>2. /\ <<>> \in Seq(Chars) /\ <<>> \in Seq(Tags) /\ <<>> \in Seq(Tags \cup {END, BAD})
      /\ Len(<<>>) = 0 /\ Root \in States
  BY LexerAssumption
<1>3. FirstLocation \in Location
  BY DEF FirstLocation, Location
<1>4. StreamTyped /\ PositionTyped
  <2>1. StreamTyped
    BY <1>1, <1>2 DEF StreamTyped
  <2>2. PositionTyped
    BY <1>1, <1>3 DEF PositionTyped
  <2> QED BY <2>1, <2>2
<1>5. LocalsTyped /\ ReturnTyped
  BY <1>1, <1>2, <1>3 DEF LocalsTyped, ReturnTyped
<1>6. BufferIsText /\ taken \in 0 .. Len(text)
  BY <1>1, <1>2 DEF BufferIsText
<1>7. LocationTrue
  BY <1>1, LocationStarts DEF LocationTrue
<1>8. Scanned
  BY <1>1 DEF Scanned
<1> QED BY <1>4, <1>5, <1>6, <1>7, <1>8, TypeParts DEF IInv

\* Every step keeps the invariant.
LEMMA IInvStep == IInv /\ [Next]_vars => IInv'
BY TypeStep, BufferStep, LocationStep, ScannedStep DEF IInv

\* The invariant holds always.
LEMMA Invariance == Spec => []IInv
BY IInvInit, IInvStep, PTL DEF Spec

\* The types of the lexer's variables and of the locals of _scan.
THEOREM LexerTyped == Spec => []TypeOK
<1>1. IInv => TypeOK
  BY DEF IInv
<1> QED BY <1>1, Invariance, PTL

\* The buffer holds what was taken from the stream, whatever was given back to it.
THEOREM NothingLost == Spec => []BufferIsText
<1>1. IInv => BufferIsText
  BY DEF IInv
<1> QED BY <1>1, Invariance, PTL

\* Locations are those of the characters they are kept for, after any number of
\* scans that went back.
THEOREM LocationsTrue == Spec => []LocationTrue
<1>1. IInv => LocationTrue
  BY DEF IInv
<1> QED BY <1>1, Invariance, PTL

-----------------------------------------------------------------------------
(* The refinement                                                           *)

TokenVars == <<dfa, text, broken, at, token>>

\* Of the places a piece from `start' may end, none lies after buffer_pos once
\* the run has died, or the text has ended.
LEMMA EndsHere ==
  ASSUME IInv, scanning,
         \/ ~HasChar
         \/ HasChar /\ dfa.next[<<current_state, char>>] = Dead
  PROVE  /\ NowMatched => Abstract!IsLongest(start, Noted.pos)
         /\ ~NowMatched => Abstract!Ends(start) = {}
<1>1. /\ text \in Seq(Chars) /\ Len(text) \in Nat /\ start \in 0 .. buffer_pos
      /\ buffer_pos \in 0 .. Len(text) /\ Noted.pos \in start .. buffer_pos
  BY HereFacts, NotedFacts DEF IInv, TypeOK, Scanned
<1>2. \A k \in start .. Len(text) : AcceptedTo(start, k) => k <= buffer_pos
  <2>1. CASE ~HasChar
    BY <1>1, <2>1, HereFacts
  <2>2. CASE HasChar /\ dfa.next[<<current_state, char>>] = Dead
    <3> DEFINE n == buffer_pos + 1
    <3>1. /\ n \in start + 1 .. Len(text) /\ n - 1 = buffer_pos /\ n \in start .. Len(text)
          /\ char = text[n] /\ start \in 0 .. Len(text)
      BY <1>1, <2>2, HereFacts
    <3>2. /\ Run(start)[n - 1] = current_state /\ current_state # Dead
      BY <1>1, <3>1 DEF IInv, Scanned
    <3> HIDE DEF n
    <3>3. Run(start)[n] = Dead
      <4>1. Run(start)[n] = StepFrom(Run(start)[n - 1], text[n])
        BY <1>1, <3>1, RunSteps
      <4> QED BY <2>2, <3>1, <3>2, <4>1 DEF StepFrom, Abstract!StepFrom
    <3>4. \A k \in n .. Len(text) : Run(start)[k] = Dead
      BY <1>1, <3>1, <3>3, DeadStays
    <3>5. \A k \in start .. Len(text) : AcceptedTo(start, k) => Run(start)[k] # Dead
      BY DEF AcceptedTo, Abstract!AcceptedTo, Run
    <3> QED BY <1>1, <3>1, <3>4, <3>5
  <2> QED BY <2>1, <2>2
<1>3. \A k \in start .. Len(text) : AcceptedTo(start, k) => NowMatched /\ k <= Noted.pos
  BY <1>1, <1>2, NotedFacts
<1>4. Abstract!Ends(start) = {k \in start .. Len(text) : AcceptedTo(start, k)}
  BY DEF Abstract!Ends, AcceptedTo
<1>5. ASSUME NowMatched PROVE Abstract!IsLongest(start, Noted.pos)
  <2>1. AcceptedTo(start, Noted.pos) /\ Noted.pos \in start .. Len(text)
    BY <1>1, <1>5, NotedFacts
  <2> QED BY <1>3, <1>4, <2>1 DEF Abstract!IsLongest
<1> QED BY <1>3, <1>4, <1>5

\* What Deliver does to what the Tokenizer sees.
LEMMA Delivered ==
  ASSUME IInv, scanning, NEW tags, NEW lexeme, Deliver(tags, lexeme)
  PROVE  /\ at = start /\ at' = Noted.pos /\ UNCHANGED <<dfa, text, broken>>
         /\ token' = IF Abstract!Skipped(tags) THEN token
                     ELSE Abstract!Token(tags, lexeme, Abstract!LocationOf(start))
<1>1. saved_location = Abstract!LocationOf(start)
  BY DEF IInv, LocationTrue
<1>2. Skipped(tags) <=> Abstract!Skipped(tags)
  BY DEF Skipped, Abstract!Skipped
<1>3. CASE Skipped(tags)
  BY <1>2, <1>3 DEF Deliver, StartScan, at, streamVars
<1>4. CASE ~Skipped(tags)
  BY <1>1, <1>2, <1>4 DEF Deliver, at, streamVars
<1> QED BY <1>3, <1>4

\* END and BAD are never skipped.
LEMMA NotSkipped ==
  ASSUME IInv
  PROVE  ~Abstract!Skipped(<<END>>) /\ ~Abstract!Skipped(<<BAD>>)
<1>1. END \notin dfa.skip /\ BAD \notin dfa.skip
  BY AutomatonTyped, LexerAssumption
<1> QED BY <1>1 DEF Abstract!Skipped

\* The longest match is delivered.
LEMMA MatchStep ==
  ASSUME IInv, scanning, NowMatched, Deliver(Noted.tags, Noted.str),
         Abstract!IsLongest(start, Noted.pos)
  PROVE  \E j \in 0 .. Len(text) : Abstract!Match(j)
<1>1. /\ Noted.tags = dfa.terminals[Abstract!Run(start)[Noted.pos]]
      /\ Noted.str = SubSeq(text, start + 1, Noted.pos)
  BY NotedFacts DEF Run, Piece
<1>2. Noted.pos \in 0 .. Len(text)
  BY NotedTyped, HereFacts
<1>3. Abstract!Match(Noted.pos)
  BY <1>1, Delivered DEF Abstract!Match
<1> QED BY <1>2, <1>3

\* A scan that fails delivers the longest match, or a bad token.
LEMMA FailRefines ==
  ASSUME IInv, Fail
  PROVE  Abstract!TokenNext
<1>1. scanning /\ HasChar /\ dfa.next[<<current_state, char>>] = Dead
  BY DEF Fail
<1>2. CASE NowMatched
  <2>1. Deliver(Noted.tags, Noted.str)
    BY <1>2 DEF Fail
  <2> QED BY <1>1, <1>2, <2>1, EndsHere, MatchStep DEF Abstract!TokenNext
<1>3. CASE ~NowMatched
  <2> DEFINE n == buffer_pos + 1
  <2>1. Deliver(<<BAD>>, Append(Noted.found, char))
    BY <1>3 DEF Fail
  <2>2. /\ text \in Seq(Chars) /\ Len(text) \in Nat /\ start \in 0 .. buffer_pos
        /\ buffer_pos \in 0 .. Len(text) - 1 /\ char = text[buffer_pos + 1]
    BY <1>1, HereFacts DEF IInv, TypeOK, Scanned
  <2>3. Noted.pos = start /\ Noted.found = Piece(start, buffer_pos)
    BY <1>1, <1>3, NotedFacts
  <2>4. Append(Noted.found, char) = SubSeq(text, start + 1, n)
    <3>1. start \in 0 .. Len(text) /\ buffer_pos \in start .. Len(text) - 1
      BY <2>2
    <3> QED BY <2>2, <2>3, <3>1, PieceAppend DEF Piece
  <2>5. Abstract!IsFollowedTo(start, n)
    <3>1. n \in start + 1 .. Len(text) /\ start \in 0 .. Len(text) /\ n - 1 = buffer_pos
      BY <2>2
    <3>2. Run(start)[n] = StepFrom(Run(start)[n - 1], text[n])
      BY <2>2, <3>1, RunSteps
    <3>3. /\ Run(start)[n - 1] = current_state
          /\ \A k \in start .. n - 1 : Run(start)[k] # Dead
      BY <1>1, <3>1 DEF IInv, Scanned
    <3>4. Run(start)[n] = Dead
      BY <1>1, <2>2, <3>1, <3>2, <3>3 DEF StepFrom, Abstract!StepFrom
    <3>5. n \in start .. Len(text)
      BY <3>1, <2>2
    <3> HIDE DEF n
    <3> QED BY <3>3, <3>4, <3>5 DEF Abstract!IsFollowedTo, Run
  <2>6. n \in 0 .. Len(text) /\ start < Len(text)
    BY <2>2
  <2>7. Abstract!Ends(start) = {}
    BY <1>1, <1>3, EndsHere
  <2> HIDE DEF n
  <2>8. Abstract!Bad(n)
    BY <1>1, <2>1, <2>3, <2>4, <2>5, <2>6, <2>7, Delivered, NotSkipped DEF Abstract!Bad
  <2> QED BY <2>6, <2>8 DEF Abstract!TokenNext
<1> QED BY <1>2, <1>3

\* A scan at the end delivers the longest match, the end, or a bad token.
LEMMA ExhaustRefines ==
  ASSUME IInv, Exhaust
  PROVE  Abstract!TokenNext
<1>1. scanning /\ ~HasChar
  BY DEF Exhaust
<1>2. /\ text \in Seq(Chars) /\ Len(text) \in Nat /\ start \in 0 .. buffer_pos
      /\ buffer_pos = Len(text)
  BY <1>1, HereFacts DEF IInv, TypeOK, Scanned
<1>3. CASE NowMatched
  <2>1. Deliver(Noted.tags, Noted.str)
    BY <1>3 DEF Exhaust
  <2> QED BY <1>1, <1>3, <2>1, EndsHere, MatchStep DEF Abstract!TokenNext
<1>4. ASSUME ~NowMatched
      PROVE  /\ Noted.pos = start /\ Noted.found = Piece(start, buffer_pos)
             /\ Abstract!Ends(start) = {}
  BY <1>1, <1>4, NotedFacts, EndsHere
<1>5. CASE ~NowMatched /\ ~broken /\ buffer_pos = Noted.pos
  <2>1. Deliver(<<END>>, <<>>)
    BY <1>5 DEF Exhaust
  <2>2. Abstract!End
    BY <1>1, <1>2, <1>4, <1>5, <2>1, Delivered, NotSkipped DEF Abstract!End
  <2> QED BY <2>2 DEF Abstract!TokenNext
<1>6. CASE ~NowMatched /\ ~(~broken /\ buffer_pos = Noted.pos)
  <2>1. Deliver(<<BAD>>, Noted.found)
    BY <1>6 DEF Exhaust
  <2>2. Noted.found = SubSeq(text, start + 1, Len(text))
    BY <1>2, <1>4, <1>6 DEF Piece
  <2>3. Abstract!IsFollowedTo(start, Len(text))
    <3>1. \A k \in start .. Len(text) - 1 : Run(start)[k] # Dead
      BY <1>1, <1>2 DEF IInv, Scanned
    <3>2. Len(text) \in start .. Len(text)
      BY <1>2
    <3> QED BY <3>1, <3>2 DEF Abstract!IsFollowedTo, Run
  <2>4. start < Len(text) \/ broken
    BY <1>2, <1>4, <1>6
  <2>5. Abstract!Bad(Len(text))
    BY <1>1, <1>4, <1>6, <2>1, <2>2, <2>3, <2>4, Delivered, NotSkipped DEF Abstract!Bad
  <2>6. Len(text) \in 0 .. Len(text)
    BY <1>2
  <2> QED BY <2>5, <2>6 DEF Abstract!TokenNext
<1> QED BY <1>3, <1>5, <1>6

\* Every step of the Lexer is a step of the Tokenizer, or none.
LEMMA StepRefines ==
  ASSUME IInv, [Next]_vars
  PROVE  Abstract!TokenNext \/ UNCHANGED TokenVars
<1> USE DEF TokenVars, streamVars
<1>1. CASE Scan
  BY <1>1 DEF Scan, StartScan, at
<1>2. CASE Advance
  BY <1>2 DEF Advance, at
<1>3. CASE Fail
  BY <1>3, FailRefines
<1>4. CASE Exhaust
  BY <1>4, ExhaustRefines
<1>5. ASSUME NEW t \in Texts, NEW b \in BOOLEAN, Reset(t, b)
      PROVE  Abstract!TokenNext
  <2>1. Abstract!NewText(t, b)
    BY <1>5 DEF Reset, Abstract!NewText, at
  <2> QED BY <2>1 DEF Abstract!TokenNext
<1>6. CASE UNCHANGED vars
  BY <1>6 DEF vars, scanVars, at
<1> QED BY <1>1, <1>2, <1>3, <1>4, <1>5, <1>6 DEF Next, Loop

\* The Lexer implements the Tokenizer: whatever the rules and the text, each
\* scan returns the longest match at its place, its lexeme and its location,
\* and the next one goes on right after it.
THEOREM Refinement == Spec => Tokens
<1>1. Init => Abstract!TokenInit
  BY DEF Init, Abstract!TokenInit, at
<1>2. IInv /\ [Next]_vars => [Abstract!TokenNext]_(Abstract!tokenVars)
  BY StepRefines DEF TokenVars, Abstract!tokenVars
<1> QED BY <1>1, <1>2, Invariance, PTL DEF Spec, Tokens, Abstract!TokenSpec
=============================================================================
