------------------------- MODULE TextReadersProofs -------------------------
(***************************************************************************)
(* Proofs about the readers, for texts of any length over any alphabet.    *)
(*                                                                         *)
(* A reader is a recursive function of the number of its steps, so what is *)
(* proved of its steps is an invariant of a loop (Sums).                   *)
(***************************************************************************)
EXTENDS TextReaders, Sums, SequenceTheorems, TLAPS

-----------------------------------------------------------------------------
(* The literal lines                                                       *)

LineStates ==
    [at: Nat, fence: Fences, html: Endings, paragraph: BOOLEAN, table: BOOLEAN,
     literal: Seq(BOOLEAN)]

\* A line that is literal, where the reader is in state s.
IsLiteral(line, s) ==
    \/ ~(s.fence = "none" /\ s.html = "none")
    \/ OpensFence(line) \/ line.html # "none" \/ TagStarts(line, s)

\* One line further the state has its type; a line that is shown leaves no
\* fence and no HTML block open.
LEMMA LineKeeps ==
    ASSUME NEW lines \in Seq(Lines), NEW s \in LineStates, s.at \in 1..Len(lines)
    PROVE  LET next == LineStep(lines, s)
           IN  /\ next \in LineStates /\ next.at = s.at + 1
               /\ next.literal = Append(s.literal, IsLiteral(lines[s.at], s))
               /\ ~IsLiteral(lines[s.at], s) => next.fence = "none" /\ next.html = "none"
  <1> DEFINE line == lines[s.at]
             next == LineStep(lines, s)
             literal == IsLiteral(line, s)
  <1>0. line \in Lines
    OBVIOUS
  <1> HIDE DEF line
  <1>1. /\ line.fence \in Fences /\ line.html \in Endings
        /\ s.at \in Nat /\ s.fence \in Fences /\ s.html \in Endings
        /\ s.literal \in Seq(BOOLEAN)
    BY <1>0 DEF Lines, LineStates
  <1>2. literal \in BOOLEAN
    BY DEF IsLiteral
  <1>3. next.literal = Append(s.literal, literal) /\ next.at = s.at + 1
    BY Zenon DEF LineStep, IsLiteral, line
  <1>4. next.literal \in Seq(BOOLEAN) /\ next.at \in Nat
    <2> HIDE DEF next, literal
    <2> QED
      BY <1>1, <1>2, <1>3
  <1>5. next.fence \in Fences /\ next.html \in Endings
    <2>1. next.fence \in {s.fence, line.fence, "none"}
      BY DEF LineStep, line
    <2>2. next.html \in {s.html, line.html, "none", "blank"}
      BY DEF LineStep, line
    <2> HIDE DEF next
    <2> QED
      BY <1>1, <2>1, <2>2 DEF Fences, Endings
  <1>6. next.paragraph \in BOOLEAN /\ next.table \in BOOLEAN
    BY DEF LineStep
  <1>7. ~literal => next.fence = "none" /\ next.html = "none"
    BY DEF LineStep, IsLiteral, OpensFence, line
  <1>8. next = [at |-> next.at, fence |-> next.fence, html |-> next.html,
                paragraph |-> next.paragraph, table |-> next.table, literal |-> next.literal]
    BY DEF LineStep
  <1>9. next \in LineStates
    <2> HIDE DEF next
    <2> QED
      BY <1>4, <1>5, <1>6, <1>8 DEF LineStates
  <1> QED
    BY <1>3, <1>7, <1>9 DEF line

\* What has been read of the lines after n of them: a line under one that is
\* shown is shown as well, unless it ends a table.
LinesRead(lines, n, s) ==
    /\ s \in LineStates /\ s.at = n + 1 /\ Len(s.literal) = n
    /\ \A k \in 1..(n - 1) : ~s.literal[k] /\ ~EndsTable(lines[k + 1]) => ~s.literal[k + 1]
    /\ n > 0 /\ ~s.literal[n] => s.fence = "none" /\ s.html = "none"

\* One line further.
LEMMA LineReads ==
    ASSUME NEW lines \in Seq(Lines), NEW n \in 1..Len(lines), NEW s, LinesRead(lines, n - 1, s)
    PROVE  LinesRead(lines, n, LineStep(lines, s))
  <1> DEFINE line == lines[n]
             next == LineStep(lines, s)
             literal == IsLiteral(line, s)
  <1>1. /\ s \in LineStates /\ s.at = n /\ Len(s.literal) = n - 1
        /\ s.literal \in Seq(BOOLEAN) /\ n \in Nat
    BY DEF LinesRead, LineStates
  <1>2. /\ next \in LineStates /\ next.at = n + 1
        /\ next.literal = Append(s.literal, literal)
        /\ ~literal => next.fence = "none" /\ next.html = "none"
    BY <1>1, LineKeeps
  <1>3. /\ s.fence = "none" /\ s.html = "none" /\ ~EndsTable(line) => ~literal
    BY DEF IsLiteral, EndsTable, StartsHtml, TagStarts
  <1>4. literal \in BOOLEAN
    BY DEF IsLiteral
  <1> HIDE DEF next, literal
  <1>5. /\ Len(next.literal) = n /\ next.literal[n] = literal
        /\ \A k \in 1..(n - 1) : next.literal[k] = s.literal[k]
    BY <1>1, <1>2, <1>4
  <1>6. ASSUME NEW k \in 1..(n - 1), ~next.literal[k], ~EndsTable(lines[k + 1])
        PROVE  ~next.literal[k + 1]
    <2>1. CASE k = n - 1
      <3>1. s.fence = "none" /\ s.html = "none"
        BY <1>5, <1>6, <2>1 DEF LinesRead
      <3>2. k + 1 = n
        BY <2>1
      <3> QED
        BY <1>3, <1>5, <1>6, <3>1, <3>2
    <2>2. CASE k # n - 1
      <3>1. k \in 1..(n - 1 - 1) /\ k + 1 \in 1..(n - 1)
        BY <2>2
      <3> QED
        BY <1>5, <1>6, <3>1 DEF LinesRead
    <2> QED
      BY <2>1, <2>2
  <1> QED
    BY <1>2, <1>5, <1>6 DEF LinesRead, next

\* The reader's states, one for each number of lines.
IsReading(states, lines) ==
    states = [n \in 0..Len(lines) |-> IF n = 0 THEN StartLines ELSE LineStep(lines, states[n - 1])]

\* Every line is literal or it is not, and the lines of a table are alike.
LEMMA LiteralRuns ==
    ASSUME NEW lines \in Seq(Lines)
    PROVE  LET literal == LiteralLines(lines)
           IN  /\ literal \in Seq(BOOLEAN) /\ Len(literal) = Len(lines)
               /\ \A k \in 1..(Len(lines) - 1) :
                     ~literal[k] /\ ~EndsTable(lines[k + 1]) => ~literal[k + 1]
  <1> DEFINE N    == Len(lines)
             next == [s \in LineStates |-> LineStep(lines, s)]
             read == CHOOSE states : IsReading(states, lines)
  <1>1. LiteralLines(lines) = read[N].literal /\ N \in Nat
    BY DEF LiteralLines, IsReading
  <1>2. LinesRead(lines, 0, StartLines)
    BY DEF LinesRead, StartLines, LineStates, Fences, Endings
  <1>3. ASSUME NEW n \in 1..N, NEW s, LinesRead(lines, n - 1, s)
        PROVE  next[s] = LineStep(lines, s) /\ LinesRead(lines, n, LineStep(lines, s))
    <2>1. LinesRead(lines, n, LineStep(lines, s))
      BY <1>3, LineReads
    <2>2. s \in LineStates
      BY <1>3 DEF LinesRead
    <2> QED
      BY <2>1, <2>2
  <1> HIDE DEF next, N
  <1>4. ASSUME NEW states, states[0] = StartLines,
               \A n \in 1..N : \/ states[n] = next[states[n - 1]]
                               \/ states[n] = LineStep(lines, states[n - 1])
        PROVE  \A n \in 0..N : LinesRead(lines, n, states[n])
    <2> DEFINE Good == {n \in 0..N : LinesRead(lines, n, states[n])}
    <2>1. 0 \in Good
      BY <1>1, <1>2, <1>4
    <2>2. ASSUME NEW n \in 1..N, n - 1 \in Good PROVE n \in Good
      BY <1>3, <1>4, <2>2
    <2> HIDE DEF Good
    <2>3. \A n \in 0..N : n \in Good
      BY <1>1, <2>1, <2>2, LoopKeeps
    <2> QED
      BY <2>3 DEF Good
  <1>5. PICK loop : IsLoop(loop, StartLines, next, N)
    BY <1>1, LoopExists
  <1>6. /\ loop[0] = StartLines
        /\ \A n \in 1..N : loop[n] = next[loop[n - 1]]
    BY <1>1, <1>5 DEF IsLoop
  <1>7. \A n \in 0..N : LinesRead(lines, n, loop[n])
    BY <1>4, <1>6
  <1>8. IsReading(loop, lines)
    <2>1. \A n \in 1..N : next[loop[n - 1]] = LineStep(lines, loop[n - 1])
      <3> SUFFICES ASSUME NEW n \in 1..N PROVE next[loop[n - 1]] = LineStep(lines, loop[n - 1])
        OBVIOUS
      <3>1. n - 1 \in 0..N
        BY <1>1
      <3> QED
        BY <1>3, <1>7, <3>1
    <2> QED
      BY <1>1, <1>5, <2>1 DEF IsLoop, IsReading, N
  <1>9. IsReading(read, lines)
    BY <1>8
  <1> HIDE DEF read
  <1>10. /\ read[0] = StartLines
         /\ \A n \in 1..N : read[n] = LineStep(lines, read[n - 1])
    BY <1>1, <1>9 DEF IsReading, N
  <1>11. LinesRead(lines, N, read[N])
    BY <1>1, <1>4, <1>10
  <1> QED
    BY <1>1, <1>11 DEF LinesRead, LineStates, N

-----------------------------------------------------------------------------
(* The tables                                                              *)

TableStates == [at: Nat, burned: BOOLEAN, tables: SUBSET [header: Nat, last: Nat]]

\* A round of find_tables.
Round(lines, interrupting, s) ==
    IF TablesDone(lines, s) THEN s ELSE TableStep(lines, LiteralLines(lines), interrupting, s)

IsFinding(states, lines, interrupting) ==
    states = [n \in 0..Len(lines) |-> IF n = 0 THEN StartTables
                                      ELSE Round(lines, interrupting, states[n - 1])]

\* What holds at the start and is kept by each round that goes further holds of
\* the state in which the tables are found.
LEMMA TablesRun ==
    ASSUME NEW lines \in Seq(Lines), NEW interrupting, NEW Inv, Inv \subseteq TableStates,
           StartTables \in Inv,
           \A s \in Inv : ~TablesDone(lines, s) =>
               LET next == TableStep(lines, LiteralLines(lines), interrupting, s)
               IN  next \in Inv /\ next.at > s.at
    PROVE  \E s \in Inv : TablesDone(lines, s) /\ FindTables(lines, interrupting) = s.tables
  <1> DEFINE N     == Len(lines)
             Step(s) == Round(lines, interrupting, s)
             next  == [s \in Inv |-> Step(s)]
             found == CHOOSE states : IsFinding(states, lines, interrupting)
             Past(n, s) == s \in Inv /\ (s.at > n \/ s.at >= N)
  <1>1. FindTables(lines, interrupting) = found[N].tables /\ N \in Nat
    BY DEF FindTables, IsFinding, Round
  <1>2. Past(0, StartTables)
    BY DEF StartTables
  <1>3. ASSUME NEW n \in 1..N, NEW s, Past(n - 1, s)
        PROVE  next[s] = Step(s) /\ Past(n, Step(s))
    <2>1. s \in Inv /\ s.at \in Nat
      BY <1>3 DEF TableStates
    <2>2. CASE TablesDone(lines, s)
      BY <2>1, <2>2 DEF Round, TablesDone
    <2>3. CASE ~TablesDone(lines, s)
      <3>1. Step(s) \in Inv /\ Step(s).at > s.at
        BY <2>1, <2>3 DEF Round
      <3>2. Step(s).at \in Nat
        BY <3>1 DEF TableStates
      <3>3. s.at > n - 1
        BY <1>3, <2>3 DEF TablesDone
      <3> HIDE DEF Step
      <3>4. Step(s).at > n
        BY <2>1, <3>1, <3>2, <3>3
      <3> QED
        BY <2>1, <3>1, <3>4
    <2> QED
      BY <2>2, <2>3
  <1> HIDE DEF next, N, Past, Step
  <1>4. ASSUME NEW states, states[0] = StartTables,
               \A n \in 1..N : \/ states[n] = next[states[n - 1]]
                               \/ states[n] = Step(states[n - 1])
        PROVE  \A n \in 0..N : Past(n, states[n])
    <2> DEFINE Good == {n \in 0..N : Past(n, states[n])}
    <2>1. 0 \in Good
      BY <1>1, <1>2, <1>4
    <2>2. ASSUME NEW n \in 1..N, n - 1 \in Good PROVE n \in Good
      BY <1>3, <1>4, <2>2
    <2> HIDE DEF Good
    <2>3. \A n \in 0..N : n \in Good
      BY <1>1, <2>1, <2>2, LoopKeeps
    <2> QED
      BY <2>3 DEF Good
  <1>5. PICK loop : IsLoop(loop, StartTables, next, N)
    BY <1>1, LoopExists
  <1>6. /\ loop[0] = StartTables
        /\ \A n \in 1..N : loop[n] = next[loop[n - 1]]
    BY <1>1, <1>5 DEF IsLoop
  <1>7. \A n \in 0..N : Past(n, loop[n])
    BY <1>4, <1>6
  <1>8. IsFinding(loop, lines, interrupting)
    <2>1. \A n \in 1..N : next[loop[n - 1]] = Step(loop[n - 1])
      <3> SUFFICES ASSUME NEW n \in 1..N PROVE next[loop[n - 1]] = Step(loop[n - 1])
        OBVIOUS
      <3>1. n - 1 \in 0..N
        BY <1>1
      <3> QED
        BY <1>3, <1>7, <3>1
    <2> QED
      BY <1>1, <1>5, <2>1 DEF IsLoop, IsFinding, N, Step
  <1>9. IsFinding(found, lines, interrupting)
    BY <1>8
  <1> HIDE DEF found
  <1>10. /\ found[0] = StartTables
         /\ \A n \in 1..N : found[n] = Step(found[n - 1])
    BY <1>1, <1>9 DEF IsFinding, N, Step
  <1>11. Past(N, found[N])
    BY <1>1, <1>4, <1>10
  <1>12. found[N] \in Inv /\ found[N].at >= N
    <2>1. found[N] \in Inv /\ found[N].at \in Nat
      BY <1>11 DEF Past, TableStates
    <2> QED
      BY <1>1, <1>11, <2>1 DEF Past
  <1> QED
    BY <1>1, <1>12 DEF TablesDone, N

\* The lines at which a table breaks off.
Breaks(line) == EndsTable(line) \/ Cells(line) = 0

\* A table has its delimiter, runs over lines that do not break it, and ends
\* with the text or above one that does.
LEMMA TableEnds ==
    ASSUME NEW lines \in Seq(Lines), NEW i \in 1..(Len(lines) - 1)
    PROVE  LET e == TableEnd(lines, i)
           IN  /\ e \in (i + 1)..Len(lines)
               /\ \A j \in (i + 2)..e : ~Breaks(lines[j])
               /\ e < Len(lines) => Breaks(lines[e + 1])
  <1> DEFINE broken == {j \in (i + 2)..Len(lines) : EndsTable(lines[j]) \/ Cells(lines[j]) = 0}
             e == TableEnd(lines, i)
  <1>1. i \in Nat /\ Len(lines) \in Nat /\ i < Len(lines)
    OBVIOUS
  <1>2. CASE broken = {}
    BY <1>1, <1>2 DEF TableEnd, Breaks
  <1>3. CASE broken # {}
    <2>1. broken \subseteq Nat
      BY <1>1
    <2>2. \E j \in broken : \A k \in broken : j <= k
      <3> HIDE DEF broken
      <3> QED
        BY <1>3, <2>1, LeastNat
    <2> DEFINE first == CHOOSE j \in broken : \A k \in broken : j <= k
    <2>3. first \in broken /\ \A k \in broken : first <= k
      BY <2>2
    <2>4. e = first - 1
      BY <1>3 DEF TableEnd
    <2> HIDE DEF first, e
    <2>5. first \in (i + 2)..Len(lines) /\ Breaks(lines[first])
      BY <2>3 DEF Breaks
    <2>6. \A j \in (i + 2)..e : ~Breaks(lines[j])
      <3> SUFFICES ASSUME NEW j \in (i + 2)..e, Breaks(lines[j]) PROVE FALSE
        OBVIOUS
      <3>1. j \in (i + 2)..Len(lines) /\ j < first
        BY <1>1, <2>4, <2>5
      <3>2. j \in broken
        BY <3>1 DEF Breaks
      <3> QED
        BY <2>3, <2>5, <3>1, <3>2
    <2> QED
      BY <1>1, <2>4, <2>5, <2>6 DEF e
  <1> QED
    BY <1>2, <1>3

\* A line inside a table that looks like a header ends where the table does.
LEMMA TableEndsOnce ==
    ASSUME NEW lines \in Seq(Lines), NEW literal,
           NEW i \in 1..(Len(lines) - 1), NEW j \in 1..(Len(lines) - 1),
           i < j, j <= TableEnd(lines, i), Delimits(lines, literal, j)
    PROVE  TableEnd(lines, j) = TableEnd(lines, i)
  <1> DEFINE e == TableEnd(lines, i)
             d == TableEnd(lines, j)
  <1>1. /\ e \in (i + 1)..Len(lines) /\ d \in (j + 1)..Len(lines)
        /\ \A k \in (i + 2)..e : ~Breaks(lines[k])
        /\ \A k \in (j + 2)..d : ~Breaks(lines[k])
        /\ e < Len(lines) => Breaks(lines[e + 1])
        /\ d < Len(lines) => Breaks(lines[d + 1])
    BY TableEnds
  <1>2. ~Breaks(lines[j + 1])
    BY DEF Breaks, Delimits
  <1> HIDE DEF e, d
  <1>3. j <= e
    BY DEF e
  <1>4. ~(d < e)
    <2> SUFFICES ASSUME d < e PROVE FALSE
      OBVIOUS
    <2>1. d + 1 \in (i + 2)..e
      BY <1>1
    <2> QED
      BY <1>1, <2>1
  <1>5. ~(e < d)
    <2> SUFFICES ASSUME e < d PROVE FALSE
      OBVIOUS
    <2>1. CASE e = j
      BY <1>1, <1>2, <2>1
    <2>2. CASE e # j
      <3>1. e + 1 \in (j + 2)..d
        BY <1>1, <1>3, <2>2
      <3> QED
        BY <1>1, <3>1
    <2> QED
      BY <2>1, <2>2
  <1>6. d = e
    BY <1>1, <1>4, <1>5
  <1> QED
    BY <1>6 DEF d, e

\* A line under which a table opens, where the paragraph may have one.
Heads(lines, i) ==
    LET literal == LiteralLines(lines)
    IN  /\ i \in 1..(Len(lines) - 1)
        /\ Running(lines, literal, i) /\ Delimits(lines, literal, i)
        /\ Cells(lines[i]) = Cells(lines[i + 1]) /\ Uncontained(lines, i)

IsTable(lines, t) == Heads(lines, t.header) /\ t.last = TableEnd(lines, t.header)

\* No line of a table is literal.
LEMMA TablesShow ==
    ASSUME NEW lines \in Seq(Lines), NEW i, Heads(lines, i)
    PROVE  \A j \in i..TableEnd(lines, i) : ~LiteralLines(lines)[j]
  <1> DEFINE e == TableEnd(lines, i)
             literal == LiteralLines(lines)
             Good == {k \in 0..(e - i) : ~literal[i + k]}
  <1>1. /\ i \in 1..(Len(lines) - 1) /\ e \in (i + 1)..Len(lines)
        /\ \A j \in (i + 2)..e : ~Breaks(lines[j])
    BY TableEnds DEF Heads
  <1>2. ~literal[i] /\ ~literal[i + 1]
    BY DEF Heads, Running, Delimits
  <1>3. \A k \in 1..(Len(lines) - 1) : ~literal[k] /\ ~EndsTable(lines[k + 1]) => ~literal[k + 1]
    BY LiteralRuns
  <1> HIDE DEF e, literal
  <1>4. i \in Nat /\ e \in Nat /\ e - i \in Nat /\ Len(lines) \in Nat /\ i + 0 = i
    BY <1>1
  <1>5. 0 \in Good
    BY <1>2, <1>4
  <1>6. ASSUME NEW k \in 1..(e - i), k - 1 \in Good
        PROVE  k \in Good
    <2>1. k \in Nat /\ i + (k - 1) = i + k - 1 /\ i + k <= e
      BY <1>4
    <2>2. CASE k = 1
      BY <1>2, <1>4, <2>2
    <2>3. CASE k # 1
      <3>1. i + k \in (i + 2)..e
        BY <1>4, <2>1, <2>3
      <3>2. ~EndsTable(lines[i + k])
        BY <1>1, <3>1 DEF Breaks
      <3>3. i + k - 1 \in 1..(Len(lines) - 1) /\ (i + k - 1) + 1 = i + k
        BY <1>1, <1>4, <2>1
      <3>4. ~literal[i + k - 1]
        BY <1>6, <2>1
      <3> QED
        BY <1>3, <3>2, <3>3, <3>4
    <2> QED
      BY <2>2, <2>3
  <1>7. \A k \in 0..(e - i) : k \in Good
    <2> HIDE DEF Good
    <2> QED
      BY <1>4, <1>5, <1>6, LoopKeeps
  <1> SUFFICES ASSUME NEW j \in i..e PROVE ~literal[j]
    BY DEF e, literal
  <1>8. j - i \in 0..(e - i) /\ i + (j - i) = j
    BY <1>4
  <1>9. j - i \in Good
    BY <1>7, <1>8
  <1> QED
    BY <1>8, <1>9

\* One round: what it goes past, and what it finds.
LEMMA RoundFinds ==
    ASSUME NEW lines \in Seq(Lines), NEW interrupting \in BOOLEAN,
           NEW s \in TableStates, s.at >= 1, ~TablesDone(lines, s)
    PROVE  LET literal == LiteralLines(lines)
               next == TableStep(lines, literal, interrupting, s)
               i == s.at
               begins == interrupting \/ BeginsParagraph(lines, literal, i)
           IN  /\ i \in 1..(Len(lines) - 1) /\ next \in TableStates
               /\ \/ /\ Heads(lines, i) /\ ~s.burned /\ begins
                     /\ next.at = TableEnd(lines, i) + 1 /\ next.burned = s.burned
                     /\ next.tables = s.tables \cup {[header |-> i, last |-> TableEnd(lines, i)]}
                  \/ /\ ~Heads(lines, i) \/ s.burned \/ ~begins
                     /\ next.at = i + 1 /\ next.tables = s.tables
                     /\ next.burned => Running(lines, literal, i)
  <1> DEFINE literal == LiteralLines(lines)
             next == TableStep(lines, literal, interrupting, s)
             i == s.at
             begins == interrupting \/ BeginsParagraph(lines, literal, i)
             e == TableEnd(lines, i)
             table == [header |-> i, last |-> e]
  <1>1. /\ i \in 1..(Len(lines) - 1) /\ i \in Nat
        /\ s.burned \in BOOLEAN /\ s.tables \in SUBSET [header: Nat, last: Nat]
        /\ s = [at |-> i, burned |-> s.burned, tables |-> s.tables]
    BY DEF TableStates, TablesDone
  <1>2. e \in Nat
    BY <1>1, TableEnds
  <1> HIDE DEF literal, e
  <1>3. CASE Heads(lines, i) /\ ~s.burned /\ begins
    <2>1. next = [s EXCEPT !.at = e + 1, !.tables = @ \cup {table}]
      BY <1>3 DEF TableStep, Heads, literal, e
    <2> HIDE DEF next
    <2>2. /\ next = [at |-> e + 1, burned |-> s.burned, tables |-> s.tables \cup {table}]
          /\ table \in [header: Nat, last: Nat]
      BY <1>1, <1>2, <2>1
    <2> HIDE DEF table
    <2>3. next \in TableStates
      BY <1>1, <1>2, <2>2 DEF TableStates
    <2> QED
      BY <1>1, <1>3, <2>2, <2>3 DEF next, literal, e, table
  <1>4. CASE ~(Heads(lines, i) /\ ~s.burned /\ begins)
    <2>1. /\ next \in {[s EXCEPT !.at = i + 1, !.burned = b] : b \in BOOLEAN}
          /\ next.burned => Running(lines, literal, i)
      <3>1. CASE ~Running(lines, literal, i)
        <4>1. next = [s EXCEPT !.at = i + 1, !.burned = FALSE]
          BY <3>1 DEF TableStep
        <4> QED
          BY <1>1, <4>1
      <3>2. CASE Running(lines, literal, i)
        <4>1. next \in {[s EXCEPT !.at = i + 1], [s EXCEPT !.at = i + 1, !.burned = TRUE]}
          BY <1>1, <1>4, <3>2 DEF TableStep, Heads, literal, e
        <4>2. [s EXCEPT !.at = i + 1] = [s EXCEPT !.at = i + 1, !.burned = s.burned]
          BY <1>1
        <4> HIDE DEF next
        <4> QED
          BY <1>1, <3>2, <4>1, <4>2
      <3> QED
        BY <3>1, <3>2
    <2> HIDE DEF next
    <2>2. PICK b \in BOOLEAN : next = [at |-> i + 1, burned |-> b, tables |-> s.tables]
      BY <1>1, <2>1
    <2>3. next \in TableStates
      BY <1>1, <2>2 DEF TableStates
    <2> QED
      BY <1>1, <1>4, <2>1, <2>2, <2>3 DEF next, literal
  <1> QED
    BY <1>3, <1>4

\* What is found is a table; read for rows to trust, each begins its paragraph.
LEMMA TablesAreTables ==
    ASSUME NEW lines \in Seq(Lines), NEW interrupting \in BOOLEAN
    PROVE  \A t \in FindTables(lines, interrupting) :
              /\ IsTable(lines, t)
              /\ interrupting \/ BeginsParagraph(lines, LiteralLines(lines), t.header)
  <1> DEFINE Ok(t) == /\ IsTable(lines, t)
                      /\ interrupting \/ BeginsParagraph(lines, LiteralLines(lines), t.header)
             Inv == {s \in TableStates : s.at >= 1 /\ \A t \in s.tables : Ok(t)}
  <1>1. StartTables \in Inv
    BY DEF StartTables, TableStates
  <1>2. ASSUME NEW s \in Inv, ~TablesDone(lines, s)
        PROVE  LET next == TableStep(lines, LiteralLines(lines), interrupting, s)
               IN  next \in Inv /\ next.at > s.at
    <2> DEFINE i == s.at
               e == TableEnd(lines, i)
               next == TableStep(lines, LiteralLines(lines), interrupting, s)
               table == [header |-> i, last |-> e]
    <2> SUFFICES next \in Inv /\ next.at > s.at
      OBVIOUS
    <2>1. /\ i \in 1..(Len(lines) - 1) /\ next \in TableStates
          /\ \/ /\ Heads(lines, i)
                /\ interrupting \/ BeginsParagraph(lines, LiteralLines(lines), i)
                /\ next.at = e + 1 /\ next.tables = s.tables \cup {table}
             \/ next.at = i + 1 /\ next.tables = s.tables
      BY <1>2, RoundFinds
    <2>2. \A t \in s.tables : Ok(t)
      BY <1>2
    <2> HIDE DEF next, Ok
    <2>3. CASE next.at = i + 1 /\ next.tables = s.tables
      BY <2>1, <2>2, <2>3
    <2>4. CASE /\ Heads(lines, i)
               /\ interrupting \/ BeginsParagraph(lines, LiteralLines(lines), i)
               /\ next.at = e + 1 /\ next.tables = s.tables \cup {table}
      <3>1. e \in (i + 1)..Len(lines)
        BY <2>1, TableEnds
      <3>2. Ok(table)
        BY <2>4 DEF Ok, IsTable
      <3> HIDE DEF table, e
      <3> QED
        BY <2>1, <2>2, <2>4, <3>1, <3>2
    <2> QED
      BY <2>1, <2>3, <2>4
  <1>3. Inv \subseteq TableStates
    OBVIOUS
  <1> HIDE DEF Inv
  <1>4. PICK s \in Inv : FindTables(lines, interrupting) = s.tables
    BY <1>1, <1>2, <1>3, TablesRun
  <1> QED
    BY <1>4 DEF Inv

\* The reading that sees every table: a line above the present one that heads a
\* table and begins a paragraph lies in one that has been found, and a paragraph
\* that has lost its table has a line right above.
Seen(lines, s) ==
    /\ s \in TableStates /\ s.at >= 1
    /\ s.burned => s.at > 1 /\ Running(lines, LiteralLines(lines), s.at - 1)
    /\ \A i \in 1..(s.at - 1) :
          Heads(lines, i) /\ BeginsParagraph(lines, LiteralLines(lines), i) =>
              \E u \in s.tables : u.header <= i /\ u.last = TableEnd(lines, i)

\* A round passes over no such line, unless inside a table it has found.
LEMMA RoundSees ==
    ASSUME NEW lines \in Seq(Lines), NEW s, Seen(lines, s), ~TablesDone(lines, s)
    PROVE  LET next == TableStep(lines, LiteralLines(lines), TRUE, s)
           IN  Seen(lines, next) /\ next.at > s.at
  <1> DEFINE literal == LiteralLines(lines)
             next == TableStep(lines, literal, TRUE, s)
             i == s.at
             e == TableEnd(lines, i)
             table == [header |-> i, last |-> e]
  <1>1. /\ i \in 1..(Len(lines) - 1) /\ next \in TableStates
        /\ \/ /\ Heads(lines, i) /\ ~s.burned
              /\ next.at = e + 1 /\ next.burned = s.burned
              /\ next.tables = s.tables \cup {table}
           \/ /\ ~Heads(lines, i) \/ s.burned
              /\ next.at = i + 1 /\ next.tables = s.tables
              /\ next.burned => Running(lines, literal, i)
    BY RoundFinds DEF Seen
  <1>2. e \in (i + 1)..Len(lines)
    BY <1>1, TableEnds
  <1> HIDE DEF next
  <1>3. CASE /\ Heads(lines, i) /\ ~s.burned
             /\ next.at = e + 1 /\ next.burned = s.burned
             /\ next.tables = s.tables \cup {table}
    <2>1. ASSUME NEW j \in 1..e, Heads(lines, j), BeginsParagraph(lines, literal, j)
          PROVE  \E u \in next.tables : u.header <= j /\ u.last = TableEnd(lines, j)
      <3>1. CASE j < i
        <4>1. j \in 1..(s.at - 1)
          BY <1>1, <3>1
        <4> QED
          BY <1>3, <2>1, <4>1 DEF Seen
      <3>2. CASE j >= i
        <4>1. TableEnd(lines, j) = e
          <5>1. CASE j = i
            BY <5>1
          <5>2. CASE j # i
            <6>1. j \in 1..(Len(lines) - 1) /\ Delimits(lines, literal, j) /\ i < j
              BY <1>1, <2>1, <3>2, <5>2 DEF Heads
            <6> HIDE DEF literal
            <6> QED
              BY <1>1, <2>1, <6>1, TableEndsOnce
          <5> QED
            BY <5>1, <5>2
        <4>2. table \in next.tables /\ table.header <= j /\ table.last = e
          BY <1>3, <3>2
        <4> QED
          BY <4>1, <4>2
      <3> QED
        BY <1>1, <3>1, <3>2
    <2>2. next.at - 1 = e /\ next.at > i /\ next.at >= 1
      BY <1>1, <1>2, <1>3
    <2> QED
      BY <1>1, <1>3, <2>1, <2>2 DEF Seen, next
  <1>4. CASE /\ ~Heads(lines, i) \/ s.burned
             /\ next.at = i + 1 /\ next.tables = s.tables
             /\ next.burned => Running(lines, literal, i)
    <2>1. ~(Heads(lines, i) /\ BeginsParagraph(lines, literal, i))
      <3> SUFFICES ASSUME s.burned, BeginsParagraph(lines, literal, i) PROVE FALSE
        BY <1>4
      <3>1. i > 1 /\ Running(lines, literal, i - 1)
        BY DEF Seen
      <3> QED
        BY <1>1, <3>1 DEF BeginsParagraph
    <2>2. next.at - 1 = i /\ next.at > i /\ next.at >= 1 /\ next.at > 1
      BY <1>1, <1>4
    <2>3. ASSUME NEW j \in 1..i, Heads(lines, j), BeginsParagraph(lines, literal, j)
          PROVE  \E u \in next.tables : u.header <= j /\ u.last = TableEnd(lines, j)
      <3>1. j # i
        BY <2>1, <2>3
      <3>2. j \in 1..(s.at - 1)
        BY <1>1, <3>1
      <3> QED
        BY <1>4, <2>3, <3>2 DEF Seen
    <2> QED
      BY <1>1, <1>4, <2>2, <2>3 DEF Seen, next
  <1> QED
    BY <1>1, <1>3, <1>4

\* Of a text of any length, the tables of which rows are trusted lie in those
\* that are searched for stray rows, and none of their lines is in a code fence
\* or an HTML block.
LEMMA TrustedAreSeenAlways ==
    ASSUME NEW lines \in Seq(Lines)
    PROVE  TrustedAreSeen(lines)
  <1> DEFINE literal == LiteralLines(lines)
             seen == FindTables(lines, TRUE)
             trusted == FindTables(lines, FALSE)
             Inv == {s \in TableStates : Seen(lines, s)}
  <1>1. /\ \A t \in seen : IsTable(lines, t)
        /\ \A t \in trusted : IsTable(lines, t) /\ BeginsParagraph(lines, literal, t.header)
    BY TablesAreTables
  <1>2. \E s \in Inv : TablesDone(lines, s) /\ seen = s.tables
    <2>1. StartTables \in Inv
      <3>1. \A i \in 1..(StartTables.at - 1) : FALSE
        BY DEF StartTables
      <3>2. /\ StartTables \in TableStates /\ StartTables.at >= 1
            /\ ~StartTables.burned
        BY DEF StartTables, TableStates
      <3> QED
        BY <3>1, <3>2 DEF Seen
    <2>2. \A s \in Inv : ~TablesDone(lines, s) =>
             LET next == TableStep(lines, literal, TRUE, s)
             IN  next \in Inv /\ next.at > s.at
      <3> SUFFICES ASSUME NEW s \in Inv, ~TablesDone(lines, s)
                   PROVE  LET next == TableStep(lines, literal, TRUE, s)
                          IN  Seen(lines, next) /\ next.at > s.at
        BY DEF Seen
      <3> QED
        BY RoundSees
    <2>3. Inv \subseteq TableStates
      OBVIOUS
    <2> HIDE DEF Inv
    <2> QED
      BY <2>1, <2>2, <2>3, TablesRun
  <1>3. ASSUME NEW t \in trusted
        PROVE  \E u \in seen : u.header <= t.header /\ t.last = u.last
    <2>1. PICK s \in Inv : TablesDone(lines, s) /\ seen = s.tables
      BY <1>2
    <2>2. /\ Heads(lines, t.header) /\ BeginsParagraph(lines, literal, t.header)
          /\ t.last = TableEnd(lines, t.header)
      BY <1>1, <1>3 DEF IsTable
    <2>3. t.header \in 1..(s.at - 1)
      BY <2>1, <2>2 DEF Heads, TablesDone, TableStates
    <2> QED
      BY <2>1, <2>2, <2>3 DEF Seen
  <1>4. ASSUME NEW t \in seen \cup trusted, NEW i \in t.header..t.last
        PROVE  ~literal[i]
    <2>1. Heads(lines, t.header) /\ t.last = TableEnd(lines, t.header)
      BY <1>1, <1>4 DEF IsTable
    <2> QED
      BY <1>4, <2>1, TablesShow
  <1> QED
    BY <1>3, <1>4 DEF TrustedAreSeen

-----------------------------------------------------------------------------
(* The scanners, step by step                                              *)

Texts == Seq(Characters)
Modes == {"code", "string", "name"}

\* A scanner that gives up does so at the end of the text.
Refuses(k, d, m) == \/ k # "escapes" /\ d > 0
                    \/ k = "surface" /\ m = "string"
GivesUp(k, t, i, d, m) == IF i > Len(t) THEN Refuses(k, d, m) ELSE FALSE

\* The state at position i, and before it is known whether the scanner gives up.
Position(k, t, i, d, m, o) ==
    [at |-> i, depth |-> d, mode |-> m, out |-> o, failed |-> GivesUp(k, t, i, d, m)]
Place(i, d, m, o, failed) == [at |-> i, depth |-> d, mode |-> m, out |-> o, failed |-> failed]
NotFailed == FALSE
Arrived(i, d, m, o) == Place(i, d, m, o, NotFailed)

\* What a step makes of a state in the text.
LEMMA Lands ==
    ASSUME NEW t \in Texts, NEW k \in Scanners, NEW s, NEW i, NEW d, NEW m, NEW o,
           \/ k = "escapes" /\ EscapesStep(t, s) = Arrived(i, d, m, o)
           \/ k = "surface" /\ SurfaceStep(t, s) = Arrived(i, d, m, o)
           \/ k = "report" /\ ReportStep(t, s) = Arrived(i, d, m, o)
    PROVE  ScanStep(k, t, s) = Position(k, t, i, d, m, o)
  <1> DEFINE next == Arrived(i, d, m, o)
  <1>1. ScanStep(k, t, s) = IF next.at > Len(t) THEN ScanEnd(k, t, next) ELSE next
    BY DEF ScanStep
  <1>2. next.at = i
    BY DEF Arrived, Place, NotFailed
  <1>3. CASE i > Len(t)
    <2>1. ScanEnd(k, t, next) = [next EXCEPT !.failed = Refuses(k, d, m)]
      BY DEF ScanEnd, Refuses, Arrived, Place, NotFailed
    <2>2. GivesUp(k, t, i, d, m) = Refuses(k, d, m)
      BY <1>3 DEF GivesUp
    <2> QED
      BY <1>1, <1>2, <1>3, <2>1, <2>2 DEF Arrived, Place, NotFailed, Position
  <1>4. CASE ~(i > Len(t))
    <2>1. GivesUp(k, t, i, d, m) = FALSE
      BY <1>4 DEF GivesUp
    <2> QED
      BY <1>1, <1>2, <1>4, <2>1 DEF Arrived, Place, NotFailed, Position
  <1> QED
    BY <1>3, <1>4

\* Before the end a position has not failed.
LEMMA Inside ==
    ASSUME NEW t \in Texts, NEW i \in 1..Len(t), NEW k, NEW d, NEW m, NEW o
    PROVE  /\ Position(k, t, i, d, m, o) = Arrived(i, d, m, o)
           /\ i \in Nat /\ Len(t) \in Nat /\ t[i] \in Characters /\ At(t, i) = t[i]
  <1>1. i \in Nat /\ Len(t) \in Nat /\ t[i] \in Characters /\ At(t, i) = t[i]
    BY DEF Texts, At
  <1>2. GivesUp(k, t, i, d, m) = FALSE
    BY <1>1 DEF GivesUp
  <1> QED
    BY <1>1, <1>2 DEF Position, Arrived, Place, NotFailed

\* What a step does to a place.
LEMMA Kept ==
    ASSUME NEW t, NEW i, NEW d, NEW m, NEW o, NEW failed, NEW j
    PROVE  Keep(t, Place(i, d, m, o, failed), j)
             = Place(j + 1, d, m, o \o SubSeq(t, i, j), failed)
  <1> SUFFICES ASSUME NEW s, s = Place(i, d, m, o, failed), NEW next, next = Keep(t, s, j)
               PROVE  next = Place(j + 1, d, m, o \o SubSeq(t, i, j), failed)
    OBVIOUS
  <1> QED
    BY DEF Keep, Place

\* What Wipe makes of a state, field by field.
LEMMA Wiped ==
    ASSUME NEW t, NEW i, NEW d, NEW m, NEW o, NEW failed, NEW j
    PROVE  Wipe(t, Place(i, d, m, o, failed), j)
             = Place(j + 1, d, m, o \o Blanks(t, i, j), failed)
  <1> SUFFICES ASSUME NEW s, s = Place(i, d, m, o, failed), NEW next, next = Wipe(t, s, j)
               PROVE  next = Place(j + 1, d, m, o \o Blanks(t, i, j), failed)
    OBVIOUS
  <1> QED
    BY DEF Wipe, Place

\* Entering a mode changes the mode.
LEMMA Entered ==
    ASSUME NEW i, NEW d, NEW m, NEW o, NEW failed, NEW n
    PROVE  Enter(Place(i, d, m, o, failed), n) = Place(i, d, n, o, failed)
  BY DEF Enter, Place

\* Nesting changes the depth.
LEMMA Nested ==
    ASSUME NEW i, NEW d, NEW m, NEW o, NEW failed, NEW e
    PROVE  Nest(Place(i, d, m, o, failed), e) = Place(i, e, m, o, failed)
  BY DEF Nest, Place

\* Where a state is.
LEMMA Placed ==
    ASSUME NEW i, NEW d, NEW m, NEW o, NEW failed
    PROVE  LET s == Place(i, d, m, o, failed) IN s.at = i /\ s.depth = d /\ s.mode = m
  BY DEF Place

\* In a comment.
LEMMA InComment ==
    ASSUME NEW t \in Texts, NEW k \in Scanners, NEW i \in 1..Len(t), NEW d \in Nat, d > 0,
           NEW m, NEW o
    PROVE  LET next == ScanStep(k, t, Position(k, t, i, d, m, o))
           IN  /\ Pair(t, i) = BlockOpen =>
                      next = Position(k, t, i + 1 + 1, d + 1, m, o \o Blanks(t, i, i + 1))
               /\ Pair(t, i) = BlockClose =>
                      next = Position(k, t, i + 1 + 1, d - 1, m, o \o Blanks(t, i, i + 1))
               /\ Pair(t, i) # BlockOpen /\ Pair(t, i) # BlockClose =>
                      next = Position(k, t, i + 1, d, m, o \o Blanks(t, i, i))
  <1> DEFINE s == Arrived(i, d, m, o)
             step == CommentStep(t, s)
  <1>1. Position(k, t, i, d, m, o) = s /\ s.depth = d /\ s.at = i
    BY Inside, Placed DEF Arrived
  <1>2. /\ Wipe(t, s, i + 1) = Arrived(i + 1 + 1, d, m, o \o Blanks(t, i, i + 1))
        /\ Wipe(t, s, i) = Arrived(i + 1, d, m, o \o Blanks(t, i, i))
    BY Wiped DEF Arrived
  <1>3. BlockClose # BlockOpen
    BY DEF BlockClose, BlockOpen
  <1> HIDE DEF s
  <1>4. /\ EscapesStep(t, s) = step /\ SurfaceStep(t, s) = step /\ ReportStep(t, s) = step
    BY <1>1 DEF EscapesStep, SurfaceStep, ReportStep
  <1>5. /\ Pair(t, i) = BlockOpen => step = Nest(Wipe(t, s, i + 1), d + 1)
        /\ Pair(t, i) = BlockClose => step = Nest(Wipe(t, s, i + 1), d - 1)
        /\ Pair(t, i) # BlockOpen /\ Pair(t, i) # BlockClose => step = Wipe(t, s, i)
    BY <1>1, <1>3 DEF CommentStep
  <1>6. /\ Pair(t, i) = BlockOpen =>
              step = Arrived(i + 1 + 1, d + 1, m, o \o Blanks(t, i, i + 1))
        /\ Pair(t, i) = BlockClose =>
              step = Arrived(i + 1 + 1, d - 1, m, o \o Blanks(t, i, i + 1))
        /\ Pair(t, i) # BlockOpen /\ Pair(t, i) # BlockClose =>
              step = Arrived(i + 1, d, m, o \o Blanks(t, i, i))
    <2> HIDE DEF step
    <2> QED
      BY <1>2, <1>5, Nested DEF Arrived
  <1> HIDE DEF step
  <1>7. \A j, e, p : step = Arrived(j, e, m, p) => ScanStep(k, t, s) = Position(k, t, j, e, m, p)
    BY <1>4, Lands DEF Scanners
  <1> QED
    BY <1>1, <1>6, <1>7

\* A character that is there is in the text.
LEMMA InText ==
    ASSUME NEW t, NEW i, At(t, i) \in Characters
    PROVE  i \in 1..Len(t) /\ At(t, i) = t[i]
  <1>1. Nothing \notin Characters
    BY Zenon DEF Nothing, Characters, Letter, Newline, Space, Quote, Escape, Tick, NameBegin, NameEnd
  <1> QED
    BY <1>1 DEF At

\* A character literal starts with a tick and ends in the text.
LEMMA CharLiterals ==
    ASSUME NEW t \in Texts, NEW i \in 1..Len(t), CharLiteralEnd(t, i) > 0
    PROVE  t[i] = Tick /\ CharLiteralEnd(t, i) \in i..Len(t)
  <1> DEFINE j == CharLiteralEnd(t, i)
  <1>1. At(t, i) = Tick /\ At(t, j) = Tick /\ j \in {i + 2, i + 3}
    <2>1. \E l \in {i + 2, i + 3} :
             \/ j = l /\ At(t, i) = Tick /\ At(t, l) = Tick
             \/ j = 0
      <3>1. CASE At(t, i + 1) = Escape
        BY <3>1 DEF CharLiteralEnd
      <3>2. CASE At(t, i + 1) # Escape
        BY <3>2 DEF CharLiteralEnd
      <3> QED
        BY <3>1, <3>2
    <2> HIDE DEF j
    <2>2. j # 0
      BY DEF j
    <2> QED
      BY <2>1, <2>2
  <1>2. j \in 1..Len(t)
    BY <1>1, InText DEF Characters
  <1> QED
    BY <1>1, <1>2, Inside

\* What opens a comment is nothing else.
LEMMA OpensOnly ==
    ASSUME NEW t \in Texts, NEW i \in 1..Len(t), Pair(t, i) \in {BlockOpen, LineOpen}
    PROVE  t[i] # Quote /\ t[i] # NameBegin /\ ~(CharLiteralEnd(t, i) > 0)
  <1>1. t[i] \in {"/", "-"}
    BY Inside DEF Pair, BlockOpen, LineOpen
  <1> QED
    BY <1>1, CharLiterals DEF Quote, NameBegin, Tick

\* A comment opens.
LEMMA CommentOpens ==
    ASSUME NEW t \in Texts, NEW k \in Scanners, NEW i \in 1..Len(t), NEW o
    PROVE  LET next == ScanStep(k, t, Position(k, t, i, 0, "code", o))
           IN  /\ Pair(t, i) = BlockOpen =>
                      next = Position(k, t, i + 1 + 1, 1, "code", o \o Blanks(t, i, i + 1))
               /\ Pair(t, i) = LineOpen =>
                      next = Position(k, t, LineEnd(t, i) + 1, 0, "code",
                                      o \o Blanks(t, i, LineEnd(t, i)))
  <1> DEFINE s == Arrived(i, 0, "code", o)
             e == LineEnd(t, i)
             block == Nest(Wipe(t, s, i + 1), 1)
             line == Wipe(t, s, e)
  <1>1. Position(k, t, i, 0, "code", o) = s /\ s.depth = 0 /\ s.at = i /\ s.mode = "code"
    BY Inside, Placed DEF Arrived
  <1>2. /\ block = Arrived(i + 1 + 1, 1, "code", o \o Blanks(t, i, i + 1))
        /\ line = Arrived(e + 1, 0, "code", o \o Blanks(t, i, e))
    BY Wiped, Nested DEF Arrived
  <1>3. BlockOpen # LineOpen
    BY DEF BlockOpen, LineOpen
  <1> HIDE DEF s
  <1>4. Pair(t, i) = BlockOpen =>
           EscapesStep(t, s) = block /\ SurfaceStep(t, s) = block /\ ReportStep(t, s) = block
    <2> SUFFICES ASSUME Pair(t, i) = BlockOpen
                 PROVE  EscapesStep(t, s) = block /\ SurfaceStep(t, s) = block /\ ReportStep(t, s) = block
      OBVIOUS
    <2>1. EscapesStep(t, s) = block
      BY <1>1, <1>3, OpensOnly DEF EscapesStep
    <2>2. SurfaceStep(t, s) = block
      BY <1>1, <1>3 DEF SurfaceStep
    <2>3. ReportStep(t, s) = block
      BY <1>1, <1>3, OpensOnly DEF ReportStep
    <2> QED
      BY <2>1, <2>2, <2>3
  <1>5. Pair(t, i) = LineOpen =>
           EscapesStep(t, s) = line /\ SurfaceStep(t, s) = line /\ ReportStep(t, s) = line
    <2> SUFFICES ASSUME Pair(t, i) = LineOpen
                 PROVE  EscapesStep(t, s) = line /\ SurfaceStep(t, s) = line /\ ReportStep(t, s) = line
      OBVIOUS
    <2>1. EscapesStep(t, s) = line
      BY <1>1, <1>3, OpensOnly DEF EscapesStep
    <2>2. SurfaceStep(t, s) = line
      BY <1>1, <1>3 DEF SurfaceStep
    <2>3. ReportStep(t, s) = line
      BY <1>1, <1>3, OpensOnly DEF ReportStep
    <2> QED
      BY <2>1, <2>2, <2>3
  <1> HIDE DEF block, line, e
  <1>6. CASE Pair(t, i) = BlockOpen
    BY <1>1, <1>2, <1>3, <1>4, <1>6, Lands DEF Scanners
  <1>7. CASE Pair(t, i) = LineOpen
    BY <1>1, <1>2, <1>3, <1>5, <1>7, Lands DEF Scanners, e
  <1> QED
    BY <1>6, <1>7

Opens(t, i) == Pair(t, i) \in {BlockOpen, LineOpen}

\* In code, where no comment opens: the gate against escapes blanks strings and
\* character literals.
LEMMA EscapesInCode ==
    ASSUME NEW t \in Texts, NEW i \in 1..Len(t), NEW o, ~Opens(t, i)
    PROVE  LET next == ScanStep("escapes", t, Position("escapes", t, i, 0, "code", o))
               j == CharLiteralEnd(t, i)
           IN  /\ t[i] = Quote =>
                    next = Position("escapes", t, i + 1, 0, "string", o \o Blanks(t, i, i))
               /\ j > 0 =>
                    next = Position("escapes", t, j + 1, 0, "code", o \o Blanks(t, i, j))
               /\ t[i] = NameBegin =>
                    next = Position("escapes", t, i + 1, 0, "name", o \o SubSeq(t, i, i))
               /\ t[i] # NameBegin /\ t[i] # Quote /\ ~(j > 0) =>
                    next = Position("escapes", t, i + 1, 0, "code", o \o SubSeq(t, i, i))
  <1> DEFINE s == Arrived(i, 0, "code", o)
             j == CharLiteralEnd(t, i)
             step == EscapesStep(t, s)
  <1>1. /\ Position("escapes", t, i, 0, "code", o) = s /\ "escapes" \in Scanners
        /\ s.at = i /\ s.depth = 0 /\ s.mode = "code"
    BY Inside, Placed DEF Scanners, Arrived
  <1>2. /\ Pair(t, i) # BlockOpen /\ Pair(t, i) # LineOpen
        /\ t[i] = Quote => t[i] # NameBegin /\ ~(j > 0)
        /\ t[i] = NameBegin => ~(j > 0)
    BY CharLiterals DEF Opens, NameBegin, Quote, Tick
  <1>3. /\ Enter(Wipe(t, s, i), "string") = Arrived(i + 1, 0, "string", o \o Blanks(t, i, i))
        /\ Wipe(t, s, j) = Arrived(j + 1, 0, "code", o \o Blanks(t, i, j))
        /\ Enter(Keep(t, s, i), "name") = Arrived(i + 1, 0, "name", o \o SubSeq(t, i, i))
        /\ Keep(t, s, i) = Arrived(i + 1, 0, "code", o \o SubSeq(t, i, i))
    BY Kept, Wiped, Entered DEF Arrived
  <1> HIDE DEF s
  <1>4. CASE t[i] = Quote
    <2>1. step = Enter(Wipe(t, s, i), "string")
      BY <1>1, <1>2, <1>4 DEF EscapesStep
    <2> HIDE DEF j, step
    <2> QED
      BY <1>1, <1>2, <1>3, <1>4, <2>1, Lands DEF j, step
  <1>5. CASE j > 0
    <2>1. step = Wipe(t, s, j)
      BY <1>1, <1>2, <1>5 DEF EscapesStep
    <2> HIDE DEF j, step
    <2>2. ScanStep("escapes", t, s)
            = Position("escapes", t, j + 1, 0, "code", o \o Blanks(t, i, j))
      BY <1>1, <1>3, <2>1, Lands DEF step
    <2> QED
      BY <1>1, <1>2, <1>5, <2>2 DEF j
  <1>6. CASE t[i] = NameBegin
    <2>1. step = Enter(Keep(t, s, i), "name")
      BY <1>1, <1>2, <1>6 DEF EscapesStep
    <2> HIDE DEF j, step
    <2> QED
      BY <1>1, <1>2, <1>3, <1>6, <2>1, Lands DEF j, step
  <1>7. CASE t[i] # NameBegin /\ t[i] # Quote /\ ~(j > 0)
    <2>1. step = Keep(t, s, i)
      BY <1>1, <1>2, <1>7 DEF EscapesStep
    <2> HIDE DEF j, step
    <2> QED
      BY <1>1, <1>3, <1>7, <2>1, Lands DEF j, step
  <1> QED
    BY <1>4, <1>5, <1>6, <1>7

\* In a string of which nothing is kept, and in a quoted name.
LEMMA EscapesInString ==
    ASSUME NEW t \in Texts, NEW i \in 1..Len(t), NEW o
    PROVE  LET next == ScanStep("escapes", t, Position("escapes", t, i, 0, "string", o))
           IN  IF t[i] = Escape /\ i < Len(t)
               THEN next = Position("escapes", t, i + 1 + 1, 0, "string", o \o Blanks(t, i, i + 1))
               ELSE next = Position("escapes", t, i + 1, 0,
                                    IF t[i] = Quote THEN "code" ELSE "string",
                                    o \o Blanks(t, i, i))
  <1> DEFINE s == Arrived(i, 0, "string", o)
             m == IF t[i] = Quote THEN "code" ELSE "string"
             step == EscapesStep(t, s)
  <1>1. /\ Position("escapes", t, i, 0, "string", o) = s /\ "escapes" \in Scanners
        /\ s.at = i /\ s.depth = 0 /\ s.mode = "string"
    BY Inside, Placed DEF Scanners, Arrived
  <1>2. /\ Wipe(t, s, i + 1) = Arrived(i + 1 + 1, 0, "string", o \o Blanks(t, i, i + 1))
        /\ Enter(Wipe(t, s, i), m) = Arrived(i + 1, 0, m, o \o Blanks(t, i, i))
    BY Wiped, Entered DEF Arrived
  <1> HIDE DEF s
  <1>3. step = StringStep(t, s)
    BY <1>1 DEF EscapesStep
  <1>4. step = IF t[i] = Escape /\ i < Len(t) THEN Wipe(t, s, i + 1)
               ELSE Enter(Wipe(t, s, i), m)
    BY <1>1, <1>3 DEF StringStep
  <1> HIDE DEF step, m
  <1>5. CASE t[i] = Escape /\ i < Len(t)
    <2>1. ScanStep("escapes", t, s)
            = Position("escapes", t, i + 1 + 1, 0, "string", o \o Blanks(t, i, i + 1))
      BY <1>1, <1>2, <1>4, <1>5, Lands DEF step
    <2> QED
      BY <1>1, <1>5, <2>1
  <1>6. CASE ~(t[i] = Escape /\ i < Len(t))
    <2>1. ScanStep("escapes", t, s) = Position("escapes", t, i + 1, 0, m, o \o Blanks(t, i, i))
      BY <1>1, <1>2, <1>4, <1>6, Lands DEF step
    <2> QED
      BY <1>1, <1>6, <2>1 DEF m
  <1> QED
    BY <1>5, <1>6

\* In a quoted name the gate against escapes keeps a character, up to the closing guillemet.
LEMMA EscapesInName ==
    ASSUME NEW t \in Texts, NEW i \in 1..Len(t), NEW o
    PROVE  ScanStep("escapes", t, Position("escapes", t, i, 0, "name", o))
             = Position("escapes", t, i + 1, 0, IF t[i] = NameEnd THEN "code" ELSE "name",
                        o \o SubSeq(t, i, i))
  <1> DEFINE s == Arrived(i, 0, "name", o)
             m == IF t[i] = NameEnd THEN "code" ELSE "name"
  <1>1. /\ Position("escapes", t, i, 0, "name", o) = s /\ "escapes" \in Scanners
        /\ s.at = i /\ s.depth = 0 /\ s.mode = "name"
    BY Inside, Placed DEF Scanners, Arrived
  <1>2. Enter(Keep(t, s, i), m) = Arrived(i + 1, 0, m, o \o SubSeq(t, i, i))
    BY Kept, Entered DEF Arrived
  <1> HIDE DEF s
  <1>3. EscapesStep(t, s) = Enter(Keep(t, s, i), m)
    BY <1>1 DEF EscapesStep
  <1> HIDE DEF m
  <1>4. ScanStep("escapes", t, s) = Position("escapes", t, i + 1, 0, m, o \o SubSeq(t, i, i))
    BY <1>1, <1>2, <1>3, Lands
  <1> QED
    BY <1>1, <1>4 DEF m

\* The surface gate keeps what is not a comment.
LEMMA SurfaceInCode ==
    ASSUME NEW t \in Texts, NEW i \in 1..Len(t), NEW o, ~Opens(t, i)
    PROVE  ScanStep("surface", t, Position("surface", t, i, 0, "code", o))
             = Position("surface", t, i + 1, 0, IF t[i] = Quote THEN "string" ELSE "code",
                        o \o SubSeq(t, i, i))
  <1> DEFINE s == Arrived(i, 0, "code", o)
             m == IF t[i] = Quote THEN "string" ELSE "code"
  <1>1. /\ Position("surface", t, i, 0, "code", o) = s /\ "surface" \in Scanners
        /\ s.at = i /\ s.depth = 0 /\ s.mode = "code"
    BY Inside, Placed DEF Scanners, Arrived
  <1>2. Enter(Keep(t, s, i), m) = Arrived(i + 1, 0, m, o \o SubSeq(t, i, i))
    BY Kept, Entered DEF Arrived
  <1>3. Pair(t, i) # BlockOpen /\ Pair(t, i) # LineOpen
    BY DEF Opens
  <1> HIDE DEF s
  <1>4. SurfaceStep(t, s) = Enter(Keep(t, s, i), m)
    BY <1>1, <1>3 DEF SurfaceStep
  <1> HIDE DEF m
  <1>5. ScanStep("surface", t, s) = Position("surface", t, i + 1, 0, m, o \o SubSeq(t, i, i))
    BY <1>1, <1>2, <1>4, Lands
  <1> QED
    BY <1>1, <1>5 DEF m

\* In a string the surface gate keeps a character, and with a backslash the one after it.
LEMMA SurfaceInString ==
    ASSUME NEW t \in Texts, NEW i \in 1..Len(t), NEW o
    PROVE  LET next == ScanStep("surface", t, Position("surface", t, i, 0, "string", o))
           IN  IF t[i] = Escape /\ i < Len(t)
               THEN next = Position("surface", t, i + 1 + 1, 0, "string",
                                    o \o SubSeq(t, i, i + 1))
               ELSE next = Position("surface", t, i + 1, 0,
                                    IF t[i] = Quote THEN "code" ELSE "string",
                                    o \o SubSeq(t, i, i))
  <1> DEFINE s == Arrived(i, 0, "string", o)
             m == IF t[i] = Quote THEN "code" ELSE "string"
             step == SurfaceStep(t, s)
  <1>1. /\ Position("surface", t, i, 0, "string", o) = s /\ "surface" \in Scanners
        /\ s.at = i /\ s.depth = 0 /\ s.mode = "string"
    BY Inside, Placed DEF Scanners, Arrived
  <1>2. /\ Keep(t, s, i + 1) = Arrived(i + 1 + 1, 0, "string", o \o SubSeq(t, i, i + 1))
        /\ Enter(Keep(t, s, i), m) = Arrived(i + 1, 0, m, o \o SubSeq(t, i, i))
    BY Kept, Entered DEF Arrived
  <1> HIDE DEF s
  <1>3. step = IF t[i] = Escape /\ i < Len(t) THEN Keep(t, s, i + 1)
               ELSE Enter(Keep(t, s, i), m)
    BY <1>1 DEF SurfaceStep
  <1> HIDE DEF step, m
  <1>4. CASE t[i] = Escape /\ i < Len(t)
    <2>1. ScanStep("surface", t, s)
            = Position("surface", t, i + 1 + 1, 0, "string", o \o SubSeq(t, i, i + 1))
      BY <1>1, <1>2, <1>3, <1>4, Lands DEF step
    <2> QED
      BY <1>1, <1>4, <2>1
  <1>5. CASE ~(t[i] = Escape /\ i < Len(t))
    <2>1. ScanStep("surface", t, s) = Position("surface", t, i + 1, 0, m, o \o SubSeq(t, i, i))
      BY <1>1, <1>2, <1>3, <1>5, Lands DEF step
    <2> QED
      BY <1>1, <1>5, <2>1 DEF m
  <1> QED
    BY <1>4, <1>5

\* The inventory of a report copies names and strings at once.
LEMMA ReportInCode ==
    ASSUME NEW t \in Texts, NEW i \in 1..Len(t), NEW o, ~Opens(t, i)
    PROVE  LET next == ScanStep("report", t, Position("report", t, i, 0, "code", o))
               named == t[i] = NameBegin /\ NameEndAt(t, i) # {}
               j == CHOOSE j \in NameEndAt(t, i) : TRUE
               e == StringEnd(t, i)
           IN  /\ named =>
                    next = Position("report", t, j + 1, 0, "code", o \o SubSeq(t, i, j))
               /\ t[i] = Quote =>
                    next = Position("report", t, e + 1, 0, "code", o \o SubSeq(t, i, e))
               /\ ~named /\ t[i] # Quote =>
                    next = Position("report", t, i + 1, 0, "code", o \o SubSeq(t, i, i))
  <1> DEFINE s == Arrived(i, 0, "code", o)
             named == t[i] = NameBegin /\ NameEndAt(t, i) # {}
             j == CHOOSE j \in NameEndAt(t, i) : TRUE
             e == StringEnd(t, i)
             step == ReportStep(t, s)
  <1>1. /\ Position("report", t, i, 0, "code", o) = s /\ "report" \in Scanners
        /\ s.at = i /\ s.depth = 0
    BY Inside, Placed DEF Scanners, Arrived
  <1>2. /\ Pair(t, i) # BlockOpen /\ Pair(t, i) # LineOpen
        /\ t[i] = Quote => ~named
    BY DEF Opens, NameBegin, Quote
  <1>3. \A l : Keep(t, s, l) = Arrived(l + 1, 0, "code", o \o SubSeq(t, i, l))
    BY Kept DEF Arrived
  <1> HIDE DEF s
  <1>4. /\ named => step = Keep(t, s, j)
        /\ t[i] = Quote => step = Keep(t, s, e)
        /\ ~named /\ t[i] # Quote => step = Keep(t, s, i)
    <2>1. CASE named
      BY <1>1, <1>2, <2>1 DEF ReportStep
    <2>2. CASE t[i] = Quote
      BY <1>1, <1>2, <2>2 DEF ReportStep
    <2>3. CASE ~named /\ t[i] # Quote
      BY <1>1, <1>2, <2>3 DEF ReportStep
    <2> QED
      BY <1>2, <2>1, <2>2, <2>3
  <1> HIDE DEF step, j, e, named
  <1>5. \A l : step = Keep(t, s, l) =>
           ScanStep("report", t, s)
             = Position("report", t, l + 1, 0, "code", o \o SubSeq(t, i, l))
    BY <1>1, <1>3, Lands DEF step
  <1>6. /\ named => ScanStep("report", t, s)
                      = Position("report", t, j + 1, 0, "code", o \o SubSeq(t, i, j))
        /\ t[i] = Quote => ScanStep("report", t, s)
                      = Position("report", t, e + 1, 0, "code", o \o SubSeq(t, i, e))
        /\ ~named /\ t[i] # Quote => ScanStep("report", t, s)
                      = Position("report", t, i + 1, 0, "code", o \o SubSeq(t, i, i))
    BY <1>4, <1>5
  <1> QED
    BY <1>1, <1>6 DEF named, j, e

-----------------------------------------------------------------------------
(* What every scan keeps                                                   *)

\* A pair that opens or closes a comment is in the text.
LEMMA PairsFit ==
    ASSUME NEW t \in Texts, NEW i \in 1..Len(t),
           Pair(t, i) \in {BlockOpen, BlockClose, LineOpen}
    PROVE  i + 1 \in i..Len(t) /\ <<t[i], t[i + 1]>> = Pair(t, i)
  <1>1. At(t, i + 1) \in {"/", "-"}
    BY DEF Pair, BlockOpen, BlockClose, LineOpen
  <1>2. i + 1 \in 1..Len(t)
    BY <1>1, InText DEF Characters
  <1> QED
    BY <1>2, Inside DEF Pair, At

\* A line ends in the text.
LEMMA LinesFit ==
    ASSUME NEW t \in Texts, NEW i \in 1..Len(t)
    PROVE  LineEnd(t, i) \in i..Len(t)
  <1> DEFINE Last(j) == At(t, j + 1) \in {Newline, Nothing}
             ends == {j \in i..Len(t) : Last(j)}
             Ok(j) == Last(j) /\ \A k \in (i + 1)..j : t[k] # Newline
  <1>1. i \in Nat /\ i >= 1 /\ Len(t) \in Nat /\ i <= Len(t)
    BY DEF Texts
  <1>2. Last(Len(t))
    BY <1>1 DEF At
  <1>3. \A k \in 1..Len(t) : t[k] = Newline => Last(k - 1)
    <2> SUFFICES ASSUME NEW k \in 1..Len(t), t[k] = Newline PROVE Last(k - 1)
      OBVIOUS
    <2>1. (k - 1) + 1 = k
      OBVIOUS
    <2> QED
      BY <2>1 DEF At
  <1> HIDE DEF Last
  <1>4. ends \subseteq Nat /\ Len(t) \in ends
    BY <1>1, <1>2
  <1>5. PICK j \in ends : \A k \in ends : j <= k
    <2> HIDE DEF ends
    <2> QED
      BY <1>4, LeastNat
  <1>6. j \in i..Len(t) /\ Last(j)
    BY <1>5
  <1>7. ASSUME NEW k \in (i + 1)..j, t[k] = Newline PROVE FALSE
    <2>1. k \in 1..Len(t) /\ k - 1 \in i..Len(t) /\ ~(j <= k - 1)
      BY <1>1, <1>6
    <2>2. k - 1 \in ends
      BY <1>3, <1>7, <2>1
    <2> QED
      BY <1>5, <2>1, <2>2
  <1>8. Ok(j)
    BY <1>6, <1>7
  <1> HIDE DEF Ok
  <1>9. \E l \in i..Len(t) : Ok(l)
    BY <1>6, <1>8
  <1> QED
    BY <1>9, Zenon DEF LineEnd, Ok, Last

\* Where a string of the inventory of a report ends.
LEMMA StringsFit ==
    ASSUME NEW t \in Texts, NEW i \in 1..Len(t)
    PROVE  StringEnd(t, i) \in i..Len(t)
  <1> DEFINE e == CHOOSE e : e = [j \in i..Len(t) |-> j > i + 1 /\ t[j - 1] = Escape /\ ~e[j - 1]]
             ends == {j \in (i + 1)..Len(t) : t[j] = Quote /\ ~e[j]}
  <1>1. StringEnd(t, i) = IF ends = {} THEN Len(t)
                          ELSE CHOOSE j \in ends : \A k \in ends : j <= k
    BY DEF StringEnd
  <1>2. i \in Nat /\ Len(t) \in Nat /\ i <= Len(t)
    BY DEF Texts
  <1>3. ends \subseteq (i + 1)..Len(t)
    OBVIOUS
  <1> HIDE DEF ends
  <1>4. CASE ends = {}
    BY <1>1, <1>2, <1>4
  <1>5. CASE ends # {}
    <2>1. ends \subseteq Nat
      BY <1>2, <1>3
    <2>2. \E j \in ends : \A k \in ends : j <= k
      BY <1>5, <2>1, LeastNat
    <2>3. StringEnd(t, i) \in ends
      BY <1>1, <1>5, <2>2
    <2>4. StringEnd(t, i) \in (i + 1)..Len(t)
      BY <1>3, <2>3
    <2> QED
      BY <1>2, <2>4
  <1> QED
    BY <1>4, <1>5

\* What has been written before position i: of each character, it or its blank.
Reads(t, i, o) ==
    /\ o \in Texts /\ Len(o) = i - 1
    /\ \A n \in 1..(i - 1) : o[n] \in {t[n], Blank(t[n])}

\* A stretch of a text and its blanks are texts of the same length.
LEMMA BlanksAre ==
    ASSUME NEW t \in Texts, NEW i \in 1..Len(t), NEW j \in i..Len(t)
    PROVE  /\ Blanks(t, i, j) \in Texts /\ Len(Blanks(t, i, j)) = j - i + 1
           /\ \A n \in 1..(j - i + 1) : Blanks(t, i, j)[n] = Blank(t[i + n - 1])
           /\ SubSeq(t, i, j) \in Texts /\ Len(SubSeq(t, i, j)) = j - i + 1
           /\ \A n \in 1..(j - i + 1) : SubSeq(t, i, j)[n] = t[i + n - 1]
  <1>1. i \in Nat /\ j \in Nat /\ j - i + 1 \in Nat
    OBVIOUS
  <1>2. \A n \in 1..(j - i + 1) : Blank(t[i + n - 1]) \in Characters
    BY DEF Blank, Characters
  <1>3. Blanks(t, i, j) = [n \in 1..(j - i + 1) |-> Blank(t[i + n - 1])]
    BY DEF Blanks
  <1>4. Blanks(t, i, j) \in Texts /\ Len(Blanks(t, i, j)) = j - i + 1
    BY <1>1, <1>2, <1>3 DEF Texts
  <1>5. \A n \in i..j : t[n] \in Characters
    BY DEF Texts
  <1>6. /\ SubSeq(t, i, j) \in Texts /\ Len(SubSeq(t, i, j)) = j - i + 1
        /\ \A n \in 1..(j - i + 1) : SubSeq(t, i, j)[n] = t[i + n - 1]
    BY <1>1, <1>5, SubSeqProperties DEF Texts
  <1> QED
    BY <1>3, <1>4, <1>6

\* What has been written goes on with a stretch of the text or its blanks.
LEMMA ReadsOn ==
    ASSUME NEW t \in Texts, NEW i \in 1..Len(t), NEW j \in i..Len(t), NEW o, Reads(t, i, o),
           NEW w \in {SubSeq(t, i, j), Blanks(t, i, j)}
    PROVE  Reads(t, j + 1, o \o w)
  <1>1. i \in Nat /\ j \in Nat /\ i >= 1 /\ j >= i
    OBVIOUS
  <1>2. /\ w \in Texts /\ Len(w) = j - i + 1
        /\ \A n \in 1..(j - i + 1) : w[n] \in {t[i + n - 1], Blank(t[i + n - 1])}
    <2>1. CASE w = SubSeq(t, i, j)
      BY <2>1, BlanksAre, Zenon
    <2>2. CASE w = Blanks(t, i, j)
      BY <2>2, BlanksAre, Zenon
    <2> QED
      BY <2>1, <2>2
  <1>3. o \in Texts /\ Len(o) = i - 1
    BY DEF Reads
  <1>4. /\ o \o w \in Texts /\ Len(o \o w) = j
        /\ \A n \in 1..j : (o \o w)[n] = IF n <= i - 1 THEN o[n] ELSE w[n - (i - 1)]
    <2>1. /\ o \o w \in Texts /\ Len(o \o w) = Len(o) + Len(w)
          /\ \A n \in 1..(Len(o) + Len(w)) :
                (o \o w)[n] = IF n <= Len(o) THEN o[n] ELSE w[n - Len(o)]
      BY <1>2, <1>3, ConcatProperties, Zenon DEF Texts
    <2>2. Len(o) + Len(w) = j
      BY <1>1, <1>2, <1>3
    <2> QED
      BY <1>3, <2>1, <2>2
  <1>5. ASSUME NEW n \in 1..j
        PROVE  (o \o w)[n] \in {t[n], Blank(t[n])}
    <2>1. CASE n <= i - 1
      <3>1. n \in 1..(i - 1)
        BY <1>1, <2>1
      <3> QED
        BY <1>4, <2>1, <3>1 DEF Reads
    <2>2. CASE ~(n <= i - 1)
      <3>1. n - (i - 1) \in 1..(j - i + 1) /\ i + (n - (i - 1)) - 1 = n
        BY <1>1, <2>2
      <3> QED
        BY <1>2, <1>4, <2>2, <3>1
    <2> QED
      BY <2>1, <2>2
  <1> QED
    BY <1>1, <1>4, <1>5 DEF Reads

-----------------------------------------------------------------------------
(* What a scanner makes of what it wrote                                   *)

\* The modes there are: no comment opens in a string or a name.
Fits(k, d, m) ==
    /\ d \in Nat /\ m \in Modes /\ (d > 0 => m = "code")
    /\ m = "string" => k # "report"
    /\ m = "name" => k = "escapes"

\* A text of which some characters are blanked.
Masks(u, t) ==
    /\ u \in Texts /\ Len(u) = Len(t)
    /\ \A n \in 1..Len(t) : u[n] \in {t[n], Blank(t[n])}

\* What is no blank is unmasked; newlines are never masked; no tick is put in.
LEMMA Unmasked ==
    ASSUME NEW t \in Texts, NEW u, Masks(u, t), NEW n \in 1..Len(t)
    PROVE  /\ u[n] \notin {Space, Newline} => t[n] = u[n]
           /\ u[n] = Newline <=> t[n] = Newline
           /\ ~Uses(t, Tick) => u[n] # Tick
  <1>1. Space # Newline /\ Space # Tick /\ Newline # Tick
    BY DEF Space, Newline, Tick
  <1>2. u[n] \in {t[n], Blank(t[n])}
    BY DEF Masks
  <1>3. n \in DOMAIN t
    BY DEF Texts
  <1> QED
    BY <1>1, <1>2, <1>3 DEF Blank, Uses

\* Blanks open no comment.
LEMMA OpensStill ==
    ASSUME NEW t \in Texts, NEW u, Masks(u, t), NEW i \in 1..Len(t), Opens(u, i)
    PROVE  Opens(t, i)
  <1>1. u \in Texts /\ i \in 1..Len(u) /\ Len(u) = Len(t)
    BY DEF Masks
  <1>2. i + 1 \in i..Len(t) /\ <<u[i], u[i + 1]>> \in {BlockOpen, LineOpen}
    BY <1>1, PairsFit DEF Opens
  <1>3. i + 1 \in 1..Len(t)
    BY <1>2
  <1>4. u[i] \in {"/", "-"} /\ u[i + 1] \in {"/", "-"}
    BY <1>2 DEF BlockOpen, LineOpen
  <1>5. t[i] = u[i] /\ t[i + 1] = u[i + 1]
    BY <1>3, <1>4, Unmasked DEF Space, Newline
  <1> QED
    BY <1>2, <1>3, <1>5, Zenon DEF Opens, Pair, At

\* In the second reading what was a comment, or a string that is not kept, is code.
Again(k, m) == IF k = "escapes" /\ m = "string" THEN "code" ELSE m

\* From position i on to j the scanner blanks what it reads.
Wiping(k, t, i, d, m, j, e, n) ==
    /\ Again(k, m) = "code" /\ Again(k, n) = "code"
    /\ \A o : ScanStep(k, t, Position(k, t, i, d, m, o))
                = Position(k, t, j + 1, e, n, o \o Blanks(t, i, j))

\* From position i on to j the scanner keeps what it reads.
Keeping(k, t, i, m, j, n) ==
    \A o : ScanStep(k, t, Position(k, t, i, 0, m, o))
             = Position(k, t, j + 1, 0, n, o \o SubSeq(t, i, j))

\* It does so again in a text of which it has kept as much.
Copying(k, t, i, m, j, n) ==
    /\ Again(k, m) = m /\ Again(k, n) = n /\ Keeping(k, t, i, m, j, n)
    /\ ~Uses(t, Tick) =>
          \A u : Masks(u, t) /\ (\A l \in i..j : u[l] = t[l]) => Keeping(k, u, i, m, j, n)

\* From position i on the scanner keeps or blanks a stretch as a whole.
Goes(k, t, i, d, m) ==
    \E j \in i..Len(t), e \in Nat, n \in Modes :
        /\ Fits(k, e, n)
        /\ \/ Wiping(k, t, i, d, m, j, e, n)
           \/ d = 0 /\ e = 0 /\ Copying(k, t, i, m, j, n)

\* All scanners go alike through comments, and into them.
LEMMA CommentsAlike ==
    ASSUME NEW t \in Texts, NEW i \in 1..Len(t), NEW d \in Nat, d > 0 \/ (d = 0 /\ Opens(t, i))
    PROVE  \E j \in i..Len(t), e \in Nat :
              \A k \in Scanners : Wiping(k, t, i, d, "code", j, e, "code")
  <1>1. \A k : Again(k, "code") = "code"
    BY DEF Again
  <1>2. ASSUME NEW j \in i..Len(t), NEW e \in Nat,
               \A k \in Scanners : \A o :
                  ScanStep(k, t, Position(k, t, i, d, "code", o))
                    = Position(k, t, j + 1, e, "code", o \o Blanks(t, i, j))
        PROVE  \E l \in i..Len(t), f \in Nat :
                  \A k \in Scanners : Wiping(k, t, i, d, "code", l, f, "code")
    BY <1>1, <1>2, Zenon DEF Wiping
  <1>3. CASE d > 0 /\ Pair(t, i) = BlockOpen
    <2>1. ASSUME NEW k \in Scanners, NEW o
          PROVE  ScanStep(k, t, Position(k, t, i, d, "code", o))
                   = Position(k, t, i + 1 + 1, d + 1, "code", o \o Blanks(t, i, i + 1))
      BY <1>3, InComment
    <2>2. i + 1 \in i..Len(t) /\ d + 1 \in Nat
      BY <1>3, PairsFit
    <2> QED
      BY <1>2, <2>1, <2>2, Zenon
  <1>4. CASE d > 0 /\ Pair(t, i) = BlockClose
    <2>1. ASSUME NEW k \in Scanners, NEW o
          PROVE  ScanStep(k, t, Position(k, t, i, d, "code", o))
                   = Position(k, t, i + 1 + 1, d - 1, "code", o \o Blanks(t, i, i + 1))
      BY <1>4, InComment
    <2>2. i + 1 \in i..Len(t) /\ d - 1 \in Nat
      BY <1>4, PairsFit
    <2> QED
      BY <1>2, <2>1, <2>2, Zenon
  <1>5. CASE d > 0 /\ Pair(t, i) \notin {BlockOpen, BlockClose}
    <2>1. ASSUME NEW k \in Scanners, NEW o
          PROVE  ScanStep(k, t, Position(k, t, i, d, "code", o))
                   = Position(k, t, i + 1, d, "code", o \o Blanks(t, i, i))
      BY <1>5, InComment
    <2>2. i \in i..Len(t)
      OBVIOUS
    <2> QED
      BY <1>2, <2>1, <2>2, Zenon
  <1>6. CASE d = 0 /\ Pair(t, i) = BlockOpen
    <2>1. ASSUME NEW k \in Scanners, NEW o
          PROVE  ScanStep(k, t, Position(k, t, i, d, "code", o))
                   = Position(k, t, i + 1 + 1, 1, "code", o \o Blanks(t, i, i + 1))
      BY <1>6, CommentOpens
    <2>2. i + 1 \in i..Len(t) /\ 1 \in Nat
      BY <1>6, PairsFit
    <2> QED
      BY <1>2, <2>1, <2>2, Zenon
  <1>7. CASE d = 0 /\ Pair(t, i) = LineOpen
    <2> DEFINE e == LineEnd(t, i)
    <2>1. ASSUME NEW k \in Scanners, NEW o
          PROVE  ScanStep(k, t, Position(k, t, i, d, "code", o))
                   = Position(k, t, e + 1, 0, "code", o \o Blanks(t, i, e))
      BY <1>7, CommentOpens
    <2>2. e \in i..Len(t) /\ 0 \in Nat
      BY LinesFit
    <2> QED
      BY <1>2, <2>1, <2>2, Zenon
  <1> QED
    BY <1>3, <1>4, <1>5, <1>6, <1>7 DEF Opens

\* Every scanner goes over a comment that is open or opens here, to blanks.
LEMMA CommentsGo ==
    ASSUME NEW k \in Scanners, NEW t \in Texts, NEW i \in 1..Len(t), NEW d \in Nat,
           d > 0 \/ (d = 0 /\ Opens(t, i))
    PROVE  Goes(k, t, i, d, "code")
  <1>1. PICK j \in i..Len(t), e \in Nat : Wiping(k, t, i, d, "code", j, e, "code")
    BY CommentsAlike
  <1>2. "code" \in Modes /\ Fits(k, e, "code")
    BY DEF Fits, Modes
  <1> QED
    BY <1>1, <1>2, Zenon DEF Goes

\* In each mode a move is one of the two.
LEMMA Moves ==
    ASSUME NEW k \in Scanners, NEW t \in Texts, NEW i \in 1..Len(t), NEW m \in Modes,
           NEW j \in i..Len(t), NEW n \in Modes, Fits(k, 0, n),
           \/ Wiping(k, t, i, 0, m, j, 0, n)
           \/ Copying(k, t, i, m, j, n)
    PROVE  Goes(k, t, i, 0, m)
  <1>1. 0 \in Nat
    OBVIOUS
  <1> QED
    BY <1>1, Zenon DEF Goes

\* A text with as much kept is a text, and has the same character there.
LEMMA SameThere ==
    ASSUME NEW t \in Texts, NEW i \in 1..Len(t), NEW j \in i..Len(t), NEW u, Masks(u, t),
           \A l \in i..j : u[l] = t[l]
    PROVE  u \in Texts /\ i \in 1..Len(u) /\ Len(u) = Len(t) /\ u[i] = t[i]
  <1>1. i \in i..j
    OBVIOUS
  <1> QED
    BY <1>1 DEF Masks

\* Outside comments the gate against escapes keeps or blanks a stretch as a whole.
LEMMA EscapesGoes ==
    ASSUME NEW t \in Texts, NEW i \in 1..Len(t), NEW m \in Modes, m = "code" => ~Opens(t, i)
    PROVE  Goes("escapes", t, i, 0, m)
  <1>1. /\ "code" \in Modes /\ "string" \in Modes /\ "name" \in Modes /\ "escapes" \in Scanners
        /\ \A n \in Modes : Fits("escapes", 0, n)
        /\ i \in i..Len(t)
    BY DEF Modes, Fits, Scanners
  <1>2. /\ Again("escapes", "code") = "code" /\ Again("escapes", "string") = "code"
        /\ Again("escapes", "name") = "name"
    BY DEF Again
  <1>3. CASE m = "code"
    <2> DEFINE j == CharLiteralEnd(t, i)
    <2>1. CASE t[i] = Quote
      <3>1. Wiping("escapes", t, i, 0, "code", i, 0, "string")
        BY <1>2, <1>3, <2>1, EscapesInCode DEF Wiping
      <3> QED
        BY <1>1, <1>3, <3>1, Moves
    <2>2. CASE j > 0
      <3>1. j \in i..Len(t)
        BY <2>2, CharLiterals
      <3>2. Wiping("escapes", t, i, 0, "code", j, 0, "code")
        BY <1>2, <1>3, <2>2, EscapesInCode DEF Wiping
      <3> HIDE DEF j
      <3> QED
        BY <1>1, <1>3, <3>1, <3>2, Moves
    <2>3. CASE t[i] = NameBegin
      <3>1. ASSUME NEW u \in Texts, i \in 1..Len(u), ~Opens(u, i), u[i] = t[i]
            PROVE  Keeping("escapes", u, i, "code", i, "name")
        BY <2>3, <3>1, EscapesInCode DEF Keeping
      <3>2. Copying("escapes", t, i, "code", i, "name")
        BY <1>1, <1>2, <1>3, <3>1, SameThere, OpensStill DEF Copying
      <3> QED
        BY <1>1, <1>3, <3>2, Moves
    <2>4. CASE t[i] # Quote /\ t[i] # NameBegin /\ ~(j > 0)
      <3>1. ASSUME NEW u \in Texts, i \in 1..Len(u), ~Opens(u, i), u[i] = t[i],
                   ~(CharLiteralEnd(u, i) > 0)
            PROVE  Keeping("escapes", u, i, "code", i, "code")
        BY <2>4, <3>1, EscapesInCode DEF Keeping
      <3>2. Keeping("escapes", t, i, "code", i, "code")
        BY <1>3, <2>4, <3>1
      <3>3. ASSUME ~Uses(t, Tick), NEW u, Masks(u, t), \A l \in i..i : u[l] = t[l]
            PROVE  Keeping("escapes", u, i, "code", i, "code")
        <4>1. u \in Texts /\ i \in 1..Len(u) /\ u[i] = t[i] /\ ~Opens(u, i)
          BY <1>1, <1>3, <3>3, SameThere, OpensStill
        <4>2. u[i] # Tick
          BY <3>3, Unmasked
        <4>3. ~(CharLiteralEnd(u, i) > 0)
          BY <4>1, <4>2, CharLiterals
        <4> QED
          BY <3>1, <4>1, <4>3
      <3>4. Copying("escapes", t, i, "code", i, "code")
        BY <1>2, <3>2, <3>3, Zenon DEF Copying
      <3> QED
        BY <1>1, <1>3, <3>4, Moves
    <2> QED
      BY <2>1, <2>2, <2>3, <2>4
  <1>4. CASE m = "string"
    <2>1. CASE t[i] = Escape /\ i < Len(t)
      <3>1. i + 1 \in i..Len(t)
        BY <2>1
      <3>2. Wiping("escapes", t, i, 0, "string", i + 1, 0, "string")
        BY <1>2, <2>1, EscapesInString DEF Wiping
      <3> QED
        BY <1>1, <1>4, <3>1, <3>2, Moves
    <2>2. CASE ~(t[i] = Escape /\ i < Len(t))
      <3>1. PICK n \in {"code", "string"} : n = IF t[i] = Quote THEN "code" ELSE "string"
        OBVIOUS
      <3>2. Wiping("escapes", t, i, 0, "string", i, 0, n)
        BY <1>2, <2>2, <3>1, EscapesInString DEF Wiping
      <3> QED
        BY <1>1, <1>4, <3>1, <3>2, Moves
    <2> QED
      BY <2>1, <2>2
  <1>5. CASE m = "name"
    <2>1. PICK n \in {"code", "name"} : n = IF t[i] = NameEnd THEN "code" ELSE "name"
      OBVIOUS
    <2>2. ASSUME NEW u \in Texts, i \in 1..Len(u), u[i] = t[i]
          PROVE  Keeping("escapes", u, i, "name", i, n)
      BY <2>1, <2>2, EscapesInName DEF Keeping
    <2>3. Copying("escapes", t, i, "name", i, n)
      BY <1>1, <1>2, <2>1, <2>2, SameThere DEF Copying
    <2> QED
      BY <1>1, <1>5, <2>1, <2>3, Moves
  <1> QED
    BY <1>3, <1>4, <1>5 DEF Modes

\* Outside comments the surface gate keeps what it reads.
LEMMA SurfaceGoes ==
    ASSUME NEW t \in Texts, NEW i \in 1..Len(t), NEW m \in {"code", "string"},
           m = "code" => ~Opens(t, i)
    PROVE  Goes("surface", t, i, 0, m)
  <1>1. /\ "code" \in Modes /\ "string" \in Modes /\ "surface" \in Scanners
        /\ \A n \in {"code", "string"} : Fits("surface", 0, n) /\ Again("surface", n) = n
        /\ i \in i..Len(t)
    BY DEF Modes, Fits, Scanners, Again
  <1>2. CASE m = "code"
    <2>1. PICK n \in {"code", "string"} : n = IF t[i] = Quote THEN "string" ELSE "code"
      OBVIOUS
    <2>2. ASSUME NEW u \in Texts, i \in 1..Len(u), ~Opens(u, i), u[i] = t[i]
          PROVE  Keeping("surface", u, i, "code", i, n)
      BY <2>1, <2>2, SurfaceInCode DEF Keeping
    <2>3. Copying("surface", t, i, "code", i, n)
      BY <1>1, <1>2, <2>1, <2>2, SameThere, OpensStill DEF Copying
    <2> QED
      BY <1>1, <1>2, <2>1, <2>3, Moves
  <1>3. CASE m = "string"
    <2>1. CASE t[i] = Escape /\ i < Len(t)
      <3>1. i + 1 \in i..Len(t)
        BY <2>1
      <3>2. ASSUME NEW u \in Texts, i \in 1..Len(u), u[i] = t[i], Len(u) = Len(t)
            PROVE  Keeping("surface", u, i, "string", i + 1, "string")
        BY <2>1, <3>2, SurfaceInString DEF Keeping
      <3>3. Copying("surface", t, i, "string", i + 1, "string")
        BY <1>1, <3>1, <3>2, SameThere DEF Copying
      <3> QED
        BY <1>1, <1>3, <3>1, <3>3, Moves
    <2>2. CASE ~(t[i] = Escape /\ i < Len(t))
      <3>1. PICK n \in {"code", "string"} : n = IF t[i] = Quote THEN "code" ELSE "string"
        OBVIOUS
      <3>2. ASSUME NEW u \in Texts, i \in 1..Len(u), u[i] = t[i], Len(u) = Len(t)
            PROVE  Keeping("surface", u, i, "string", i, n)
        BY <2>2, <3>1, <3>2, SurfaceInString DEF Keeping
      <3>3. Copying("surface", t, i, "string", i, n)
        BY <1>1, <3>1, <3>2, SameThere DEF Copying
      <3> QED
        BY <1>1, <1>3, <3>1, <3>3, Moves
    <2> QED
      BY <2>1, <2>2
  <1> QED
    BY <1>2, <1>3

\* A quoted name ends at its first closing guillemet, if that is on its line.
LEMMA NamesEnd ==
    ASSUME NEW t \in Texts, NEW i \in 1..Len(t)
    PROVE  /\ NameEndAt(t, i) \subseteq i..Len(t)
           /\ \A j, l \in NameEndAt(t, i) : j = l
           /\ \A j \in (i + 1)..Len(t) :
                 t[j] = NameEnd /\ (\A l \in (i + 1)..(j - 1) : t[l] # Newline)
                     => NameEndAt(t, i) # {}
  <1>1. i \in Nat /\ Len(t) \in Nat
    BY DEF Texts
  <1>2. NameEndAt(t, i) \subseteq i..Len(t)
    BY <1>1 DEF NameEndAt
  <1>3. ASSUME NEW j \in NameEndAt(t, i), NEW l \in NameEndAt(t, i)
        PROVE  ~(j < l)
    <2>1. /\ j \in (i + 1)..Len(t) /\ t[j] = NameEnd
          /\ l \in (i + 1)..Len(t)
          /\ \A n \in (i + 1)..(l - 1) : t[n] # NameEnd
      BY DEF NameEndAt
    <2> QED
      BY <1>1, <2>1
  <1>4. \A j, l \in NameEndAt(t, i) : j = l
    BY <1>1, <1>2, <1>3
  <1>5. ASSUME NEW j \in (i + 1)..Len(t), t[j] = NameEnd,
               \A l \in (i + 1)..(j - 1) : t[l] # Newline
        PROVE  NameEndAt(t, i) # {}
    <2> DEFINE ends == {l \in (i + 1)..j : t[l] = NameEnd}
    <2>1. j \in Nat /\ j <= Len(t) /\ j \in ends /\ ends \subseteq (i + 1)..j /\ ends \subseteq Nat
      BY <1>1, <1>5
    <2>2. PICK l \in ends : \A n \in ends : l <= n
      <3> HIDE DEF ends
      <3> QED
        BY <2>1, LeastNat
    <2>3. l \in (i + 1)..j /\ t[l] = NameEnd
      BY <2>2
    <2>4. l \in (i + 1)..Len(t)
      BY <1>1, <2>1, <2>3
    <2>5. ASSUME NEW n \in (i + 1)..(l - 1) PROVE t[n] \notin {Newline, NameEnd}
      <3>1. n \in (i + 1)..(j - 1) /\ n \in (i + 1)..j /\ ~(l <= n)
        BY <1>1, <2>1, <2>3
      <3>2. n \notin ends
        BY <2>2, <3>1
      <3> QED
        BY <1>5, <3>1, <3>2
    <2>6. l \in NameEndAt(t, i)
      BY <2>3, <2>4, <2>5 DEF NameEndAt
    <2> QED
      BY <2>6
  <1> QED
    BY <1>2, <1>4, <1>5

\* It ends there in what was kept of it, and what has no end gets none.
LEMMA NamesStill ==
    ASSUME NEW t \in Texts, NEW i \in 1..Len(t), NEW u, Masks(u, t)
    PROVE  /\ NameEndAt(t, i) = {} => NameEndAt(u, i) = {}
           /\ \A j \in NameEndAt(t, i) :
                 (\A l \in i..j : u[l] = t[l]) => NameEndAt(u, i) = {j}
  <1>1. i \in Nat /\ Len(t) \in Nat
    BY DEF Texts
  <1>2. u \in Texts /\ Len(u) = Len(t) /\ i \in 1..Len(u)
    BY DEF Masks
  <1>3. NameEnd # Space /\ NameEnd # Newline
    BY DEF NameEnd, Space, Newline
  <1>4. ASSUME NEW j \in NameEndAt(u, i) PROVE NameEndAt(t, i) # {}
    <2>1. /\ j \in (i + 1)..Len(t) /\ u[j] = NameEnd
          /\ \A l \in (i + 1)..(j - 1) : u[l] # Newline
      BY <1>2 DEF NameEndAt
    <2>2. j \in 1..Len(t)
      BY <1>1, <2>1
    <2>3. t[j] = NameEnd
      BY <1>3, <2>1, <2>2, Unmasked
    <2>4. ASSUME NEW l \in (i + 1)..(j - 1) PROVE t[l] # Newline
      <3>1. l \in 1..Len(t)
        BY <1>1, <2>2
      <3> QED
        BY <2>1, <3>1, Unmasked
    <2> QED
      BY <2>1, <2>3, <2>4, NamesEnd
  <1>5. ASSUME NEW j \in NameEndAt(t, i), \A l \in i..j : u[l] = t[l]
        PROVE  NameEndAt(u, i) = {j}
    <2>1. /\ j \in (i + 1)..Len(t) /\ t[j] = NameEnd
          /\ \A l \in (i + 1)..(j - 1) : t[l] \notin {Newline, NameEnd}
      BY DEF NameEndAt
    <2>2. u[j] = NameEnd
      BY <1>1, <1>5, <2>1
    <2>3. ASSUME NEW l \in (i + 1)..(j - 1) PROVE u[l] \notin {Newline, NameEnd}
      <3>1. l \in i..j
        BY <1>1, <2>1
      <3> QED
        BY <1>5, <2>1, <3>1
    <2>4. j \in NameEndAt(u, i)
      BY <1>2, <2>1, <2>2, <2>3 DEF NameEndAt
    <2>5. \A l \in NameEndAt(u, i) : l = j
      BY <1>2, <2>4, NamesEnd
    <2> QED
      BY <2>4, <2>5
  <1> QED
    BY <1>4, <1>5

\* The characters of a string that starts at i which a backslash escapes.
IsEscaped(e, t, i) ==
    e = [j \in i..Len(t) |-> j > i + 1 /\ t[j - 1] = Escape /\ ~e[j - 1]]

\* The quote that ends it: the first that is not escaped.
Closes(t, e, i, j) ==
    /\ t[j] = Quote /\ ~e[j]
    /\ \A l \in (i + 1)..(j - 1) : t[l] = Quote => e[l]

\* The recursive definition of what is escaped in a string has a value.
LEMMA EscapedExists ==
    ASSUME NEW t \in Texts, NEW i \in 1..Len(t)
    PROVE  \E e : IsEscaped(e, t, i)
  <1> DEFINE N == Len(t) - i
             Turn(j, b) == IF j > i + 1 /\ t[j - 1] = Escape /\ b = 0 THEN 1 ELSE 0
             next == [s \in Nat \X {0, 1} |-> <<s[1] + 1, Turn(s[1] + 1, s[2])>>]
             first == <<i, 0>>
  <1>1. i \in Nat /\ N \in Nat /\ Len(t) \in Nat
    BY DEF Texts
  <1> HIDE DEF next, N, first
  <1>2. PICK loop : IsLoop(loop, first, next, N)
    BY <1>1, LoopExists
  <1>3. /\ loop[0] = first
        /\ \A n \in 1..N : loop[n] = next[loop[n - 1]]
    BY <1>1, <1>2 DEF IsLoop
  <1> DEFINE Good == {n \in 0..N : \E b \in {0, 1} : loop[n] = <<i + n, b>>}
  <1>4. \A j, b : Turn(j, b) \in {0, 1}
    OBVIOUS
  <1> HIDE DEF Turn
  <1>5. ASSUME NEW j \in Nat, NEW b \in {0, 1}
        PROVE  next[<<j, b>>] = <<j + 1, Turn(j + 1, b)>>
    <2>1. <<j, b>> \in Nat \X {0, 1}
      OBVIOUS
    <2> QED
      BY <2>1 DEF next
  <1>6. \A n \in 0..N : n \in Good
    <2>1. 0 \in Good
      BY <1>1, <1>3 DEF first
    <2>2. ASSUME NEW n \in 1..N, n - 1 \in Good PROVE n \in Good
      <3>1. PICK b \in {0, 1} : loop[n - 1] = <<i + (n - 1), b>>
        BY <2>2
      <3>2. i + (n - 1) \in Nat /\ (i + (n - 1)) + 1 = i + n
        BY <1>1
      <3>3. loop[n] = <<i + n, Turn(i + n, b)>>
        BY <1>3, <1>5, <3>1, <3>2
      <3> QED
        BY <1>1, <1>4, <3>3
    <2> HIDE DEF Good
    <2> QED
      BY <1>1, <2>1, <2>2, LoopKeeps
  <1> DEFINE bit(j) == loop[j - i][2]
             e == [j \in i..Len(t) |-> bit(j) = 1]
  <1>7. bit(i) = 0
    BY <1>1, <1>3 DEF first
  <1>8. ASSUME NEW j \in (i + 1)..Len(t)
        PROVE  bit(j) = Turn(j, bit(j - 1)) /\ bit(j - 1) \in {0, 1}
    <2> DEFINE n == j - i
    <2>1. n \in 1..N /\ n - 1 \in 0..N /\ i + (n - 1) = j - 1 /\ (j - 1) - i = n - 1 /\ j - 1 \in Nat
      BY <1>1 DEF N
    <2>2. PICK b \in {0, 1} : loop[n - 1] = <<j - 1, b>>
      BY <1>6, <2>1
    <2>3. loop[n] = <<(j - 1) + 1, Turn((j - 1) + 1, b)>>
      BY <1>3, <1>5, <2>1, <2>2
    <2>4. (j - 1) + 1 = j
      BY <1>1
    <2> QED
      BY <2>1, <2>2, <2>3, <2>4
  <1>9. ASSUME NEW j \in i..Len(t)
        PROVE  e[j] = (j > i + 1 /\ t[j - 1] = Escape /\ ~e[j - 1])
    <2> HIDE DEF bit
    <2>1. CASE j = i
      BY <1>1, <1>7, <2>1
    <2>2. CASE j # i
      <3>1. j \in (i + 1)..Len(t) /\ j - 1 \in i..Len(t)
        BY <1>1, <2>2
      <3>2. bit(j) = Turn(j, bit(j - 1)) /\ bit(j - 1) \in {0, 1}
        BY <1>8, <3>1
      <3>3. bit(j) = 1 <=> j > i + 1 /\ t[j - 1] = Escape /\ ~(bit(j - 1) = 1)
        BY <3>2 DEF Turn
      <3>4. e[j] = (bit(j) = 1) /\ e[j - 1] = (bit(j - 1) = 1)
        BY <3>1
      <3> HIDE DEF e
      <3> QED
        BY <3>3, <3>4
    <2> QED
      BY <2>1, <2>2
  <1>10. e = [j \in i..Len(t) |-> e[j]]
    OBVIOUS
  <1> HIDE DEF e
  <1>11. IsEscaped(e, t, i)
    BY <1>9, <1>10 DEF IsEscaped
  <1> QED
    BY <1>11

\* StringEnd is the first quote that is not escaped, or the end of the text.
LEMMA StringEnds ==
    ASSUME NEW t \in Texts, NEW i \in 1..Len(t)
    PROVE  \E e :
              /\ IsEscaped(e, t, i)
              /\ \A j \in (i + 1)..Len(t) : Closes(t, e, i, j) => StringEnd(t, i) = j
              /\ (\A j \in (i + 1)..Len(t) : ~Closes(t, e, i, j)) => StringEnd(t, i) = Len(t)
  <1> DEFINE e == CHOOSE e : IsEscaped(e, t, i)
             ends == {j \in (i + 1)..Len(t) : t[j] = Quote /\ ~e[j]}
  <1>1. StringEnd(t, i) = IF ends = {} THEN Len(t)
                          ELSE CHOOSE j \in ends : \A k \in ends : j <= k
    BY DEF StringEnd, IsEscaped
  <1>2. IsEscaped(e, t, i)
    BY EscapedExists
  <1>3. i \in Nat /\ Len(t) \in Nat /\ i <= Len(t)
    BY DEF Texts
  <1> HIDE DEF e
  <1>4. ends \subseteq Nat
    BY <1>3
  <1>5. ASSUME ends # {}
        PROVE  \E j \in (i + 1)..Len(t) : Closes(t, e, i, j)
    <2>1. PICK j \in ends : \A k \in ends : j <= k
      <3> HIDE DEF ends
      <3> QED
        BY <1>4, <1>5, LeastNat
    <2>2. j \in (i + 1)..Len(t) /\ t[j] = Quote /\ ~e[j]
      BY <2>1
    <2>3. ASSUME NEW l \in (i + 1)..(j - 1), t[l] = Quote, ~e[l] PROVE FALSE
      <3>1. l \in (i + 1)..Len(t) /\ ~(j <= l)
        BY <1>3, <2>2
      <3>2. l \in ends
        BY <2>3, <3>1
      <3> QED
        BY <2>1, <3>1, <3>2
    <2> QED
      BY <2>2, <2>3 DEF Closes
  <1>6. ASSUME NEW j \in (i + 1)..Len(t), Closes(t, e, i, j)
        PROVE  StringEnd(t, i) = j
    <2>1. j \in ends
      BY <1>6 DEF Closes
    <2>2. ASSUME NEW k \in ends PROVE j <= k
      <3>1. k \in (i + 1)..Len(t) /\ t[k] = Quote /\ ~e[k]
        OBVIOUS
      <3>2. k \notin (i + 1)..(j - 1)
        BY <1>6, <3>1 DEF Closes
      <3> QED
        BY <1>3, <3>1, <3>2
    <2> HIDE DEF ends
    <2>3. \A k \in ends : (\A n \in ends : k <= n) => k = j
      BY <1>4, <2>1, <2>2
    <2> QED
      BY <1>1, <2>1, <2>2, <2>3
  <1>7. ASSUME \A j \in (i + 1)..Len(t) : ~Closes(t, e, i, j)
        PROVE  StringEnd(t, i) = Len(t)
    BY <1>1, <1>5, <1>7
  <1> QED
    BY <1>2, <1>6, <1>7

\* Of two texts that are alike to position s the same characters are escaped.
LEMMA EscapedAlike ==
    ASSUME NEW t \in Texts, NEW i \in 1..Len(t), NEW u \in Texts, Len(u) = Len(t),
           NEW s \in i..Len(t), \A l \in i..s : u[l] = t[l],
           NEW e, IsEscaped(e, t, i), NEW f, IsEscaped(f, u, i)
    PROVE  \A l \in i..s : e[l] <=> f[l]
  <1> DEFINE N == s - i
             Good == {n \in 0..N : e[i + n] <=> f[i + n]}
  <1>1. i \in Nat /\ s \in Nat /\ N \in Nat /\ s <= Len(t)
    OBVIOUS
  <1>2. ASSUME NEW j \in i..Len(t)
        PROVE  /\ e[j] = (j > i + 1 /\ t[j - 1] = Escape /\ ~e[j - 1])
               /\ f[j] = (j > i + 1 /\ u[j - 1] = Escape /\ ~f[j - 1])
    BY DEF IsEscaped
  <1>3. 0 \in Good
    BY <1>1, <1>2
  <1>4. ASSUME NEW n \in 1..N, n - 1 \in Good PROVE n \in Good
    <2> DEFINE j == i + n
    <2>1. j \in i..Len(t) /\ j - 1 = i + (n - 1) /\ j - 1 \in i..s
      BY <1>1
    <2>2. e[j - 1] <=> f[j - 1]
      BY <1>4, <2>1
    <2>3. u[j - 1] = t[j - 1]
      BY <2>1
    <2> HIDE DEF j
    <2>4. e[j] <=> f[j]
      BY <1>2, <2>1, <2>2, <2>3
    <2> QED
      BY <2>4 DEF j
  <1>5. \A n \in 0..N : n \in Good
    <2> HIDE DEF Good, N
    <2> QED
      BY <1>1, <1>3, <1>4, LoopKeeps
  <1>6. ASSUME NEW l \in i..s PROVE e[l] <=> f[l]
    <2>1. l - i \in 0..N /\ i + (l - i) = l
      BY <1>1
    <2>2. l - i \in Good
      BY <1>5, <2>1
    <2> QED
      BY <2>1, <2>2
  <1> QED
    BY <1>6

\* A string that is kept ends where it did.
LEMMA StringsStill ==
    ASSUME NEW t \in Texts, NEW i \in 1..Len(t), NEW u \in Texts, Len(u) = Len(t),
           \A l \in i..StringEnd(t, i) : u[l] = t[l]
    PROVE  StringEnd(u, i) = StringEnd(t, i)
  <1> DEFINE s == StringEnd(t, i)
  <1>1. s \in i..Len(t) /\ i \in Nat /\ Len(t) \in Nat
    BY StringsFit DEF Texts
  <1>2. PICK e :
          /\ IsEscaped(e, t, i)
          /\ \A j \in (i + 1)..Len(t) : Closes(t, e, i, j) => s = j
          /\ (\A j \in (i + 1)..Len(t) : ~Closes(t, e, i, j)) => s = Len(t)
    BY StringEnds
  <1>3. PICK f :
          /\ IsEscaped(f, u, i)
          /\ \A j \in (i + 1)..Len(t) : Closes(u, f, i, j) => StringEnd(u, i) = j
          /\ (\A j \in (i + 1)..Len(t) : ~Closes(u, f, i, j)) => StringEnd(u, i) = Len(t)
    BY StringEnds
  <1>4. \A l \in i..s : u[l] = t[l] /\ (e[l] <=> f[l])
    BY <1>1, <1>2, <1>3, EscapedAlike
  <1> HIDE DEF s
  <1>5. ASSUME NEW j \in (i + 1)..s PROVE Closes(t, e, i, j) <=> Closes(u, f, i, j)
    <2>1. j \in i..s /\ (i + 1)..(j - 1) \subseteq i..s
      BY <1>1
    <2> QED
      BY <1>4, <2>1 DEF Closes
  <1>6. CASE \E j \in (i + 1)..Len(t) : Closes(t, e, i, j)
    <2>1. PICK j \in (i + 1)..Len(t) : Closes(t, e, i, j)
      BY <1>6
    <2>2. s = j
      BY <1>2, <2>1
    <2>3. j \in (i + 1)..s
      BY <1>1, <2>2
    <2> QED
      BY <1>3, <1>5, <2>1, <2>2, <2>3 DEF s
  <1>7. CASE \A j \in (i + 1)..Len(t) : ~Closes(t, e, i, j)
    <2>1. s = Len(t)
      BY <1>2, <1>7
    <2> QED
      BY <1>3, <1>5, <1>7, <2>1 DEF s
  <1> QED
    BY <1>6, <1>7

\* Outside comments the inventory of a report keeps what it reads.
LEMMA ReportGoes ==
    ASSUME NEW t \in Texts, NEW i \in 1..Len(t), ~Opens(t, i)
    PROVE  Goes("report", t, i, 0, "code")
  <1>1. /\ "code" \in Modes /\ "report" \in Scanners /\ Fits("report", 0, "code")
        /\ Again("report", "code") = "code" /\ i \in i..Len(t)
    BY DEF Modes, Fits, Scanners, Again
  <1>2. ASSUME NEW j \in i..Len(t), Copying("report", t, i, "code", j, "code")
        PROVE  Goes("report", t, i, 0, "code")
    BY <1>1, <1>2, Moves
  <1>3. CASE t[i] = NameBegin /\ NameEndAt(t, i) # {}
    <2>1. PICK j \in NameEndAt(t, i) : j = CHOOSE l \in NameEndAt(t, i) : TRUE
      BY <1>3
    <2>2. j \in i..Len(t) /\ NameEndAt(t, i) = {j}
      BY NamesEnd
    <2>3. ASSUME NEW u \in Texts, i \in 1..Len(u), ~Opens(u, i), u[i] = t[i],
                 NameEndAt(u, i) = {j}
          PROVE  Keeping("report", u, i, "code", j, "code")
      <3>1. (CHOOSE l \in NameEndAt(u, i) : TRUE) = j
        BY <2>3
      <3> QED
        BY <1>3, <2>3, <3>1, ReportInCode DEF Keeping
    <2>4. Keeping("report", t, i, "code", j, "code")
      BY <2>2, <2>3
    <2>5. ASSUME NEW u, Masks(u, t), \A l \in i..j : u[l] = t[l]
          PROVE  Keeping("report", u, i, "code", j, "code")
      <3>1. u \in Texts /\ i \in 1..Len(u) /\ u[i] = t[i] /\ ~Opens(u, i)
        BY <2>2, <2>5, SameThere, OpensStill
      <3>2. NameEndAt(u, i) = {j}
        BY <2>5, NamesStill
      <3> QED
        BY <2>3, <3>1, <3>2
    <2>6. Copying("report", t, i, "code", j, "code")
      BY <1>1, <2>4, <2>5, Zenon DEF Copying
    <2> QED
      BY <1>2, <2>2, <2>6
  <1>4. CASE t[i] = Quote
    <2> DEFINE j == StringEnd(t, i)
    <2>1. j \in i..Len(t)
      BY StringsFit
    <2>2. ASSUME NEW u \in Texts, i \in 1..Len(u), ~Opens(u, i), u[i] = t[i],
                 StringEnd(u, i) = j
          PROVE  Keeping("report", u, i, "code", j, "code")
      BY <1>4, <2>2, ReportInCode DEF Keeping
    <2>3. Keeping("report", t, i, "code", j, "code")
      BY <2>2
    <2>4. ASSUME NEW u, Masks(u, t), \A l \in i..j : u[l] = t[l]
          PROVE  Keeping("report", u, i, "code", j, "code")
      <3>1. u \in Texts /\ i \in 1..Len(u) /\ Len(u) = Len(t) /\ u[i] = t[i] /\ ~Opens(u, i)
        BY <2>1, <2>4, SameThere, OpensStill
      <3>2. StringEnd(u, i) = j
        BY <2>4, <3>1, StringsStill
      <3> HIDE DEF j
      <3> QED
        BY <2>2, <3>1, <3>2
    <2>5. Copying("report", t, i, "code", j, "code")
      BY <1>1, <2>3, <2>4, Zenon DEF Copying
    <2> QED
      BY <1>2, <2>1, <2>5
  <1>5. CASE t[i] # Quote /\ ~(t[i] = NameBegin /\ NameEndAt(t, i) # {})
    <2>1. ASSUME NEW u \in Texts, i \in 1..Len(u), ~Opens(u, i), u[i] = t[i],
                 NameEndAt(t, i) = {} => NameEndAt(u, i) = {}
          PROVE  Keeping("report", u, i, "code", i, "code")
      BY <1>5, <2>1, ReportInCode DEF Keeping
    <2>2. Keeping("report", t, i, "code", i, "code")
      BY <2>1
    <2>3. ASSUME NEW u, Masks(u, t), \A l \in i..i : u[l] = t[l]
          PROVE  Keeping("report", u, i, "code", i, "code")
      <3>1. u \in Texts /\ i \in 1..Len(u) /\ u[i] = t[i] /\ ~Opens(u, i)
        BY <1>1, <2>3, SameThere, OpensStill
      <3> QED
        BY <2>1, <2>3, <3>1, NamesStill
    <2>4. Copying("report", t, i, "code", i, "code")
      BY <1>1, <2>2, <2>3, Zenon DEF Copying
    <2> QED
      BY <1>1, <1>2, <2>4
  <1> QED
    BY <1>3, <1>4, <1>5

\* A scanner goes on from where it is.
LEMMA GoesOn ==
    ASSUME NEW k \in Scanners, NEW t \in Texts, NEW i \in 1..Len(t), NEW d, NEW m, Fits(k, d, m)
    PROVE  Goes(k, t, i, d, m)
  <1>1. /\ d \in Nat /\ m \in Modes /\ (d > 0 => m = "code")
        /\ m = "string" => k # "report"
        /\ m = "name" => k = "escapes"
    BY DEF Fits
  <1>2. CASE d > 0
    BY <1>1, <1>2, CommentsGo
  <1>3. CASE d = 0 /\ m = "code" /\ Opens(t, i)
    BY <1>3, CommentsGo
  <1>4. CASE d = 0 /\ ~(m = "code" /\ Opens(t, i))
    <2>1. CASE k = "escapes"
      BY <1>1, <1>4, <2>1, EscapesGoes
    <2>2. CASE k = "surface"
      <3>1. m \in {"code", "string"}
        BY <1>1, <2>2 DEF Modes
      <3> QED
        BY <1>1, <1>4, <2>2, <3>1, SurfaceGoes
    <2>3. CASE k = "report"
      <3>1. m = "code"
        BY <1>1, <2>3 DEF Modes
      <3> QED
        BY <1>1, <1>4, <2>3, <3>1, ReportGoes
    <2> QED
      BY <2>1, <2>2, <2>3 DEF Scanners
  <1> QED
    BY <1>1, <1>2, <1>3, <1>4

-----------------------------------------------------------------------------
(* A scan from its start to its end                                        *)

ScanStates == [at: Nat, depth: Nat, mode: Modes, out: Texts, failed: BOOLEAN]

\* The fields of a position.
LEMMA Fields ==
    ASSUME NEW k, NEW t \in Texts, NEW i, NEW d, NEW m, NEW o
    PROVE  LET s == Position(k, t, i, d, m, o)
           IN  /\ s.at = i /\ s.depth = d /\ s.mode = m /\ s.out = o
               /\ s.failed = GivesUp(k, t, i, d, m)
               /\ i \in Nat /\ d \in Nat /\ m \in Modes /\ o \in Texts => s \in ScanStates
  <1>1. GivesUp(k, t, i, d, m) \in BOOLEAN
    BY DEF GivesUp, Refuses
  <1> QED
    BY <1>1 DEF Position, ScanStates

\* What a scan does in one of its rounds.
Advance(k, t, s) == IF ScanDone(t, s) THEN s ELSE ScanStep(k, t, s)

\* A round is a step in the text, and nothing after it.
LEMMA Advances ==
    ASSUME NEW k \in Scanners, NEW t \in Texts, NEW i \in 1..(Len(t) + 1), NEW d, NEW m, NEW o
    PROVE  LET s == Position(k, t, i, d, m, o)
           IN  /\ i <= Len(t) => Advance(k, t, s) = ScanStep(k, t, s)
               /\ i > Len(t) => Advance(k, t, s) = s
  <1> DEFINE s == Position(k, t, i, d, m, o)
  <1>1. s.at = i /\ s.failed = GivesUp(k, t, i, d, m) /\ i \in Nat /\ Len(t) \in Nat
    BY Fields DEF Texts
  <1>2. i <= Len(t) => GivesUp(k, t, i, d, m) = FALSE
    BY <1>1 DEF GivesUp
  <1> HIDE DEF s
  <1> SUFFICES /\ i <= Len(t) => Advance(k, t, s) = ScanStep(k, t, s)
               /\ i > Len(t) => Advance(k, t, s) = s
    BY DEF s
  <1> QED
    BY <1>1, <1>2 DEF Advance, ScanDone

\* A scan after n rounds: at a later position, with what was before it read.
Scanned(k, t, n, s) ==
    \E i, d, m, o :
        /\ i \in 1..(Len(t) + 1) /\ n < i
        /\ s = Position(k, t, i, d, m, o) /\ Fits(k, d, m) /\ Reads(t, i, o)

\* A scan starts in code before the first character, with nothing written.
LEMMA ScanStarts ==
    ASSUME NEW k \in Scanners, NEW t \in Texts
    PROVE  /\ StartScan = Position(k, t, 1, 0, "code", <<>>)
           /\ Scanned(k, t, 0, StartScan)
  <1>1. 1 \in 1..(Len(t) + 1) /\ Len(t) \in Nat
    BY DEF Texts
  <1>2. GivesUp(k, t, 1, 0, "code") = NotFailed
    BY <1>1 DEF GivesUp, Refuses, NotFailed
  <1>3. StartScan = Position(k, t, 1, 0, "code", <<>>)
    <2>1. StartScan = [at |-> 1, depth |-> 0, mode |-> "code", out |-> <<>>, failed |-> NotFailed]
      BY DEF StartScan, NotFailed
    <2> QED
      BY <1>2, <2>1 DEF Position
  <1>4. Fits(k, 0, "code") /\ 0 < 1
    BY DEF Fits, Modes
  <1>5. Reads(t, 1, <<>>)
    BY DEF Reads, Texts
  <1> QED
    BY <1>1, <1>3, <1>4, <1>5, Zenon DEF Scanned

\* A round goes forward by one character at least.
LEMMA ScanGoes ==
    ASSUME NEW k \in Scanners, NEW t \in Texts, NEW n \in 1..Len(t), NEW s, Scanned(k, t, n - 1, s)
    PROVE  s \in ScanStates /\ Scanned(k, t, n, Advance(k, t, s))
  <1>1. PICK i, d, m, o :
          /\ i \in 1..(Len(t) + 1) /\ n - 1 < i
          /\ s = Position(k, t, i, d, m, o) /\ Fits(k, d, m) /\ Reads(t, i, o)
    BY DEF Scanned
  <1>2. i \in Nat /\ Len(t) \in Nat
    BY <1>1 DEF Texts
  <1>3. s \in ScanStates
    <2>1. d \in Nat /\ m \in Modes /\ o \in Texts
      BY <1>1 DEF Fits, Reads
    <2> QED
      BY <1>1, <1>2, <2>1, Fields
  <1>4. CASE i > Len(t)
    <2>1. Advance(k, t, s) = s /\ n < i
      BY <1>1, <1>2, <1>4, Advances
    <2>2. Scanned(k, t, n, s)
      BY <1>1, <2>1, Zenon DEF Scanned
    <2> QED
      BY <1>3, <2>1, <2>2
  <1>5. CASE i <= Len(t)
    <2>1. i \in 1..Len(t)
      BY <1>1, <1>2, <1>5
    <2>2. Advance(k, t, s) = ScanStep(k, t, s)
      BY <1>1, <1>5, Advances
    <2>3. PICK j \in i..Len(t), e \in Nat, p \in Modes :
             /\ Fits(k, e, p)
             /\ Wiping(k, t, i, d, m, j, e, p) \/ (d = 0 /\ e = 0 /\ Copying(k, t, i, m, j, p))
      BY <1>1, <2>1, GoesOn DEF Goes
    <2>4. \E w \in {SubSeq(t, i, j), Blanks(t, i, j)} :
             ScanStep(k, t, s) = Position(k, t, j + 1, e, p, o \o w)
      BY <1>1, <2>3, Zenon DEF Wiping, Copying, Keeping
    <2>5. PICK w \in {SubSeq(t, i, j), Blanks(t, i, j)} :
             ScanStep(k, t, s) = Position(k, t, j + 1, e, p, o \o w)
      BY <2>4
    <2>6. Reads(t, j + 1, o \o w)
      BY <1>1, <2>1, ReadsOn
    <2>7. j + 1 \in 1..(Len(t) + 1) /\ n < j + 1
      BY <1>1, <1>2, <2>1
    <2> QED
      BY <1>3, <2>2, <2>3, <2>5, <2>6, <2>7, Zenon DEF Scanned
  <1> QED
    BY <1>2, <1>4, <1>5

IsScan(states, k, t) ==
    states = [n \in 0..Len(t) |-> IF n = 0 THEN StartScan ELSE Advance(k, t, states[n - 1])]
Rounds(k, t) == CHOOSE states : IsScan(states, k, t)

\* A scan is the last of as many rounds as the text is long.
LEMMA ScanRuns ==
    ASSUME NEW k \in Scanners, NEW t \in Texts
    PROVE  /\ Scan(k, t) = Rounds(k, t)[Len(t)]
           /\ Rounds(k, t)[0] = StartScan
           /\ \A n \in 1..Len(t) : Rounds(k, t)[n] = Advance(k, t, Rounds(k, t)[n - 1])
           /\ \A n \in 0..Len(t) : Scanned(k, t, n, Rounds(k, t)[n])
  <1> DEFINE N == Len(t)
             next == [s \in ScanStates |-> Advance(k, t, s)]
             read == Rounds(k, t)
  <1>1. Scan(k, t) = read[N] /\ N \in Nat
    BY DEF Scan, Rounds, IsScan, Advance, Texts
  <1>2. Scanned(k, t, 0, StartScan)
    BY ScanStarts
  <1>3. ASSUME NEW n \in 1..N, NEW s, Scanned(k, t, n - 1, s)
        PROVE  next[s] = Advance(k, t, s) /\ Scanned(k, t, n, Advance(k, t, s))
    BY <1>3, ScanGoes
  <1> HIDE DEF next, N
  <1>4. ASSUME NEW states, states[0] = StartScan,
               \A n \in 1..N : \/ states[n] = next[states[n - 1]]
                               \/ states[n] = Advance(k, t, states[n - 1])
        PROVE  \A n \in 0..N : Scanned(k, t, n, states[n])
    <2> DEFINE Good == {n \in 0..N : Scanned(k, t, n, states[n])}
    <2>1. 0 \in Good
      BY <1>1, <1>2, <1>4
    <2>2. ASSUME NEW n \in 1..N, n - 1 \in Good PROVE n \in Good
      BY <1>3, <1>4, <2>2
    <2> HIDE DEF Good
    <2>3. \A n \in 0..N : n \in Good
      BY <1>1, <2>1, <2>2, LoopKeeps
    <2> QED
      BY <2>3 DEF Good
  <1>5. PICK loop : IsLoop(loop, StartScan, next, N)
    BY <1>1, LoopExists
  <1>6. /\ loop[0] = StartScan
        /\ \A n \in 1..N : loop[n] = next[loop[n - 1]]
    BY <1>1, <1>5 DEF IsLoop
  <1>7. \A n \in 0..N : Scanned(k, t, n, loop[n])
    BY <1>4, <1>6
  <1>8. IsScan(loop, k, t)
    <2>1. \A n \in 1..N : next[loop[n - 1]] = Advance(k, t, loop[n - 1])
      <3> SUFFICES ASSUME NEW n \in 1..N PROVE next[loop[n - 1]] = Advance(k, t, loop[n - 1])
        OBVIOUS
      <3>1. n - 1 \in 0..N
        BY <1>1
      <3> QED
        BY <1>3, <1>7, <3>1
    <2> QED
      BY <1>1, <1>5, <2>1 DEF IsLoop, IsScan, N
  <1>9. IsScan(read, k, t)
    BY <1>8 DEF Rounds
  <1> HIDE DEF read
  <1>10. /\ read[0] = StartScan
         /\ \A n \in 1..N : read[n] = Advance(k, t, read[n - 1])
    BY <1>1, <1>9 DEF IsScan, N
  <1>11. \A n \in 0..N : Scanned(k, t, n, read[n])
    BY <1>4, <1>10
  <1> QED
    BY <1>1, <1>10, <1>11 DEF read, N

\* The states a scan comes through.
Reaches(k, t, s) == \E n \in 0..Len(t) : Rounds(k, t)[n] = s

\* A scan comes through its start.
LEMMA ReachStart ==
    ASSUME NEW k \in Scanners, NEW t \in Texts
    PROVE  Reaches(k, t, Position(k, t, 1, 0, "code", <<>>))
  <1>1. 0 \in 0..Len(t)
    BY DEF Texts
  <1> QED
    BY <1>1, ScanStarts, ScanRuns, Zenon DEF Reaches

\* From a position in the text a scan comes to the next one.
LEMMA ReachStep ==
    ASSUME NEW k \in Scanners, NEW t \in Texts, NEW i \in 1..Len(t), NEW d, NEW m, NEW o,
           Reaches(k, t, Position(k, t, i, d, m, o))
    PROVE  Reaches(k, t, ScanStep(k, t, Position(k, t, i, d, m, o)))
  <1> DEFINE s == Position(k, t, i, d, m, o)
  <1>1. PICK n \in 0..Len(t) : Rounds(k, t)[n] = s
    BY DEF Reaches
  <1>2. n < i
    <2>1. PICK j, e, p, w : n < j /\ s = Position(k, t, j, e, p, w)
      BY <1>1, ScanRuns DEF Scanned
    <2>2. s.at = i /\ Position(k, t, j, e, p, w).at = j
      BY Fields
    <2> QED
      BY <2>1, <2>2
  <1>3. n + 1 \in 1..Len(t) /\ (n + 1) - 1 = n /\ i <= Len(t) /\ n + 1 \in 0..Len(t)
    BY <1>2
  <1>4. Advance(k, t, s) = ScanStep(k, t, s)
    BY <1>3, Advances
  <1> HIDE DEF s
  <1>5. Rounds(k, t)[n + 1] = Advance(k, t, s)
    BY <1>1, <1>3, ScanRuns
  <1> QED
    BY <1>3, <1>4, <1>5 DEF Reaches, s

\* A position after the text that a scan comes to is its end.
LEMMA ReachEnd ==
    ASSUME NEW k \in Scanners, NEW t \in Texts, NEW d, NEW m, NEW o,
           Reaches(k, t, Position(k, t, Len(t) + 1, d, m, o))
    PROVE  Scan(k, t) = Position(k, t, Len(t) + 1, d, m, o)
  <1> DEFINE s == Position(k, t, Len(t) + 1, d, m, o)
             N == Len(t)
  <1>1. PICK n \in 0..N : Rounds(k, t)[n] = s
    BY DEF Reaches
  <1>2. N \in Nat /\ N + 1 \in 1..(N + 1) /\ N + 1 > N
    BY DEF Texts
  <1>3. Advance(k, t, s) = s
    BY <1>2, Advances
  <1> DEFINE Good == {l \in 0..N : l >= n => Rounds(k, t)[l] = s}
  <1> HIDE DEF s
  <1>4. 0 \in Good
    BY <1>1, <1>2
  <1>5. ASSUME NEW l \in 1..N, l - 1 \in Good PROVE l \in Good
    <2>1. Rounds(k, t)[l] = Advance(k, t, Rounds(k, t)[l - 1])
      BY ScanRuns
    <2>2. CASE l = n
      BY <1>1, <2>2
    <2>3. CASE l > n
      <3>1. l - 1 >= n
        BY <2>3
      <3> QED
        BY <1>3, <1>5, <2>1, <3>1
    <2> QED
      BY <2>2, <2>3
  <1>6. \A l \in 0..N : l \in Good
    <2> HIDE DEF Good, N
    <2> QED
      BY <1>2, <1>4, <1>5, LoopKeeps
  <1>7. Rounds(k, t)[N] = s
    BY <1>2, <1>6
  <1> QED
    BY <1>7, ScanRuns DEF s

\* A scan ends with the text.
LEMMA ScanEnds ==
    ASSUME NEW k \in Scanners, NEW t \in Texts
    PROVE  \E d, m, o :
              /\ Fits(k, d, m) /\ Reads(t, Len(t) + 1, o)
              /\ Scan(k, t) = Position(k, t, Len(t) + 1, d, m, o)
  <1> DEFINE N == Len(t)
  <1>1. N \in Nat
    BY DEF Texts
  <1>2. Scanned(k, t, N, Scan(k, t))
    BY <1>1, ScanRuns
  <1>3. PICK i, d, m, o :
          /\ i \in 1..(N + 1) /\ N < i
          /\ Scan(k, t) = Position(k, t, i, d, m, o) /\ Fits(k, d, m) /\ Reads(t, i, o)
    BY <1>2 DEF Scanned
  <1>4. i = N + 1
    BY <1>1, <1>3
  <1> QED
    BY <1>3, <1>4, Zenon

\* What holds at the start of a scan and is kept by its steps holds of its result.
LEMMA ScanKeeps ==
    ASSUME NEW k \in Scanners, NEW t \in Texts, NEW Inv,
           Position(k, t, 1, 0, "code", <<>>) \in Inv,
           \A i \in 1..Len(t) : \A d, m, o :
              Fits(k, d, m) /\ Reads(t, i, o) /\ Position(k, t, i, d, m, o) \in Inv
                 => ScanStep(k, t, Position(k, t, i, d, m, o)) \in Inv
    PROVE  Scan(k, t) \in Inv
  <1> DEFINE N == Len(t)
             Good == {n \in 0..N : Rounds(k, t)[n] \in Inv}
  <1>1. N \in Nat
    BY DEF Texts
  <1>2. 0 \in Good
    BY <1>1, ScanStarts, ScanRuns
  <1>3. ASSUME NEW n \in 1..N, n - 1 \in Good PROVE n \in Good
    <2> DEFINE s == Rounds(k, t)[n - 1]
    <2>1. s \in Inv /\ n - 1 \in 0..N
      BY <1>3
    <2>2. Scanned(k, t, n - 1, s)
      BY <2>1, ScanRuns
    <2>3. Rounds(k, t)[n] = Advance(k, t, s)
      BY ScanRuns
    <2> HIDE DEF s
    <2>4. PICK i, d, m, o :
            /\ i \in 1..(Len(t) + 1)
            /\ s = Position(k, t, i, d, m, o) /\ Fits(k, d, m) /\ Reads(t, i, o)
      BY <2>2 DEF Scanned
    <2>5. CASE i > Len(t)
      <3>1. Advance(k, t, s) = s
        BY <2>4, <2>5, Advances
      <3> QED
        BY <2>1, <2>3, <3>1
    <2>6. CASE ~(i > Len(t))
      <3>1. i \in 1..Len(t) /\ i <= Len(t)
        BY <2>4, <2>6
      <3>2. Advance(k, t, s) = ScanStep(k, t, s)
        BY <2>4, <3>1, Advances
      <3>3. ScanStep(k, t, s) \in Inv
        BY <2>1, <2>4, <3>1
      <3> QED
        BY <2>3, <3>2, <3>3
    <2> QED
      BY <2>5, <2>6
  <1>4. N \in Good
    <2> HIDE DEF Good, N
    <2> QED
      BY <1>1, <1>2, <1>3, LoopKeeps
  <1> QED
    BY <1>1, <1>4, ScanRuns

-----------------------------------------------------------------------------
(* What a scanner wrote, read again                                        *)

\* One more piece of a text.
LEMMA Pieces ==
    ASSUME NEW t \in Texts, NEW i \in 1..Len(t), NEW l \in i..Len(t), NEW j \in l..Len(t),
           NEW o \in Texts
    PROVE  /\ o \o SubSeq(t, i, j) \in Texts /\ o \o SubSeq(t, i, i - 1) = o
           /\ i < l => (o \o SubSeq(t, i, l - 1)) \o SubSeq(t, l, j) = o \o SubSeq(t, i, j)
  <1>1. i \in Nat /\ l \in Nat /\ j \in Nat /\ Len(t) \in Nat /\ j \in i..Len(t)
    BY DEF Texts
  <1>2. SubSeq(t, i, j) \in Texts /\ o \o SubSeq(t, i, j) \in Texts
    <2>1. SubSeq(t, i, j) \in Texts
      BY <1>1, BlanksAre
    <2> QED
      BY <2>1, ConcatProperties DEF Texts
  <1>3. o \o SubSeq(t, i, i - 1) = o
    <2>1. SubSeq(t, i, i - 1) = <<>>
      BY <1>1, SubSeqEmpty DEF Texts
    <2> QED
      BY <2>1 DEF Texts
  <1>4. ASSUME i < l
        PROVE  (o \o SubSeq(t, i, l - 1)) \o SubSeq(t, l, j) = o \o SubSeq(t, i, j)
    <2>1. /\ l - 1 \in i..Len(t) /\ l \in 1..Len(t)
          /\ i \in 1..(Len(t) + 1) /\ l - 1 \in (i - 1)..Len(t) /\ j \in (l - 1)..Len(t)
          /\ (l - 1) + 1 = l
      BY <1>1, <1>4
    <2>2. SubSeq(t, i, l - 1) \in Texts /\ SubSeq(t, l, j) \in Texts
      BY <2>1, BlanksAre
    <2>3. ASSUME NEW v \in Texts, NEW w \in Texts PROVE (o \o v) \o w = o \o (v \o w)
      <3>1. o \in Seq(Characters) /\ v \in Seq(Characters) /\ w \in Seq(Characters)
        BY DEF Texts
      <3> QED
        BY ONLY <3>1, ConcatAssociative
    <2>4. SubSeq(t, i, l - 1) \o SubSeq(t, (l - 1) + 1, j) = SubSeq(t, i, j)
      BY <2>1, ConcatAdjacentSubSeq DEF Texts
    <2> QED
      BY <2>1, <2>2, <2>3, <2>4
  <1> QED
    BY <1>2, <1>3, <1>4

\* A blank in code is kept, by every scanner.
LEMMA BlankKept ==
    ASSUME NEW k \in Scanners, NEW u \in Texts, NEW i \in 1..Len(u), u[i] \in {Space, Newline}
    PROVE  Keeping(k, u, i, "code", i, "code")
  <1>1. u[i] \notin {"/", "-"} /\ u[i] # Quote /\ u[i] # NameBegin /\ u[i] # Tick
    BY DEF Space, Newline, Quote, NameBegin, Tick
  <1>2. ~Opens(u, i)
    <2>1. Pair(u, i) # BlockOpen /\ Pair(u, i) # LineOpen
      BY <1>1, Inside DEF Pair, BlockOpen, LineOpen
    <2> QED
      BY <2>1 DEF Opens
  <1>3. ~(CharLiteralEnd(u, i) > 0)
    BY <1>1, CharLiterals
  <1>4. CASE k = "escapes"
    BY <1>1, <1>2, <1>3, <1>4, EscapesInCode DEF Keeping
  <1>5. CASE k = "surface"
    BY <1>1, <1>2, <1>5, SurfaceInCode DEF Keeping
  <1>6. CASE k = "report"
    BY <1>1, <1>2, <1>6, ReportInCode DEF Keeping
  <1> QED
    BY <1>4, <1>5, <1>6 DEF Scanners

\* Where it keeps what it reads a scan goes on.
LEMMA KeepsOn ==
    ASSUME NEW k \in Scanners, NEW t \in Texts, NEW i \in 1..Len(t), NEW m, NEW j, NEW n,
           NEW o, Keeping(k, t, i, m, j, n), Reaches(k, t, Position(k, t, i, 0, m, o))
    PROVE  Reaches(k, t, Position(k, t, j + 1, 0, n, o \o SubSeq(t, i, j)))
  BY ReachStep DEF Keeping

\* So a scan goes through blanks.
LEMMA BlanksRead ==
    ASSUME NEW k \in Scanners, NEW u \in Texts, NEW i \in 1..Len(u), NEW j \in i..Len(u),
           \A n \in i..j : u[n] \in {Space, Newline},
           NEW o \in Texts, Reaches(k, u, Position(k, u, i, 0, "code", o))
    PROVE  Reaches(k, u, Position(k, u, j + 1, 0, "code", o \o SubSeq(u, i, j)))
  <1> DEFINE N == j - i
             There(l) == Reaches(k, u, Position(k, u, l + 1, 0, "code", o \o SubSeq(u, i, l)))
             Good == {n \in 0..N : There(i + n)}
  <1>1. i \in Nat /\ j \in Nat /\ N \in Nat /\ j <= Len(u) /\ Len(u) \in Nat
    BY DEF Texts
  <1>2. ASSUME NEW l \in i..j PROVE Keeping(k, u, l, "code", l, "code")
    <2>1. l \in 1..Len(u)
      BY <1>1
    <2> QED
      BY <2>1, BlankKept
  <1>3. There(i)
    <2>1. i \in i..j
      BY <1>1
    <2> QED
      BY <1>2, <2>1, KeepsOn
  <1>4. ASSUME NEW l \in (i + 1)..j, There(l - 1) PROVE There(l)
    <2>1. l \in i..j /\ l \in 1..Len(u) /\ l \in i..Len(u) /\ l \in l..Len(u) /\ i < l
          /\ (l - 1) + 1 = l
      BY <1>1
    <2>2. (o \o SubSeq(u, i, l - 1)) \o SubSeq(u, l, l) = o \o SubSeq(u, i, l)
      BY <2>1, Pieces
    <2>3. Reaches(k, u, Position(k, u, l, 0, "code", o \o SubSeq(u, i, l - 1)))
      BY <1>4, <2>1
    <2>4. Keeping(k, u, l, "code", l, "code")
      BY <1>2, <2>1
    <2>5. Reaches(k, u, Position(k, u, l + 1, 0, "code",
                                 (o \o SubSeq(u, i, l - 1)) \o SubSeq(u, l, l)))
      BY <2>1, <2>3, <2>4, KeepsOn
    <2> QED
      BY <2>2, <2>5
  <1> HIDE DEF There
  <1>5. 0 \in Good
    BY <1>1, <1>3
  <1>6. ASSUME NEW n \in 1..N, n - 1 \in Good PROVE n \in Good
    <2>1. i + n \in (i + 1)..j /\ i + (n - 1) = (i + n) - 1
      BY <1>1
    <2>2. There(i + n)
      BY <1>4, <1>6, <2>1
    <2> QED
      BY <2>2
  <1>7. N \in Good
    <2> HIDE DEF Good, N
    <2>1. \A n \in 0..N : n \in Good
      BY <1>1, <1>5, <1>6, LoopKeeps
    <2> QED
      BY <1>1, <2>1
  <1>8. There(j)
    <2>1. i + N = j
      BY <1>1 DEF N
    <2>2. There(i + N)
      BY <1>7
    <2> QED
      BY <2>1, <2>2
  <1> QED
    BY <1>8 DEF There

\* A text that starts with what was written.
Extends(u, o) == \A n \in 1..Len(o) : u[n] = o[n]

\* A text that starts with what was written has what was written last in its place.
LEMMA Written ==
    ASSUME NEW t \in Texts, NEW u, Masks(u, t), NEW i \in 1..Len(t), NEW j \in i..Len(t),
           NEW o, Reads(t, i, o), NEW w \in {SubSeq(t, i, j), Blanks(t, i, j)},
           Extends(u, o \o w)
    PROVE  /\ u \in Texts /\ Len(u) = Len(t) /\ Extends(u, o) /\ SubSeq(u, i, j) = w
           /\ w = SubSeq(t, i, j) => \A l \in i..j : u[l] = t[l]
           /\ w = Blanks(t, i, j) => \A l \in i..j : u[l] \in {Space, Newline}
  <1>1. i \in Nat /\ j \in Nat /\ i >= 1 /\ i <= j /\ j <= Len(t) /\ Len(t) \in Nat
    BY DEF Texts
  <1>2. o \in Texts /\ Len(o) = i - 1
    BY DEF Reads
  <1>3. /\ w \in Texts /\ Len(w) = j - i + 1
        /\ w = SubSeq(t, i, j) => \A n \in 1..(j - i + 1) : w[n] = t[i + n - 1]
        /\ w = Blanks(t, i, j) => \A n \in 1..(j - i + 1) : w[n] = Blank(t[i + n - 1])
    BY BlanksAre
  <1>4. u \in Texts /\ Len(u) = Len(t)
    BY DEF Masks
  <1>5. /\ Len(o \o w) = j
        /\ \A n \in 1..j : (o \o w)[n] = IF n <= i - 1 THEN o[n] ELSE w[n - (i - 1)]
    <2>1. /\ Len(o \o w) = Len(o) + Len(w)
          /\ \A n \in 1..(Len(o) + Len(w)) :
                (o \o w)[n] = IF n <= Len(o) THEN o[n] ELSE w[n - Len(o)]
      BY <1>2, <1>3, ConcatProperties, Zenon DEF Texts
    <2>2. Len(o) + Len(w) = j
      BY <1>1, <1>2, <1>3
    <2> QED
      BY <1>2, <2>1, <2>2
  <1>6. Extends(u, o)
    <2> SUFFICES ASSUME NEW n \in 1..Len(o) PROVE u[n] = o[n]
      BY DEF Extends
    <2>1. n \in 1..j /\ n <= i - 1
      BY <1>1, <1>2
    <2> QED
      BY <1>5, <2>1 DEF Extends
  <1>7. ASSUME NEW n \in 1..(j - i + 1) PROVE u[i + n - 1] = w[n]
    <2>1. i + n - 1 \in 1..j /\ ~(i + n - 1 <= i - 1) /\ (i + n - 1) - (i - 1) = n
      BY <1>1
    <2> QED
      BY <1>5, <2>1 DEF Extends
  <1>8. SubSeq(u, i, j) = w
    <2>1. /\ SubSeq(u, i, j) \in Texts /\ Len(SubSeq(u, i, j)) = j - i + 1
          /\ \A n \in 1..(j - i + 1) : SubSeq(u, i, j)[n] = u[i + n - 1]
      <3>1. i \in 1..Len(u) /\ j \in i..Len(u)
        BY <1>4
      <3> QED
        BY <1>4, <3>1, BlanksAre
    <2> QED
      BY <1>3, <1>7, <2>1 DEF Texts
  <1>9. ASSUME NEW l \in i..j
        PROVE  \E n \in 1..(j - i + 1) : l = i + n - 1 /\ u[l] = w[n]
    <2>1. l - i + 1 \in 1..(j - i + 1) /\ l = i + (l - i + 1) - 1
      BY <1>1
    <2> QED
      BY <1>7, <2>1
  <1>10. \A c : Blank(c) \in {Space, Newline}
    BY DEF Blank
  <1> QED
    BY <1>3, <1>4, <1>6, <1>8, <1>9, <1>10

\* A scan has come as far in every text that starts with what it wrote.
Final(k, t) ==
    {s \in ScanStates :
        \A u : Masks(u, t) /\ Extends(u, s.out)
                  => Reaches(k, u, Position(k, u, s.at, 0, Again(k, s.mode), s.out))}

\* A step of the scan keeps that a second one has come as far in what it wrote.
LEMMA FinalKeeps ==
    ASSUME NEW k \in Scanners, NEW t \in Texts, ~Uses(t, Tick),
           NEW i \in 1..Len(t), NEW d, NEW m, NEW o, Fits(k, d, m), Reads(t, i, o),
           Position(k, t, i, d, m, o) \in Final(k, t)
    PROVE  ScanStep(k, t, Position(k, t, i, d, m, o)) \in Final(k, t)
  <1> DEFINE s == Position(k, t, i, d, m, o)
  <1>1. PICK j \in i..Len(t), e \in Nat, p \in Modes :
           /\ Fits(k, e, p)
           /\ Wiping(k, t, i, d, m, j, e, p) \/ (d = 0 /\ e = 0 /\ Copying(k, t, i, m, j, p))
    BY GoesOn DEF Goes
  <1>2. \A u : Masks(u, t) /\ Extends(u, o)
                  => Reaches(k, u, Position(k, u, i, 0, Again(k, m), o))
    BY Fields DEF Final
  <1>3. o \in Texts /\ i \in Nat /\ j \in Nat
    BY DEF Reads
  <1>4. ASSUME NEW w \in {SubSeq(t, i, j), Blanks(t, i, j)},
               ScanStep(k, t, s) = Position(k, t, j + 1, e, p, o \o w),
               \A u : Masks(u, t) /\ Extends(u, o \o w)
                         => Reaches(k, u, Position(k, u, j + 1, 0, Again(k, p), o \o w))
        PROVE  ScanStep(k, t, s) \in Final(k, t)
    <2> DEFINE next == Position(k, t, j + 1, e, p, o \o w)
    <2>1. j + 1 \in Nat
      BY <1>3
    <2>2. o \o w \in Texts
      BY ReadsOn DEF Reads
    <2>3. \A l \in Nat, v \in Texts :
             LET q == Position(k, t, l, e, p, v)
             IN  q.at = l /\ q.mode = p /\ q.out = v /\ q \in ScanStates
      BY Fields
    <2>4. next.at = j + 1 /\ next.mode = p /\ next.out = o \o w /\ next \in ScanStates
      BY <2>1, <2>2, <2>3, Zenon
    <2> HIDE DEF next
    <2>5. \A u : Masks(u, t) /\ Extends(u, next.out)
                    => Reaches(k, u, Position(k, u, next.at, 0, Again(k, next.mode), next.out))
      BY <1>4, <2>4
    <2>6. next \in Final(k, t)
      BY <2>4, <2>5 DEF Final
    <2> QED
      BY <1>4, <2>6 DEF next
  <1>5. CASE Wiping(k, t, i, d, m, j, e, p)
    <2> DEFINE w == Blanks(t, i, j)
    <2>1. /\ ScanStep(k, t, s) = Position(k, t, j + 1, e, p, o \o w)
          /\ Again(k, m) = "code" /\ Again(k, p) = "code"
      BY <1>5 DEF Wiping
    <2>2. ASSUME NEW u, Masks(u, t), Extends(u, o \o w)
          PROVE  Reaches(k, u, Position(k, u, j + 1, 0, "code", o \o w))
      <3>1. /\ u \in Texts /\ Len(u) = Len(t) /\ Extends(u, o) /\ SubSeq(u, i, j) = w
            /\ \A l \in i..j : u[l] \in {Space, Newline}
        BY <2>2, Written
      <3>2. Reaches(k, u, Position(k, u, i, 0, "code", o))
        BY <1>2, <2>1, <2>2, <3>1
      <3>3. i \in 1..Len(u) /\ j \in i..Len(u)
        BY <3>1
      <3>4. Reaches(k, u, Position(k, u, j + 1, 0, "code", o \o SubSeq(u, i, j)))
        BY <1>3, <3>1, <3>2, <3>3, BlanksRead
      <3> HIDE DEF w
      <3> QED
        BY <3>1, <3>4
    <2> QED
      BY <1>4, <2>1, <2>2
  <1>6. CASE d = 0 /\ e = 0 /\ Copying(k, t, i, m, j, p)
    <2> DEFINE w == SubSeq(t, i, j)
    <2>1. /\ ScanStep(k, t, s) = Position(k, t, j + 1, e, p, o \o w)
          /\ Again(k, m) = m /\ Again(k, p) = p
      BY <1>6 DEF Copying, Keeping
    <2>2. ASSUME NEW u, Masks(u, t), Extends(u, o \o w)
          PROVE  Reaches(k, u, Position(k, u, j + 1, 0, p, o \o w))
      <3>1. /\ u \in Texts /\ Len(u) = Len(t) /\ Extends(u, o) /\ SubSeq(u, i, j) = w
            /\ \A l \in i..j : u[l] = t[l]
        BY <2>2, Written
      <3>2. Reaches(k, u, Position(k, u, i, 0, m, o))
        BY <1>2, <2>1, <2>2, <3>1
      <3>3. i \in 1..Len(u) /\ Keeping(k, u, i, m, j, p)
        BY <1>6, <2>2, <3>1 DEF Copying
      <3>4. Reaches(k, u, Position(k, u, j + 1, 0, p, o \o SubSeq(u, i, j)))
        BY <3>1, <3>2, <3>3, KeepsOn
      <3> HIDE DEF w
      <3> QED
        BY <3>1, <3>4
    <2> QED
      BY <1>4, <2>1, <2>2
  <1> QED
    BY <1>1, <1>5, <1>6

\* At the end of a scan a second one has come as far in what it wrote.
LEMMA ScanIsFinal ==
    ASSUME NEW k \in Scanners, NEW t \in Texts, ~Uses(t, Tick)
    PROVE  Scan(k, t) \in Final(k, t)
  <1> DEFINE s == Position(k, t, 1, 0, "code", <<>>)
  <1>1. s.at = 1 /\ s.mode = "code" /\ s.out = <<>>
    BY Fields
  <1>2. s \in ScanStates
    <2>1. 1 \in Nat /\ 0 \in Nat /\ "code" \in Modes /\ <<>> \in Texts
      BY DEF Modes, Texts
    <2> QED
      BY <2>1, Fields
  <1>3. Again(k, "code") = "code"
    BY DEF Again
  <1>4. \A u : Masks(u, t) => Reaches(k, u, Position(k, u, 1, 0, "code", <<>>))
    BY ReachStart DEF Masks
  <1> HIDE DEF s
  <1>5. s \in Final(k, t)
    BY <1>1, <1>2, <1>3, <1>4, Zenon DEF Final
  <1>6. \A i \in 1..Len(t) : \A d, m, o :
           Fits(k, d, m) /\ Reads(t, i, o) /\ Position(k, t, i, d, m, o) \in Final(k, t)
              => ScanStep(k, t, Position(k, t, i, d, m, o)) \in Final(k, t)
    BY FinalKeeps
  <1> QED
    BY <1>5, <1>6, ScanKeeps DEF s

\* What a scanner wrote has the lines of the text, and is what it reads of it.
LEMMA FinalityHolds ==
    ASSUME NEW k \in Scanners, NEW t \in Texts
    PROVE  Finality(k, t)
  <1>1. PICK d, m, o :
           /\ Fits(k, d, m) /\ Reads(t, Len(t) + 1, o)
           /\ Scan(k, t) = Position(k, t, Len(t) + 1, d, m, o)
    BY ScanEnds
  <1>2. Scan(k, t).out = o /\ Scan(k, t).at = Len(t) + 1 /\ Scan(k, t).mode = m
    BY <1>1, Fields
  <1>3. Masks(o, t) /\ Extends(o, o)
    <2>1. (Len(t) + 1) - 1 = Len(t) /\ Len(t) \in Nat
      BY DEF Texts
    <2> QED
      BY <1>1, <2>1 DEF Reads, Masks, Extends
  <1>4. Len(o) = Len(t) /\ \A i \in DOMAIN t : (o[i] = Newline) <=> (t[i] = Newline)
    <2>1. DOMAIN t = 1..Len(t)
      BY DEF Texts
    <2>2. \A i \in 1..Len(t) : (o[i] = Newline) <=> (t[i] = Newline)
      BY <1>3, Unmasked
    <2> QED
      BY <1>3, <2>1, <2>2 DEF Masks
  <1>5. ASSUME ~Uses(t, Tick) PROVE Scan(k, o).out = o
    <2>1. Reaches(k, o, Position(k, o, Len(t) + 1, 0, Again(k, m), o))
      BY <1>2, <1>3, <1>5, ScanIsFinal DEF Final
    <2>2. o \in Texts /\ Len(o) = Len(t)
      BY <1>3 DEF Masks
    <2>3. Scan(k, o) = Position(k, o, Len(o) + 1, 0, Again(k, m), o)
      BY <2>1, <2>2, ReachEnd
    <2> QED
      BY <2>2, <2>3, Fields
  <1> QED
    BY <1>2, <1>4, <1>5 DEF Finality

-----------------------------------------------------------------------------
(* Two scanners side by side                                               *)

Plainly(t) == \A c \in {Tick, NameBegin, NameEnd} : ~Uses(t, c)

\* The surface gate is at p in a string that starts at i, of which the quotes so
\* far are escaped; the inventory of a report is still at its start.
InString(t, p, q) ==
    \E i, o, e :
        /\ i \in 1..Len(t) /\ i < p /\ t[i] = Quote
        /\ o \in Texts /\ Reaches("report", t, Position("report", t, i, 0, "code", o))
        /\ IsEscaped(e, t, i)
        /\ \A j \in (i + 1)..Len(t) : Closes(t, e, i, j) => StringEnd(t, i) = j
        /\ \A l \in (i + 1)..(p - 1) : t[l] = Quote => e[l]
        /\ p <= Len(t) => ~e[p]
        /\ q = o \o SubSeq(t, i, p - 1)

\* Where the inventory of a report meets a quote, the surface gate enters the string.
LEMMA StringStarts ==
    ASSUME NEW t \in Texts, NEW i \in 1..Len(t), t[i] = Quote, NEW o \in Texts,
           Reaches("report", t, Position("report", t, i, 0, "code", o))
    PROVE  InString(t, i + 1, o \o SubSeq(t, i, i))
  <1>1. i \in Nat /\ i < i + 1 /\ (i + 1) - 1 = i /\ (i + 1)..((i + 1) - 1) = {}
    OBVIOUS
  <1>2. PICK e :
          /\ IsEscaped(e, t, i)
          /\ \A j \in (i + 1)..Len(t) : Closes(t, e, i, j) => StringEnd(t, i) = j
    BY StringEnds
  <1>3. i + 1 <= Len(t) => ~e[i + 1]
    <2> SUFFICES ASSUME i + 1 <= Len(t) PROVE ~e[i + 1]
      OBVIOUS
    <2>1. i + 1 \in i..Len(t) /\ ~(i + 1 > i + 1)
      OBVIOUS
    <2> QED
      BY <1>2, <2>1 DEF IsEscaped
  <1> QED
    BY <1>1, <1>2, <1>3, Zenon DEF InString

\* It goes over an escaped character, and over one that does not end the string,
\* and comes with the quote to where the inventory goes at once.
LEMMA StringGoes ==
    ASSUME NEW t \in Texts, NEW p \in 1..Len(t), NEW q, InString(t, p, q)
    PROVE  /\ t[p] = Escape /\ p < Len(t) => InString(t, p + 1 + 1, q \o SubSeq(t, p, p + 1))
           /\ t[p] # Quote /\ ~(t[p] = Escape /\ p < Len(t))
                 => InString(t, p + 1, q \o SubSeq(t, p, p))
           /\ t[p] = Quote
                 => Reaches("report", t,
                            Position("report", t, p + 1, 0, "code", q \o SubSeq(t, p, p)))
  <1>1. PICK i, o, e :
          /\ i \in 1..Len(t) /\ i < p /\ t[i] = Quote
          /\ o \in Texts /\ Reaches("report", t, Position("report", t, i, 0, "code", o))
          /\ IsEscaped(e, t, i)
          /\ \A j \in (i + 1)..Len(t) : Closes(t, e, i, j) => StringEnd(t, i) = j
          /\ \A l \in (i + 1)..(p - 1) : t[l] = Quote => e[l]
          /\ p <= Len(t) => ~e[p]
          /\ q = o \o SubSeq(t, i, p - 1)
    BY DEF InString
  <1>2. /\ i \in Nat /\ p \in Nat /\ Len(t) \in Nat /\ p <= Len(t) /\ ~e[p]
        /\ p \in i..Len(t) /\ p \in (i + 1)..Len(t) /\ p \in p..Len(t)
    BY <1>1
  <1>3. \A j \in p..Len(t) : q \o SubSeq(t, p, j) = o \o SubSeq(t, i, j)
    <2> SUFFICES ASSUME NEW j \in p..Len(t)
                 PROVE  q \o SubSeq(t, p, j) = o \o SubSeq(t, i, j)
      OBVIOUS
    <2> QED
      BY <1>1, <1>2, Pieces
  <1>4. Escape # Quote
    BY DEF Escape, Quote
  <1>5. \A j \in (i + 1)..Len(t) : e[j] <=> (j > i + 1 /\ t[j - 1] = Escape /\ ~e[j - 1])
    <2> SUFFICES ASSUME NEW j \in (i + 1)..Len(t)
                 PROVE  e[j] <=> (j > i + 1 /\ t[j - 1] = Escape /\ ~e[j - 1])
      OBVIOUS
    <2>1. j \in i..Len(t)
      BY <1>2
    <2> QED
      BY <1>1, <2>1 DEF IsEscaped
  <1>6. ASSUME t[p] = Escape, p < Len(t)
        PROVE  InString(t, p + 1 + 1, q \o SubSeq(t, p, p + 1))
    <2>1. /\ p + 1 \in (i + 1)..Len(t) /\ p + 1 > i + 1 /\ (p + 1) - 1 = p
          /\ p + 1 \in p..Len(t) /\ i < p + 1 + 1 /\ (p + 1 + 1) - 1 = p + 1
      BY <1>1, <1>2, <1>6
    <2>2. e[p + 1]
      BY <1>2, <1>5, <1>6, <2>1
    <2>3. p + 1 + 1 <= Len(t) => ~e[p + 1 + 1]
      <3> SUFFICES ASSUME p + 1 + 1 <= Len(t) PROVE ~e[p + 1 + 1]
        OBVIOUS
      <3>1. p + 1 + 1 \in (i + 1)..Len(t) /\ (p + 1 + 1) - 1 = p + 1
        BY <1>1, <1>2
      <3> QED
        BY <1>5, <2>2, <3>1
    <2>4. ASSUME NEW l \in (i + 1)..(p + 1), t[l] = Quote PROVE e[l]
      <3>1. l \in (i + 1)..(p - 1) \/ l = p \/ l = p + 1
        BY <1>2
      <3> QED
        BY <1>1, <1>4, <1>6, <2>2, <2>4, <3>1
    <2>5. q \o SubSeq(t, p, p + 1) = o \o SubSeq(t, i, p + 1)
      BY <1>3, <2>1
    <2> QED
      BY <1>1, <2>1, <2>3, <2>4, <2>5, Zenon DEF InString
  <1>7. ASSUME t[p] # Quote, ~(t[p] = Escape /\ p < Len(t))
        PROVE  InString(t, p + 1, q \o SubSeq(t, p, p))
    <2>1. p \in p..Len(t) /\ i < p + 1 /\ (p + 1) - 1 = p
      BY <1>1, <1>2
    <2>2. p + 1 <= Len(t) => ~e[p + 1]
      <3> SUFFICES ASSUME p + 1 <= Len(t) PROVE ~e[p + 1]
        OBVIOUS
      <3>1. p + 1 \in (i + 1)..Len(t) /\ p < Len(t)
        BY <1>1, <1>2
      <3> QED
        BY <1>5, <1>7, <2>1, <3>1
    <2>3. ASSUME NEW l \in (i + 1)..p, t[l] = Quote PROVE e[l]
      <3>1. l \in (i + 1)..(p - 1) \/ l = p
        BY <1>2
      <3> QED
        BY <1>1, <1>7, <2>3, <3>1
    <2>4. q \o SubSeq(t, p, p) = o \o SubSeq(t, i, p)
      BY <1>3, <2>1
    <2> QED
      BY <1>1, <2>1, <2>2, <2>3, <2>4, Zenon DEF InString
  <1>8. ASSUME t[p] = Quote
        PROVE  Reaches("report", t,
                       Position("report", t, p + 1, 0, "code", q \o SubSeq(t, p, p)))
    <2>1. StringEnd(t, i) = p
      BY <1>1, <1>2, <1>8 DEF Closes
    <2>2. ~Opens(t, i)
      BY <1>1, OpensOnly DEF Opens
    <2>3. Keeping("report", t, i, "code", p, "code")
      BY <1>1, <2>1, <2>2, ReportInCode DEF Keeping
    <2>4. Reaches("report", t, Position("report", t, p + 1, 0, "code", o \o SubSeq(t, i, p)))
      BY <1>1, <2>3, KeepsOn DEF Scanners
    <2>5. q \o SubSeq(t, p, p) = o \o SubSeq(t, i, p)
      BY <1>2, <1>3
    <2> QED
      BY <2>4, <2>5
  <1> QED
    BY <1>6, <1>7, <1>8

\* The inventory of a report has come as far as the surface gate, outside strings.
Followed(t) ==
    {s \in ScanStates :
        /\ s.mode = "code" =>
              Reaches("report", t, Position("report", t, s.at, s.depth, "code", s.out))
        /\ s.mode = "string" => InString(t, s.at, s.out)}

\* What a position in Followed says.
LEMMA InFollowed ==
    ASSUME NEW t \in Texts, NEW i \in Nat, NEW d \in Nat, NEW m \in {"code", "string"},
           NEW o \in Texts
    PROVE  Position("surface", t, i, d, m, o) \in Followed(t) <=>
              /\ m = "code" => Reaches("report", t, Position("report", t, i, d, "code", o))
              /\ m = "string" => InString(t, i, o)
  <1> DEFINE s == Position("surface", t, i, d, m, o)
  <1>1. m \in Modes
    BY DEF Modes
  <1>2. s \in ScanStates /\ s.at = i /\ s.depth = d /\ s.mode = m /\ s.out = o
    BY <1>1, Fields
  <1> HIDE DEF s
  <1>3. s \in Followed(t) <=>
              /\ s.mode = "code" =>
                    Reaches("report", t, Position("report", t, s.at, s.depth, "code", s.out))
              /\ s.mode = "string" => InString(t, s.at, s.out)
    BY <1>2 DEF Followed
  <1> QED
    BY <1>2, <1>3, Zenon DEF s

\* A step of the surface gate keeps that the inventory of a report has come as far.
LEMMA FollowedKeeps ==
    ASSUME NEW t \in Texts, Plainly(t), NEW i \in 1..Len(t), NEW d, NEW m, NEW o,
           Fits("surface", d, m), Reads(t, i, o),
           Position("surface", t, i, d, m, o) \in Followed(t)
    PROVE  ScanStep("surface", t, Position("surface", t, i, d, m, o)) \in Followed(t)
  <1> DEFINE s == Position("surface", t, i, d, m, o)
  <1>1. "surface" \in Scanners /\ "report" \in Scanners /\ "code" # "string"
    BY DEF Scanners
  <1>2. d \in Nat /\ m \in {"code", "string"} /\ (d > 0 => m = "code")
    BY DEF Fits, Modes
  <1>3. o \in Texts /\ i \in Nat
    BY DEF Reads
  <1>4. /\ m = "code" => Reaches("report", t, Position("report", t, i, d, "code", o))
        /\ m = "string" => InString(t, i, o)
    BY <1>2, <1>3, InFollowed
  <1>5. ASSUME NEW j \in i..Len(t), NEW e \in Nat, NEW n \in {"code", "string"},
               NEW w \in {SubSeq(t, i, j), Blanks(t, i, j)},
               ScanStep("surface", t, s) = Position("surface", t, j + 1, e, n, o \o w),
               n = "code" =>
                  Reaches("report", t, Position("report", t, j + 1, e, "code", o \o w)),
               n = "string" => InString(t, j + 1, o \o w)
        PROVE  ScanStep("surface", t, s) \in Followed(t)
    <2>1. j + 1 \in Nat
      BY <1>3
    <2>2. o \o w \in Texts
      BY ReadsOn DEF Reads
    <2>3. Position("surface", t, j + 1, e, n, o \o w) \in Followed(t)
      BY <1>5, <2>1, <2>2, InFollowed, Zenon
    <2> QED
      BY <1>5, <2>3
  <1>6. CASE d > 0 \/ (m = "code" /\ Opens(t, i))
    <2>1. m = "code" /\ (d > 0 \/ (d = 0 /\ Opens(t, i)))
      BY <1>2, <1>6
    <2>2. PICK j \in i..Len(t), e \in Nat :
             \A k \in Scanners : Wiping(k, t, i, d, "code", j, e, "code")
      BY <1>2, <2>1, CommentsAlike
    <2> DEFINE w == Blanks(t, i, j)
    <2>3. /\ ScanStep("surface", t, s) = Position("surface", t, j + 1, e, "code", o \o w)
          /\ ScanStep("report", t, Position("report", t, i, d, "code", o))
               = Position("report", t, j + 1, e, "code", o \o w)
      BY <1>1, <2>1, <2>2 DEF Wiping
    <2> HIDE DEF w
    <2>4. Reaches("report", t, Position("report", t, j + 1, e, "code", o \o w))
      BY <1>1, <1>4, <2>1, <2>3, ReachStep
    <2> QED
      BY <1>1, <1>5, <2>3, <2>4 DEF w
  <1>7. CASE d = 0 /\ m = "code" /\ ~Opens(t, i)
    <2> DEFINE w == SubSeq(t, i, i)
    <2>1. i \in i..Len(t) /\ 0 \in Nat
      BY <1>3
    <2>2. CASE t[i] = Quote
      <3>1. ScanStep("surface", t, s) = Position("surface", t, i + 1, 0, "string", o \o w)
        BY <1>7, <2>2, SurfaceInCode
      <3>2. InString(t, i + 1, o \o w)
        BY <1>3, <1>4, <1>7, <2>2, StringStarts
      <3> HIDE DEF w
      <3> QED
        BY <1>1, <1>5, <2>1, <3>1, <3>2 DEF w
    <2>3. CASE t[i] # Quote
      <3>1. ScanStep("surface", t, s) = Position("surface", t, i + 1, 0, "code", o \o w)
        BY <1>7, <2>3, SurfaceInCode
      <3>2. t[i] # NameBegin
        BY DEF Plainly, Uses, Texts
      <3>3. Keeping("report", t, i, "code", i, "code")
        BY <1>7, <2>3, <3>2, ReportInCode DEF Keeping
      <3>4. Reaches("report", t, Position("report", t, i + 1, 0, "code", o \o w))
        BY <1>1, <1>4, <1>7, <3>3, KeepsOn
      <3> HIDE DEF w
      <3> QED
        BY <1>1, <1>5, <2>1, <3>1, <3>4 DEF w
    <2> QED
      BY <2>2, <2>3
  <1>8. CASE d = 0 /\ m = "string"
    <2>1. i \in i..Len(t) /\ 0 \in Nat
      BY <1>3
    <2>2. CASE t[i] = Escape /\ i < Len(t)
      <3> DEFINE w == SubSeq(t, i, i + 1)
      <3>1. i + 1 \in i..Len(t)
        BY <1>3, <2>2
      <3>2. ScanStep("surface", t, s) = Position("surface", t, i + 1 + 1, 0, "string", o \o w)
        BY <1>8, <2>2, SurfaceInString
      <3>3. InString(t, i + 1 + 1, o \o w)
        BY <1>4, <1>8, <2>2, StringGoes
      <3> HIDE DEF w
      <3> QED
        BY <1>1, <1>5, <2>1, <3>1, <3>2, <3>3 DEF w
    <2>3. CASE t[i] = Quote
      <3> DEFINE w == SubSeq(t, i, i)
      <3>1. ~(t[i] = Escape /\ i < Len(t))
        BY <2>3 DEF Escape, Quote
      <3>2. ScanStep("surface", t, s) = Position("surface", t, i + 1, 0, "code", o \o w)
        BY <1>8, <2>3, <3>1, SurfaceInString
      <3>3. Reaches("report", t, Position("report", t, i + 1, 0, "code", o \o w))
        BY <1>4, <1>8, <2>3, StringGoes
      <3> HIDE DEF w
      <3> QED
        BY <1>1, <1>5, <2>1, <3>2, <3>3 DEF w
    <2>4. CASE t[i] # Quote /\ ~(t[i] = Escape /\ i < Len(t))
      <3> DEFINE w == SubSeq(t, i, i)
      <3>1. ScanStep("surface", t, s) = Position("surface", t, i + 1, 0, "string", o \o w)
        BY <1>8, <2>4, SurfaceInString
      <3>2. InString(t, i + 1, o \o w)
        BY <1>4, <1>8, <2>4, StringGoes
      <3> HIDE DEF w
      <3> QED
        BY <1>1, <1>5, <2>1, <3>1, <3>2 DEF w
    <2> QED
      BY <2>2, <2>3, <2>4 DEF Escape, Quote
  <1> QED
    BY <1>2, <1>6, <1>7, <1>8

\* Where the surface gate accepts a text, the inventory of a report keeps the same.
LEMMA ReportAgrees ==
    ASSUME NEW t \in Texts, Plainly(t), ~Scan("surface", t).failed
    PROVE  Scan("report", t).out = Scan("surface", t).out
  <1>1. "surface" \in Scanners /\ "report" \in Scanners
    BY DEF Scanners
  <1>2. PICK d, m, o :
           /\ Fits("surface", d, m) /\ Reads(t, Len(t) + 1, o)
           /\ Scan("surface", t) = Position("surface", t, Len(t) + 1, d, m, o)
    BY <1>1, ScanEnds
  <1>3. Len(t) + 1 > Len(t) /\ Len(t) + 1 \in Nat /\ o \in Texts
    BY <1>2 DEF Texts, Reads
  <1>4. d = 0 /\ m = "code"
    <2>1. ~GivesUp("surface", t, Len(t) + 1, d, m)
      BY <1>2, Fields
    <2>2. ~(d > 0) /\ m # "string"
      BY <1>3, <2>1 DEF GivesUp, Refuses
    <2> QED
      BY <1>2, <2>2 DEF Fits, Modes
  <1>5. Position("surface", t, 1, 0, "code", <<>>) \in Followed(t)
    <2>1. 1 \in Nat /\ 0 \in Nat /\ "code" # "string" /\ <<>> \in Texts
      BY DEF Texts
    <2> QED
      BY <1>1, <2>1, InFollowed, ReachStart
  <1>6. \A i \in 1..Len(t) : \A e, n, p :
           Fits("surface", e, n) /\ Reads(t, i, p)
           /\ Position("surface", t, i, e, n, p) \in Followed(t)
              => ScanStep("surface", t, Position("surface", t, i, e, n, p)) \in Followed(t)
    BY FollowedKeeps
  <1>7. Scan("surface", t) \in Followed(t)
    BY <1>1, <1>5, <1>6, ScanKeeps
  <1>8. Reaches("report", t, Position("report", t, Len(t) + 1, 0, "code", o))
    BY <1>2, <1>3, <1>4, <1>7, InFollowed
  <1>9. Scan("report", t) = Position("report", t, Len(t) + 1, 0, "code", o)
    BY <1>1, <1>8, ReachEnd
  <1> QED
    BY <1>2, <1>9, Fields

\* What the gate against escapes writes where the surface gate keeps a piece.
Piece(v, i, m, j, n) ==
    IF m = "string" \/ n = "string" THEN Blanks(v, i, j) ELSE SubSeq(v, i, j)

\* What the gate against escapes makes of a stretch depends on the stretch alone.
LEMMA PieceAlike ==
    ASSUME NEW t \in Texts, NEW i \in 1..Len(t), NEW j \in i..Len(t), NEW u \in Texts,
           Len(u) = Len(t), \A l \in i..j : u[l] = t[l], NEW m, NEW n
    PROVE  Piece(u, i, m, j, n) = Piece(t, i, m, j, n) /\ Piece(t, i, m, j, n) \in Texts
  <1>1. i \in Nat /\ j \in Nat /\ i \in 1..Len(u) /\ j \in i..Len(u)
    OBVIOUS
  <1>2. \A l \in 1..(j - i + 1) : u[i + l - 1] = t[i + l - 1]
    <2> SUFFICES ASSUME NEW l \in 1..(j - i + 1) PROVE u[i + l - 1] = t[i + l - 1]
      OBVIOUS
    <2>1. i + l - 1 \in i..j
      BY <1>1
    <2> QED
      BY <2>1
  <1>3. /\ SubSeq(t, i, j) \in Texts /\ Len(SubSeq(t, i, j)) = j - i + 1
        /\ \A l \in 1..(j - i + 1) : SubSeq(t, i, j)[l] = t[i + l - 1]
        /\ Blanks(t, i, j) \in Texts
    BY BlanksAre
  <1>4. /\ SubSeq(u, i, j) \in Texts /\ Len(SubSeq(u, i, j)) = j - i + 1
        /\ \A l \in 1..(j - i + 1) : SubSeq(u, i, j)[l] = u[i + l - 1]
    BY <1>1, BlanksAre
  <1>5. SubSeq(u, i, j) = SubSeq(t, i, j)
    BY <1>2, <1>3, <1>4 DEF Texts
  <1>6. Blanks(u, i, j) = Blanks(t, i, j)
    BY <1>2 DEF Blanks
  <1> QED
    BY <1>3, <1>5, <1>6 DEF Piece

\* The surface gate keeps a piece, which the gate against escapes reads at once
\* in each text that has it.
EscapesReads(v, i, m, j, n) ==
    \A q : ScanStep("escapes", v, Position("escapes", v, i, 0, m, q))
             = Position("escapes", v, j + 1, 0, n, q \o Piece(v, i, m, j, n))

\* A text with the same character there, to be read as that of t is.
LikeThere(v, t, i, m) ==
    /\ Len(v) = Len(t) /\ v[i] = t[i] /\ v[i] \notin {Tick, NameBegin}
    /\ m = "code" => ~Opens(v, i)

\* Outside comments the surface gate and the gate against escapes read the same stretch.
LEMMA SurfaceMoves ==
    ASSUME NEW t \in Texts, NEW i \in 1..Len(t), NEW m \in {"code", "string"},
           m = "code" => ~Opens(t, i)
    PROVE  \E j \in i..Len(t), n \in {"code", "string"} :
              /\ Keeping("surface", t, i, m, j, n)
              /\ \A v \in Texts :
                    LikeThere(v, t, i, m) => EscapesReads(v, i, m, j, n)
  <1>1. i \in i..Len(t) /\ "code" # "string" /\ Escape # Quote
    BY DEF Escape, Quote
  <1>2. ASSUME NEW j \in i..Len(t), NEW n \in {"code", "string"},
               Keeping("surface", t, i, m, j, n),
               ASSUME NEW v \in Texts, i \in 1..Len(v), Len(v) = Len(t), v[i] = t[i],
                      v[i] # Tick, v[i] # NameBegin, m = "code" => ~Opens(v, i)
               PROVE  EscapesReads(v, i, m, j, n)
        PROVE  \E l \in i..Len(t), p \in {"code", "string"} :
                  /\ Keeping("surface", t, i, m, l, p)
                  /\ \A v \in Texts :
                        LikeThere(v, t, i, m) => EscapesReads(v, i, m, l, p)
    <2>1. ASSUME NEW v \in Texts, LikeThere(v, t, i, m) PROVE EscapesReads(v, i, m, j, n)
      BY <1>2, <2>1 DEF LikeThere
    <2> QED
      BY <1>2, <2>1, Zenon
  <1>3. CASE m = "code" /\ t[i] = Quote
    <2>1. Keeping("surface", t, i, m, i, "string")
      BY <1>3, SurfaceInCode DEF Keeping
    <2>2. ASSUME NEW v \in Texts, i \in 1..Len(v), v[i] = t[i], ~Opens(v, i)
          PROVE  EscapesReads(v, i, m, i, "string")
      BY <1>3, <2>2, EscapesInCode DEF EscapesReads, Piece
    <2> QED
      BY <1>1, <1>2, <1>3, <2>1, <2>2
  <1>4. CASE m = "code" /\ t[i] # Quote
    <2>1. Keeping("surface", t, i, m, i, "code")
      BY <1>4, SurfaceInCode DEF Keeping
    <2>2. ASSUME NEW v \in Texts, i \in 1..Len(v), v[i] = t[i], v[i] # Tick, v[i] # NameBegin,
                 ~Opens(v, i)
          PROVE  EscapesReads(v, i, m, i, "code")
      <3>1. ~(CharLiteralEnd(v, i) > 0)
        BY <2>2, CharLiterals
      <3> QED
        BY <1>1, <1>4, <2>2, <3>1, EscapesInCode DEF EscapesReads, Piece
    <2> QED
      BY <1>1, <1>2, <1>4, <2>1, <2>2
  <1>5. CASE m = "string" /\ t[i] = Escape /\ i < Len(t)
    <2>1. i + 1 \in i..Len(t)
      BY <1>5
    <2>2. Keeping("surface", t, i, m, i + 1, "string")
      BY <1>5, SurfaceInString DEF Keeping
    <2>3. ASSUME NEW v \in Texts, i \in 1..Len(v), Len(v) = Len(t), v[i] = t[i]
          PROVE  EscapesReads(v, i, m, i + 1, "string")
      BY <1>5, <2>3, EscapesInString DEF EscapesReads, Piece
    <2> QED
      BY <1>2, <2>1, <2>2, <2>3
  <1>6. CASE m = "string" /\ ~(t[i] = Escape /\ i < Len(t))
    <2>1. PICK n \in {"code", "string"} : n = IF t[i] = Quote THEN "code" ELSE "string"
      OBVIOUS
    <2>2. Keeping("surface", t, i, m, i, n)
      BY <1>6, <2>1, SurfaceInString DEF Keeping
    <2>3. ASSUME NEW v \in Texts, i \in 1..Len(v), Len(v) = Len(t), v[i] = t[i]
          PROVE  EscapesReads(v, i, m, i, n)
      BY <1>6, <2>1, <2>3, EscapesInString DEF EscapesReads, Piece
    <2> QED
      BY <1>1, <1>2, <2>2, <2>3
  <1> QED
    BY <1>3, <1>4, <1>5, <1>6

\* The gate against escapes reads the text and every text that starts with what
\* the surface gate wrote to the same effect.
Both(t, u, i, d, m) ==
    \E q \in Texts :
        /\ Reaches("escapes", t, Position("escapes", t, i, d, m, q))
        /\ Reaches("escapes", u, Position("escapes", u, i, 0, m, q))

Paired(t) ==
    {s \in ScanStates :
        \A u : Masks(u, t) /\ Extends(u, s.out) => Both(t, u, s.at, s.depth, s.mode)}

\* What a position in Paired says.
LEMMA InPaired ==
    ASSUME NEW t \in Texts, NEW i \in Nat, NEW d \in Nat, NEW m \in {"code", "string"},
           NEW o \in Texts
    PROVE  Position("surface", t, i, d, m, o) \in Paired(t) <=>
              \A u : Masks(u, t) /\ Extends(u, o) => Both(t, u, i, d, m)
  <1> DEFINE s == Position("surface", t, i, d, m, o)
  <1>1. m \in Modes
    BY DEF Modes
  <1>2. s \in ScanStates /\ s.at = i /\ s.depth = d /\ s.mode = m /\ s.out = o
    BY <1>1, Fields
  <1> HIDE DEF s
  <1>3. s \in Paired(t) <=>
              \A u : Masks(u, t) /\ Extends(u, s.out) => Both(t, u, s.at, s.depth, s.mode)
    BY <1>2 DEF Paired
  <1> QED
    BY <1>2, <1>3, Zenon DEF s

\* A step of the surface gate keeps that the gate against escapes has come as far in
\* the text and in what was written of it.
LEMMA PairedKeeps ==
    ASSUME NEW t \in Texts, Plainly(t), NEW i \in 1..Len(t), NEW d, NEW m, NEW o,
           Fits("surface", d, m), Reads(t, i, o),
           Position("surface", t, i, d, m, o) \in Paired(t)
    PROVE  ScanStep("surface", t, Position("surface", t, i, d, m, o)) \in Paired(t)
  <1> DEFINE s == Position("surface", t, i, d, m, o)
  <1>1. "surface" \in Scanners /\ "escapes" \in Scanners
    BY DEF Scanners
  <1>2. d \in Nat /\ m \in {"code", "string"} /\ (d > 0 => m = "code")
    BY DEF Fits, Modes
  <1>3. o \in Texts /\ i \in Nat
    BY DEF Reads
  <1>4. \A u : Masks(u, t) /\ Extends(u, o) => Both(t, u, i, d, m)
    BY <1>2, <1>3, InPaired
  <1>5. ASSUME NEW j \in i..Len(t), NEW e \in Nat, NEW n \in {"code", "string"},
               NEW w \in {SubSeq(t, i, j), Blanks(t, i, j)},
               ScanStep("surface", t, s) = Position("surface", t, j + 1, e, n, o \o w),
               \A u : Masks(u, t) /\ Extends(u, o \o w) => Both(t, u, j + 1, e, n)
        PROVE  ScanStep("surface", t, s) \in Paired(t)
    <2>1. j + 1 \in Nat
      BY <1>3
    <2>2. o \o w \in Texts
      BY ReadsOn DEF Reads
    <2>3. Position("surface", t, j + 1, e, n, o \o w) \in Paired(t)
      BY <1>5, <2>1, <2>2, InPaired, Zenon
    <2> QED
      BY <1>5, <2>3
  <1>6. CASE d > 0 \/ (m = "code" /\ Opens(t, i))
    <2>1. m = "code" /\ (d > 0 \/ (d = 0 /\ Opens(t, i)))
      BY <1>2, <1>6
    <2>2. PICK j \in i..Len(t), e \in Nat :
             \A k \in Scanners : Wiping(k, t, i, d, "code", j, e, "code")
      BY <1>2, <2>1, CommentsAlike
    <2> DEFINE w == Blanks(t, i, j)
    <2>3. /\ ScanStep("surface", t, s) = Position("surface", t, j + 1, e, "code", o \o w)
          /\ \A q : ScanStep("escapes", t, Position("escapes", t, i, d, "code", q))
                      = Position("escapes", t, j + 1, e, "code", q \o w)
      BY <1>1, <2>1, <2>2 DEF Wiping
    <2>4. ASSUME NEW u, Masks(u, t), Extends(u, o \o w) PROVE Both(t, u, j + 1, e, "code")
      <3>1. /\ u \in Texts /\ Len(u) = Len(t) /\ Extends(u, o) /\ SubSeq(u, i, j) = w
            /\ \A l \in i..j : u[l] \in {Space, Newline}
        BY <2>4, Written
      <3>2. i \in 1..Len(u) /\ j \in i..Len(u)
        BY <3>1
      <3>3. PICK q \in Texts :
               /\ Reaches("escapes", t, Position("escapes", t, i, d, "code", q))
               /\ Reaches("escapes", u, Position("escapes", u, i, 0, "code", q))
        BY <1>4, <2>1, <2>4, <3>1 DEF Both
      <3>4. Reaches("escapes", u, Position("escapes", u, j + 1, 0, "code", q \o SubSeq(u, i, j)))
        BY <1>1, <3>1, <3>2, <3>3, BlanksRead
      <3>5. q \o SubSeq(u, i, j) \in Texts
        <4>1. \A l \in i..Len(u) : i \in i..l /\ l \in i..Len(u)
          BY <3>2
        <4>2. i \in i..Len(u)
          BY <3>2, <4>1
        <4> QED
          BY <3>1, <3>2, <3>3, <4>2, Pieces
      <3> HIDE DEF w
      <3>6. Reaches("escapes", t, Position("escapes", t, j + 1, e, "code", q \o w))
        BY <1>1, <2>3, <3>3, ReachStep
      <3> QED
        BY <3>1, <3>4, <3>5, <3>6 DEF Both
    <2> QED
      BY <1>5, <2>3, <2>4
  <1>7. CASE d = 0 /\ (m = "code" => ~Opens(t, i))
    <2>1. PICK j \in i..Len(t), n \in {"code", "string"} :
             /\ Keeping("surface", t, i, m, j, n)
             /\ \A v \in Texts : LikeThere(v, t, i, m) => EscapesReads(v, i, m, j, n)
      BY <1>2, <1>7, SurfaceMoves
    <2> DEFINE w == SubSeq(t, i, j)
    <2>2. ScanStep("surface", t, s) = Position("surface", t, j + 1, 0, n, o \o w)
      BY <1>7, <2>1 DEF Keeping
    <2>3. t[i] \notin {Tick, NameBegin}
      BY DEF Plainly, Uses, Texts
    <2>4. EscapesReads(t, i, m, j, n)
      BY <1>7, <2>1, <2>3 DEF LikeThere
    <2>5. ASSUME NEW u, Masks(u, t), Extends(u, o \o w) PROVE Both(t, u, j + 1, 0, n)
      <3>1. /\ u \in Texts /\ Len(u) = Len(t) /\ Extends(u, o)
            /\ \A l \in i..j : u[l] = t[l]
        BY <2>5, Written
      <3>2. i \in 1..Len(u) /\ u[i] = t[i]
        BY <3>1
      <3>3. EscapesReads(u, i, m, j, n)
        <4>1. m = "code" => ~Opens(u, i)
          BY <1>7, <2>5, OpensStill
        <4> QED
          BY <2>1, <2>3, <3>1, <3>2, <4>1 DEF LikeThere
      <3>4. PICK q \in Texts :
               /\ Reaches("escapes", t, Position("escapes", t, i, 0, m, q))
               /\ Reaches("escapes", u, Position("escapes", u, i, 0, m, q))
        BY <1>4, <1>7, <2>5, <3>1 DEF Both
      <3> DEFINE x == Piece(t, i, m, j, n)
      <3>5. Piece(u, i, m, j, n) = x /\ x \in Texts
        BY <3>1, PieceAlike
      <3>6. Reaches("escapes", t, Position("escapes", t, j + 1, 0, n, q \o x))
        BY <1>1, <2>4, <3>4, ReachStep DEF EscapesReads
      <3>7. Reaches("escapes", u, Position("escapes", u, j + 1, 0, n, q \o Piece(u, i, m, j, n)))
        BY <1>1, <3>1, <3>2, <3>3, <3>4, ReachStep DEF EscapesReads
      <3> HIDE DEF x
      <3>8. q \o x \in Texts
        BY <3>5, ConcatProperties DEF Texts
      <3> QED
        BY <3>5, <3>6, <3>7, <3>8 DEF Both
    <2> QED
      BY <1>5, <2>1, <2>2, <2>5
  <1> QED
    BY <1>2, <1>6, <1>7

\* Where the surface gate accepts a text, blanking the strings in what it kept
\* gives what the gate against escapes reads.
LEMMA EscapesAgree ==
    ASSUME NEW t \in Texts, Plainly(t), ~Scan("surface", t).failed
    PROVE  Scan("escapes", Scan("surface", t).out).out = Scan("escapes", t).out
  <1>1. "surface" \in Scanners /\ "escapes" \in Scanners
    BY DEF Scanners
  <1>2. PICK d, m, o :
           /\ Fits("surface", d, m) /\ Reads(t, Len(t) + 1, o)
           /\ Scan("surface", t) = Position("surface", t, Len(t) + 1, d, m, o)
    BY <1>1, ScanEnds
  <1>3. Len(t) + 1 > Len(t) /\ Len(t) + 1 \in Nat /\ o \in Texts /\ Len(o) = Len(t)
    BY <1>2 DEF Texts, Reads
  <1>4. d = 0 /\ m = "code"
    <2>1. ~GivesUp("surface", t, Len(t) + 1, d, m)
      BY <1>2, Fields
    <2>2. ~(d > 0) /\ m # "string"
      BY <1>3, <2>1 DEF GivesUp, Refuses
    <2> QED
      BY <1>2, <2>2 DEF Fits, Modes
  <1>5. Position("surface", t, 1, 0, "code", <<>>) \in Paired(t)
    <2>1. 1 \in Nat /\ 0 \in Nat /\ <<>> \in Texts
      BY DEF Texts
    <2>2. ASSUME NEW u, Masks(u, t) PROVE Both(t, u, 1, 0, "code")
      BY <1>1, <2>1, <2>2, ReachStart DEF Both, Masks
    <2> QED
      BY <2>1, <2>2, InPaired
  <1>6. \A i \in 1..Len(t) : \A e, n, p :
           Fits("surface", e, n) /\ Reads(t, i, p)
           /\ Position("surface", t, i, e, n, p) \in Paired(t)
              => ScanStep("surface", t, Position("surface", t, i, e, n, p)) \in Paired(t)
    BY PairedKeeps
  <1>7. Scan("surface", t) \in Paired(t)
    BY <1>1, <1>5, <1>6, ScanKeeps
  <1>8. Masks(o, t) /\ Extends(o, o)
    <2>1. (Len(t) + 1) - 1 = Len(t)
      BY <1>3
    <2> QED
      BY <1>2, <1>3, <2>1 DEF Reads, Masks, Extends
  <1>9. PICK q \in Texts :
           /\ Reaches("escapes", t, Position("escapes", t, Len(t) + 1, 0, "code", q))
           /\ Reaches("escapes", o, Position("escapes", o, Len(t) + 1, 0, "code", q))
    BY <1>2, <1>3, <1>4, <1>7, <1>8, InPaired DEF Both
  <1>10. /\ Scan("escapes", t) = Position("escapes", t, Len(t) + 1, 0, "code", q)
         /\ Scan("escapes", o) = Position("escapes", o, Len(t) + 1, 0, "code", q)
    BY <1>1, <1>3, <1>9, ReachEnd
  <1> QED
    BY <1>2, <1>3, <1>10, Fields

-----------------------------------------------------------------------------
(* Every text that is written                                              *)

\* A text is made of what its alphabet is made of.
TextType ==
    /\ kind \in DOMAIN Alphabets
    /\ Alphabets[kind].reader = "lean" => text \in Seq(Characters)
    /\ Alphabets[kind].reader = "markdown" => text \in Seq(Lines)

\* Writing keeps the text over its alphabet.
LEMMA TextTyped == Spec => []TextType
  <1>1. Init => TextType
    BY DEF Init, TextType
  <1>2. TextType /\ [Next]_vars => TextType'
    <2> SUFFICES ASSUME TextType, Write PROVE TextType'
      BY DEF TextType, Next, vars
    <2>1. PICK f \in Alphabets[kind].fragments : text' = text \o f
      BY DEF Write
    <2>2. kind' = kind
      BY DEF Write
    <2>3. \/ Alphabets[kind].reader = "lean" /\ f \in Seq(Characters)
          \/ Alphabets[kind].reader = "markdown" /\ f \in Seq(Lines)
      BY <2>1, AlphabetAssumption DEF TextType
    <2> QED
      BY <2>1, <2>2, <2>3 DEF TextType
  <1> QED
    BY <1>1, <1>2, PTL DEF Spec

\* TrustedTablesAreSeen of gfm_table.py's find_tables, read both ways.
THEOREM AlwaysTrustedTablesAreSeen == Spec => []TrustedTablesAreSeen
  <1>1. TextType => TrustedTablesAreSeen
    BY TrustedAreSeenAlways DEF TextType, TrustedTablesAreSeen
  <1> QED
    BY <1>1, TextTyped, PTL

\* StrippingIsFinal of the three scanners: a second reading finds no comment and
\* no string in what one of them wrote, line by line.
THEOREM StrippingIsAlwaysFinal == Spec => []StrippingIsFinal
  <1>1. TextType => StrippingIsFinal
    BY FinalityHolds DEF TextType, StrippingIsFinal, Texts
  <1> QED
    BY <1>1, TextTyped, PTL

\* ScannersAgree of the surface gate, the inventory of a report and the gate
\* against escapes, on every text without character literals and quoted names.
THEOREM ScannersAlwaysAgree == Spec => []ScannersAgree
  <1>1. ASSUME NEW t \in Texts PROVE Agreement(t)
    BY ReportAgrees, EscapesAgree DEF Agreement, Plainly
  <1>2. TextType => ScannersAgree
    BY <1>1 DEF TextType, ScannersAgree, Texts
  <1> QED
    BY <1>2, TextTyped, PTL
=============================================================================
