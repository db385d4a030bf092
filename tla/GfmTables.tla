------------------------------ MODULE GfmTables ------------------------------
(***************************************************************************)
(* scripts/gfm_table.py: which lines of a Markdown text a renderer shows   *)
(* as a table.  The gates that read a published table (the README's status *)
(* rows, the inventory of a report) read it through this module, so that a *)
(* row counts only where a reader meets it.  It reads the lines twice:     *)
(* first for the literal ones (code fences and HTML blocks), then for the  *)
(* tables.                                                                 *)
(*                                                                         *)
(* A line is what the patterns make of it:                                 *)
(*   cells   the cells it splits into, none for a blank or indented line   *)
(*   inner   the same without a list marker or leading blanks              *)
(*   fence   the character of a code fence that it could open or close     *)
(*   html    how the HTML block that it starts ends ("none" for no start)  *)
(*   marks   the other patterns it matches                                 *)
(* A mark is "blank", "indented" (four columns), "shifted" (some), "text"  *)
(* (no blank in front), "delimiter", "setext", "break" (headings, thematic *)
(* breaks), "quote", "item", "tag" (a tag alone), "info" (a fence with     *)
(* text after it), "ends" (the end of its own HTML block, or of one that   *)
(* is open).                                                               *)
(***************************************************************************)
EXTENDS Naturals, Sequences, FiniteSets

Has(line, mark) == mark \in line.marks

\* split_cells leaves an indented line alone.
Cells(line) == IF Has(line, "indented") THEN 0 ELSE line.cells

OpensFence(line) == line.fence # "none"

ClosesFence(line, fence) == line.fence = fence /\ ~Has(line, "info")

StartsHtml(line) == line.html # "none" \/ Has(line, "tag")

\* ends_table
EndsTable(line) ==
    \/ Has(line, "blank") \/ Has(line, "indented")
    \/ Has(line, "break") \/ Has(line, "quote") \/ Has(line, "item")
    \/ OpensFence(line) \/ StartsHtml(line)

\* _closes_paragraph: a tag alone does not interrupt a paragraph.
ClosesParagraph(line) ==
    \/ Has(line, "blank")
    \/ Has(line, "break") \/ Has(line, "setext") \/ Has(line, "quote") \/ Has(line, "item")
    \/ OpensFence(line) \/ line.html # "none"

Max0(S) == IF S = {} THEN 0 ELSE CHOOSE m \in S : \A n \in S : n <= m

\* The cells that _opens_table sees in a line: in a list item those after the
\* marker, and in a line that an item above contains those after the blanks.
ContainedCells(lines, header, i) ==
    LET line == lines[i]
        marked == {j \in 1..(i - 1) : Has(lines[j], "item")}
        flush == {j \in 1..(i - 1) : Has(lines[j], "text") /\ ~Has(lines[j], "item")}
    IN  CASE Has(lines[header], "item") /\ (i = header \/ Has(line, "shifted")) -> line.inner
          [] ~(Has(lines[header], "item") /\ (i = header \/ Has(line, "shifted")))
             /\ ~Has(line, "indented") -> line.cells
          [] OTHER -> IF Max0(marked) > Max0(flush) THEN line.inner ELSE 0

\* _opens_table
OpensTable(lines, i) ==
    /\ i < Len(lines)
    /\ ContainedCells(lines, i, i) > 0
    /\ ContainedCells(lines, i, i + 1) = ContainedCells(lines, i, i)
    /\ Has(lines[i + 1], "delimiter")
    /\ ~Has(lines[i + 1], "setext")
    /\ ~EndsTable(lines[i + 1])

\* _literal_lines, one line after the other. A tag alone starts an HTML block
\* where no paragraph is open, and in a table.
StartLines == [at |-> 1, fence |-> "none", html |-> "none", paragraph |-> FALSE,
               table |-> FALSE, literal |-> <<>>]

TagStarts(line, s) == Has(line, "tag") /\ (~s.paragraph \/ s.table)

LineStep(lines, s) ==
    LET line == lines[s.at]
        shown == s.fence = "none" /\ s.html = "none"
        literal == ~shown \/ OpensFence(line) \/ line.html # "none" \/ TagStarts(line, s)
    IN  [at |-> s.at + 1,
         fence |-> IF s.fence # "none"
                   THEN IF ClosesFence(line, s.fence) THEN "none" ELSE s.fence
                   ELSE IF shown THEN line.fence ELSE "none",
         html |-> CASE s.html # "none" ->
                         IF (s.html = "blank" /\ Has(line, "blank"))
                            \/ (s.html = "close" /\ Has(line, "ends")) THEN "none" ELSE s.html
                    [] s.html = "none" /\ shown /\ ~OpensFence(line) ->
                         IF line.html # "none"
                         THEN IF Has(line, "ends") THEN "none" ELSE line.html
                         ELSE IF TagStarts(line, s) THEN "blank" ELSE "none"
                    [] OTHER -> "none",
         paragraph |-> /\ ~literal /\ ~ClosesParagraph(line)
                       /\ s.paragraph \/ ~Has(line, "indented")
                       /\ ~(s.table /\ EndsTable(line)),
         table |-> /\ ~literal /\ ~(s.table /\ EndsTable(line))
                   /\ s.table \/ OpensTable(lines, s.at),
         literal |-> Append(s.literal, literal)]

LiteralLines(lines) ==
    LET f[n \in 0..Len(lines)] == IF n = 0 THEN StartLines ELSE LineStep(lines, f[n - 1])
    IN  f[Len(lines)].literal

\* find_tables: a line is in a container from a quote or an item to the next
\* line without blanks in front.
InContainer(lines, i) ==
    LET opening == {j \in 1..i : Has(lines[j], "quote") \/ Has(lines[j], "item")}
        flush == {j \in 1..i : Has(lines[j], "text")} \ opening
    IN  Max0(opening) > Max0(flush)

\* The line may begin or continue a paragraph.
Running(lines, literal, i) == ~literal[i] /\ ~ClosesParagraph(lines[i])

BeginsParagraph(lines, literal, i) ==
    Running(lines, literal, i) /\ (i = 1 \/ ~Running(lines, literal, i - 1))

\* The second line delimits a table under the first, the two of any width.
Delimits(lines, literal, i) ==
    /\ Cells(lines[i + 1]) > 0 /\ Has(lines[i + 1], "delimiter")
    /\ ~literal[i + 1]
    /\ ~EndsTable(lines[i + 1])
    /\ ~Has(lines[i + 1], "setext")
    /\ ~(i > 1 /\ Has(lines[i], "setext") /\ ~EndsTable(lines[i - 1]))

\* The lines from the last blank one to the delimiter are in no container.
Uncontained(lines, i) ==
    LET first == 1 + Max0({j \in 1..(i - 1) : Has(lines[j], "blank")})
    IN  \A j \in first..(i + 1) : ~InContainer(lines, j)

\* Altered form of TableEnd: the body runs to the next blank line.
TableEndBlank(lines, i) ==
    LET broken == {j \in (i + 2)..Len(lines) : Has(lines[j], "blank")}
    IN  IF broken = {} THEN Len(lines)
        ELSE (CHOOSE j \in broken : \A k \in broken : j <= k) - 1

\* The last line of the table whose header is line i.
TableEnd(lines, i) ==
    LET broken == {j \in (i + 2)..Len(lines) : EndsTable(lines[j]) \/ Cells(lines[j]) = 0}
    IN  IF broken = {} THEN Len(lines)
        ELSE (CHOOSE j \in broken : \A k \in broken : j <= k) - 1

StartTables == [at |-> 1, burned |-> FALSE, tables |-> {}]

\* One round of find_tables. A paragraph has one attempt at a table: a header
\* of another width than its delimiter spoils the lines after it.
TableStep(lines, literal, interrupting, s) ==
    LET i == s.at
        next == [s EXCEPT !.at = i + 1]
    IN  CASE ~Running(lines, literal, i) -> [next EXCEPT !.burned = FALSE]
          [] Running(lines, literal, i) /\ ~Delimits(lines, literal, i) -> next
          [] Running(lines, literal, i) /\ Delimits(lines, literal, i)
             /\ Cells(lines[i]) # Cells(lines[i + 1]) -> [next EXCEPT !.burned = TRUE]
          [] OTHER ->
               IF \/ s.burned
                  \/ ~interrupting /\ ~BeginsParagraph(lines, literal, i)
                  \/ ~Uncontained(lines, i)
               THEN next
               ELSE [s EXCEPT !.at = TableEnd(lines, i) + 1,
                              !.tables = @ \cup {[header |-> i, last |-> TableEnd(lines, i)]}]

TablesDone(lines, s) == s.at >= Len(lines)

FindTables(lines, interrupting) ==
    LET literal == LiteralLines(lines)
        f[n \in 0..Len(lines)] ==
            IF n = 0 THEN StartTables
            ELSE LET s == f[n - 1]
                 IN  IF TablesDone(lines, s) THEN s ELSE TableStep(lines, literal, interrupting, s)
    IN  f[Len(lines)].tables
=============================================================================
