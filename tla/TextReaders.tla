---------------------------- MODULE TextReaders ----------------------------
(***************************************************************************)
(* The readers of texts on every text: a text is written fragment by       *)
(* fragment, over an alphabet of Lean fragments or of Markdown lines, and  *)
(* each state holds one text.  What is to hold of the readers is stated of *)
(* the text that is there.                                                 *)
(***************************************************************************)
EXTENDS LeanScanners, GfmTables

CONSTANT Alphabets  \* [reader, fragments, most] by name: what writes texts for whom,
                    \* of at most so many fragments

\* The lines the patterns of gfm_table.py tell apart.
Fences  == {"none", "backtick", "tilde"}
Endings == {"none", "blank", "close"}
Lines ==
    [cells: Nat, inner: Nat, fence: Fences, html: Endings,
     marks: SUBSET {"blank", "indented", "shifted", "text", "delimiter", "setext", "break",
                    "quote", "item", "tag", "info", "ends"}]

ASSUME AlphabetAssumption ==
    \A k \in DOMAIN Alphabets :
        \/ Alphabets[k].reader = "lean" /\ Alphabets[k].fragments \subseteq Seq(Characters)
        \/ Alphabets[k].reader = "markdown" /\ Alphabets[k].fragments \subseteq Seq(Lines)

VARIABLES kind, text, size
vars == <<kind, text, size>>

Init == kind \in DOMAIN Alphabets /\ text = <<>> /\ size = 0

Write ==
    /\ size < Alphabets[kind].most
    /\ \E f \in Alphabets[kind].fragments : text' = text \o f
    /\ size' = size + 1
    /\ UNCHANGED kind

Next == Write

Spec == Init /\ [][Next]_vars

Uses(t, c) == \E i \in DOMAIN t : t[i] = c

\* The scanners that stand guard over the same sources agree on what is a
\* comment and what is a string: on texts without the character literals and
\* the quoted names that only some of them know, what the surface gate keeps of
\* a source is what the inventory of a report keeps, and blanking the strings
\* that these keep gives what the gate against escapes reads. (The scanners
\* were written apart: an escape, a nested comment or a dash at the end of one
\* that is read in two ways hides a declaration from one gate.)
Agreement(t) ==
    (\A c \in {Tick, NameBegin, NameEnd} : ~Uses(t, c)) =>
        LET surface == Scan("surface", t)
        IN  ~surface.failed =>
                /\ Scan("report", t).out = surface.out
                /\ Scan("escapes", surface.out).out = Scan("escapes", t).out

ScannersAgree == Alphabets[kind].reader = "lean" => Agreement(text)

\* What a scanner wrote holds no comment and no string that a second reading
\* would find (character literals apart: a tick is read with its neighbours),
\* and a line of it is a line of the source: the declarations are then searched
\* with patterns that report the source's line numbers.
Finality(k, t) ==
    LET s == Scan(k, t)
    IN  ~s.failed => /\ Len(s.out) = Len(t)
                     /\ \A i \in DOMAIN t : (s.out[i] = Newline) <=> (t[i] = Newline)
                     /\ Uses(t, Tick) \/ Scan(k, s.out).out = s.out

StrippingIsFinal ==
    Alphabets[kind].reader = "lean" => \A k \in Scanners : Finality(k, text)

\* A gate that refuses stray rows looks for every table that some renderer may
\* show, a gate that trusts a row only for those that all show: every row that
\* the trusting one accepts is in a table that the refusing one sees, and no
\* line of either is in a code fence or an HTML block, which the two readings
\* of the lines must agree on.
TrustedAreSeen(lines) ==
    LET literal == LiteralLines(lines)
        seen == FindTables(lines, TRUE)
        trusted == FindTables(lines, FALSE)
    IN  /\ \A t \in trusted : \E u \in seen : u.header <= t.header /\ t.last = u.last
        /\ \A t \in seen \cup trusted : \A i \in t.header..t.last : ~literal[i]

TrustedTablesAreSeen == Alphabets[kind].reader = "markdown" => TrustedAreSeen(text)

\* The head of gfm_table.py: the reader "recognizes only rendered table blocks"
\* and declines others "rather than inventing a table".  So a table that is
\* trusted is one that is there for the reading which takes every table that
\* may interrupt a paragraph, as the renderer does.
TrustedTablesAreRendered ==
    Alphabets[kind].reader = "markdown" => FindTables(text, FALSE) \subseteq FindTables(text, TRUE)
=============================================================================
