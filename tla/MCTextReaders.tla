---------------------------- MODULE MCTextReaders ----------------------------
(***************************************************************************)
(* Alphabets for TLC.                                                      *)
(***************************************************************************)
EXTENDS TextReaders

\* Lean: characters, the pairs that open, close and start comments, a quote as a
\* character literal, and an escaped one.
MCLeanFragments ==
    {<<c>> : c \in {Letter, Newline, Quote, Escape, Tick, NameBegin, NameEnd, "/", "-"}}
        \cup {BlockOpen, BlockClose, LineOpen, <<Tick, Quote, Tick>>, <<Escape, Quote>>}

Line(cells, inner, fence, html, marks) ==
    <<[cells |-> cells, inner |-> inner, fence |-> fence, html |-> html, marks |-> marks]>>

\* Lines of text, of two cells, under a heading or a table.
Plain == Line(1, 1, "none", "none", {"text"})
Delimiter == Line(1, 1, "none", "none", {"text", "delimiter"})
Underline == Line(1, 1, "none", "none", {"text", "setext"})

\* Markdown: the lines a report or a README is made of.
MCMarkdownLines ==
    {Plain, Delimiter, Underline,
     Line(0, 0, "none", "none", {"blank"}),
     Line(2, 2, "none", "none", {"text"}),
     Line(2, 2, "none", "none", {"text", "delimiter"}),
     Line(1, 1, "none", "none", {"text", "delimiter", "setext", "break"}),
     Line(2, 2, "none", "none", {"indented", "shifted"}),
     Line(2, 2, "none", "none", {"shifted", "delimiter"}),
     Line(1, 1, "backtick", "none", {"text"}),
     Line(1, 1, "backtick", "none", {"text", "info"}),
     Line(1, 1, "none", "blank", {"text"}),
     Line(1, 1, "none", "close", {"text"}),
     Line(1, 1, "none", "close", {"text", "ends"}),
     Line(1, 1, "none", "none", {"text", "tag"}),
     Line(1, 2, "none", "none", {"text", "item"}),
     Line(1, 2, "none", "none", {"text", "quote"})}

Paragraphs == [reader |-> "markdown", fragments |-> {Plain, Delimiter, Underline}, most |-> 8]

\* Long texts of the three kinds that paragraphs and tables in them are made of,
\* and short texts of all kinds.
MCAlphabets ==
    [lean |-> [reader |-> "lean", fragments |-> MCLeanFragments, most |-> 5],
     markdown |-> [reader |-> "markdown", fragments |-> MCMarkdownLines, most |-> 4],
     paragraphs |-> Paragraphs]

MCParagraphs == [paragraphs |-> Paragraphs]
=============================================================================
