---------------------------- MODULE LeanScanners ----------------------------
(***************************************************************************)
(* Three scripts read Lean sources, and each has a scanner of its own that *)
(* blanks what is not code before it looks for declarations:               *)
(*  "escapes"  check_proof_escapes.py, for sorry, axiom, opaque and the    *)
(*             like, and for the imports that check_import_dag.py reads;   *)
(*  "surface"  check_public_claim_surfaces.py, for imports and public      *)
(*             declarations;                                               *)
(*  "report"   check_report_theorem_inventory.py, for theorems.            *)
(* A scanner reads a text character by character and writes one character  *)
(* for each: the character itself, a blank, or a newline for a newline.    *)
(*                                                                         *)
(* A text is a sequence of characters; of letters, one stands for all; the *)
(* guillemets of a quoted name are "{" and "}".                            *)
(***************************************************************************)
EXTENDS Naturals, Sequences, FiniteSets

Letter  == "w"
Newline == "\n"
Space   == " "
Quote   == "\""
Escape  == "\\"
Tick    == "'"
NameBegin == "{"
NameEnd   == "}"
Characters == {Letter, Newline, Space, Quote, Escape, Tick, NameBegin, NameEnd, "/", "-"}

Scanners == {"escapes", "surface", "report"}

\* Where a scanner is: the next position, the depth of block comments, whether
\* it is in code, a string or a quoted name, what it has written, and whether
\* it has given up on the text.
StartScan == [at |-> 1, depth |-> 0, mode |-> "code", out |-> <<>>, failed |-> FALSE]

\* The character at a place, if the text has one.
Nothing    == ""
At(t, i)   == IF i \in 1..Len(t) THEN t[i] ELSE Nothing
Pair(t, i) == <<At(t, i), At(t, i + 1)>>
\* What is blanked keeps its length and its lines. Altered form: it is deleted.
BlanksDropped(t, i, j) == <<>>
Blank(c)   == IF c = Newline THEN Newline ELSE Space
Blanks(t, i, j) == [n \in 1..(j - i + 1) |-> Blank(t[i + n - 1])]

\* The end of the line that position i is on, newline excluded.
LineEnd(t, i) ==
    CHOOSE j \in i..Len(t) :
        /\ At(t, j + 1) \in {Newline, Nothing}
        /\ \A k \in (i + 1)..j : t[k] # Newline

\* Go on after position j, with the characters from the current one kept or
\* blanked.
Keep(t, s, j) == [s EXCEPT !.at = j + 1, !.out = @ \o SubSeq(t, s.at, j)]
Wipe(t, s, j) == [s EXCEPT !.at = j + 1, !.out = @ \o Blanks(t, s.at, j)]

\* Where it goes on from there.
Enter(s, mode) == [s EXCEPT !.mode = mode]
Nest(s, depth) == [s EXCEPT !.depth = depth]

BlockOpen  == <<"/", "-">>
BlockClose == <<"-", "/">>
LineOpen   == <<"-", "-">>

\* In a block comment: comments nest.
CommentStep(t, s) ==
    CASE Pair(t, s.at) = BlockOpen  -> Nest(Wipe(t, s, s.at + 1), s.depth + 1)
      [] Pair(t, s.at) = BlockClose -> Nest(Wipe(t, s, s.at + 1), s.depth - 1)
      [] OTHER                      -> Wipe(t, s, s.at)

\* CHAR_LITERAL: a tick, one character or an escaped one, a tick; not next to a
\* letter, and not after another tick. The result is its end, or 0.
CharLiteralEnd(t, i) ==
    LET apart(j) == At(t, i) = Tick /\ At(t, i - 1) \notin {Letter, Tick}
                    /\ At(t, j) = Tick /\ At(t, j + 1) # Letter
    IN  IF At(t, i + 1) = Escape
        THEN IF At(t, i + 2) \notin {Newline, Nothing} /\ apart(i + 3) THEN i + 3 ELSE 0
        ELSE IF At(t, i + 1) \notin {Tick, Newline, Nothing} /\ apart(i + 2) THEN i + 2 ELSE 0

\* In a string of which nothing is kept.
StringStep(t, s) ==
    IF t[s.at] = Escape /\ s.at < Len(t)
    THEN Wipe(t, s, s.at + 1)
    ELSE Enter(Wipe(t, s, s.at), IF t[s.at] = Quote THEN "code" ELSE "string")

\* strip_comments_and_strings of check_proof_escapes.py
EscapesStep(t, s) ==
    LET c == t[s.at]
    IN  CASE s.depth > 0 -> CommentStep(t, s)
          [] s.depth = 0 /\ s.mode = "name" ->
               Enter(Keep(t, s, s.at), IF c = NameEnd THEN "code" ELSE "name")
          [] s.depth = 0 /\ s.mode = "string" -> StringStep(t, s)
          [] s.depth = 0 /\ s.mode = "code" ->
               CASE Pair(t, s.at) = BlockOpen -> Nest(Wipe(t, s, s.at + 1), 1)
                 [] Pair(t, s.at) = LineOpen  -> Wipe(t, s, LineEnd(t, s.at))
                 [] c = Quote                 -> Enter(Wipe(t, s, s.at), "string")
                 [] CharLiteralEnd(t, s.at) > 0 -> Wipe(t, s, CharLiteralEnd(t, s.at))
                 [] c = NameBegin             -> Enter(Keep(t, s, s.at), "name")
                 [] OTHER                     -> Keep(t, s, s.at)

\* strip_lean_comments of check_public_claim_surfaces.py: strings stay.
SurfaceStep(t, s) ==
    LET c == t[s.at]
    IN  CASE s.depth > 0 -> CommentStep(t, s)
          [] s.depth = 0 /\ s.mode = "string" ->
               IF c = Escape /\ s.at < Len(t)
               THEN Keep(t, s, s.at + 1)
               ELSE Enter(Keep(t, s, s.at), IF c = Quote THEN "code" ELSE "string")
          [] s.depth = 0 /\ s.mode = "code" ->
               CASE Pair(t, s.at) = BlockOpen -> Nest(Wipe(t, s, s.at + 1), 1)
                 [] Pair(t, s.at) = LineOpen  -> Wipe(t, s, LineEnd(t, s.at))
                 [] OTHER ->
                      Enter(Keep(t, s, s.at), IF c = Quote THEN "string" ELSE "code")

\* strip_block_comments of check_report_theorem_inventory.py: strings and names
\* that end on their line are copied at once.
NameEndAt(t, i) ==
    {j \in (i + 1)..Len(t) : t[j] = NameEnd /\ \A k \in (i + 1)..(j - 1) : t[k] \notin {Newline, NameEnd}}

\* Altered form of StringEnd: a quote after a backslash ends it like any other.
StringEndPlain(t, i) ==
    LET ends == {j \in (i + 1)..Len(t) : t[j] = Quote}
    IN  IF ends = {} THEN Len(t) ELSE CHOOSE j \in ends : \A k \in ends : j <= k

StringEnd(t, i) ==
    LET escaped[j \in i..Len(t)] == j > i + 1 /\ t[j - 1] = Escape /\ ~escaped[j - 1]
        ends == {j \in (i + 1)..Len(t) : t[j] = Quote /\ ~escaped[j]}
    IN  IF ends = {} THEN Len(t) ELSE CHOOSE j \in ends : \A k \in ends : j <= k

ReportStep(t, s) ==
    LET c == t[s.at]
    IN  CASE s.depth > 0 -> CommentStep(t, s)
          [] s.depth = 0 ->
               CASE Pair(t, s.at) = BlockOpen -> Nest(Wipe(t, s, s.at + 1), 1)
                 [] Pair(t, s.at) = LineOpen  -> Wipe(t, s, LineEnd(t, s.at))
                 [] c = NameBegin /\ NameEndAt(t, s.at) # {} ->
                      Keep(t, s, CHOOSE j \in NameEndAt(t, s.at) : TRUE)
                 [] c = Quote                 -> Keep(t, s, StringEnd(t, s.at))
                 [] OTHER                     -> Keep(t, s, s.at)

ScanDone(t, s) == s.failed \/ s.at > Len(t)

\* At the end of the text "surface" and "report" refuse a comment that is open,
\* "surface" an open string as well.
ScanEnd(k, t, s) ==
    [s EXCEPT !.failed = \/ k # "escapes" /\ s.depth > 0
                         \/ k = "surface" /\ s.mode = "string"]

ScanStep(k, t, s) ==
    LET next == CASE k = "escapes" -> EscapesStep(t, s)
                  [] k = "surface" -> SurfaceStep(t, s)
                  [] k = "report"  -> ReportStep(t, s)
    IN  IF next.at > Len(t) THEN ScanEnd(k, t, next) ELSE next

\* The whole scan at once.
Scan(k, t) ==
    LET f[n \in 0..Len(t)] ==
            IF n = 0 THEN StartScan
            ELSE LET s == f[n - 1] IN IF ScanDone(t, s) THEN s ELSE ScanStep(k, t, s)
    IN  f[Len(t)]
=============================================================================
