----------------------------- MODULE TableCells -----------------------------
(***************************************************************************)
(* How a table row is split into cells, src/render_parse.c.  A row is a    *)
(* sequence of characters; a pipe ends a cell unless it is escaped or      *)
(* stands in a code span, a link, an autolink or a tag.  The scan looks    *)
(* ahead to the end of the row for the closing half of each of these.      *)
(*                                                                         *)
(* "bt" is the backtick, "q" the double quote; the white space of a row is *)
(* " ", and "1" stands for the digits.                                     *)
(***************************************************************************)
EXTENDS Integers, Sequences, FiniteSets, SequencesExt

CONSTANTS
    Alphabets,  \* sets of characters, one of which a row is written with
    MaxRow      \* bound: the longest row

VARIABLES
    alphabet,   \* the characters of this row
    row         \* the row read so far

cellVars == <<alphabet, row>>

Letters == {"a", "b"}
Digits  == {"1"}

-----------------------------------------------------------------------------
(* White space and the pipes around a row.                                  *)

Inked(s) == {i \in 1..Len(s) : s[i] # " "}
Trim(s) ==
    IF Inked(s) = {} THEN <<>>
    ELSE SubSeq(s, Min(Inked(s)), Max(Inked(s)))

Indent(s) == IF Inked(s) = {} THEN Len(s) ELSE Min(Inked(s)) - 1

(* The row between its outer pipes; no row is <<FALSE>>.                    *)
NoRow == [is |-> FALSE, text |-> <<>>]
RowBounds(s) ==
    LET t     == Trim(s)
        led   == t # <<>> /\ Head(t) = "|"
        inner == IF led THEN Tail(t) ELSE t
        text  == IF inner # <<>> /\ Last(inner) = "|" THEN Front(inner) ELSE inner
    IN  IF t = <<>> \/ (~led /\ Indent(s) >= 4) THEN NoRow
        ELSE IF "|" \in ToSet(text) \/ (led /\ text # <<>>) THEN [is |-> TRUE, text |-> text]
        ELSE NoRow

-----------------------------------------------------------------------------
(* Look-ahead: does what opens before position i close in the row?          *)

RunAt(s, i) == Cardinality({j \in i..Len(s) : \A k \in i..j : s[k] = "bt"})

(* The runs of exactly n backticks from position i on.                      *)
Runs(s, i, n) ==
    {j \in i..Len(s) : s[j] = "bt" /\ (j = i \/ s[j - 1] # "bt") /\ RunAt(s, j) = n}

(* A character that its predecessor escapes.                                *)
Escaped(s, i, from) ==
    LET slashes == {j \in from..(i - 1) : \A k \in j..(i - 1) : s[k] = "\\"}
    IN  Cardinality(slashes) % 2 = 1

(* The nesting of open and close after each character; open counts one.     *)
Depth(s, from, to, open, close, Live(_)) ==
    1 + Cardinality({j \in from..to : s[j] = open /\ Live(j)})
      - Cardinality({j \in from..to : s[j] = close /\ Live(j)})

HasClosingBracket(s, i) ==
    LET Live(j) == ~Escaped(s, j, i)
    IN  \E to \in i..Len(s) : Depth(s, i, to, "[", "]", Live) = 0

(* Quotes hide the parentheses of a destination, and its other quotes.      *)
HasClosingDestination(s, i) ==
    LET Quoted(j) == Cardinality({k \in i..(j - 1) : s[k] = "q" /\ ~Escaped(s, k, i)}) % 2 = 1
        Live(j)   == ~Escaped(s, j, i) /\ ~Quoted(j)
    IN  \E to \in i..Len(s) : Depth(s, i, to, "(", ")", Live) = 0

(* The end of what "<" at i opens: the first ">" outside quotes, or none.   *)
AngleEnd(s, i) ==
    LET Quoted(j) == Cardinality({k \in (i + 1)..(j - 1) : s[k] = "q"}) % 2 = 1
        ends      == {j \in (i + 1)..Len(s) : s[j] = ">" /\ ~Quoted(j)}
    IN  IF Len(s) - i + 1 < 3 \/ ends = {} THEN 0 ELSE Min(ends)

IsAutolink(body) ==
    LET ats    == {j \in 1..Len(body) : body[j] = "@"}
        colons == {j \in 1..Len(body) : body[j] = ":"}
        mail   == ats # {} /\ Min(ats) > 1 /\ Min(ats) < Len(body)
        colon  == Min(colons)
    IN  /\ body # <<>> /\ " " \notin ToSet(body)
        /\ IF mail THEN ToSet(body) \cap {"<", ">"} = {}
           ELSE /\ colons # {} /\ colon > 1
                /\ body[1] \in Letters
                /\ \A j \in 2..(colon - 1) : body[j] \in Letters \cup Digits \cup {"+", ".", "-"}
                /\ \A j \in (colon + 1)..Len(body) : body[j] \notin {"<", ">"}

IsTag(body) ==
    LET name  == IF body # <<>> /\ Head(body) = "/" THEN Tail(body) ELSE body
        ends  == {j \in 2..Len(name) : name[j] \notin Letters \cup Digits \cup {"-"}}
    IN  IF Len(body) >= 3 /\ SubSeq(body, 1, 3) = <<"!", "-", "-">>
        THEN \E j \in 4..(Len(body) - 1) : body[j] = "-" /\ body[j + 1] = "-"
        ELSE /\ name # <<>> /\ name[1] \in Letters
             /\ ends = {} \/ /\ name[Min(ends)] \in {"/", " "}
                             /\ Cardinality({j \in Min(ends)..Len(name) : name[j] = "q"}) % 2 = 0

(* What the angle bracket at i protects: nothing, an autolink or a tag.     *)
AngleMode(s, i) ==
    LET upto == AngleEnd(s, i)
        body == SubSeq(s, i + 1, Min({j \in i..upto : s[j] = ">"}) - 1)
    IN  IF upto = 0 THEN "none"
        ELSE IF IsAutolink(body) THEN "autolink"
        ELSE IF IsTag(body) THEN "tag" ELSE "none"

-----------------------------------------------------------------------------
(* The scan for the pipe that ends a cell.                                  *)

Scanning == [at |-> 1, bracket |-> 0, paren |-> 0, angle |-> "none",
             quoted |-> FALSE, after |-> FALSE, found |-> FALSE]

(* One construct further.                                                   *)
InAngle(s, m) ==
    LET c == s[m.at]
    IN  IF m.angle = "tag" /\ m.quoted THEN [m EXCEPT !.at = @ + 1, !.quoted = c # "q"]
        ELSE IF m.angle = "tag" /\ c = "q" THEN [m EXCEPT !.at = @ + 1, !.quoted = TRUE]
        ELSE [m EXCEPT !.at = @ + 1, !.angle = IF c = ">" THEN "none" ELSE @]

(* Mutant: a code span hides nothing.                                       *)
PastTicks(s, i) == i + RunAt(s, i)

(* Past a code span, or past the backticks that open none.                  *)
PastCode(s, i) ==
    LET n == RunAt(s, i)
    IN  IF Runs(s, i + n, n) = {} THEN i + n ELSE Min(Runs(s, i + n, n)) + n

ScanStep(s, m) ==
    LET c    == s[m.at]
        next == [m EXCEPT !.at = @ + 1]
        past == [next EXCEPT !.after = FALSE]
    IN  IF m.angle # "none" THEN InAngle(s, m)
        ELSE IF c = "\\" THEN [m EXCEPT !.at = @ + 2]
        ELSE IF c = "bt" THEN [past EXCEPT !.at = PastCode(s, m.at)]
        ELSE IF c = "[" THEN [next EXCEPT !.bracket = IF HasClosingBracket(s, m.at + 1) THEN @ + 1 ELSE @]
        ELSE IF c = "]" THEN
            IF m.bracket = 0 THEN next
            ELSE [next EXCEPT !.bracket = @ - 1, !.after = m.bracket = 1]
        ELSE IF m.after /\ c = "(" /\ HasClosingDestination(s, m.at + 1) THEN [past EXCEPT !.paren = 1]
        ELSE IF c = "(" /\ m.bracket = 0 THEN [past EXCEPT !.paren = @ + 1]
        ELSE IF c = ")" /\ m.paren > 0 THEN [past EXCEPT !.paren = @ - 1]
        ELSE IF c = "<" /\ AngleMode(s, m.at) # "none" THEN [past EXCEPT !.angle = AngleMode(s, m.at)]
        ELSE IF c = "|" /\ m.bracket = 0 /\ m.paren = 0 THEN [m EXCEPT !.found = TRUE]
        ELSE past

RECURSIVE ScanOn(_, _)
ScanOn(s, m) == IF m.found \/ m.at > Len(s) THEN m ELSE ScanOn(s, ScanStep(s, m))

(* The next pipe that ends a cell from position i on; past the end if none. *)
NextPipe(s, i) ==
    LET m == ScanOn(s, [Scanning EXCEPT !.at = i])
    IN  IF m.found THEN m.at ELSE Len(s) + 1

RECURSIVE PipesFrom(_, _)
PipesFrom(s, i) ==
    LET p == NextPipe(s, i)
    IN  IF p > Len(s) THEN <<>> ELSE <<p>> \o PipesFrom(s, p + 1)
Pipes(s) == PipesFrom(s, 1)

CountCells(line) == IF RowBounds(line).is THEN Len(Pipes(RowBounds(line).text)) + 1 ELSE 0

(* The text of a cell; clamped, the last one takes the rest of the row.     *)
CellText(line, cell, clamp) ==
    LET text == RowBounds(line).text
        cuts == <<0>> \o Pipes(text) \o <<Len(text) + 1>>
    IN  IF cell > CountCells(line) THEN <<>>
        ELSE Trim(SubSeq(text, cuts[cell] + 1, (IF clamp THEN Len(text) + 1 ELSE cuts[cell + 1]) - 1))

-----------------------------------------------------------------------------
(* A cell as the inline renderer receives it: a pipe escaped inside a code  *)
(* span loses its backslash, which the renderer would show.                 *)

Copying == [at |-> 1, ticks |-> 0, escaped |-> FALSE, out |-> <<>>]

CopyStep(s, m) ==
    LET n    == RunAt(s, m.at)
        bare == m.ticks > 0 /\ s[m.at] = "\\" /\ m.at < Len(s) /\ s[m.at + 1] = "|"
        i    == IF bare THEN m.at + 1 ELSE m.at
    IN  IF s[m.at] = "bt" /\ ~m.escaped
        THEN [m EXCEPT !.at = @ + n, !.out = @ \o SubSeq(s, m.at, m.at + n - 1),
                       !.ticks = IF @ = n THEN 0
                                 ELSE IF @ = 0 /\ Runs(s, m.at + n, n) # {} THEN n ELSE @]
        ELSE [m EXCEPT !.at = i + 1, !.out = Append(@, s[i]),
                       !.escaped = IF m.ticks > 0 THEN @ ELSE ~@ /\ s[i] = "\\"]

RECURSIVE CopyOn(_, _)
CopyOn(s, m) == IF m.at > Len(s) THEN m.out ELSE CopyOn(s, CopyStep(s, m))
CopyCell(s) == CopyOn(s, Copying)

-----------------------------------------------------------------------------
CellsInit == alphabet \in Alphabets /\ row = <<>>

Read(c) ==
    /\ Len(row) < MaxRow
    /\ row' = Append(row, c) /\ UNCHANGED alphabet

CellsNext == \E c \in alphabet : Read(c)

CellsSpec == CellsInit /\ [][CellsNext]_cellVars

-----------------------------------------------------------------------------
(* Markdown's own reading, from left to right: the positions that code      *)
(* spans cover, and those that a backslash outside of them escapes.         *)
RECURSIVE Reading(_, _)
Reading(s, i) ==
    LET n      == RunAt(s, i)
        closes == Runs(s, i + n, n)
        r      == Reading(s, IF s[i] = "bt" THEN PastCode(s, i)
                             ELSE IF s[i] = "\\" THEN i + 2 ELSE i + 1)
    IN  IF i > Len(s) THEN [code |-> {}, escaped |-> {}]
        ELSE IF s[i] = "bt" /\ closes # {} THEN [r EXCEPT !.code = @ \cup i..(Min(closes) + n - 1)]
        ELSE IF s[i] = "\\" THEN [r EXCEPT !.escaped = @ \cup {i + 1}]
        ELSE r

Text == RowBounds(row).text
Cells == {CellText(row, c, FALSE) : c \in 1..CountCells(row)}
Plain(s) == ToSet(s) \cap {"[", "]", "(", ")", "<", ">"} = {}

(* The row without the space around it, where it is cut, by its outer pipes *)
(* too, and the pipes in it that are escaped.                               *)
Whole == Trim(row)
Led == IF Whole # <<>> /\ Head(Whole) = "|" THEN 1 ELSE 0
Cuts == {p + Led : p \in ToSet(Pipes(Text))} \cup (1..Led) \cup (Led + Len(Text) + 1..Len(Whole))
EscapedPipes == {p \in Reading(Whole, 1).escaped : p <= Len(Whole) /\ Whole[p] = "|"}
EndsEscaped == Len(Whole) \in EscapedPipes

(* The cells are Markdown's.  A row without brackets is cut at the pipes    *)
(* that are neither in a code span nor escaped, and at no other, although   *)
(* the scan starts again in every cell; no cell is cut again on its own,    *)
(* and the copy that is rendered lacks nothing but the backslashes before   *)
(* pipes in its own code spans.  A row whose last pipe is escaped is not,   *)
(* see EscapedPipesKept.                                                    *)
CutsAreFree ==
    Cuts = {p \in 1..Len(Whole) : Whole[p] = "|"} \ (Reading(Whole, 1).code \cup EscapedPipes)
Unslashed(t) ==
    LET code    == Reading(t, 1).code
        Kept(i) == ~(i \in code /\ t[i] = "\\" /\ i < Len(t) /\ t[i + 1] = "|")
    IN  FoldLeft(LAMBDA s, i : IF Kept(i) THEN Append(s, t[i]) ELSE s, <<>>, [i \in 1..Len(t) |-> i])
CellsReadAlone ==
    /\ RowBounds(row).is /\ Plain(Whole) /\ ~EndsEscaped => CutsAreFree
    /\ \A t \in Cells : Pipes(t) = <<>> /\ CopyCell(t) = Unslashed(t)

(* An escaped pipe is a character of its cell (src/README.md:524).          *)
EscapedPipesKept ==
    RowBounds(row).is /\ Plain(Whole) => Cuts \cap EscapedPipes = {}

=============================================================================
