---------------------------- MODULE TableLayout ----------------------------
(***************************************************************************)
(* How a table is laid out for the terminal, src/render_parse.c: the       *)
(* widths of its columns are measured and fitted, its cells wrapped, and   *)
(* its rows written between wires.  A full table is measured as a whole; a *)
(* table written row by row is measured by its header and first row, or by *)
(* its first two without a header, and its columns are fitted again when   *)
(* the width changes between two rows.                                     *)
(*                                                                         *)
(* A cell is what the inline renderer made of it: runs of glyphs in one    *)
(* style.  A style is the sequence of what the terminal is told, "osc"     *)
(* opening a link, and a style sheet names those of wires and headers.     *)
(***************************************************************************)
EXTENDS Integers, Sequences, FiniteSets, SequencesExt

CONSTANTS
    Tables,     \* the tables: [hasHeader, header, rows, align]
    Options,    \* how they are written: [wire, byRow, styled, quoted, prefix]
    Widths,     \* the widths of the terminal
    MaxColumns, \* the most columns a table is given
    MaxResizes  \* bound: changes of the width in a table

VARIABLES
    table,      \* the table
    opts,       \* how it is written
    width,      \* the width of the terminal
    fitted,     \* the available width its columns were fitted to
    resizes,    \* how often the width has changed
    cols,       \* its columns: widths, and what the measured cells need
    next,       \* the next of its rows
    phase,      \* "new", "open" (row by row) or "done"
    out         \* the lines written

layoutVars == <<table, opts, width, fitted, resizes, cols, next, phase, out>>

(* A table has its header's columns.  Without a header it has those of its  *)
(* first rows, which later ones widen unless it is written row by row.      *)
Opening == IF table.hasHeader THEN 1 ELSE 2
CellCount ==
    IF table.hasHeader THEN Len(table.header)
    ELSE IF opts.byRow THEN Len(Head(table.rows))
    ELSE Max({Len(r) : r \in ToSet(table.rows)})
TruncatedColumns == CellCount > MaxColumns
NCols == IF TruncatedColumns THEN MaxColumns ELSE CellCount
Columns == 1..NCols
Align(c) == IF table.hasHeader THEN table.align[c] ELSE "left"

-----------------------------------------------------------------------------
(* Pieces: the words and the spaces between them, a style each.             *)

GlyphWidth(g) == IF g = "W" THEN 2 ELSE 1
IsSpace(g) == g = " "
Nbsp == "~"

TextWidth(s) == Len(s) + Cardinality({i \in 1..Len(s) : GlyphWidth(s[i]) = 2})
PieceWidth(p) == TextWidth(p.text)

RECURSIVE LineWidth(_)
LineWidth(line) == IF line = <<>> THEN 0 ELSE PieceWidth(Head(line)) + LineWidth(Tail(line))

Piece(text, style, space) == [text |-> text, style |-> style, space |-> space]

(* The length of what text starts with: a word or spaces.                   *)
Lead(text) ==
    LET others == {i \in 1..Len(text) : IsSpace(text[i]) # IsSpace(text[1])}
    IN  IF others = {} THEN Len(text) ELSE Min(others) - 1

RECURSIVE TextPieces(_, _)
TextPieces(text, style) ==
    LET n == Lead(text)
    IN  IF text = <<>> THEN <<>>
        ELSE <<Piece(SubSeq(text, 1, n), style, IsSpace(text[1]))>>
             \o TextPieces(SubSeq(text, n + 1, Len(text)), style)
RunPieces(run) == TextPieces(run.text, run.style)
CellPieces(cell) == FlattenSeq([i \in 1..Len(cell) |-> RunPieces(cell[i])])
PlainText(cell) == FlattenSeq([i \in 1..Len(cell) |-> cell[i].text])

-----------------------------------------------------------------------------
(* Wrapping a cell.                                                         *)

(* Mutant: the end of a piece that was begun on an earlier line is lost.    *)
ChunkUnlessBegun(line, piece, run) ==
    IF run = <<>> \/ (line = <<>> /\ run # piece.text) THEN line
    ELSE Append(line, [piece EXCEPT !.text = run])

(* The chunk of a piece that ends a line or the piece.                      *)
Chunk(line, piece, run) ==
    IF run = <<>> THEN line
    ELSE Append(line, [piece EXCEPT !.text = run])

(* A word that is wider than the column: glyph after glyph, every line      *)
(* filled.  m.run is what of piece m.i stands on line m.line.               *)
SplitGlyph(m, piece, g, col) ==
    LET used == LineWidth(m.line) + TextWidth(m.run)
    IN  IF used + GlyphWidth(g) > col /\ used > 0
        THEN [lines |-> Append(m.lines, Chunk(m.line, piece, m.run)), line |-> <<>>, run |-> <<g>>]
        ELSE [m EXCEPT !.run = Append(@, g)]
RECURSIVE SplitPiece(_, _, _, _)
SplitPiece(m, piece, i, col) ==
    IF i > Len(piece.text) THEN [m EXCEPT !.line = Chunk(@, piece, m.run), !.run = <<>>]
    ELSE SplitPiece(SplitGlyph(m, piece, piece.text[i], col), piece, i + 1, col)
RECURSIVE SplitPieces(_, _, _)
SplitPieces(m, word, col) ==
    IF word = <<>> THEN Append(m.lines, m.line)
    ELSE SplitPieces(SplitPiece(m, Head(word), 1, col), Tail(word), col)
SplitWord(word, col) == SplitPieces([lines |-> <<>>, line |-> <<>>, run |-> <<>>], word, col)

Wrapping == [lines |-> <<>>, line |-> <<>>, sep |-> <<>>, word |-> <<>>, saw |-> FALSE]

(* The word and the spaces before it, on this line or on the next; the      *)
(* spaces are lost at the end of a line, but those before the first word    *)
(* are kept.  Column 0 is no limit.                                         *)
PlaceWord(m, col) ==
    LET leading == IF m.saw THEN <<>> ELSE m.sep
        onLine  == LineWidth(m.line) > 0
        done    == [m EXCEPT !.sep = <<>>, !.word = <<>>, !.saw = TRUE]
        ended   == IF onLine THEN Append(m.lines, m.line) ELSE m.lines
        fresh   == IF onLine THEN leading ELSE m.line \o leading
        filled  == IF LineWidth(fresh) > 0 THEN Append(ended, fresh) ELSE ended
        chunks  == SplitWord(m.word, col)
    IN  IF col = 0
        THEN [done EXCEPT !.line = @ \o (IF onLine THEN m.sep ELSE leading) \o m.word]
        ELSE IF onLine /\ LineWidth(m.line) + LineWidth(m.sep) + LineWidth(m.word) <= col
        THEN [done EXCEPT !.line = @ \o m.sep \o m.word]
        ELSE IF LineWidth(m.word) <= col
        THEN [done EXCEPT !.lines = ended, !.line = fresh \o m.word]
        ELSE [done EXCEPT !.lines = filled \o Front(chunks), !.line = Last(chunks)]

EndWord(m, col) == IF m.word = <<>> THEN m ELSE PlaceWord(m, col)

WrapPiece(m, piece, col) ==
    IF ~piece.space THEN [m EXCEPT !.word = Append(@, piece)]
    ELSE [EndWord(m, col) EXCEPT !.sep = Append(@, piece)]

RECURSIVE WrapPieces(_, _, _)
WrapPieces(m, ps, col) ==
    IF ps = <<>> THEN m ELSE WrapPieces(WrapPiece(m, Head(ps), col), Tail(ps), col)

(* The lines of a cell in a column; an empty cell has one empty line.       *)
EndLine(m) == IF m.line # <<>> \/ (m.lines = <<>> /\ ~m.saw) THEN Append(m.lines, m.line) ELSE m.lines
WrapCell(cell, col) == EndLine(EndWord(WrapPieces(Wrapping, CellPieces(cell), col), col))

-----------------------------------------------------------------------------
(* Measuring the cells.                                                     *)

MaxOf(S) == Max(S \cup {1})

(* The words of a cell, whatever the styles within them.                    *)
Words(cell) ==
    LET pieces == TextPieces(PlainText(cell), <<>>)
        words  == SelectSeq(pieces, LAMBDA p : ~p.space)
    IN  [i \in 1..Len(words) |-> words[i].text]
WordWidths(cell) == {TextWidth(w) : w \in ToSet(Words(cell))}

(* The widest glyph and the widest word that a no-break space holds         *)
(* together: what no line can do without.                                   *)
Narrowest(cell) ==
    MaxOf({TextWidth(w) : w \in {v \in ToSet(Words(cell)) : Nbsp \in ToSet(v)}}
          \cup {GlyphWidth(g) : g \in ToSet(PlainText(cell)) \ {" "}})

(* natural: unwrapped; preferred: no word split.                            *)
Metrics(cell) ==
    [natural   |-> MaxOf({LineWidth(line) : line \in ToSet(WrapCell(cell, 0))}),
     preferred |-> MaxOf(WordWidths(cell)),
     narrowest |-> Narrowest(cell)]

(* A cell of a row.  The last column of a row written later takes what is   *)
(* left of a row without a header to say otherwise.                         *)
Bar(before) ==
    LET text == PlainText(before)
        gap  == IF text = <<>> \/ IsSpace(Last(text)) THEN <<>> ELSE <<" ">>
    IN  <<[text |-> gap \o <<"|", " ">>, style |-> <<>>]>>
Joined(cells) == FoldLeft(LAMBDA text, cell : text \o Bar(text) \o cell, Head(cells), Tail(cells))
CellOf(row, c, clamp) ==
    CASE c > Len(row)         -> <<>>
      [] clamp /\ c = NCols   -> Joined(SubSeq(row, c, Len(row)))
      [] OTHER                -> row[c]

Most(ms) ==
    [natural   |-> Max({m.natural : m \in ms}),
     preferred |-> Max({m.preferred : m \in ms}),
     narrowest |-> Max({m.narrowest : m \in ms})]
Measured(rows) ==
    [c \in Columns |-> Most({Metrics(CellOf(row, c, FALSE)) : row \in {table.header} \cup rows})]

-----------------------------------------------------------------------------
(* Fitting the columns into the width.                                      *)

(* What the margin and the quote or the indentation leave of the width.     *)
Avail == IF opts.prefix >= width THEN 1 ELSE width - opts.prefix

RECURSIVE SumSeq(_)
SumSeq(s) == IF s = <<>> THEN 0 ELSE Head(s) + SumSeq(Tail(s))

Overhead == IF opts.wire = "space" THEN (NCols - 1) * 2 ELSE 3 * NCols + 1
Total(ws) == Overhead + SumSeq(ws)

(* The widest column that may give way, the first of several, gives one.    *)
RECURSIVE FitWidths(_, _, _)
FitWidths(ws, mins, limit) ==
    LET wider  == {c \in Columns : ws[c] > mins[c]}
        widest == Max({ws[c] : c \in wider})
        first  == Min({c \in wider : ws[c] = widest})
    IN  IF Total(ws) <= limit \/ wider = {} THEN ws
        ELSE FitWidths([ws EXCEPT ![first] = @ - 1], mins, limit)

(* What splitting the words of a column costs, a word of each given width.  *)
WordsOf(rows, c) ==
    LET all == (IF table.hasHeader THEN <<table.header>> ELSE <<>>) \o rows
        words == FlattenSeq([i \in 1..Len(all) |-> Words(CellOf(all[i], c, FALSE))])
    IN  [i \in 1..Len(words) |-> TextWidth(words[i])]
SplitCost(words, limit) ==
    SumSeq([i \in 1..Len(words) |-> IF words[i] > limit THEN 1000 + (words[i] - limit) ^ 2 ELSE 0])

(* From the narrowest columns on, each column that is left over goes where  *)
(* it saves most.                                                           *)
RECURSIVE Widen(_, _, _, _)
Widen(ws, words, natural, left) ==
    LET short    == {c \in Columns : ws[c] < natural[c]}
        Cost(c)  == SplitCost(words[c], ws[c])
        Saves(c) == Cost(c) - SplitCost(words[c], ws[c] + 1)
        Better(c, d) == \/ Saves(c) > Saves(d)
                        \/ Saves(c) = Saves(d) /\ Cost(c) > Cost(d)
                        \/ Saves(c) = Saves(d) /\ Cost(c) = Cost(d) /\ c < d
        saving   == {c \in short : Saves(c) > 0}
        target   == Max({natural[c] : c \in short})
        pick     == IF saving # {} THEN CHOOSE c \in saving : \A d \in saving \ {c} : Better(c, d)
                    ELSE Min({c \in short : natural[c] = target})
    IN  IF left = 0 \/ short = {} THEN ws
        ELSE Widen([ws EXCEPT ![pick] = @ + 1], words, natural, left - 1)

Part(ms, part) == [c \in Columns |-> ms[c][part]]

(* Mutant: the wires are not counted.                                       *)
AllocateAll(ms, rows, limit) ==
    LET least == Part(ms, "narrowest")
        used  == Total(least) - Overhead
        words == [c \in Columns |-> WordsOf(rows, c)]
    IN  IF limit <= used THEN least ELSE Widen(least, words, Part(ms, "natural"), limit - used)

AllocateWidths(ms, rows, limit) ==
    LET least  == Part(ms, "narrowest")
        budget == IF limit > Overhead THEN limit - Overhead ELSE 0
        used   == Total(least) - Overhead
        words  == [c \in Columns |-> WordsOf(rows, c)]
    IN  IF budget <= used THEN least ELSE Widen(least, words, Part(ms, "natural"), budget - used)

(* Whole words if they fit.                                                 *)
WholeWords(ms) == FitWidths(Part(ms, "natural"), Part(ms, "preferred"), Avail)

WidthsFor(ms, rows) ==
    [widths |-> IF Total(WholeWords(ms)) > Avail THEN AllocateWidths(ms, rows, Avail) ELSE WholeWords(ms),
     needs  |-> ms]
ComputeWidths(rows) == WidthsFor(Measured(ToSet(rows)), rows)

(* The rows that were measured are gone: whole words if they fit, else as   *)
(* narrow as the glyphs allow.                                              *)
ReflowWidths(ms) ==
    IF Total(WholeWords(ms)) > Avail THEN FitWidths(WholeWords(ms), Part(ms, "narrowest"), Avail)
    ELSE WholeWords(ms)

-----------------------------------------------------------------------------
(* Styles on the terminal: the link that is open and the colours set.       *)

Terminal == [link |-> "none", sgr |-> <<>>]
WireStyle == <<"wire">>
HeaderStyle == <<"header">>
QuoteStyle == <<"quote">>
Opens(style) == style # <<>> /\ Head(style) = "osc"

(* Mutant: a link is closed only by the next one.                           *)
SwitchColour(m, style) ==
    LET new    == IF opts.styled THEN style ELSE <<>>
        links  == "osc" \in ToSet(new)
        colour == SelectSeq(new, LAMBDA a : a # "osc")
    IN  IF m.style = style THEN m
        ELSE [m EXCEPT !.style = new,
                       !.term = [link |-> IF links THEN "open" ELSE @.link,
                                 sgr  |-> (IF m.style = <<>> THEN @.sgr ELSE <<>>) \o colour]]

(* A style is written as it is; only a link it begins with is closed again. *)
SwitchStyle(m, style) ==
    LET new    == IF opts.styled THEN style ELSE <<>>
        links  == "osc" \in ToSet(new)
        colour == SelectSeq(new, LAMBDA a : a # "osc")
    IN  IF m.style = style THEN m
        ELSE [m EXCEPT !.style = new,
                       !.term = [link |-> IF links THEN "open" ELSE IF Opens(m.style) THEN "none" ELSE @.link,
                                 sgr  |-> (IF m.style = <<>> THEN @.sgr ELSE <<>>) \o colour]]

Write(m, n) == [m EXCEPT !.width = @ + n]

-----------------------------------------------------------------------------
(* Writing the rows.                                                        *)

(* A line: its width, the row it is of (0 the header, -1 a wire), the       *)
(* columns it was written for, the pieces on it, with the link they were    *)
(* written into, and the terminal at its end.  What a line leaves of the    *)
(* terminal the next one finds: only colours are reset.                     *)
TermAfter(lines) == IF lines = <<>> THEN Terminal ELSE Last(lines).term

Border(lines, ws) ==
    IF opts.wire = "space" THEN lines
    ELSE Append(lines, [width |-> Total(ws), row |-> -1, cols |-> ws, cells |-> <<>>,
                        term |-> [TermAfter(lines) EXCEPT !.sgr = <<>>]])

(* Mutant: the odd space of a centred cell is lost.                         *)
PaddingHalves(align, pad) ==
    CASE align = "left"   -> [left |-> 0, right |-> pad]
      [] align = "right"  -> [left |-> pad, right |-> 0]
      [] align = "center" -> [left |-> pad \div 2, right |-> pad \div 2]

Padding(align, pad) ==
    CASE align = "left"   -> [left |-> 0, right |-> pad]
      [] align = "right"  -> [left |-> pad, right |-> 0]
      [] align = "center" -> [left |-> pad \div 2, right |-> pad - (pad \div 2)]

(* The parentheses around the address of a link, and the space before them, *)
(* are not dressed as the text of a quote.                                  *)
LinkStyle == <<"url">>
InkedAt(ps, S) == {i \in S : ~ps[i].space}
IsAddress(ps) == ps # <<>> /\ Head(ps).style = LinkStyle
InkedSeq(ps) == SelectSeq(ps, LAMBDA p : ~p.space)
FromLine(lines, from) == FlattenSeq(SubSeq(lines, from, Len(lines)))
ToLine(lines, to) == FlattenSeq(SubSeq(lines, 1, to))
IsDelim(lines, at, i) ==
    LET p      == lines[at][i]
        after  == InkedSeq(SubSeq(lines[at], i + 1, Len(lines[at])) \o FromLine(lines, at + 1))
        before == InkedSeq(ToLine(lines, at - 1) \o SubSeq(lines[at], 1, i - 1))
    IN  /\ ~p.space /\ p.style = <<>>
        /\ \/ p.text = <<"(">> /\ IsAddress(after)
           \/ p.text = <<")">> /\ before # <<>> /\ Last(before).style = LinkStyle
IsFallbackDelim(lines, at, i) ==
    LET p      == lines[at][i]
        inked  == InkedAt(lines[at], (i + 1)..Len(lines[at]))
        before == InkedSeq(SubSeq(lines[at], 1, i - 1))
        nxt    == Min(inked)
        opened == lines[at][nxt].style = <<>> /\ lines[at][nxt].text = <<"(">>
    IN  IF ~p.space THEN IsDelim(lines, at, i)
        ELSE /\ inked # {}
             /\ \/ before # <<>> /\ Last(before).style # <<>> /\ opened
                \/ IsDelim(lines, at, nxt)

PieceStyle(lines, at, i, header) ==
    LET p == lines[at][i]
        quoted == opts.quoted /\ opts.styled
    IN  IF header THEN HeaderStyle \o p.style
        ELSE IF quoted /\ IsFallbackDelim(lines, at, i) THEN <<>>
        ELSE IF quoted /\ p.style = <<>> THEN QuoteStyle ELSE p.style

RECURSIVE WritePieces(_, _, _, _, _)
WritePieces(m, lines, at, i, header) ==
    IF i > Len(lines[at]) THEN m
    ELSE LET p      == lines[at][i]
             styled == SwitchStyle(m, PieceStyle(lines, at, i, header))
             put    == [text |-> p.text, style |-> p.style, space |-> p.space, link |-> styled.term.link]
         IN  WritePieces([styled EXCEPT !.width = @ + PieceWidth(p), !.cells[Len(m.cells)] = Append(@, put)],
                         lines, at, i + 1, header)

(* A column of a line: its wire, its padding and what the cell has on it.   *)
WriteColumn(m, c, lines, at, ws, header) ==
    LET has   == at <= Len(lines)
        line  == IF has THEN lines[at] ELSE <<>>
        w     == LineWidth(line)
        pad   == Padding(Align(c), IF ws[c] > w THEN ws[c] - w ELSE 0)
        base  == IF header THEN HeaderStyle ELSE <<>>
        keeps == ~header /\ line # <<>> /\ pad.left = 0 /\ (line[1].style = <<"gray">> \/ Opens(line[1].style))
        wired == IF opts.wire = "space"
                 THEN IF c = 1 THEN m ELSE Write(SwitchStyle(m, WireStyle), 2)
                 ELSE Write(SwitchStyle(m, WireStyle), IF c = 1 THEN 2 ELSE 3)
        lead  == Write(IF keeps THEN wired ELSE SwitchStyle(wired, base), pad.left)
        begun == [lead EXCEPT !.cells = Append(@, <<>>)]
        cell  == IF has THEN WritePieces(begun, lines, at, 1, header) ELSE begun
    IN  Write(IF pad.right > 0 THEN SwitchStyle(cell, base) ELSE cell, pad.right)

RECURSIVE WriteColumns(_, _, _, _, _, _)
WriteColumns(m, c, cells, at, ws, header) ==
    IF c > NCols THEN m
    ELSE WriteColumns(WriteColumn(m, c, cells[c], at, ws, header), c + 1, cells, at, ws, header)

(* One line of a row; the last style is reset at its end.                   *)
Closed(m) == IF opts.wire = "space" THEN m ELSE Write(SwitchStyle(m, WireStyle), 2)
LineOf(k, ws, end) ==
    [width |-> end.width, row |-> k, cols |-> ws, cells |-> end.cells,
     term  |-> IF end.style # <<>> /\ opts.styled THEN [end.term EXCEPT !.sgr = <<>>] ELSE end.term]
Unwritten(term) ==
    [style |-> <<>>, width |-> 0, cells |-> <<>>,
     term  |-> IF opts.quoted THEN [term EXCEPT !.sgr = <<>>] ELSE term]
RowLine(lines, k, cells, at, ws) ==
    LineOf(k, ws, Closed(WriteColumns(Unwritten(TermAfter(lines)), 1, cells, at, ws, k = 0)))

RECURSIVE RowLines(_, _, _, _, _)
RowLines(lines, k, cells, at, ws) ==
    IF at > MaxOf({Len(cells[c]) : c \in Columns}) THEN lines
    ELSE RowLines(Append(lines, RowLine(lines, k, cells, at, ws)), k, cells, at + 1, ws)
Row(lines, k, r, ws, clamp) ==
    RowLines(lines, k, [c \in Columns |-> WrapCell(CellOf(r, c, clamp), ws[c])], 1, ws)

Top(rows, ws) ==
    LET opened == Border(<<>>, ws)
        headed == IF table.hasHeader THEN Border(Row(opened, 0, table.header, ws, FALSE), ws) ELSE opened
    IN  FoldLeft(LAMBDA lines, k : Row(lines, k, rows[k], ws, FALSE), headed, [k \in 1..Len(rows) |-> k])

-----------------------------------------------------------------------------
LayoutInit ==
    /\ table \in Tables /\ opts \in Options /\ width \in Widths
    /\ fitted = 0 /\ resizes = 0 /\ cols = <<>> /\ next = 1 /\ phase = "new" /\ out = <<>>

(* The whole table at its end.                                              *)
RenderFull ==
    /\ phase = "new" /\ (~opts.byRow \/ table.rows = <<>>)
    /\ cols' = ComputeWidths(table.rows)
    /\ out' = Border(Top(table.rows, cols'.widths), cols'.widths)
    /\ fitted' = Avail /\ phase' = "done" /\ next' = Len(table.rows) + 1
    /\ UNCHANGED <<table, opts, width, resizes>>

(* The header and the first row, or the first two rows: they are measured   *)
(* together, and each has its own cells.                                    *)
RenderRowOpen ==
    /\ phase = "new" /\ opts.byRow /\ table.rows # <<>>
    /\ LET first == SubSeq(table.rows, 1, Opening)
       IN  cols' = ComputeWidths(first) /\ out' = Top(first, cols'.widths)
    /\ fitted' = Avail /\ phase' = "open" /\ next' = Opening + 1
    /\ UNCHANGED <<table, opts, width, resizes>>

Reflowed == IF Avail = fitted THEN cols ELSE [cols EXCEPT !.widths = ReflowWidths(cols.needs)]

RenderRowContinue ==
    /\ phase = "open" /\ next <= Len(table.rows)
    /\ cols' = Reflowed /\ fitted' = Avail
    /\ out' = Row(out, next, table.rows[next], cols'.widths, ~table.hasHeader /\ ~TruncatedColumns)
    /\ next' = next + 1
    /\ UNCHANGED <<table, opts, width, resizes, phase>>

RenderRowFinish ==
    /\ phase = "open" /\ next > Len(table.rows)
    /\ cols' = Reflowed /\ fitted' = Avail
    /\ out' = Border(out, cols'.widths)
    /\ phase' = "done"
    /\ UNCHANGED <<table, opts, width, resizes, next>>

(* The caller changes the width or the margins between two writes.          *)
SetWidth(w) ==
    /\ phase = "open" /\ resizes < MaxResizes /\ w # width
    /\ width' = w /\ resizes' = resizes + 1
    /\ UNCHANGED <<table, opts, fitted, cols, next, phase, out>>

LayoutNext ==
    \/ RenderFull \/ RenderRowOpen \/ RenderRowContinue \/ RenderRowFinish
    \/ \E w \in Widths : SetWidth(w)

LayoutSpec == LayoutInit /\ [][LayoutNext]_layoutVars

-----------------------------------------------------------------------------
Ink(s) == SelectSeq(s, LAMBDA g : ~IsSpace(g) /\ g # "|")
LineText(line) == FlattenSeq([i \in 1..Len(line) |-> line[i].text])
Written(k) == {i \in 1..Len(out) : out[i].row = k}
LaterRow(k) == opts.byRow /\ k > Opening

(* How many of its cells a row shows: those its header has, all if no row   *)
(* has more than the most there are, else those or, in a row written on its *)
(* own, all.                                                                *)
CellsShown(r) ==
    IF table.hasHeader THEN {NCols}
    ELSE IF \A q \in ToSet(table.rows) : Len(q) <= MaxColumns THEN {Len(r)}
    ELSE {MaxColumns, Len(r)}

(* Every cell is in its column once, the columns in order; cells are left   *)
(* out only beyond the header's or the most there are.  A word is broken    *)
(* only where it does not fit a line.                                       *)
CellTextKept ==
    \A k \in 0..Len(table.rows) : Written(k) # {} =>
        LET r        == IF k = 0 THEN table.header ELSE table.rows[k]
            InkOf(c) == FlattenSeq([i \in 1..Len(out) |-> IF i \in Written(k) THEN Ink(LineText(out[i].cells[c])) ELSE <<>>])
            Cell(c)  == CellOf(r, c, LaterRow(k) /\ ~table.hasHeader /\ ~TruncatedColumns)
            Kept(c)  == UNION {ToSet(Words(<<Piece(LineText(out[i].cells[c]), <<>>, FALSE)>>)) : i \in Written(k)}
        IN  /\ \A c \in 1..NCols - 1 : InkOf(c) = IF c <= Len(r) THEN Ink(PlainText(r[c])) ELSE <<>>
            /\ \E n \in CellsShown(r) :
                  FlattenSeq([c \in Columns |-> InkOf(c)]) =
                  FlattenSeq([c \in 1..n |-> IF c <= Len(r) THEN Ink(PlainText(r[c])) ELSE <<>>])
            /\ \A c \in Columns : \A w \in ToSet(Words(Cell(c))) :
                  TextWidth(w) <= out[Min(Written(k))].cols[c] => w \in Kept(c)

(* The lines of a table are as wide as its wires.  Two lines are wider: one *)
(* that starts with the spaces of a code span, and one that holds a glyph   *)
(* wider than its column, which only a row can that was not measured.       *)
RowsAlign ==
    \A i \in 1..Len(out) :
        LET line == out[i]
            Leads(c) == line.cells[c] # <<>> /\ Head(line.cells[c]).space
            Bursts(c) == LineText(line.cells[c]) = <<"W">> /\ line.cols[c] = 1 /\ LaterRow(line.row)
        IN  \/ line.width = Total(line.cols)
            \/ line.row >= 0 /\ \E c \in Columns : Leads(c) \/ Bursts(c)

(* The table fits, unless its columns are as narrow as their glyphs.        *)
FitsWidth ==
    cols # <<>> /\ fitted = Avail =>
        \/ Total(cols.widths) <= Avail
        \/ cols.widths = Part(cols.needs, "narrowest")

Linked(p) == "osc" \in ToSet(p.style)
PiecesOn(line) == UNION {ToSet(line.cells[c]) : c \in DOMAIN line.cells}

(* A line ends with no colour set, a link's text is written into the link,  *)
(* and what follows it is not.  Two links stay open, until another ends:    *)
(* one in a header, and one that ends a line without a wire behind it.      *)
StylesEnd ==
    \A i \in 1..Len(out) :
        LET line  == out[i]
            open  == i > 1 /\ out[i - 1].term.link = "open"
            heads == line.row = 0 /\ \E p \in PiecesOn(line) : Linked(p)
            ends  == opts.wire = "space" /\ line.cells[NCols] # <<>> /\ Linked(Last(line.cells[NCols]))
        IN  /\ line.term.sgr = <<>>
            /\ line.term.link = "open" => opts.styled /\ (open \/ heads \/ ends)
            /\ \A p \in PiecesOn(line) :
                  IF Linked(p) THEN p.link = "open" <=> opts.styled
                  ELSE p.link = "open" => open \/ heads

=============================================================================
