------------------------------ MODULE PagerView ------------------------------
(***************************************************************************)
(* What the pager shows (mdf_pager_run, src/src/pager.c): the rows a       *)
(* document is cut into for a terminal's width, the search over them, the  *)
(* scrolling, and the place that is kept when the terminal is resized.     *)
(*                                                                         *)
(* One action is one turn of the loop after the bytes of a key, or the end *)
(* of a resize, have arrived; how they arrive is in Pager.  A view is a    *)
(* sequence of bytes and of whole escape sequences.  Offsets in a view and *)
(* in its text count from 1, rows and selections from 0 as in the code.    *)
(***************************************************************************)
EXTENDS Integers, FiniteSets, Sequences, SequencesExt

CONSTANTS
    Units,              \* the characters and escape sequences of documents
    Inputs,             \* documents: [markdown, units]
    Rendered(_, _),     \* what the renderer makes of a document in a width
    Sizes,              \* <<columns, rows>> of the terminal
    Typed,              \* the bytes typed
    MinRenderWidth,     \* MDF_PAGER_MIN_RENDER_WIDTH
    AnchorBytes,        \* 64 in mdf_pager_view_anchor_text
    MaxQuery            \* bound: bytes of a query

ASSUME SizesAssumption  == Sizes \subseteq (Nat \ {0}) \X (Nat \ {0, 1})
ASSUME BoundsAssumption == {MinRenderWidth, AnchorBytes, MaxQuery} \subseteq Nat \ {0}

(* Units of a document.  "W" is a wide rune of two bytes, "S" one that folds *)
(* to two letters.                                                          *)
Styles  == {"bold", "reset"}
NoLink  == "unlink"
Links   == {"linkA", "linkB"}
Escapes == Styles \cup Links \cup {NoLink}

VARIABLES
    input,
    columns, rows,
    view,       \* mdf_pager_view: bytes, lines, searchable and search_offsets
    top,
    search,     \* mdf_pager_search
    redraw,
    running

vars == <<input, columns, rows, view, top, search, redraw, running>>

(* The numbers up to n that are in S, in order.                              *)
Ascending(n, S) == FlattenSeq([i \in 1..n |-> IF i \in S THEN <<i>> ELSE << >>])
IndicesOf(seq, Holds(_)) == Ascending(Len(seq), {i \in 1..Len(seq) : Holds(seq[i])})

-----------------------------------------------------------------------------
(* Cutting a document into rows *)

(* mdf_pager_append_text_byte: controls in caret notation. *)
Bytes(unit) ==
    CASE unit = "W"    -> <<"W1", "W2">>
      [] unit = "bell" -> <<"^", "G">>
      [] unit = "\r"   -> <<"^", "M">>
      [] unit = "c1"   -> <<"M", "-", "^", "D">>
      [] OTHER         -> <<unit>>
GlyphWidth(unit) == IF unit = "W" THEN 2 ELSE Len(Bytes(unit))

\* mutant: the link stays open across the row's end
WrapOpen(s) ==
    LET link == IF s.link = NoLink THEN << >> ELSE <<s.link>>
    IN  [s EXCEPT !.bytes = @ \o <<"\n">> \o link \o s.sgr, !.col = 0]
(* mdf_pager_reflow_append_wrap: no row relies on the one above it. *)
Wrap(s) ==
    LET link == IF s.link = NoLink THEN << >> ELSE <<s.link>>
    IN  [s EXCEPT !.bytes = @ \o (IF link = << >> THEN << >> ELSE <<NoLink>>)
                              \o <<"\n">> \o link \o s.sgr,
                  !.col = 0]

(* mdf_pager_reflow_track_escape *)
Escape(s, unit) ==
    [s EXCEPT !.bytes = Append(@, unit),
              !.link = IF unit \in Styles THEN @ ELSE unit,
              !.sgr = CASE unit = "reset" -> << >>
                        [] unit = "bold"  -> Append(@, unit)
                        [] OTHER          -> @]

TabSpace(s, width) ==
    LET t == IF s.col >= width THEN Wrap(s) ELSE s
    IN  [t EXCEPT !.bytes = Append(@, " "), !.col = @ + 1]
Tab(s, width) ==
    LET Spaces[n \in 0..8] == IF n = 0 THEN s ELSE TabSpace(Spaces[n - 1], width)
    IN  Spaces[8 - (s.col % 8)]

Glyph(s, unit, width) ==
    LET t == IF s.col > 0 /\ s.col + GlyphWidth(unit) > width THEN Wrap(s) ELSE s
    IN  [t EXCEPT !.bytes = @ \o Bytes(unit), !.col = @ + GlyphWidth(unit)]

(* mdf_pager_reflow_chunk: one turn of its loop. *)
ReflowUnit(s, units, i, width, styled) ==
    CASE ~styled /\ units[i] = "\r" /\ i < Len(units) /\ units[i + 1] = "\n" -> s
      [] units[i] = "\n" -> [s EXCEPT !.bytes = Append(@, "\n"), !.col = 0]
      [] units[i] \in Escapes -> Escape(s, units[i])
      [] units[i] = "\t" -> Tab(s, width)
      [] OTHER -> Glyph(s, units[i], width)

Empty == [bytes |-> << >>, col |-> 0, link |-> NoLink, sgr |-> << >>]
Reflow(units, width, styled) ==
    LET After[n \in 0..Len(units)] ==
            IF n = 0 THEN Empty ELSE ReflowUnit(After[n - 1], units, n, width, styled)
    IN  After[Len(units)].bytes

RenderWidth(width) == IF width < MinRenderWidth THEN MinRenderWidth ELSE width

(* mdf_pager_view_index and mdf_pager_view_build_searchable *)
Indexed(bytes) ==
    LET breaks == Ascending(Len(bytes), {i \in 1..(Len(bytes) - 1) : bytes[i] = "\n"})
        at     == IndicesOf(bytes, LAMBDA b : b \notin Escapes)
    IN  [bytes |-> bytes,
         lines |-> <<1>> \o [k \in 1..Len(breaks) |-> breaks[k] + 1],
         text  |-> [k \in 1..Len(at) |-> IF bytes[at[k]] = "\n" THEN " " ELSE bytes[at[k]]],
         at    |-> at]

(* The units mdf_pager_reflow is given. *)
Source(doc, width) ==
    IF doc.markdown THEN Rendered(doc.units, RenderWidth(width)) ELSE doc.units
(* They are read into a buffer, from the file or from the renderer.          *)
ASSUME SourceAssumption == \A doc \in Inputs, size \in Sizes : Source(doc, size[1]) \in Seq(Units)

(* mdf_pager_make_view *)
MakeView(doc, width) == Indexed(Reflow(Source(doc, width), width, doc.markdown))

-----------------------------------------------------------------------------
(* Places in a view *)

MaxTop(v, height) ==
    IF Len(v.lines) > height - 1 THEN Len(v.lines) - (height - 1) ELSE 0

\* mutant: the row after the last that begins before the offset
(* mdf_pager_view_line_for_offset *)
LineFor(v, offset) ==
    Cardinality({k \in 2..Len(v.lines) : v.lines[k] <= offset})

(* mdf_pager_view_visible_anchor: an index in the text, from 0. *)
VisibleAnchor(v, row) ==
    LET line  == IF row >= Len(v.lines) THEN Len(v.lines) ELSE row + 1
        below == {k \in 1..Len(v.text) : v.at[k] >= v.lines[line]}
    IN  CASE v.text = << >> -> 0
          [] v.text # << >> /\ below = {} -> Len(v.text) - 1
          [] OTHER -> (CHOOSE k \in below : \A j \in below : k <= j) - 1

(* mdf_pager_view_anchor_text: where the first word from the top row begins, *)
(* and as much of it as the anchor takes.                                    *)
WordFrom(v, row) ==
    LET from   == VisibleAnchor(v, row) + 1
        glyphs == {k \in from..Len(v.text) : v.text[k] # " "}
    IN  IF glyphs = {} THEN Len(v.text) + 1
        ELSE CHOOSE k \in glyphs : \A j \in glyphs : k <= j
AnchorText(v, row) ==
    LET word == WordFrom(v, row)
        ends == {k \in word..Len(v.text) : k = word + AnchorBytes \/ v.text[k] = " "}
        last == IF ends # {} THEN (CHOOSE k \in ends : \A j \in ends : k <= j) - 1
                ELSE IF word + AnchorBytes <= Len(v.text) THEN word + AnchorBytes - 1
                ELSE Len(v.text)
    IN  SubSeq(v.text, word, last)

(* mdf_pager_scale_anchor *)
ScaleAnchor(offset, current, previous) ==
    CASE previous = 0 -> offset
      [] previous # 0 /\ offset >= previous -> current
      [] OTHER -> (offset * current) \div previous

(* mdf_pager_search_equal: what begins at k ends at one of these. *)
Folded(text) ==
    FlattenSeq([i \in 1..Len(text) |-> CASE text[i] = "S" -> <<"s", "s">>
                                         [] text[i] = "A" -> <<"a">>
                                         [] OTHER         -> <<text[i]>>])
SearchEnds(text, k, needle) ==
    LET folded == Folded(needle)
    IN  {e \in k..(k + Len(folded) - 1) : /\ e <= Len(text)
                                          /\ text[e] # "W1"
                                          /\ Folded(SubSeq(text, k, e)) = folded}

(* mdf_pager_view_find_anchor: the nearest; else the anchor as it was. *)
FindAnchor(v, needle, expected, anchor) ==
    LET hits == IF needle = << >> THEN {}
                ELSE {k \in 1..Len(v.text) : SearchEnds(v.text, k, needle) # {}}
        Far(k) == IF k - 1 > expected THEN k - 1 - expected ELSE expected - (k - 1)
    IN  IF hits = {} THEN anchor
        ELSE (CHOOSE k \in hits : \A j \in hits : \/ Far(k) < Far(j)
                                                  \/ Far(k) = Far(j) /\ k <= j) - 1

\* mutant: the anchor is taken for a row
TopForRow(v, anchor) == IF v.text = << >> THEN 0 ELSE anchor
(* mdf_pager_view_top_for_anchor *)
TopFor(v, anchor) ==
    IF v.text = << >> THEN 0
    ELSE LineFor(v, v.at[IF anchor >= Len(v.text) THEN Len(v.text) ELSE anchor + 1])

-----------------------------------------------------------------------------
(* The search *)

NoSearch == [query |-> << >>, matches |-> << >>, selected |-> 0,
             editing |-> FALSE, active |-> FALSE]

(* mdf_pager_utf8_complete_prefix: up to a rune that is cut off. *)
Cut(query) ==
    {k \in 1..Len(query) : query[k] = "W1" /\ (k = Len(query) \/ query[k + 1] # "W2")}
CompletePrefix(query) ==
    IF Cut(query) = {} THEN query
    ELSE SubSeq(query, 1, (CHOOSE k \in Cut(query) : \A j \in Cut(query) : k <= j) - 1)
Complete(query) == Cut(query) = {}

(* mdf_pager_utf8_character_count, of a query that is complete. *)
CharacterCount(query) == Len(SelectSeq(query, LAMBDA b : b # "W2"))

(* mdf_pager_search_refresh: offsets in the view's bytes, the end excluded. *)
Match(v, k, e) == [start |-> v.at[k], end |-> v.at[e] + 1]
Matches(v, query) ==
    IF query = << >> THEN << >>
    ELSE LET hits == Ascending(Len(v.text),
                               {k \in 1..Len(v.text) :
                                  v.text[k] # "W2" /\ SearchEnds(v.text, k, query) # {}})
         IN  [n \in 1..Len(hits) |->
                 Match(v, hits[n], CHOOSE e \in SearchEnds(v.text, hits[n], query) : TRUE)]
Refresh(s, v) == [s EXCEPT !.matches = Matches(v, s.query), !.selected = 0]

\* mutant: a resize keeps the matches of the old layout
RefreshKeepingAll(s, v) == s
(* mdf_pager_search_refresh_preserving_selection *)
RefreshKeeping(s, v) ==
    LET found == Matches(v, s.query)
    IN  [s EXCEPT !.matches = found,
                  !.selected = CASE found = << >> -> 0
                                 [] found # << >> /\ @ >= Len(found) -> Len(found) - 1
                                 [] OTHER -> @]

(* mdf_pager_search_update_live *)
UpdateLive(s, v) ==
    CASE ~Complete(s.query) -> s
      [] Complete(s.query) /\ CharacterCount(s.query) < 3 ->
             [s EXCEPT !.matches = << >>, !.selected = 0, !.active = FALSE]
      [] OTHER -> Refresh([s EXCEPT !.active = TRUE], v)

(* mdf_pager_search_backspace: with what continues a rune, the byte before. *)
Backspace(s) ==
    LET starts == {k \in 1..Len(s.query) : s.query[k] # "W2"}
    IN  [s EXCEPT !.query = IF starts = {} THEN << >>
                            ELSE SubSeq(@, 1, (CHOOSE k \in starts : \A j \in starts : j <= k) - 1)]

-----------------------------------------------------------------------------
(* Drawing *)

(* mdf_pager_write_highlighted_range: a style ends the reverse video. *)
Highlighted(bytes) ==
    <<"reverse">>
        \o FoldLeft(LAMBDA acc, b : acc \o (IF b \in Styles THEN <<b, "reverse">> ELSE <<b>>),
                    << >>, bytes)
        \o <<"plain">>

(* mdf_pager_draw_highlighted: the bytes from start up to, not with, end. *)
DrawMatch(s, v, m, end) ==
    LET from == IF m.start > s.at THEN m.start ELSE s.at
        to   == IF m.end < end THEN m.end ELSE end
    IN  IF m.end <= s.at \/ m.start >= end THEN s
        ELSE [out |-> s.out \o SubSeq(v.bytes, s.at, from - 1)
                            \o Highlighted(SubSeq(v.bytes, from, to - 1)),
              at |-> to]
DrawHighlighted(v, s, start, end) ==
    LET drawn == FoldLeft(LAMBDA d, m : DrawMatch(d, v, m, end), [out |-> << >>, at |-> start],
                          IF s.active THEN s.matches ELSE << >>)
    IN  drawn.out \o SubSeq(v.bytes, drawn.at, end - 1)

(* The offset after the last byte of a row that is drawn. *)
RowEnd(v, row) ==
    LET end == IF row + 1 < Len(v.lines) THEN v.lines[row + 2] ELSE Len(v.bytes) + 1
    IN  IF end > v.lines[row + 1] /\ v.bytes[end - 1] = "\n" THEN end - 1 ELSE end

(* mdf_pager_draw: the rows, each closed with a reset, and the status line. *)
DrawRow(v, s, row) ==
    IF row >= Len(v.lines) THEN <<"reset">>
    ELSE Append(DrawHighlighted(v, s, v.lines[row + 1], RowEnd(v, row)), "reset")
Percent(v, height, row) ==
    IF row >= MaxTop(v, height) THEN 100 ELSE (row * 100) \div MaxTop(v, height)
SearchStatus(s) ==
    CASE s.editing -> CompletePrefix(s.query)
      [] ~s.editing /\ s.active ->
             Append(CompletePrefix(s.query),
                    <<IF s.matches = << >> THEN 0 ELSE s.selected + 1, Len(s.matches)>>)
      [] OTHER -> << >>
Screen ==
    [rows    |-> [r \in 1..(rows - 1) |-> DrawRow(view, search, top + r - 1)],
     percent |-> Percent(view, rows, top),
     prompt  |-> <<search.editing, SearchStatus(search)>>]

-----------------------------------------------------------------------------
(* The loop *)

Init ==
    /\ input \in Inputs
    /\ \E s \in Sizes : columns = s[1] /\ rows = s[2]
    /\ view = MakeView(input, columns)
    /\ top = 0
    /\ search = NoSearch
    /\ redraw = TRUE
    /\ running = TRUE

Draw ==
    /\ running /\ redraw
    /\ redraw' = FALSE
    /\ UNCHANGED <<input, columns, rows, view, top, search, running>>

(* A resize has settled: the place is found again in the new layout. *)
Relayout(size) ==
    LET next     == MakeView(input, size[1])
        anchor   == VisibleAnchor(view, top)
        expected == ScaleAnchor(anchor, Len(next.text), Len(view.text))
        place    == TopFor(next, FindAnchor(next, AnchorText(view, top), expected, anchor))
    IN  /\ running /\ ~redraw
        /\ columns' = size[1]
        /\ rows' = size[2]
        /\ view' = next
        /\ top' = IF place > MaxTop(next, size[2]) THEN MaxTop(next, size[2]) ELSE place
        /\ search' = IF search.active THEN RefreshKeeping(search, next) ELSE search
        /\ redraw' = TRUE
        /\ UNCHANGED <<input, running>>

(* What a key leaves: a search, the top row, and the screen to draw again.   *)
Leaves(s, row) ==
    /\ search' = s
    /\ top' = row
    /\ redraw' = TRUE
    /\ UNCHANGED <<input, columns, rows, view, running>>
RowOf(n, s) == LineFor(view, s.matches[n + 1].start)
FirstFound(s) == IF s.active /\ s.matches # << >> THEN RowOf(0, s) ELSE top

Reads == running /\ ~redraw
Editing == Reads /\ search.editing
Finding == Reads /\ ~search.editing /\ search.active

Enter ==
    LET active == search.query # << >> /\ Complete(search.query)
        s      == [search EXCEPT !.editing = FALSE, !.active = active]
        found  == IF active THEN Refresh(s, view) ELSE s
    IN  /\ Editing
        /\ Leaves(found, IF found.matches # << >> THEN RowOf(0, found) ELSE top)

Cancel == (Editing \/ Finding) /\ Leaves(NoSearch, top)

Erase ==
    LET s == UpdateLive(Backspace(search), view)
    IN  Editing /\ Leaves(s, FirstFound(s))

(* A byte of the query.  A part of a rune changes nothing that is shown.     *)
Type(byte) ==
    LET s     == [search EXCEPT !.query = Append(@, byte)]
        found == UpdateLive(s, view)
    IN  /\ Editing
        /\ Len(search.query) < MaxQuery
        /\ IF Complete(s.query) THEN Leaves(found, FirstFound(found))
           ELSE /\ search' = s
                /\ UNCHANGED <<input, columns, rows, view, top, redraw, running>>

Next_(s) == [s EXCEPT !.selected = (@ + 1) % Len(s.matches)]
Previous(s) == [s EXCEPT !.selected = IF @ = 0 THEN Len(s.matches) - 1 ELSE @ - 1]
Select(s) == Leaves(s, RowOf(s.selected, s))
FindNext     == Finding /\ search.matches # << >> /\ Select(Next_(search))
FindPrevious == Finding /\ search.matches # << >> /\ Select(Previous(search))

Slash == Reads /\ ~search.editing /\ Leaves([NoSearch EXCEPT !.editing = TRUE], top)

Content == rows - 1
Half    == IF Content \div 2 = 0 THEN 1 ELSE Content \div 2
Limit   == MaxTop(view, rows)
DownBy(n) == IF top + n > Limit THEN Limit ELSE top + n
UpBy(n)   == IF top > n THEN top - n ELSE 0

\* mutant: a half page down is not drawn
HalfDownUndrawn ==
    /\ Reads /\ ~search.editing
    /\ top' = DownBy(Half)
    /\ UNCHANGED <<input, columns, rows, view, search, redraw, running>>
Scrolling == Reads /\ ~search.editing
Down     == Scrolling /\ top < Limit /\ Leaves(search, top + 1)
Up       == Scrolling /\ top > 0 /\ Leaves(search, top - 1)
PageDown == Scrolling /\ Leaves(search, DownBy(Content))
PageUp   == Scrolling /\ Leaves(search, UpBy(Content))
HalfDown == Scrolling /\ Leaves(search, DownBy(Half))
HalfUp   == Scrolling /\ Leaves(search, UpBy(Half))
Home     == Scrolling /\ Leaves(search, 0)
End      == Scrolling /\ Leaves(search, Limit)

Quit ==
    /\ Reads /\ ~search.editing /\ ~search.active
    /\ running' = FALSE
    /\ UNCHANGED <<input, columns, rows, view, top, search, redraw>>

Next ==
    \/ Draw
    \/ \E size \in Sizes : Relayout(size)
    \/ Enter \/ Cancel \/ Erase \/ (\E byte \in Typed : Type(byte))
    \/ FindNext \/ FindPrevious \/ Slash
    \/ Down \/ Up \/ PageDown \/ PageUp \/ HalfDown \/ HalfUp \/ Home \/ End
    \/ Quit

Spec == Init /\ [][Next]_vars

-----------------------------------------------------------------------------
(* Properties *)

(* A terminal: what the bytes it is sent paint.  A cell is a glyph with the  *)
(* style, the link and the video it was painted in.                          *)
Pen == [bold |-> FALSE, link |-> NoLink, reverse |-> FALSE, cells |-> << >>]
PenAfter(p, b) ==
    CASE b = "bold"    -> [p EXCEPT !.bold = TRUE]
      [] b = "reset"   -> [p EXCEPT !.bold = FALSE, !.reverse = FALSE]
      [] b = "reverse" -> [p EXCEPT !.reverse = TRUE]
      [] b = "plain"   -> [p EXCEPT !.reverse = FALSE]
      [] b \in Links \cup {NoLink} -> [p EXCEPT !.link = b]
      [] OTHER -> [p EXCEPT !.cells = Append(@, [glyph |-> b, bold |-> p.bold,
                                                 link |-> p.link, reverse |-> p.reverse])]
Paint(p, units) == FoldLeft(PenAfter, p, units)

Printing(b) == b \notin Escapes \cup {" ", "\n"}
Glyphs(cells) == SelectSeq(cells, LAMBDA c : Printing(c.glyph))
CellWidth(b) == CASE b = "W1" -> 2 [] b = "W2" -> 0 [] OTHER -> 1
WidthOf(cells) == FoldLeft(LAMBDA n, c : n + CellWidth(c.glyph), 0, cells)

(* The glyphs of the document, as its source styles and links them.          *)
SourceGlyphs ==
    LET units == Source(input, columns)
        keep  == SelectSeq([i \in 1..Len(units) |-> i],
                           LAMBDA i : /\ units[i] # "\t"
                                      /\ input.markdown \/ units[i] # "\r" \/ i = Len(units)
                                         \/ units[i + 1] # "\n")
    IN  Glyphs(Paint(Pen, FlattenSeq([k \in 1..Len(keep) |-> Bytes(units[keep[k]])])).cells)

(* Where the glyphs of a view are, and how many come before an offset.       *)
Offsets(v) == IndicesOf(v.bytes, Printing)
GlyphsBefore(v, offset) == Len(SelectSeq(SubSeq(v.bytes, 1, offset - 1), Printing))

(* A glyph is in reverse video exactly if it is part of something found.     *)
Found(offset) ==
    /\ search.active
    /\ \E n \in 1..Len(search.matches) : /\ search.matches[n].start <= offset
                                         /\ offset < search.matches[n].end

(* A row of the screen: the glyphs of its place in the document, in order,   *)
(* with the document's style and link and the search's reverse video, not    *)
(* wider than the terminal unless one character alone is; and the next row,  *)
(* as the status line below the last, starts without a link.                 *)
RowTrue(row, source, at) ==
    LET pen   == Paint(Pen, DrawRow(view, search, row))
        shown == Glyphs(pen.cells)
        first == GlyphsBefore(view, view.lines[row + 1])
    IN  /\ pen.link = NoLink
        /\ \/ WidthOf(pen.cells) <= columns
           \/ \E unit \in ToSet(input.units) :
                  Bytes(unit) = [n \in 1..Len(pen.cells) |-> pen.cells[n].glyph]
        /\ first + Len(shown) <= Len(source)
        /\ \A n \in 1..Len(shown) :
               shown[n] = [source[first + n] EXCEPT !.reverse = Found(at[first + n])]
        /\ row + 1 = Len(view.lines) => first + Len(shown) = Len(source)

(* Whatever the rows are cut and scrolled to, every one on the screen shows  *)
(* what the document has there (mdf_pager_reflow_append_wrap replays, draw   *)
(* resets and highlights).                                                   *)
RowsFaithful ==
    LET source == SourceGlyphs
        at     == Offsets(view)
    IN  \A row \in top..(top + rows - 2) :
            row < Len(view.lines) => RowTrue(row, source, at)

(* While a search is shown its matches are those of the present layout and   *)
(* of the present query, and the selection is one of them.                   *)
MatchesFresh ==
    search.active /\ Complete(search.query) =>
        /\ search.matches = Matches(view, search.query)
        /\ search.matches # << >> => search.selected < Len(search.matches)

(* Whatever changes the screen has it drawn again before the next key is     *)
(* read.                                                                     *)
DisplayFollows == [][~redraw' => Screen' = Screen]_vars

OnScreen(v, height, row, offset) ==
    \E r \in row..(row + height - 2) :
        /\ r < Len(v.lines)
        /\ v.lines[r + 1] <= offset
        /\ r + 1 < Len(v.lines) => offset < v.lines[r + 2]

(* The first word at the top before a resize is on the screen after it, if   *)
(* the new layout keeps it whole and has it once.                            *)
Whole(v, first, count) ==
    /\ first + count - 1 <= GlyphsBefore(v, Len(v.bytes) + 1)
    /\ LET from == Offsets(v)[first]
           to   == Offsets(v)[first + count - 1]
       IN  \A i \in from..to : Printing(v.bytes[i]) \/ v.bytes[i] \in Escapes
Occurrences(v, word) == {k \in 1..Len(v.text) : SearchEnds(v.text, k, word) # {}}
PlaceKept ==
    [][columns' # columns \/ rows' # rows =>
       LET word  == AnchorText(view, top)
           first == GlyphsBefore(view, view.at[WordFrom(view, top)]) + 1
       IN  word # << >> /\ Cardinality(Occurrences(view', word)) = 1
               /\ Whole(view', first, Len(word))
           => OnScreen(view', rows', top', Offsets(view')[first])]_vars

=============================================================================
