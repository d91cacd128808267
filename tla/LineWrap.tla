------------------------------ MODULE LineWrap ------------------------------
(***************************************************************************)
(* How the ANSI renderer lays text out in lines (src/src/render_ansi.c,    *)
(* render_ansi_blocks.c), with the part of the block parser that feeds it  *)
(* (src/src/render_parse.c).  The renderer holds the word in progress, the *)
(* space before it and the breaks before that until what follows decides   *)
(* them; the application may change the geometry in between.               *)
(*                                                                         *)
(* Paragraphs, headings and top level items of bullet lists, without       *)
(* inline markup and without terminal escapes.  The renderer is a record r *)
(* and each of its functions an operator from r to what it becomes.        *)
(***************************************************************************)
EXTENDS WordSplit

CONSTANTS
    Fragments,      \* what one feed may add to a line: sequences of glyphs
    Geometries,     \* <<width, margin_left, margin_right>>
    Levels,         \* heading levels
    Probe,          \* bytes of an item that arrive as one token: 4
    MaxEvents,      \* bound: fragments and starts of blocks in a document
    MaxResizes      \* bound: changes of the geometry

(* set_geometry leaves at least three columns between the margins. *)
ASSUME GeometryAssumption ==
    \A g \in Geometries : /\ g \in Nat \X Nat \X Nat
                          /\ g[1] - g[2] - g[3] >= 3

(* The glyphs of f that an item's first Probe bytes hold.                  *)
Probed(f) == Max({n \in 0 .. Len(f) : Bytes(Upto(f, n)) <= Probe})

(* No fragment has a rune that the probe would cut.                        *)
ASSUME FragmentAssumption ==
    \A f \in Fragments : /\ Len(f) > 0
                         /\ " " \notin ToSet(f)
                         /\ Probed(f) < Len(f) => Bytes(Upto(f, Probed(f))) = Probe
ASSUME LevelAssumption == Levels \subseteq 1 .. 6

VARIABLES
    r,              \* the renderer
    \* parse_state
    block,          \* what the line belongs to
    line,           \* "text", "first" on the first line of an item, or at the start
                    \* of a line "start", or "hard" after a hard break
    spaces,         \* immediate_spaces_len, and trailing_spaces
    soft,           \* pending_soft_space
    \* history
    typed,          \* the glyphs the renderer was given, and what separated them
    events,
    resizes

vars == <<r, block, line, spaces, soft, typed, events, resizes>>

Blocks == {"none", "para", "head", "item", "itemBlank", "finished"}

-----------------------------------------------------------------------------
(* Writing.  A printed cell remembers the geometry it was printed under.   *)

Cells(q, s) == [i \in DOMAIN s |-> [c |-> s[i], width |-> q.width, left |-> q.left]]

Repeat(c, n) == [i \in 1 .. n |-> c]

(* Whether ansi_ensure_left_margin writes the margin now. *)
MarginDue(q) == q.left > 0 /\ (q.pending_left_margin \/ q.col = 0) /\ ~q.suppress_left_margin

LeftMargin(q) ==
    IF MarginDue(q)
    THEN [q EXCEPT !.printed = @ \o Cells(q, Repeat("margin", q.left)),
                   !.col = @ + q.left,
                   !.pending_left_margin = FALSE,
                   !.prev_space = TRUE]
    ELSE q

Put(q, s) ==
    IF s = <<>> THEN q
    ELSE LET put(m) == [m EXCEPT !.printed = @ \o Cells(m, s),
                                 !.col = @ + Cols(s),
                                 !.prev_space = Last(s) = " "]
         IN  put(LeftMargin(q))

PlainNewline(q) ==
    [q EXCEPT !.printed = @ \o Cells(q, <<"\n">>),
              !.col = 0,
              !.pending_left_margin = TRUE,
              !.suppress_left_margin = FALSE,
              !.pending_space = FALSE,
              !.prev_space = FALSE]

HeadingPrefix(q) == IF q.heading > 0 THEN q.heading + 1 ELSE 0

(* A break within a block: the next line begins below its text. *)
Newline(q) ==
    Put(Put(PlainNewline(q), Repeat(" ", q.wrap_indent)), Repeat(" ", HeadingPrefix(q)))

PrefixWidth(q) == (IF q.list_item_open THEN q.wrap_indent ELSE 0) + HeadingPrefix(q)

(* A mutant of ContentLimit: one column too many. *)
ContentLimitAndOne(q) ==
    IF q.left = 0 /\ q.right = 0 THEN q.width + 1
    ELSE LET prefix == Max({PrefixWidth(q), q.left})
         IN  IF prefix >= q.width THEN 1 ELSE q.width - prefix + 1

ContentLimit(q) ==
    IF q.left = 0 /\ q.right = 0 THEN q.width
    ELSE LET prefix == Max({PrefixWidth(q), q.left})
         IN  IF prefix >= q.width THEN 1 ELSE q.width - prefix

(* Glyph by glyph; unless a word is being flushed, no glyph begins beyond  *)
(* the width.                                                              *)
PutGlyphs(q, s, flushing) ==
    LET one(p, c) ==
            Put(IF ~flushing /\ c # Wide /\ p.col > p.width THEN Newline(p) ELSE p, <<c>>)
    IN  FoldLeft(one, q, s)

-----------------------------------------------------------------------------
(* Words that do not fit. *)

(* Pieces on lines of their own. *)
PutPieces(q, pieces, PutLine(_, _, _)) ==
    LET end(p, k) == IF k < Len(pieces) THEN Newline(p) ELSE p
        one(p, k) == end(PutLine(p, pieces[k], k = Len(pieces)), k)
    IN  FoldLeft(one, q, [k \in DOMAIN pieces |-> k])

WholeLine(p, s, last) == Put(p, s)

SplitFullWidth(q, w, wide) ==
    LET limit == ContentLimit(q)
        glyphs(p, s, last) == PutGlyphs(p, s, wide \/ ~last)
    IN  IF HasScheme(w) \/ StartsAuthority(w)
        THEN PutPieces(q, Pieces(w, limit, UrlSplit), WholeLine)
        ELSE PutPieces(q, Pieces(w, limit, RuneSplit), glyphs)

(* A mutant of SplitAt: the glyph after the cut is skipped. *)
SplitSkippingOne(q, w, cut, wide) ==
    IF cut = 0 THEN Put(q, w)
    ELSE SplitFullWidth(Newline(PutGlyphs(q, Upto(w, cut), TRUE)), After(w, cut + 1), wide)

SplitAt(q, w, cut, wide) ==
    IF cut = 0 THEN Put(q, w)
    ELSE SplitFullWidth(Newline(PutGlyphs(q, Upto(w, cut), TRUE)), After(w, cut), wide)

(* The first word after a prefix stays next to it. *)
SplitPreservePrefix(q, w, wide) ==
    LET limit == ContentLimit(q)
    IN  SplitAt(q, w, IF Cols(w) <= limit THEN 0 ELSE RuneSplit(w, limit), wide)

(* What is left of the line takes the first piece, the following lines the *)
(* others.  When the prefix alone fills these, the loop breaks lines       *)
(* without end.                                                            *)
PutRest(q, w) ==
    IF q.width - q.col <= 0 THEN [q EXCEPT !.runaway = TRUE]
    ELSE PutPieces(q, Pieces(w, q.width - q.col, UrlSplit), WholeLine)

SplitBytes(q, w, cut) ==
    IF cut = Len(w) THEN Put(q, w) ELSE PutRest(Newline(Put(q, Upto(w, cut))), After(w, cut))

-----------------------------------------------------------------------------
(* ansi_flush_word_reserved *)

Exceeds(q, gap) == q.col > 0 /\ q.col + gap + Len(q.word) > q.width

(* A URL may begin on this line when it can be cut before the line ends. *)
SplitsAfterSpace(q) ==
    HasScheme(q.word) /\ HasBreakBefore(q.word, q.width - q.col - 1)

AtPrefix(q) == q.col > 0 /\ q.col = PrefixWidth(q)

BreaksBefore(q) ==
    IF q.pending_space THEN Exceeds(q, 1) /\ ~SplitsAfterSpace(q)
                       ELSE Exceeds(q, 0) /\ ~AtPrefix(q)

(* The space or the line break before the word. *)
BeforeWord(q) ==
    LET p == [q EXCEPT !.pending_space = FALSE, !.punct_quote_pending = FALSE]
    IN  CASE BreaksBefore(q) -> Newline(p)
          [] ~BreaksBefore(q) /\ q.pending_space -> PutGlyphs(p, <<" ">>, FALSE)
          [] OTHER -> p

(* A URL with a ? is written in two parts, and only if the ? is not last. *)
QueryLost(w) ==
    /\ HasScheme(w) \/ StartsAuthority(w)
    /\ {i \in DOMAIN w : w[i] = "?"} = {Len(w)}

PutWord(q, w) ==
    LET over  == q.col > 0 /\ q.col + Len(w) > q.width
        wide  == HasWide(w)
        cut   == UrlSplit(w, q.width - q.col)
    IN  CASE AtPrefix(q) /\ over -> SplitPreservePrefix(q, w, wide)
          [] ~(AtPrefix(q) /\ over) /\ Len(w) > q.width -> SplitFullWidth(q, w, wide)
          [] ~AtPrefix(q) /\ over /\ Len(w) <= q.width /\ ~wide /\ cut > 0 -> SplitBytes(q, w, cut)
          [] OTHER -> IF QueryLost(w) THEN q ELSE Put(q, w)

FlushHeld(q) ==
    IF q.word = <<>> THEN q
    ELSE [PutWord(BeforeWord(q), q.word) EXCEPT !.word = <<>>]

(* A slash that waits for a second one is given up with the word. *)
RECURSIVE FlushWord(_)
FlushWord(q) ==
    IF q.uri_scheme_pending # "slash"
    THEN FlushHeld([q EXCEPT !.uri_scheme_pending = "no"])
    ELSE FlushWord([FlushHeld([q EXCEPT !.uri_scheme_pending = "no"]) EXCEPT
                        !.word = <<"/">>, !.prev_space = FALSE])

WriteNewline(q) == PlainNewline(FlushWord(q))

RECURSIVE FlushBreaks(_)
FlushBreaks(q) ==
    IF q.pending_breaks = 0 THEN q
    ELSE FlushBreaks([WriteNewline(q) EXCEPT !.pending_breaks = @ - 1])

RaiseBreaks(q, n) == [q EXCEPT !.pending_breaks = Max({@, n})]

-----------------------------------------------------------------------------
(* Text: ansi_process_text outside inline markup, glyph by glyph.  next is *)
(* what follows in the same token.                                         *)

HoldSpace(q) ==
    IF q.col = 0 \/ (q.prev_space /\ ~q.pending_space)
    THEN PutGlyphs(q, <<" ">>, FALSE)
    ELSE [q EXCEPT !.pending_space = TRUE]

HandleSpace(q) == HoldSpace(FlushWord(q))

WriteGlyph(q, c) ==
    IF c = " " THEN HandleSpace(q)
    ELSE [q EXCEPT !.word = Append(@, c), !.prev_space = FALSE]

(* ansi_handle_plain_visible_char: a word ends after punctuation, unless   *)
(* it is the : of a URL, or a quotation mark follows.                      *)
EndsBefore(q, c) ==
    \/ q.punct_quote_pending /\ c # Quote
    \/ c = ")" /\ q.word # <<>> /\ Last(q.word) = "?"

EndAfter(q, c, next) ==
    CASE (c = "?" /\ next = Nul) \/ ~PunctBoundary(c, next) -> q
      [] c = ":" /\ EndsWithScheme(q.word) /\ next \in {"/", Nul} ->
            [q EXCEPT !.uri_scheme_pending = "colon"]
      [] OTHER -> IF next = Nul THEN [q EXCEPT !.punct_quote_pending = TRUE]
                                ELSE FlushWord(q)

PlainGlyph(q, c, next) ==
    EndAfter(WriteGlyph([(IF EndsBefore(q, c) THEN FlushWord(q) ELSE q) EXCEPT
                            !.punct_quote_pending = FALSE], c), c, next)

(* After a scheme's : the renderer waits for two slashes. *)
GiveUpScheme(q) ==
    LET slash == q.uri_scheme_pending = "slash"
    IN  [FlushWord([q EXCEPT !.uri_scheme_pending = "no"]) EXCEPT
            !.word = IF slash THEN <<"/">> ELSE @,
            !.prev_space = @ /\ ~slash]

TextGlyph(q, c, next) ==
    CASE q.uri_scheme_pending = "colon" /\ c = "/" ->
            [q EXCEPT !.uri_scheme_pending = "slash"]
      [] q.uri_scheme_pending = "slash" /\ c = "/" ->
            [q EXCEPT !.word = @ \o <<"/", "/">>, !.prev_space = FALSE,
                      !.uri_scheme_pending = "no"]
      [] OTHER -> PlainGlyph(IF q.uri_scheme_pending = "no" THEN q ELSE GiveUpScheme(q), c, next)

WriteSpace(q) ==
    CASE ~q.pending_space -> q
      [] q.pending_space /\ q.col > 0 /\ q.col + 2 > q.width ->
            Newline([q EXCEPT !.pending_space = FALSE])
      [] OTHER -> Put([q EXCEPT !.pending_space = FALSE], <<" ">>)

FlushSpace(q) == WriteSpace(FlushWord(q))

(* The bullet of an item is written with its first token. *)
FlushListMarker(q) ==
    IF ~q.pending_list_marker THEN q
    ELSE HandleSpace([Put(FlushSpace(FlushBreaks(q)), <<"-">>) EXCEPT
                         !.wrap_indent = 2, !.pending_list_marker = FALSE])

RECURSIVE ProcessText(_, _)
ProcessText(q, s) ==
    IF s = <<>> THEN q
    ELSE ProcessText(TextGlyph(q, Head(s), IF Len(s) > 1 THEN s[2] ELSE Nul), Tail(s))

(* ansi_write_token for TEXT and SPACE.  After the breaks within an item a *)
(* space is not wanted, but only the next token of the two clears that.    *)
BeginText(q) ==
    [FlushBreaks(q) EXCEPT !.in_paragraph = @ \/ (q.heading = 0 /\ ~q.list_item_open)]

TextToken(q, s) ==
    IF q.suppress_list_hardbreak_space /\ s = <<" ">>
    THEN [FlushListMarker(q) EXCEPT !.suppress_list_hardbreak_space = FALSE]
    ELSE ProcessText(BeginText([FlushListMarker(q) EXCEPT
                                   !.suppress_list_hardbreak_space = FALSE]), s)

RECURSIVE WriteTokens(_, _)
WriteTokens(q, tokens) ==
    IF tokens = <<>> THEN q ELSE WriteTokens(TextToken(q, Head(tokens)), Tail(tokens))

(* The parser has seen a space: the word before it is complete. *)
SpaceBoundary(q) == IF q.uri_scheme_pending = "no" THEN FlushWord(q) ELSE q

-----------------------------------------------------------------------------
(* Blocks. *)

LeaveParagraph(q) ==
    IF q.in_paragraph THEN RaiseBreaks([q EXCEPT !.in_paragraph = FALSE], 2) ELSE q

EndParagraph(q) == LeaveParagraph(SpaceBoundary(FlushListMarker(q)))

OpenHeading(q, level) == LeftMargin([q EXCEPT !.in_paragraph = FALSE, !.heading = level])

BeginHeading(q, level) ==
    FlushSpace(HandleSpace(
        [OpenHeading(FlushSpace(FlushBreaks(q)), level) EXCEPT
            !.word = Repeat("#", level), !.prev_space = FALSE]))

EndHeading(q) == WriteNewline(RaiseBreaks([FlushWord(q) EXCEPT !.heading = 0], 1))

BeginItem(q) ==
    [q EXCEPT !.in_paragraph = FALSE, !.list_item_open = TRUE, !.pending_list_marker = TRUE]

LeaveItem(q) == IF q.col = 0 THEN q ELSE PlainNewline(q)

EndItem(q) ==
    LeaveItem([FlushWord(FlushListMarker(q)) EXCEPT !.list_item_open = FALSE, !.wrap_indent = 0])

(* ansi_renderer_finish *)
Finish(q) ==
    IF q.col > 0 \/ q.pending_space \/ q.word # <<>> THEN WriteNewline(q) ELSE q

-----------------------------------------------------------------------------
(* The parser.  Each action is one feed, or the part of a feed that ends   *)
(* where the next could begin.                                             *)

Running == block # "finished" /\ ~r.runaway

(* What the history notes of an event, which the bound counts. *)
Record(s) ==
    /\ events < MaxEvents
    /\ events' = events + 1
    /\ typed' = typed \o s

(* flush_pending_list_blank_breaks, then flush_pending_list_item_end. *)
BlankBreaks(q) ==
    [WriteNewline(WriteNewline(q)) EXCEPT !.suppress_list_hardbreak_space = TRUE]

CloseItem(q) ==
    IF block \in {"item", "itemBlank"}
    THEN EndItem(IF block = "itemBlank" THEN BlankBreaks(q) ELSE q)
    ELSE q

AtLineStart == line \in {"start", "hard"}

(* The line break before a line that goes on with a paragraph or an item.  *)
SoftSpace == AtLineStart /\ (soft \/ block = "item")

(* A mutant of Gap: a line break within an item is no space. *)
GapInParagraph == Repeat(<<" ">>, IF AtLineStart /\ soft THEN 1 ELSE spaces)

(* The spaces that precede a glyph, one token each.                        *)
Gap == Repeat(<<" ">>, IF SoftSpace THEN 1 ELSE spaces)

Separator ==
    IF block \in {"none", "itemBlank"} THEN <<"\n">>
    ELSE IF line = "hard" THEN <<"\n">>
    ELSE IF SoftSpace \/ spaces > 0 THEN <<" ">>
    ELSE <<>>

Each(f) == [i \in DOMAIN f |-> <<f[i]>>]

(* Glyphs of a paragraph or a heading, one token each. *)
Text(f) ==
    /\ Running
    /\ block # "item" \/ ~r.pending_list_marker
    /\ r' = WriteTokens(IF block = "itemBlank" THEN CloseItem(r) ELSE r, Gap \o Each(f))
    /\ block' = IF block \in {"none", "itemBlank"} THEN "para" ELSE block
    /\ line' = IF AtLineStart THEN "text" ELSE line
    /\ spaces' = 0
    /\ soft' = (soft /\ block = "head")
    /\ Record(Separator \o f)
    /\ UNCHANGED resizes

(* The first bytes of an item wait until they cannot be a task's box, and  *)
(* come as one token; a shorter fragment is the whole line.                *)
ItemText(f) ==
    /\ Running
    /\ block = "item"
    /\ r.pending_list_marker
    /\ r' = WriteTokens(r, <<Upto(f, Probed(f))>> \o Each(After(f, Probed(f))))
    /\ line' = IF Bytes(f) < Probe THEN "start" ELSE "first"
    /\ Record(f)
    /\ UNCHANGED <<block, spaces, soft, resizes>>

(* A space is held until it is known to stand between words. *)
Space ==
    /\ Running
    /\ ~AtLineStart
    /\ spaces < 2
    /\ r' = IF spaces = 0 THEN SpaceBoundary(r) ELSE r
    /\ spaces' = spaces + 1
    /\ UNCHANGED <<block, line, soft, typed, events, resizes>>

(* The end of a line of a paragraph or an item. *)
SoftBreak ==
    /\ Running
    /\ ~AtLineStart
    /\ block \in {"para", "item"}
    /\ spaces < 2
    /\ line' = "start"
    /\ soft' = (line = "text")
    /\ spaces' = 0
    /\ UNCHANGED <<r, block, typed, events, resizes>>

HardBreak ==
    /\ Running
    /\ line = "text"
    /\ block = "para"
    /\ spaces = 2
    /\ r' = WriteNewline(r)
    /\ line' = "hard"
    /\ soft' = FALSE
    /\ spaces' = 0
    /\ UNCHANGED <<block, typed, events, resizes>>

(* A blank line.  After a hard break it is a line break, and the paragraph *)
(* goes on.                                                                *)
BlankLine ==
    /\ Running
    /\ \/ block \in {"para", "item"} /\ AtLineStart /\ (block = "item" => ~r.pending_list_marker)
       \/ block = "none" /\ (soft \/ line = "hard")
    /\ r' = CASE block = "item"  -> r
              [] block # "item" /\ line = "hard" -> WriteNewline(r)
              [] OTHER -> EndParagraph(r)
    /\ block' = IF block = "item" THEN "itemBlank" ELSE "none"
    /\ line' = "start"
    /\ soft' = FALSE
    /\ UNCHANGED <<spaces, typed, events, resizes>>

(* A heading directly below a line of a paragraph does not end the         *)
(* paragraph; the break between the lines stays pending.                   *)
StartHeading(level) ==
    /\ Running
    /\ block \in {"none", "para", "item", "itemBlank"}
    /\ AtLineStart
    /\ block = "item" => ~r.pending_list_marker
    /\ r' = BeginHeading(CloseItem(r), level)
    /\ block' = "head"
    /\ line' = "text"
    /\ Record(IF block = "para" /\ soft THEN <<"glued">> ELSE <<"\n">>)
    /\ UNCHANGED <<spaces, soft, resizes>>

(* Trailing spaces make a hard break of the end of a heading, too.         *)
FinishHeading ==
    /\ Running
    /\ block = "head"
    /\ r' = EndHeading(r)
    /\ block' = "none"
    /\ line' = IF spaces = 2 THEN "hard" ELSE "start"
    /\ spaces' = 0
    /\ UNCHANGED <<soft, typed, events, resizes>>

StartItem ==
    /\ Running
    /\ block \in {"none", "para", "item", "itemBlank"}
    /\ AtLineStart
    /\ block = "item" => ~r.pending_list_marker
    /\ r' = BeginItem(IF soft /\ block # "item" THEN EndParagraph(r) ELSE CloseItem(r))
    /\ block' = "item"
    /\ line' = "start"
    /\ soft' = FALSE
    /\ Record(<<"\n">>)
    /\ UNCHANGED <<spaces, resizes>>

(* mdf_set_geometry between two feeds. *)
SetGeometry(g) ==
    /\ Running
    /\ resizes < MaxResizes
    /\ <<r.width, r.left, r.right>> # <<g[1] - g[3], g[2], g[3]>>
    /\ r' = [r EXCEPT !.width = g[1] - g[3], !.left = g[2], !.right = g[3],
                      !.suppress_left_margin =
                          @ \/ (g[2] > 0 /\ r.pending_left_margin /\ r.col > 0)]
    /\ resizes' = resizes + 1
    /\ UNCHANGED <<block, line, spaces, soft, typed, events>>

FinishDocument ==
    /\ Running
    /\ block = "item" => ~r.pending_list_marker
    /\ r' = Finish(CASE block = "head" -> EndHeading(r)
                     [] block \in {"item", "itemBlank"} -> EndItem(r)
                     [] OTHER -> r)
    /\ block' = "finished"
    /\ line' = "start"
    /\ spaces' = 0
    /\ soft' = FALSE
    /\ UNCHANGED <<typed, events, resizes>>

Init ==
    /\ \E g \in Geometries :
          r = [width |-> g[1] - g[3], left |-> g[2], right |-> g[3],
               col |-> 0, pending_left_margin |-> FALSE, suppress_left_margin |-> FALSE,
               pending_space |-> FALSE, prev_space |-> FALSE,
               word |-> <<>>, punct_quote_pending |-> FALSE, uri_scheme_pending |-> "no",
               wrap_indent |-> 0, list_item_open |-> FALSE, pending_list_marker |-> FALSE,
               suppress_list_hardbreak_space |-> FALSE,
               heading |-> 0, in_paragraph |-> FALSE, pending_breaks |-> 0,
               printed |-> <<>>, runaway |-> FALSE]
    /\ block = "none"
    /\ line = "start"
    /\ spaces = 0
    /\ soft = FALSE
    /\ typed = <<>>
    /\ events = 0
    /\ resizes = 0

Next ==
    \/ \E f \in Fragments : Text(f) \/ ItemText(f)
    \/ Space \/ SoftBreak \/ HardBreak \/ BlankLine
    \/ \E level \in Levels : StartHeading(level)
    \/ FinishHeading \/ StartItem
    \/ \E g \in Geometries : SetGeometry(g)
    \/ FinishDocument

Spec == Init /\ [][Next]_vars

-----------------------------------------------------------------------------
(* Properties. *)

IsText(c) == c \notin {" ", "\n", "glued", "margin", "#", "-"}

Kinds(cells) == [i \in DOMAIN cells |-> cells[i].c]

(* The glyphs that the renderer holds back. *)
Held == r.word \o (IF r.uri_scheme_pending = "slash" THEN <<"/">> ELSE <<>>)

(* The code drops a URL that ends in its only question mark. *)
MayLoseUrl ==
    /\ "?" \in ToSet(typed)
    /\ \E i \in 1 .. Len(typed) - 1 : typed[i] = "/" /\ typed[i + 1] = "/"

LinesOf(cells) ==
    LET one(lines, cell) ==
            IF cell.c = "\n" THEN Append(lines, <<>>)
            ELSE [lines EXCEPT ![Len(lines)] = Append(@, cell)]
    IN  FoldLeft(one, <<<<>>>>, cells)

(* For each glyph of s, what stands between it and the glyph before. *)
GapsOf(s) ==
    LET one(acc, c) ==
            IF IsText(c) THEN [gaps |-> Append(acc.gaps, acc.gap), gap |-> {}]
            ELSE [acc EXCEPT !.gap = @ \cup {c}]
    IN  FoldLeft(one, [gaps |-> <<>>, gap |-> {}], s).gaps

LineCols(cells) == Cols(Kinds(cells))

Widths(cells) == {cells[i].width : i \in DOMAIN cells}

(* Every glyph that was fed is printed once and in order, whatever was     *)
(* held, split or given up on the way, save the URLs the code drops: the   *)
(* many ways through ansi_flush_word_reserved that empty the word.         *)
EachGlyphOnce ==
    ~r.runaway /\ ~MayLoseUrl =>
        SelectSeq(Kinds(r.printed), IsText) \o Held = SelectSeq(typed, IsText)

(* A feed ends ("Feed consumes the supplied fragment without waiting for   *)
(* future fragments", include/libmdf/mdf.h:655).                           *)
FeedReturns == ~r.runaway

(* Glyphs are apart in the output exactly when they were in the source: a  *)
(* space or a line break between words, no space within one, and blocks    *)
(* and hard breaks on lines of their own.                                  *)
WordsKeepApart ==
    ~r.runaway /\ ~MayLoseUrl =>
        LET from == GapsOf(typed)
            to   == GapsOf(Kinds(r.printed))
        IN  \A k \in 2 .. Len(to) :
                /\ " " \in from[k] => to[k] \cap {" ", "\n"} # {}
                /\ "\n" \in from[k] => "\n" \in to[k]
                /\ from[k] = {} => to[k] = {} \/ "\n" \in to[k]

(* A line whose text reaches beyond every width in force while it was      *)
(* written has no place to break it: it is a single word after a margin or *)
(* a prefix, for which the code leaves no room.  (Wide runes and URLs      *)
(* aside, which it does not measure by columns.)                           *)
OnlyLoneWordsOverflow ==
    \A cells \in ToSet(LinesOf(r.printed)) :
        LET glyphs  == {i \in DOMAIN cells : IsText(cells[i].c)}
            visible == Upto(cells, Max(glyphs \cup {0}))
        IN  \/ LineCols(visible) <= Max(Widths(cells) \cup {0})
            \/ \E i \in glyphs : cells[i].c \in {Wide, "/"}
            \/ Min(glyphs) > 1 /\ glyphs = Min(glyphs) .. Len(visible)

=============================================================================
