------------------------------ MODULE HtmlDeck ------------------------------
(***************************************************************************)
(* The HTML deck renderer, deck_render in src/mdf.c: it reads the source   *)
(* line by line, splits it into slides at thematic breaks, has each slide  *)
(* rendered by an HTML renderer of its own and writes it into a section.   *)
(* Where a break is one depends on the fences, lists and quotes around it, *)
(* and on whether the document starts with front matter.                   *)
(*                                                                         *)
(* A line is what the splitter tells apart: its leading spaces, what       *)
(* follows them, and of a fence or a break the mark and its length.  Lines *)
(* are held by their positions in the document.                            *)
(***************************************************************************)
EXTENDS Naturals, Sequences, FiniteSets, FiniteSetsExt, SequencesExt

CONSTANTS
    DeckLines,      \* sets of lines, one of which a document is made of
    ThemeExplicit,  \* the caller chose a theme
    MaxDeckLines    \* bound: the lines of a document

DeckKinds == {"blank", "text", "break", "item", "quote", "fence", "key", "comment"}

ASSUME DeckLinesAssumption ==
    \A S \in DeckLines : \A l \in S :
        /\ DOMAIN l = {"lead", "what", "mark", "run", "rest"}
        /\ l.lead \in Nat /\ l.run \in Nat /\ l.what \in DeckKinds

VARIABLES
    kinds,          \* the lines of this document
    doc,            \* those read so far
    todo,           \* what is left to do with the last: "", "front", "body"
    front_matter,   \* the lines held as front matter
    in_front_matter,
    front_matter_has_key,
    slide_markdown, \* the lines of the slide
    fence,          \* the mark and the length of the open fence
    list_indent,    \* where the item's content starts, 0 outside of lists
    blockquote_lazy_active,
    front_theme,    \* the line of front matter that names the theme, 0: none
    html_renderer,  \* "none", "made" or "destroyed"
    deck_out,       \* what was written; history: the lines each slide was given
    deck_status     \* "running", "OK", "IO" or "NOMEM"

splitter == <<fence, list_indent, blockquote_lazy_active>>
probe    == <<front_matter, in_front_matter, front_matter_has_key>>
written  == <<front_theme, html_renderer, deck_out, deck_status>>
deckVars == <<kinds, doc, todo, probe, slide_markdown, splitter, written>>

-----------------------------------------------------------------------------
(* What a line is.                                                          *)

NoFence == [mark |-> "", run |-> 0]

IsBlank(l) == l.what = "blank"
IsFrontMatterFence(l) == l.what = "break" /\ l.lead = 0 /\ l.mark = "-" /\ l.run = 3 /\ l.rest = ""
HasKey(l) == l.what = "key"
CanBeMetadata(l) == l.what \in {"blank", "comment", "key"}
CanContinue(l) == l.lead > 0 /\ l.what \notin {"blank", "comment"}

OpensFence(l) == l.what = "fence" /\ l.lead <= 3 /\ l.run >= 3
ClosesFence(l, f) == l.what = "fence" /\ l.lead <= 3 /\ l.mark = f.mark /\ l.run >= f.run /\ l.rest = ""

(* A break with spaces between its marks may be an item, too.               *)
IsSpacedBreak(l) == l.what = "break" /\ l.mark # "_" /\ l.rest = "spaced"
OpensItem(l) == l.lead < 4 /\ (l.what = "item" \/ IsSpacedBreak(l))
ItemIndent(l) == l.lead + (IF l.what = "item" THEN l.run ELSE 1) + 1

(* Fault: a break is one at any depth of the list.                          *)
IsSeparatorAnywhere(l, indent) == l.what = "break" /\ l.lead < 4

IsSeparator(l, indent) == l.what = "break" /\ l.lead < 4 /\ ~(indent > 0 /\ l.lead >= indent)

-----------------------------------------------------------------------------
(* The HTML of a slide.  A token is a tag, white space or the text of a     *)
(* line; a heading is a span of its own.                                    *)

When(cond, seq) == IF cond THEN seq ELSE <<>>
Token(tag, pos) == [tag |-> tag, pos |-> pos]
Space == Token("space", 0)

(* The fence that is open before each of the lines of a slide.              *)
FenceAfter(f, l) ==
    IF f # NoFence THEN IF ClosesFence(l, f) THEN NoFence ELSE f
    ELSE IF OpensFence(l) THEN [mark |-> l.mark, run |-> l.run] ELSE f
FenceBefore(lines) ==
    LET F[i \in 1 .. Len(lines) + 1] ==
            IF i = 1 THEN NoFence ELSE FenceAfter(F[i - 1], doc[lines[i - 1]])
    IN  F

(* A slide's rendering: a heading's text follows its markers and a space.   *)
LineHtml(p, fenced) ==
    IF IsBlank(doc[p]) THEN <<Space>>
    ELSE IF doc[p].what = "comment" /\ ~fenced
    THEN <<Token("heading", p), Token("#", p), Space, Token("text", p), Token("/span", p), Space>>
    ELSE <<Token("span", p), Token("text", p), Token("/span", p), Space>>
LinesHtml(lines) ==
    FlattenSeq([i \in 1 .. Len(lines) |-> LineHtml(lines[i], FenceBefore(lines)[i] # NoFence)])

(* A slide is rendered as a document of its own, and what looks like front  *)
(* matter at its start is taken for that: a delimiter, a line with a colon, *)
(* an equals sign or a bracket, and the delimiter again further down.       *)
Delimiter(l) ==
    IF /\ l.run = 3 /\ l.rest = ""
       /\ (l.what = "break" /\ l.mark = "-") \/ (l.what = "text" /\ l.mark \in {"+", ";"})
    THEN l.mark ELSE ""
MetadataLikely(l) == l.what = "key" \/ l.rest = "meta"
Kept(lines) ==
    LET closes == {i \in 3 .. Len(lines) : Delimiter(doc[lines[i]]) = Delimiter(doc[lines[1]])}
    IN  IF closes # {} /\ Delimiter(doc[lines[1]]) # "" /\ MetadataLikely(doc[lines[2]])
        THEN SubSeq(lines, Min(closes) + 1, Len(lines)) ELSE lines
SlideHtml(lines) == LinesHtml(Kept(lines))

IsInk(token) == token.tag # "space"
Ink(html) == {i \in 1 .. Len(html) : IsInk(html[i])}
TrimHtml(html) == IF Ink(html) = {} THEN <<>> ELSE SubSeq(html, Min(Ink(html)), Max(Ink(html)))

SpanEnd(html, i) == Min({j \in i .. Len(html) : html[j].tag = "/span"})

(* Where the heading ends that a slide begins with, 0 without one.          *)
TopHeadingEnd(html) ==
    LET first == Min(Ink(html))
    IN  IF Ink(html) # {} /\ html[first].tag = "heading" THEN SpanEnd(html, first) ELSE 0

(* White space after a heading is left out.                                 *)
BodyHtml(html) ==
    LET ends == {SpanEnd(html, i) : i \in {j \in 1 .. Len(html) : html[j].tag = "heading"}}
        After(i) == \E e \in ends \cap 1 .. i - 1 : \A j \in e + 1 .. i : ~IsInk(html[j])
    IN  FlattenSeq([i \in DOMAIN html |-> When(~After(i), <<html[i]>>)])

(* The first slide as it is, the others with their heading apart.           *)
Section(html, index) ==
    LET end == TopHeadingEnd(html)
    IN  IF index = 1 THEN [header |-> <<>>, body |-> html]
        ELSE [header |-> SubSeq(html, 1, end),
              body   |-> BodyHtml(TrimHtml(SubSeq(html, end + 1, Len(html))))]

-----------------------------------------------------------------------------
Slides == FlattenSeq([k \in DOMAIN deck_out |-> When(deck_out[k].what = "slide", <<deck_out[k]>>)])
Nothing == [header |-> <<>>, body |-> <<>>]
DeckPiece(what) == [what |-> what, section |-> Nothing, given |-> <<>>]
Given(lines) == FlattenSeq([i \in DOMAIN lines |-> When(~IsBlank(doc[lines[i]]), <<lines[i]>>)])
SlidePiece(lines, index) ==
    [what |-> "slide", section |-> Section(SlideHtml(lines), index), given |-> Given(lines)]

Shell == When(deck_out = <<>>, <<DeckPiece("shell")>>)

End(status, pieces) ==
    /\ deck_status' = status /\ html_renderer' = "destroyed"
    /\ deck_out' = deck_out \o pieces
    /\ UNCHANGED front_theme

(* deck_render_write_slide: the renderer is made for the first slide, which *)
(* the shell precedes.  Each of these can fail, a write in the middle.      *)
WriteSlide(more) ==
    /\ html_renderer' = "made" /\ slide_markdown' = more
    /\ deck_out' = deck_out \o Shell
                   \o <<SlidePiece(slide_markdown, Len(Slides) + 1)>>
    /\ UNCHANGED <<front_theme, deck_status>>
SlideFails ==
    /\ UNCHANGED slide_markdown
    /\ \/ End("NOMEM", <<>>)
       \/ End("IO", <<>>)
       \/ End("IO", <<DeckPiece("torn")>>)
       \/ End("IO", Shell \o <<DeckPiece("torn")>>)

DeckRunning == deck_status = "running"
Line == doc[Len(doc)]
Here == Len(doc)

-----------------------------------------------------------------------------
DeckInit ==
    /\ kinds \in DeckLines /\ doc = <<>> /\ todo = ""
    /\ front_matter = <<>> /\ in_front_matter = FALSE /\ front_matter_has_key = FALSE
    /\ slide_markdown = <<>>
    /\ fence = NoFence /\ list_indent = 0 /\ blockquote_lazy_active = FALSE
    /\ front_theme = 0 /\ html_renderer = "none" /\ deck_out = <<>> /\ deck_status = "running"

(* The next line; the first may open front matter.                          *)
ReadLine(l) ==
    /\ DeckRunning /\ todo = "" /\ Len(doc) < MaxDeckLines
    /\ doc' = Append(doc, l)
    /\ todo' = IF in_front_matter \/ (doc = <<>> /\ IsFrontMatterFence(l)) THEN "front" ELSE "body"
    /\ UNCHANGED <<kinds, probe, slide_markdown, splitter, written>>

ReadFails ==
    /\ DeckRunning /\ todo = ""
    /\ \E status \in {"IO", "NOMEM"} : End(status, <<>>)
    /\ UNCHANGED <<kinds, doc, todo, probe, slide_markdown, splitter>>

(* Front matter is opened, goes on, or is closed: without a key it was text. *)
HoldFrontMatter ==
    /\ DeckRunning /\ todo = "front"
    /\ \/ ~in_front_matter
       \/ ~IsFrontMatterFence(Line) /\ (CanBeMetadata(Line) \/ (front_matter_has_key /\ CanContinue(Line)))
    /\ in_front_matter' = TRUE
    /\ front_matter_has_key' = (front_matter_has_key \/ HasKey(Line))
    /\ front_matter' = Append(front_matter, Here)
    /\ todo' = ""
    /\ UNCHANGED <<kinds, doc, slide_markdown, splitter, written>>

EndFrontMatter ==
    /\ in_front_matter' = FALSE /\ front_matter_has_key' = FALSE /\ front_matter' = <<>>

Themes == {p \in ToSet(front_matter) : HasKey(doc[p]) /\ doc[p].lead = 0 /\ doc[p].rest = "theme"}

CloseFrontMatter ==
    /\ DeckRunning /\ todo = "front" /\ in_front_matter /\ IsFrontMatterFence(Line)
    /\ EndFrontMatter
    /\ slide_markdown' = IF front_matter_has_key THEN slide_markdown
                         ELSE slide_markdown \o Append(front_matter, Here)
    /\ front_theme' = IF front_matter_has_key /\ Themes # {} /\ ~ThemeExplicit THEN Max(Themes) ELSE front_theme
    /\ todo' = ""
    /\ UNCHANGED <<kinds, doc, splitter, html_renderer, deck_out, deck_status>>

(* Fault: its first line is text, too.                                      *)
FrontMatterIsText == EndFrontMatter /\ WriteSlide(front_matter)

(* It is none: its first line was a break, and the others are text.         *)
NoFrontMatter == EndFrontMatter /\ WriteSlide(Tail(front_matter))
RejectFrontMatter ==
    /\ DeckRunning /\ todo = "front" /\ in_front_matter /\ ~IsFrontMatterFence(Line)
    /\ ~CanBeMetadata(Line) /\ ~(front_matter_has_key /\ CanContinue(Line))
    /\ \/ NoFrontMatter /\ todo' = "body"
       \/ SlideFails /\ UNCHANGED <<probe, todo>>
    /\ UNCHANGED <<kinds, doc, splitter>>

(* A line in a fence, and one that may close it.                            *)
FencedLine ==
    /\ DeckRunning /\ todo = "body" /\ fence # NoFence
    /\ fence' = IF ClosesFence(Line, fence) THEN NoFence ELSE fence
    /\ slide_markdown' = Append(slide_markdown, Here)
    /\ todo' = ""
    /\ UNCHANGED <<kinds, doc, probe, list_indent, blockquote_lazy_active, written>>

(* A blank line ends a quote, a line to the left of the list the list; the  *)
(* line is then a fence, a break between slides, or text.                   *)
LazyBefore == blockquote_lazy_active /\ ~IsBlank(Line)
IndentBefore ==
    IF (~IsBlank(Line) \/ Line.lead > 0) /\ Line.lead < list_indent /\ ~OpensItem(Line) THEN 0 ELSE list_indent
Separates == ~OpensFence(Line) /\ ~LazyBefore /\ IsSeparator(Line, IndentBefore)

BodyLine ==
    /\ DeckRunning /\ todo = "body" /\ fence = NoFence /\ ~Separates
    /\ fence' = FenceAfter(fence, Line)
    /\ list_indent' = IF OpensItem(Line) /\ ~OpensFence(Line) THEN ItemIndent(Line) ELSE IndentBefore
    /\ blockquote_lazy_active' = (LazyBefore \/ Line.what = "quote")
    /\ slide_markdown' = Append(slide_markdown, Here)
    /\ todo' = ""
    /\ UNCHANGED <<kinds, doc, probe, written>>

NextSlide ==
    /\ DeckRunning /\ todo = "body" /\ fence = NoFence /\ Separates
    /\ \/ WriteSlide(<<>>) /\ list_indent' = 0 /\ todo' = ""
       \/ SlideFails /\ UNCHANGED <<list_indent, todo>>
    /\ blockquote_lazy_active' = LazyBefore
    /\ UNCHANGED <<kinds, doc, probe, fence>>

(* The end of the source: front matter that is still open is none.          *)
RejectAtEnd ==
    /\ DeckRunning /\ todo = "" /\ in_front_matter
    /\ \/ NoFrontMatter
       \/ SlideFails /\ UNCHANGED probe
    /\ todo' = "end"
    /\ UNCHANGED <<kinds, doc, splitter>>

LastSlide ==
    /\ DeckRunning /\ (todo = "end" \/ (todo = "" /\ ~in_front_matter))
    /\ \/ WriteSlide(<<>>) \/ SlideFails
    /\ todo' = "shell"
    /\ UNCHANGED <<kinds, doc, probe, splitter>>

CloseShell ==
    /\ DeckRunning /\ todo = "shell"
    /\ \/ End("OK", <<DeckPiece("end")>>)
       \/ End("IO", <<DeckPiece("torn")>>)
    /\ UNCHANGED <<kinds, doc, todo, probe, slide_markdown, splitter>>

DeckNext ==
    \/ \E l \in kinds : ReadLine(l)
    \/ ReadFails \/ HoldFrontMatter \/ CloseFrontMatter \/ RejectFrontMatter
    \/ FencedLine \/ BodyLine \/ NextSlide \/ RejectAtEnd \/ LastSlide \/ CloseShell

DeckSpec == DeckInit /\ [][DeckNext]_deckVars

-----------------------------------------------------------------------------
(* What the document is, line by line.                                      *)

(* Front matter: keys, comments and continuations of keys between the       *)
(* first line and the next that is like it.                                 *)
Fences == {p \in 1 .. Len(doc) : IsFrontMatterFence(doc[p])}
FrontMatter ==
    LET end  == Min(Fences \ {1})
        keys == {p \in 2 .. end : HasKey(doc[p])}
        Fits(p) == CanBeMetadata(doc[p]) \/ (CanContinue(doc[p]) /\ \E k \in keys : k < p)
    IN  IF 1 \in Fences /\ Fences # {1} /\ keys # {} /\ \A p \in 2 .. end - 1 : Fits(p) THEN 1 .. end ELSE {}

TextOf(html) == FlattenSeq([i \in DOMAIN html |-> When(html[i].tag = "text", <<html[i].pos>>)])
ShownOn(slide) == TextOf(slide.section.header) \o TextOf(slide.section.body)
GivenLines == FlattenSeq([k \in 1 .. Len(Slides) |-> Slides[k].given])
Separators == {p \in 1 .. Len(doc) : ~IsBlank(doc[p])} \ (ToSet(GivenLines) \cup FrontMatter)

(* The first line of the slide that a line is on, or that it ends, and the  *)
(* line behind its last.                                                    *)
SlideStart(p) == Max({0} \cup FrontMatter \cup {q \in Separators : q < p}) + 1
SlideEnd(p)   == Min({q \in Separators : q >= p} \cup {Len(doc) + 1})

(* The lines of a slide, from its first, that are taken for front matter.   *)
OwnFrontMatter(first) ==
    LET closes == {p \in first + 2 .. SlideEnd(first) - 1 : Delimiter(doc[p]) = Delimiter(doc[first])}
    IN  IF closes # {} /\ Delimiter(doc[first]) # "" /\ MetadataLikely(doc[first + 1])
        THEN first .. Min(closes) ELSE {}

Ascending(s) == \A i, j \in 1 .. Len(s) : i < j => s[i] < s[j]

(* A deck keeps its document: every line is given to one slide, in order,   *)
(* but for front matter and for one break between any two slides; and a     *)
(* slide shows all it was given but front matter of its own.                *)
DeckLinesKept ==
    deck_status = "OK" =>
        /\ Ascending(GivenLines)
        /\ ToSet(GivenLines) \cap FrontMatter = {}
        /\ Cardinality(Separators) = Len(Slides) - 1
        /\ \A p \in Separators : doc[p].what = "break"
        /\ \A k \in 1 .. Len(Slides) :
              /\ \A p \in ToSet(Slides[k].given) : Cardinality({q \in Separators : q < p}) = k - 1
              /\ Ascending(ShownOn(Slides[k]))
              /\ ToSet(ShownOn(Slides[k])) =
                    {p \in ToSet(Slides[k].given) : p \notin OwnFrontMatter(SlideStart(p))}

(* The contexts in which a break is not one, from the lines of its slide.   *)
InFence(p) ==
    LET from == SlideStart(p)
    IN  FenceBefore([i \in 1 .. p - from |-> from + i - 1])[p - from + 1] # NoFence
InQuote(p) ==
    \E q \in SlideStart(p) .. p - 1 :
        /\ doc[q].what = "quote" /\ ~InFence(q)
        /\ \A b \in q .. p : ~IsBlank(doc[b]) \/ InFence(b)
InItem(p) ==
    LET items == {q \in SlideStart(p) .. p - 1 : OpensItem(doc[q]) /\ ~InFence(q)}
        last  == Max(items)
        Ends(q) == ~InFence(q) /\ (~IsBlank(doc[q]) \/ doc[q].lead > 0) /\ doc[q].lead < ItemIndent(doc[last])
    IN  /\ items # {} /\ doc[p].lead >= ItemIndent(doc[last])
        /\ \A q \in last + 1 .. p - 1 : ~Ends(q)

(* Lines that were held as front matter in vain are not looked at again:    *)
(* a fence, an item or a break among them goes unnoticed.                   *)
Held(p) == 1 \in Fences /\ FrontMatter = {} /\ SlideStart(p) <= 2

(* Slides end at thematic breaks, and at all of them, but not in fenced     *)
(* code, in a quote or in an item (src/docs/html-slide-deck-mode.md:126).   *)
SlidesEndAtBreaks ==
    deck_status = "OK" =>
        \A p \in 1 .. Len(doc) \ FrontMatter :
            doc[p].what = "break" /\ ~Held(p) =>
                (p \in Separators <=> doc[p].lead < 4 /\ ~InFence(p) /\ ~InQuote(p) /\ ~InItem(p))

=============================================================================
