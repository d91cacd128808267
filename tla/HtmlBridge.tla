----------------------------- MODULE HtmlBridge -----------------------------
(***************************************************************************)
(* The HTML renderer (src/src/render_html.c): HTML documents are made from *)
(* what the ANSI renderer writes.  html_bridge_consume reads its text,     *)
(* colours and links byte by byte and turns each line into spans, links    *)
(* and headings: a line whose first bytes tell that it has no list or      *)
(* quote marker is written as it comes (stream), any other is collected in *)
(* segments and written when the line after it starts (FlushLine).  Charts *)
(* go through the same bridge within a box; tables are written around it.  *)
(*                                                                         *)
(* A byte is a string naming it; an escape sequence is one item, the style *)
(* or the link it selects.  Boring output, which joins spans, and vertical *)
(* charts, whose rows are aligned at their axis, are left out.             *)
(***************************************************************************)
EXTENDS Integers, Sequences, SequencesExt

CONSTANTS
    Lines,      \* what the ANSI renderer writes for a line: [lead, body], the
                \* lead being what a heading in it loses
    Charts,     \* its charts: [kind, rows], the rows being lines as well
    MaxBlocks,  \* bound: lines, charts and tables of a document
    Styles,     \* the styles its escapes select,
    Plain,      \* the one they reset to,
    CodeStyle,  \* that of code blocks in a theme that tells headings in them
    Links,      \* the links they open,
    NoLink,     \* the escape that closes one
    Safe(_)     \* html_link_url_is_safe

Newline == "\n"
Digit   == {"1", "2"}
Utf8    == [c \in {"e1", "e2"} |-> IF c = "e1" THEN 2 ELSE 0]   \* html_utf8_expected_len

Escapes == Styles \cup Links \cup {NoLink}

ASSUME StyleAssumption == {Plain, CodeStyle} \subseteq Styles
ASSUME LinkAssumption  == NoLink \notin Links /\ Styles \cap (Links \cup {NoLink}) = {}
ASSUME EscapeAssumption ==
    /\ Escapes \subseteq STRING
    /\ Escapes \cap ({Newline} \cup DOMAIN Utf8) = {}

VARIABLES
    html,       \* struct html_state, the two flags of mdf_impl, and `page', what was written
    ansi,       \* what the ANSI renderer has still to write of this block: [c, lead]
    pen,        \* the style and link its escapes have selected
    given,      \* the characters it wrote: [c, lead, style, link, box], box within
                \* a chart
    phase,      \* "text", "chart", "table", "ending", "finished"
    blocks      \* blocks begun

vars == <<html, ansi, pen, given, phase, blocks>>

-----------------------------------------------------------------------------
(* What is written to the caller's sink.  Added text is not from the        *)
(* document.                                                                *)
Open(element, at) == [tag |-> "open",  of |-> element, at |-> at]
Close(element)    == [tag |-> "close", of |-> element, at |-> ""]
Text(seq)         == [i \in DOMAIN seq |-> [tag |-> "text",  of |-> seq[i], at |-> ""]]
Added(seq)        == [i \in DOMAIN seq |-> [tag |-> "added", of |-> seq[i], at |-> ""]]
When(cond, seq)   == IF cond THEN seq ELSE <<>>

(* What a browser makes of it: the elements that are open, the characters   *)
(* with what they are in, and whether each tag closed the innermost element *)
(* (the link of a whole line closes within its spans).  A closing tag takes *)
(* away the innermost of its name; a row of a tile chart is a line by       *)
(* itself.                                                                  *)
EmptyPage == [stack |-> <<>>, text |-> <<>>, nested |-> TRUE]
Lastly(stack, element) == Max({0} \cup {i \in DOMAIN stack : stack[i].of = element})
Innermost(stack, element) ==
    LET at == Lastly(stack, element) IN IF at = 0 THEN "" ELSE stack[at].at
Shown(c, stack) ==
    [c |-> c, style |-> Innermost(stack, "span"), link |-> Innermost(stack, "a"),
     within |-> {stack[i].of : i \in DOMAIN stack}]

Browse(page, tag) ==
    CASE tag.tag = "open"  -> [page EXCEPT !.stack = Append(@, [of |-> tag.of, at |-> tag.at])]
      [] tag.tag = "text"  -> [page EXCEPT !.text = Append(@, Shown(tag.of, page.stack))]
      [] tag.tag = "added" -> page
      [] tag.tag = "close" ->
           [stack  |-> RemoveAt(page.stack, Lastly(page.stack, tag.of)),
            text   |-> page.text \o When(tag.of = "block", <<Shown(Newline, page.stack)>>),
            nested |-> page.nested /\ LET top == Last(page.stack).of
                                     IN  top = tag.of \/ (tag.of = "a" /\ top = "content")]

(* The page after these tags, read one by one.                              *)
PageAfter(page, tags) ==
    LET read[n \in 0..Len(tags)] == IF n = 0 THEN page ELSE Browse(read[n - 1], tags[n])
    IN  read[Len(tags)]
Emit(h, tags) == [h EXCEPT !.page = PageAfter(@, tags)]

LineText(h) == FlattenSeq([i \in DOMAIN h.segments |-> h.segments[i].text])   \* line_plain
Clear(h)    == [h EXCEPT !.segments = <<>>]

(* The characters of a slice of a segment under its style and its link.     *)
Dress(seg, text, linked) ==
    LET a == linked /\ seg.link # NoLink
    IN  When(a, <<Open("a", seg.link)>>) \o <<Open("span", seg.style)>> \o Text(text)
          \o <<Close("span")>> \o When(a, <<Close("a")>>)

Slices(h, from, to, linked) ==
    LET Slice(i) ==
            LET before == Len(FlattenSeq([j \in 1..(i - 1) |-> h.segments[j].text]))
                text   == SubSeq(h.segments[i].text, Max({from - before, 0}) + 1,
                                 Min({to - before, Len(h.segments[i].text)}))
            IN  When(text # <<>>, Dress(h.segments[i], text, linked))
    IN  FlattenSeq([i \in DOMAIN h.segments |-> Slice(i)])

-----------------------------------------------------------------------------
(* What a line is.                                                          *)
At(s, i)       == IF i \in DOMAIN s THEN s[i] ELSE ""
SkipBlanks(s, i) == Min({k \in i..Len(s) : k = Len(s) \/ s[k + 1] # " "})
QuoteAt(s, i)  == At(s, i + 1) = ">" /\ At(s, i + 2) = " "

(* Bytes of the quote markers at the start of s, and of the blanks before   *)
(* and after each.                                                          *)
QuotesEnd(s) ==
    LET end[i \in 0..Len(s)] == LET t == SkipBlanks(s, i)
                                IN  IF QuoteAt(s, t) THEN end[t + 2] ELSE i
    IN  end[0]

MarkerLength(s, i) ==
    LET digits == Max({n \in 0..(Len(s) - i) : \A k \in 1..n : s[i + k] \in Digit})
    IN  IF At(s, i + 1) = "-" /\ At(s, i + 2) = " " THEN 2
        ELSE IF digits > 0 /\ At(s, i + digits + 1) = "." /\ At(s, i + digits + 2) = " " THEN digits + 2
        ELSE 0
TaskLength(s, i) ==
    IF At(s, i + 1) = "[" /\ At(s, i + 2) \in {" ", "x"} /\ At(s, i + 3) = "]" /\ At(s, i + 4) = " "
    THEN 4 ELSE 0

PrefixLength(s) ==
    LET start  == SkipBlanks(s, QuotesEnd(s))
        marked == start + MarkerLength(s, start)
    IN  IF marked > start THEN marked + TaskLength(s, marked)
        ELSE IF QuotesEnd(s) = 0 /\ start + 1 = Len(s) /\ s[Len(s)] = ">" THEN 0
        ELSE start

Hashes(s)    == Max({n \in 0..Min({6, Len(s)}) : \A k \in 1..n : s[k] = "#"})
IsHeading(s) == Hashes(s) > 0 /\ At(s, Hashes(s) + 1) = " "

(* html_line_stream_kind: "none" while a marker may still follow.           *)
StreamKind(s) ==
    IF s = <<>> \/ At(s, 1) \in {" ", ">", "-"} \cup Digit THEN "none"
    ELSE IF s[1] # "#" THEN "plain"
    ELSE IF Hashes(s) = Len(s) THEN "none"
    ELSE IF IsHeading(s) THEN "heading" ELSE "plain"

QuotePrefixOnly(h) ==
    LET s == LineText(h)
        t == SkipBlanks(s, 0)
    IN  ~h.pending_newline /\ At(s, t + 1) = ">" /\ SkipBlanks(s, t + 1) = Len(s)

-----------------------------------------------------------------------------
(* Lines written as they come.                                              *)
ResetStreamSpan(h) ==
    [h EXCEPT !.stream = "none", !.anchor = FALSE, !.stream_style = Plain,
              !.stream_link = NoLink, !.utf8 = <<>>]
ResetStream(h) == [h EXCEPT !.stream = "none", !.span = FALSE, !.anchor = FALSE,
                            !.stream_style = Plain, !.stream_link = NoLink, !.utf8 = <<>>]

EnsureStyleCrossed(h, style, link) ==
    IF h.span /\ h.stream_style = style /\ h.stream_link = link THEN h
    ELSE [Emit(h, When(h.anchor, <<Close("a")>>) \o When(h.span, <<Close("span")>>)
                    \o When(link # NoLink, <<Open("a", link)>>) \o <<Open("span", style)>>)
            EXCEPT !.span = TRUE, !.anchor = link # NoLink,
                   !.stream_style = style, !.stream_link = link]

(* html_stream_plain_ensure_style.                                          *)
EnsureStyle(h, style, link) ==
    IF h.span /\ h.stream_style = style /\ h.stream_link = link THEN h
    ELSE [Emit(h, When(h.span, <<Close("span")>>) \o When(h.anchor, <<Close("a")>>)
                    \o When(link # NoLink, <<Open("a", link)>>) \o <<Open("span", style)>>)
            EXCEPT !.span = TRUE, !.anchor = link # NoLink,
                   !.stream_style = style, !.stream_link = link]

EmitStyled(h, text) ==
    Emit(IF h.stream = "heading" THEN h ELSE EnsureStyle(h, h.style, h.link), Text(text))

(* A multibyte character is written once it is complete.                    *)
EmitByte(h, c) ==
    LET bytes == Append(h.utf8, c)
    IN  IF h.utf8 = <<>> /\ c \notin DOMAIN Utf8 THEN EmitStyled(h, <<c>>)
        ELSE IF Len(bytes) < Utf8[bytes[1]] THEN [h EXCEPT !.utf8 = bytes]
        ELSE [EmitStyled(h, bytes) EXCEPT !.utf8 = <<>>]

CloseLine(h, final) ==
    ResetStream(Emit(h, (IF h.stream = "heading" THEN <<Close("heading")>>
                         ELSE When(h.span, <<Close("span")>>) \o When(h.anchor, <<Close("a")>>))
                        \o When(~final, Text(<<Newline>>))))

AppendByte(h, c) ==     \* html_state_append_text
    LET segs == h.segments
        same == segs # <<>> /\ Last(segs).style = h.style /\ Last(segs).link = h.link
    IN  [h EXCEPT !.segments =
            IF same THEN [segs EXCEPT ![Len(segs)].text = Append(@, c)]
            ELSE Append(segs, [text |-> <<c>>, style |-> h.style, link |-> h.link])]

MaybeStart(h) ==        \* html_maybe_start_stream_line
    LET kind   == IF h.chart = "none" THEN StreamKind(LineText(h)) ELSE "none"
        segs   == h.segments
        put[n \in 0..Len(segs)] ==
            IF n = 0 THEN h
            ELSE Emit(EnsureStyle(put[n - 1], segs[n].style, segs[n].link), Text(segs[n].text))
    IN  CASE kind = "none"    -> h
          [] kind = "heading" -> Clear([Emit(h, <<Open("heading", h.segments[1].style)>> \o Text(LineText(h)))
                                          EXCEPT !.stream = "heading"])
          [] kind = "plain"   -> Clear([put[Len(segs)] EXCEPT !.stream = "plain"])

-----------------------------------------------------------------------------
(* Lines written whole (html_flush_line).                                   *)
LineEnd(final) == When(~final, Text(<<Newline>>))

HeadingLine(style, text, trail, final) ==
    <<Open("heading", style)>> \o Text(text) \o Added(trail) \o <<Close("heading")>> \o LineEnd(final)

(* A chart's row: without its markers, nor the blanks before a bar.         *)
ChartLine(h, prefix, final) ==
    LET s    == LineText(h)
        from == IF h.chart = "bar" THEN SkipBlanks(s, prefix) ELSE prefix
        row  == IF h.chart = "tile" THEN "block" ELSE "line"
    IN  <<Open(row, ""), Open("prefix", ""), Close("prefix"), Open("content", "")>>
          \o Slices(h, from, Len(s), TRUE)
          \o When(~final, <<Close("content"), Close(row)>>)
          \o When(~final /\ h.chart # "tile", Text(<<Newline>>))

(* The link that all of the line after its prefix is, or NoLink.            *)
WholeLink(h, prefix) ==
    LET after == {i \in DOMAIN h.segments :
                    Len(FlattenSeq([j \in 1..i |-> h.segments[j].text])) > prefix}
        links == {h.segments[i].link : i \in after}
    IN  IF \E l \in Links : links = {l} THEN CHOOSE l \in Links : links = {l} ELSE NoLink

PrefixLine(h, prefix, final) ==
    LET whole == WholeLink(h, prefix)
    IN  When(whole # NoLink, <<Open("a", whole)>>)
          \o <<Open("line", ""), Open("prefix", "")>> \o Slices(h, 0, prefix, TRUE)
          \o <<Close("prefix"), Open("content", "")>>
          \o Slices(h, prefix, Len(LineText(h)), whole = NoLink)
          \o When(whole # NoLink, <<Close("a")>>)
          \o When(~final, <<Close("content"), Close("line")>> \o Text(<<Newline>>))

Prefix(s, chart) == IF chart = "bar" THEN QuotesEnd(s) ELSE PrefixLength(s)
Quoted(s, prefix) == \E i \in 1..prefix : s[i] = ">"

FlushLine(h, final) ==
    LET s       == LineText(h)
        prefix  == Prefix(s, h.chart)
        inner   == SubSeq(s, prefix + 1, Len(s))
        quoted  == Quoted(s, prefix)
        content == h.segments[CHOOSE i \in DOMAIN h.segments :
                     /\ Len(FlattenSeq([j \in 1..i |-> h.segments[j].text])) > prefix
                     /\ Len(FlattenSeq([j \in 1..(i - 1) |-> h.segments[j].text])) <= prefix]
    IN  Emit(h,
          CASE s = <<>> -> Text(<<Newline>>)
            [] s # <<>> /\ IsHeading(inner) /\ quoted ->
                 HeadingLine(content.style, inner, When(~final, <<">", " ">>), final)
            [] s # <<>> /\ IsHeading(inner) /\ ~quoted /\ prefix > 0 /\ content.style = CodeStyle ->
                 HeadingLine(content.style, inner, [i \in 1..prefix |-> " "], final)
            [] s # <<>> /\ IsHeading(inner) /\ prefix = 0 ->
                 HeadingLine(h.segments[1].style, s, <<>>, final)
            [] OTHER ->
                 IF h.chart # "none" THEN ChartLine(h, prefix, final)
                 ELSE IF prefix > 0 THEN PrefixLine(h, prefix, final)
                 ELSE Slices(h, 0, Len(s), TRUE) \o LineEnd(final))

FlushPending(h, final) ==
    LET closed == IF h.stream # "none" /\ (h.pending_newline \/ final)
                  THEN [CloseLine(h, final) EXCEPT !.pending_newline = FALSE]
                  ELSE h
        text   == LineText(closed) # <<>>
    IN  IF closed.pending_newline \/ text
        THEN [Clear(FlushLine(closed, final /\ text)) EXCEPT !.pending_newline = FALSE]
        ELSE closed

-----------------------------------------------------------------------------
(* The lines of the ANSI renderer: whole characters, and a lead that is as  *)
(* long as what FlushLine leaves out of a line with these characters, in a  *)
(* chart of this kind, when the first one after its prefix has this style.  *)
Chars(bytes) == FlattenSeq([i \in DOMAIN bytes |-> When(bytes[i] \notin Escapes, <<bytes[i]>>)])

LeftOut(s, chart, style) ==
    LET prefix  == Prefix(s, chart)
        heading == IsHeading(SubSeq(s, prefix + 1, Len(s)))
    IN  IF heading /\ prefix > 0 /\ (Quoted(s, prefix) \/ style = CodeStyle) THEN prefix
        ELSE IF s = <<>> \/ chart = "none" \/ (heading /\ prefix = 0) THEN 0
        ELSE IF chart = "bar" THEN SkipBlanks(s, prefix) ELSE prefix

(* The styles that the character after the first n of a line may have: what *)
(* the lines before it left selected is not known.                          *)
StylesAfter(bytes, n) ==
    LET before == {i \in DOMAIN bytes : bytes[i] \in Styles /\ Len(Chars(SubSeq(bytes, 1, i))) <= n}
    IN  IF before = {} THEN Styles ELSE {bytes[Max(before)]}

IsLine(line, chart) ==
    LET bytes == line.lead \o line.body
        s     == Chars(bytes)
    IN  /\ line \in [lead : Seq(STRING), body : Seq(STRING)]
        /\ \A i \in DOMAIN bytes :
              /\ bytes[i] # Newline
              /\ bytes[i] = "e1" => i < Len(bytes) /\ bytes[i + 1] = "e2"
        /\ \A style \in StylesAfter(bytes, Prefix(s, chart)) :
              Len(Chars(line.lead)) = LeftOut(s, chart, style)

ASSUME BlocksAssumption ==
    /\ \A line \in Lines : IsLine(line, "none")
    /\ \A chart \in Charts : /\ chart.kind \in STRING \ {"none"}
                             /\ chart.rows \in Seq([lead : Seq(STRING), body : Seq(STRING)])
                             /\ \A i \in DOMAIN chart.rows : IsLine(chart.rows[i], chart.kind)
ASSUME BoundAssumption == MaxBlocks \in Nat

-----------------------------------------------------------------------------
Init ==
    /\ html = [segments |-> <<>>, pending_newline |-> FALSE, style |-> Plain, link |-> NoLink,
               stream |-> "none", span |-> FALSE, anchor |-> FALSE, stream_style |-> Plain,
               stream_link |-> NoLink, utf8 |-> <<>>, chart |-> "none",
               body_emitted |-> FALSE, footer_needs_newline |-> FALSE, page |-> EmptyPage]
    /\ ansi = <<>>
    /\ pen = [style |-> Plain, link |-> NoLink]
    /\ given = <<>>
    /\ phase = "text"
    /\ blocks = 0

(* Each byte first ends the line whose newline is pending.                  *)
Reads == ansi # <<>>
Byte  == Head(ansi).c
Ready == IF html.pending_newline THEN FlushPending(html, FALSE) ELSE html

Item(c, box) == [c |-> c, lead |-> FALSE, style |-> pen.style, link |-> pen.link, box |-> box]
Note(c)      == Append(given, [Item(c, phase = "chart") EXCEPT !.lead = Head(ansi).lead])

Step(h) == /\ ansi' = Tail(ansi)
           /\ html' = h
           /\ UNCHANGED <<phase, blocks>>

WriteNewline ==
    /\ Reads /\ Byte = Newline
    /\ Step(IF Ready.stream = "none" /\ LineText(Ready) = <<>>
            THEN Clear(FlushLine(Ready, FALSE))
            ELSE [Ready EXCEPT !.pending_newline = TRUE])
    /\ given' = Note(Newline)
    /\ UNCHANGED pen

WriteStyle ==
    /\ Reads /\ Byte \in Styles
    /\ Step([Ready EXCEPT !.style = Byte])
    /\ pen' = [pen EXCEPT !.style = Byte]
    /\ UNCHANGED given

(* A link that is not safe is as good as none (html_state_parse_osc).       *)
LinkOf(h, url) == [h EXCEPT !.link = IF url # NoLink /\ Safe(url) THEN url ELSE NoLink]

WriteLink ==
    /\ Reads /\ Byte \in Links \cup {NoLink}
    /\ Step(LinkOf(Ready, Byte))
    /\ pen' = [pen EXCEPT !.link = IF Byte # NoLink /\ Safe(Byte) THEN Byte ELSE NoLink]
    /\ UNCHANGED given

WriteByte ==
    /\ Reads /\ Byte \notin Styles \cup Links \cup {NoLink, Newline}
    /\ Step(IF Ready.stream # "none" THEN EmitByte(Ready, Byte)
            ELSE MaybeStart(AppendByte(Ready, Byte)))
    /\ given' = Note(Byte)
    /\ UNCHANGED pen

-----------------------------------------------------------------------------
(* The blocks of a document.  The ANSI renderer ends a line when it starts  *)
(* what comes below it, with a blank line or without.                       *)
LineOpen == given # <<>> /\ Last(given).c # Newline
Bytes(seq, lead) == [i \in DOMAIN seq |-> [c |-> seq[i], lead |-> lead]]
LineBytes(line)  == Bytes(line.lead, TRUE) \o Bytes(line.body, FALSE)
Below    == IF LineOpen THEN {<<Newline>>, <<Newline, Newline>>} ELSE {<<>>, <<Newline>>}

(* html_write_token: what follows a table at the end of a block starts on a *)
(* line of its own.                                                         *)
BeginToken(h) == [Emit(h, When(h.footer_needs_newline, Added(<<Newline>>)))
               EXCEPT !.footer_needs_newline = FALSE, !.body_emitted = TRUE]

Begins == ansi = <<>> /\ phase = "text" /\ blocks < MaxBlocks

WriteLine ==
    /\ Begins
    /\ \E line \in Lines, newlines \in Below :
         ansi' = Bytes(newlines, FALSE) \o LineBytes(line)
    /\ html' = BeginToken(html)
    /\ blocks' = blocks + 1
    /\ UNCHANGED <<pen, given, phase>>

(* html_bridge_run_token, for a chart: the open line is ended before the    *)
(* box; a quote marker that only the chart follows is taken back.           *)
EndLineForChartUnlessStreamed(h) ==
    IF QuotePrefixOnly(h) THEN Clear(h) ELSE FlushPending(h, FALSE)

EndLineForChart(h) ==
    LET flushed == FlushPending(h, FALSE)
    IN  IF QuotePrefixOnly(h) THEN Clear(h)
        ELSE IF flushed.stream # "none" THEN CloseLine(flushed, FALSE)
        ELSE flushed

BeginChart ==
    /\ Begins
    /\ \E chart \in Charts :
         /\ html' = [Emit(EndLineForChart(BeginToken(html)), <<Open("chart", "")>>)
                       EXCEPT !.chart = chart.kind]
         /\ \E newlines \in IF QuotePrefixOnly(html) THEN {<<>>} ELSE Below :
              ansi' = Bytes(newlines, FALSE) \o FlattenSeq([i \in DOMAIN chart.rows |->
                         LineBytes(chart.rows[i]) \o Bytes(<<Newline>>, FALSE)])
    /\ given' = IF QuotePrefixOnly(html)
                THEN SubSeq(given, 1, Len(given) - Len(LineText(html)))
                ELSE given \o When(LineOpen, <<Item(Newline, FALSE)>>)
    /\ phase' = "chart"
    /\ blocks' = blocks + 1
    /\ UNCHANGED pen

EndChart ==
    /\ ansi = <<>> /\ phase = "chart"
    /\ html' = [Emit(FlushPending(html, FALSE), <<Close("chart")>>) EXCEPT !.chart = "none"]
    /\ phase' = "text"
    /\ UNCHANGED <<ansi, pen, given, blocks>>

(* table_render_html ends the line, then writes the table itself.           *)
BeginTable ==
    /\ Begins
    /\ \E newlines \in Below : ansi' = Bytes(newlines, FALSE)
    /\ phase' = "table"
    /\ blocks' = blocks + 1
    /\ UNCHANGED <<html, pen, given>>

EndTable ==
    /\ ansi = <<>> /\ phase = "table"
    /\ \E followed_by_content \in BOOLEAN :
         html' = [Emit(FlushPending(html, FALSE),
                       When(html.footer_needs_newline, Added(<<Newline>>))
                         \o <<Open("table", ""), Close("table")>>)
                    EXCEPT !.footer_needs_newline = ~followed_by_content]
    /\ phase' = "text"
    /\ UNCHANGED <<ansi, pen, given, blocks>>

(* html_renderer_finish: the newline of the last line is the footer's.      *)
Finish ==
    /\ ansi = <<>> /\ phase = "text"
    /\ ansi' = When(LineOpen, Bytes(<<Newline>>, FALSE))
    /\ phase' = "ending"
    /\ UNCHANGED <<html, pen, given, blocks>>

Unfinished(h) == h.pending_newline \/ h.segments # <<>>

WriteFooter ==
    /\ ansi = <<>> /\ phase = "ending"
    /\ html' = IF Unfinished(html)
               THEN Emit(FlushPending(html, TRUE), Text(<<Newline>>))
               ELSE Emit(html, When(~html.body_emitted \/ html.footer_needs_newline,
                                    Added(<<Newline>>)))
    /\ phase' = "finished"
    /\ UNCHANGED <<ansi, pen, given, blocks>>

Next ==
    \/ WriteNewline \/ WriteStyle \/ WriteLink \/ WriteByte
    \/ WriteLine \/ BeginChart \/ EndChart \/ BeginTable \/ EndTable
    \/ Finish \/ WriteFooter

Spec == Init /\ [][Next]_vars

-----------------------------------------------------------------------------
(* Characters that have been read and not been written, and what has been  *)
(* written: the rest, without the leads.                                    *)
Waiting == LineText(html) \o html.utf8 \o When(html.pending_newline, <<Newline>>)
Shows(items) == FlattenSeq([i \in DOMAIN items |-> When(~items[i].lead, <<items[i]>>)])
Written == Shows(SubSeq(given, 1, Len(given) - Len(Waiting)))

(* Every character of the document is in the page once and in the order of  *)
(* the document, with the line breaks, and what a chart is made of, and     *)
(* nothing else, is in the chart's box: neither a line that is still        *)
(* collected when a chart or a table starts nor one that ends the document  *)
(* is lost, doubled or overtaken.                                           *)
TextInOrder ==
    LET text    == html.page.text
        written == Written
        waiting == Waiting
    IN  /\ Len(text) = Len(written)
        /\ \A i \in DOMAIN text :
              /\ text[i].c = written[i].c
              /\ "chart" \in text[i].within <=> written[i].box
        /\ \A i \in DOMAIN waiting : given[Len(given) - Len(waiting) + i].c = waiting[i]

(* Every character is shown in the style and with the link the terminal     *)
(* would have given it, whether its line was streamed or collected and      *)
(* whatever the lines before it left selected.  A heading is all in the     *)
(* style it starts with and without links, and the marker of a line that    *)
(* is one link may be a part of that link.                                  *)
DressedAsWritten ==
    LET text    == html.page.text
        written == Written
    IN  \A i \in DOMAIN text \cap DOMAIN written :
          text[i].c # Newline /\ "heading" \notin text[i].within =>
            /\ text[i].style = written[i].style
            /\ \/ text[i].link = IF written[i].link = NoLink THEN "" ELSE written[i].link
               \/ "prefix" \in text[i].within /\ written[i].link = NoLink

(* Tags are nested, but for the link of a line that is all one link, and    *)
(* nothing stays open past the end of a line: between lines only a chart's  *)
(* box is open, while a line is streamed exactly what the bridge remembers, *)
(* and only a last line with a marker leaves its own spans to the end of    *)
(* the page.                                                                *)
TagsMatch ==
    LET open == [i \in DOMAIN html.page.stack |-> html.page.stack[i].of]
    IN  /\ html.page.nested
        /\ open = CASE phase = "chart" /\ html.chart # "none" -> <<"chart">>
                    [] html.stream = "heading" -> <<"heading">>
                    [] html.stream = "plain" -> When(html.anchor, <<"a">>) \o <<"span">>
                    [] OTHER -> IF phase = "finished" /\ open # <<>> THEN <<"line", "content">>
                                ELSE <<>>
=============================================================================
