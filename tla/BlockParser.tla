----------------------------- MODULE BlockParser ----------------------------
(***************************************************************************)
(* The block parser (decide_prefix, feed_decided, end_line of              *)
(* src/src/render_parse.c): the automaton that reads a document byte by    *)
(* byte, finds out what each line is from as few of its first bytes as it  *)
(* can, and hands the renderer tokens.                                     *)
(*                                                                         *)
(* A line is undecided while its prefix is collected; each byte runs the   *)
(* whole of decide_prefix: the blank lines and quote markers that earlier  *)
(* lines left pending are resolved (Settled), then the first rule that     *)
(* applies (Rule) waits, or decides the line and hands over the prefix.    *)
(* One action per rule; the bytes of a decided line go through the         *)
(* actions of feed_decided, and its end through EndLine.                   *)
(*                                                                         *)
(* A byte is a string naming it.  The letters a document is made of    *)
(* are all different (Letters, in order), which tells a lost, a doubled    *)
(* and a moved byte apart; "i" is the info string of a chart fence and "j" *)
(* any other, whatever their text is.                                      *)
(***************************************************************************)
EXTENDS Integers, Sequences, SequencesExt, FiniteSets, TLC

CONSTANTS
    Lines,          \* what a line can be: sequences over Bytes, "w" for a letter
    MaxLines,       \* bound: lines of a document
    Letters,        \* the letters, in the order documents use them
    PrefixCap,      \* sizeof prefix: 256
    GapCap,         \* sizeof immediate_spaces: 64
    WholeLines      \* TRUE: every document ends with a newline

Blank   == {" ", "\t"}
Bullet  == {"-", "*", "+"}
Digits  == [d \in {"1", "9"} |-> IF d = "1" THEN 1 ELSE 9]
Digit   == DOMAIN Digits
Info    == {"i", "j"}
Newline == "\n"
Bytes   == Blank \cup Bullet \cup Digit \cup Info
             \cup {"w", ">", "#", "tick", ".", "_", "[", "]", "X", "\r"}

ASSUME LinesAssumption    == Lines \subseteq Seq(Bytes)
ASSUME LettersAssumption  == Letters \in Seq(STRING) /\ IsInjective(Letters)
ASSUME CapacityAssumption == PrefixCap \in Nat \ {0} /\ GapCap \in Nat \ {0}

VARIABLES
    parser,     \* parse_state and mdf_parser_impl (LineFields, DocumentFields),
                \* and `out', the tokens handed to the renderer
    input,      \* the rest of the line being read
    given,      \* the letters read so far, line by line
    phase       \* "reading", "ending" (its last line lacks a newline),
                \* "finished", or "cut": finished within a short item

vars == <<parser, input, given, phase>>

(* struct parse_state: all of it but pending_soft_space is cleared for each *)
(* line.                                                                    *)
LineFields ==
    [prefix |-> <<>>, decided |-> FALSE, mode |-> "paragraph", heading_level |-> 0,
     thematic_possible |-> TRUE, thematic_char |-> "", thematic_count |-> 0,
     list_task_probe |-> FALSE, list_item_start_pending |-> FALSE,
     pending_task_space |-> FALSE, hard_break |-> FALSE, trailing_spaces |-> 0,
     immediate_spaces |-> <<>>, list_marker |-> <<>>,
     list_marker_quote_context |-> FALSE, task |-> <<>>, quote_depth |-> 0,
     pending_quote_depth |-> 0]

(* What mdf_parser_impl keeps across lines. *)
DocumentFields ==
    [pending_soft_space |-> FALSE, prev_hard_break |-> FALSE, in_code_block |-> FALSE,
     in_indent_code |-> FALSE, in_chart_block |-> FALSE, chart_quote_depth |-> 0,
     chart_buf |-> <<>>, fence_info |-> <<>>, prev_quote_depth |-> 0,
     prev_quote_line_text |-> FALSE, pending_list_item_end |-> FALSE,
     pending_list_blank_breaks |-> 0, list_blank_pending |-> FALSE,
     list_hard_break_pending |-> FALSE, list_continuation_indent |-> 0,
     list_visual_continuation_indent |-> 0, list_stack |-> <<>>,
     ordered_active |-> FALSE, ordered_source_indent |-> 0, ordered_next |-> 0,
     pending_quoted_list_blank_depth |-> 0, pending_bare_quote_blank_depth |-> 0,
     out |-> <<>>]


Emit(s, type, text, level) ==
    [s EXCEPT !.out = Append(@, [type |-> type, text |-> text, level |-> level])]
Mark(s, type) == Emit(s, type, <<>>, 0)
Marks(s, type, n, level) ==
    [s EXCEPT !.out =
        @ \o [k \in 1 .. n |-> [type |-> type, text |-> <<>>, level |-> level]]]

-----------------------------------------------------------------------------
(* What the collected prefix shows.  Positions count from 0, as in the      *)
(* code; a position past the end reads as no byte.                          *)
ByteAt(p, k) == IF k < Len(p) THEN p[k + 1] ELSE ""
From(p, k)   == SubSeq(p, k + 1, Len(p))

(* The first position from k on whose byte is not in S. *)
Skip(p, k, S) ==
    LET rest == SelectInSeq(From(p, k), LAMBDA b : b \notin S)
    IN  IF rest = 0 THEN Len(p) ELSE k + rest - 1
Lead(s) == Skip(s.prefix, 0, Blank)

BulletAt(p, k)    == ByteAt(p, k) \in Bullet /\ ByteAt(p, k + 1) = " "
BulletAlone(p, k) == ByteAt(p, k) \in Bullet /\ k + 1 = Len(p)
QuoteAt(p, k)     == ByteAt(p, k) = ">" /\ ByteAt(p, k + 1) = " "
QuoteAlone(p, k)  == ByteAt(p, k) = ">" /\ k + 1 = Len(p)

(* An ordered marker, digits and a delimiter and a space, or its beginning. *)
AfterDigits(p, k) == Skip(p, k, Digit)
OrderedAt(p, k) ==
    /\ AfterDigits(p, k) > k
    /\ ByteAt(p, AfterDigits(p, k)) = "."
    /\ ByteAt(p, AfterDigits(p, k) + 1) = " "
OrderedAlone(p, k) ==
    /\ AfterDigits(p, k) > k
    /\ \/ AfterDigits(p, k) = Len(p)
       \/ ByteAt(p, AfterDigits(p, k)) = "." /\ AfterDigits(p, k) + 1 = Len(p)
NumberAt(p, k) ==
    FoldLeft(LAMBDA n, d : 10 * n + Digits[d], 0, SubSeq(p, k + 1, AfterDigits(p, k)))

(* The spaces and quote markers a chart line may start with are skipped.    *)
RECURSIVE SkipContainers(_, _)
SkipContainers(p, k) ==
    LET i == Skip(p, k, {" "})
    IN  IF ByteAt(p, i) # ">" THEN i
        ELSE SkipContainers(p, IF ByteAt(p, i + 1) = " " THEN i + 2 ELSE i + 1)

Backticks(p, k) == Skip(p, k, {"tick"}) - k

(* Where the content of a chart line starts, and whether its indentation    *)
(* lets it be a fence; the last quote marker's own space is not counted.    *)
RECURSIVE FenceIndent(_, _, _)
FenceIndent(p, k, quoted) ==
    LET i == Skip(p, k, {" "})
    IN  IF ByteAt(p, i) # ">" THEN [start |-> i, spaces |-> i - k, quoted |-> quoted]
        ELSE IF i - k >= 4 THEN [start |-> i, spaces |-> 4, quoted |-> TRUE]
        ELSE FenceIndent(p, IF ByteAt(p, i + 1) = " " THEN i + 2 ELSE i + 1, TRUE)
TooDeep(s, f) ==
    LET base == s.list_visual_continuation_indent
    IN  IF f.quoted \/ base = 0 \/ f.spaces < base THEN f.spaces >= 4
        ELSE f.spaces - base >= 4

ClosingFence(s) ==
    LET f == FenceIndent(s.prefix, 0, FALSE)
    IN  /\ ~TooDeep(s, f)
        /\ Backticks(s.prefix, f.start) >= 3
        /\ ToSet(From(s.prefix, f.start + Backticks(s.prefix, f.start))) \subseteq Blank
PartialFence(s) ==
    LET f == FenceIndent(s.prefix, 0, FALSE)
    IN  /\ ~TooDeep(s, f)
        /\ \/ f.start = Len(s.prefix)
           \/ ByteAt(s.prefix, f.start) = "tick" /\ Len(s.prefix) - f.start < 3

FenceStartAlone(s) ==
    LET k == SkipContainers(s.prefix, 0)
    IN  k < Len(s.prefix) /\ Len(s.prefix) - k < 3 /\ Backticks(s.prefix, k) = Len(s.prefix) - k
FenceStarts(s) ==
    LET k == SkipContainers(s.prefix, 0)
    IN  /\ Backticks(s.prefix, k) >= 3
        /\ \/ k # Skip(s.prefix, 0, {" "}) \/ k < 4
           \/ s.list_visual_continuation_indent > 0 \/ s.prev_quote_depth > 0
           \/ s.pending_quote_depth > 0 \/ s.quote_depth > 0

-----------------------------------------------------------------------------
(* Pieces several handlers share.                                           *)

(* flush_prefix: the soft space a paragraph line left, then the prefix.     *)
FlushPrefix(s) ==
    LET spaced == IF s.pending_soft_space
                  THEN [Emit(s, "SPACE", <<" ">>, 0) EXCEPT !.pending_soft_space = FALSE]
                  ELSE s
    IN  IF s.prefix = <<>> THEN s
        ELSE [Emit(spaced, "TEXT", s.prefix, 0) EXCEPT !.prefix = <<>>]

(* flush_immediate_spaces *)
FlushSpaces(s) ==
    [s EXCEPT !.out = @ \o [k \in DOMAIN s.immediate_spaces |->
                                [type |-> "SPACE", text |-> <<s.immediate_spaces[k]>>, level |-> 0]],
              !.immediate_spaces = <<>>]

(* A mutant of EndItem: the item is still waiting for its end. *)
EndItemAgain(s) == IF s.pending_list_item_end THEN Mark(s, "LIST_ITEM_END") ELSE s

(* flush_pending_list_item_end *)
EndItem(s) ==
    IF s.pending_list_item_end
    THEN [Mark(s, "LIST_ITEM_END") EXCEPT !.pending_list_item_end = FALSE] ELSE s

(* emit_quote_prefix_depth_level, emit_quote_suffixes *)
OpenQuotes(s, depth, level) ==
    IF s.quote_depth >= depth THEN s
    ELSE [Marks(s, "BLOCKQUOTE_START", depth - s.quote_depth, level) EXCEPT !.quote_depth = depth]
CloseQuotes(s) ==
    [Marks(s, "BLOCKQUOTE_END", s.quote_depth, 0)
        EXCEPT !.prev_quote_depth = s.quote_depth, !.quote_depth = 0]

(* flush_pending_quote_prefix *)
OpenPendingQuotes(s) ==
    IF s.pending_quote_depth = 0 THEN s
    ELSE [OpenQuotes(s, s.pending_quote_depth, 0) EXCEPT !.pending_quote_depth = 0]

(* A blank line between quote lines stays inside the quote when a quote     *)
(* follows it, and is an ordinary blank line otherwise.                     *)
KeepQuoteBlank(s, depth) == CloseQuotes(OpenQuotes(s, depth, 1))
EndQuote(s) == [Mark(s, "NEWLINE") EXCEPT !.prev_quote_depth = 0]

(* A list or a quote's list below an open paragraph ends that paragraph.    *)
EndQuoteParagraph(s) ==
    IF s.prev_quote_line_text /\ (s.quote_depth > 0 \/ s.prev_quote_depth > 0)
    THEN [Mark(s, "PARAGRAPH_END") EXCEPT !.prev_quote_line_text = FALSE] ELSE s
EndSoftParagraph(s) ==
    IF s.pending_soft_space
    THEN [Mark(s, "PARAGRAPH_END") EXCEPT !.pending_soft_space = FALSE] ELSE s
EndParagraphs(s) == EndSoftParagraph(EndQuoteParagraph(s))

(* emit_pending_list_item_start: the bullet is held back with the four      *)
(* bytes that tell a task.                                                  *)
StartHeldItem(s) ==
    IF ~s.list_item_start_pending THEN s
    ELSE [Emit(s, "LIST_ITEM_START", s.list_marker,
               CASE s.quote_depth > 0           -> s.quote_depth
                 [] s.pending_quote_depth > 0   -> s.pending_quote_depth
                 [] s.prev_quote_depth > 0      -> s.prev_quote_depth
                 [] s.list_marker_quote_context -> 1
                 [] OTHER                       -> 0)
            EXCEPT !.list_item_start_pending = FALSE, !.list_marker_quote_context = FALSE]

(* emit_chart_block *)
EmitChart(s) ==
    [Marks(Emit(s, "CHART_BLOCK", s.chart_buf, 0), "BLOCKQUOTE_END", s.chart_quote_depth, 0)
        EXCEPT !.chart_buf = <<>>, !.chart_quote_depth = 0, !.prev_quote_depth = 0,
               !.quote_depth = 0, !.pending_quote_depth = 0]

(* parse_reset_line *)
ResetLine(s) ==
    [f \in DOMAIN s |-> CASE f = "prev_hard_break"  -> s.hard_break
                          [] f \in DOMAIN LineFields -> LineFields[f]
                          [] OTHER                   -> s[f]]

NoList(s) ==
    [s EXCEPT !.list_continuation_indent = 0, !.list_visual_continuation_indent = 0,
              !.list_stack = <<>>]

-----------------------------------------------------------------------------
(* end_line.  A fence line ends without its newline only at the document's  *)
(* end.                                                                     *)
EndFence(s) ==
    IF s.fence_info = <<"i">>
    THEN EmitChart([s EXCEPT !.fence_info = <<>>, !.chart_quote_depth = s.quote_depth])
    ELSE Mark([s EXCEPT !.fence_info = <<>>, !.in_code_block = TRUE], "CODE_BLOCK_START")

ChartContent(s) == From(s.prefix, SkipContainers(s.prefix, 0))
EndChartLine(s) ==
    IF ClosingFence(s)
    THEN EmitChart([s EXCEPT !.in_chart_block = FALSE, !.prefix = <<>>])
    ELSE [s EXCEPT !.chart_buf = @ \o ChartContent(s) \o <<Newline>>]

BareQuote(s) == Lead(s) + 1 = Len(s.prefix) /\ ByteAt(s.prefix, Lead(s)) = ">"
EndBareQuote(s) ==
    [EndItem(s) EXCEPT !.pending_soft_space = FALSE, !.prefix = <<>>,
                       !.pending_bare_quote_blank_depth = 1]

EndThematic(s) ==
    [Mark([EndItem(s) EXCEPT !.pending_soft_space = FALSE, !.prefix = <<>>], "THEMATIC_BREAK")
        EXCEPT !.prev_quote_depth = 0, !.ordered_active = FALSE]

(* A blank line: it ends indented code, ends a list item that a later line  *)
(* may still continue, keeps a quote, or ends a paragraph.                  *)
EndIndentCode(s) ==
    [Marks(Mark(s, "CODE_BLOCK_END"), "BLOCKQUOTE_END", s.prev_quote_depth, 0)
        EXCEPT !.in_indent_code = FALSE, !.prev_quote_depth = 0,
               !.pending_soft_space = FALSE, !.prefix = <<>>]

LeaveList(s) == NoList([s EXCEPT !.list_blank_pending = FALSE, !.ordered_active = FALSE])
EndListBlank(s) ==
    CASE s.pending_quote_depth > 0 ->
           LeaveList([EndItem(s) EXCEPT
               !.pending_quoted_list_blank_depth = s.pending_quote_depth,
               !.pending_quote_depth = 0, !.pending_soft_space = FALSE, !.prefix = <<>>])
      [] s.pending_quote_depth = 0 /\ s.prev_quote_depth > 0 ->
           [LeaveList(EndQuote(EndItem(s))) EXCEPT !.pending_soft_space = FALSE, !.prefix = <<>>]
      [] OTHER ->
           [s EXCEPT !.pending_list_blank_breaks = IF s.list_blank_pending THEN @ ELSE 2,
                     !.list_blank_pending = TRUE,
                     !.pending_soft_space = FALSE, !.prefix = <<>>]

EndParagraphBlank(s) ==
    LET t == [NoList(s) EXCEPT !.pending_soft_space = FALSE, !.prefix = <<>>]
    IN  CASE t.pending_quoted_list_blank_depth > 0 -> t
          [] t.pending_quoted_list_blank_depth = 0 /\ t.pending_quote_depth > 0 ->
               [KeepQuoteBlank(t, t.pending_quote_depth) EXCEPT !.pending_quote_depth = 0]
          [] t.pending_quoted_list_blank_depth = 0 /\ t.pending_quote_depth = 0 /\ t.quote_depth > 0 ->
               CloseQuotes(t)
          [] t.pending_quoted_list_blank_depth = 0 /\ t.pending_quote_depth = 0 /\ t.quote_depth = 0 ->
               IF t.prev_hard_break THEN Mark(t, "NEWLINE")
               ELSE [Mark(t, "PARAGRAPH_END") EXCEPT !.prev_quote_depth = 0]

EndBlank(s) ==
    CASE s.in_indent_code -> EndIndentCode(s)
      [] ~s.in_indent_code /\ s.pending_list_item_end -> EndListBlank(s)
      [] OTHER -> EndParagraphBlank(s)

(* A mutant of EndParagraphLine: the line break leaves no soft space. *)
EndParagraphLineHard(s) ==
    LET t == IF s.quote_depth > 0 /\ ~s.pending_list_item_end /\ s.list_continuation_indent = 0
             THEN [s EXCEPT !.prev_quote_line_text = TRUE] ELSE s
    IN  IF s.hard_break THEN Mark(t, "NEWLINE") ELSE t

(* A line with text: how it ends depends on what it is. *)
EndParagraphLine(s) ==
    LET t == IF s.quote_depth > 0 /\ ~s.pending_list_item_end /\ s.list_continuation_indent = 0
             THEN [s EXCEPT !.prev_quote_line_text = TRUE] ELSE s
        u == [t EXCEPT !.pending_soft_space = s.quote_depth = 0 /\ ~s.hard_break]
    IN  IF s.hard_break THEN Mark(u, "NEWLINE") ELSE u
EndItemLine(s) ==
    LET t == [Emit(s, "NEWLINE", <<>>, IF s.hard_break THEN 0 ELSE -1)
                EXCEPT !.prev_quote_line_text = FALSE, !.pending_list_item_end = TRUE,
                       !.list_hard_break_pending = @ \/ s.hard_break]
    IN  IF s.quote_depth > 0 /\ s.ordered_active THEN EndItem(t) ELSE t
EndTextLine(s) ==
    LET t == FlushPrefix([s EXCEPT !.immediate_spaces = <<>>])
    IN  CloseQuotes(
            CASE t.mode = "closed"  -> t
              [] t.mode # "closed" /\ (t.in_code_block \/ t.mode = "code") -> Mark(t, "NEWLINE")
              [] t.mode = "heading" /\ ~t.in_code_block ->
                   Emit(t, "HEADING_END", <<>>, t.heading_level)
              [] t.mode = "item"    /\ ~t.in_code_block -> EndItemLine(t)
              [] OTHER -> EndParagraphLine(t))

EndLine(s) ==
    LET undecided == ~s.decided /\ s.mode # "fence" /\ ~s.in_chart_block
    IN  ResetLine(
            CASE s.mode = "fence" -> EndFence(s)
              [] s.mode # "fence" /\ s.in_chart_block -> EndChartLine(s)
              [] undecided /\ BareQuote(s) -> EndBareQuote(s)
              [] undecided /\ ~BareQuote(s) /\ s.thematic_possible /\ s.thematic_count >= 3 ->
                   EndThematic(s)
              [] undecided /\ Lead(s) = Len(s.prefix) -> EndBlank(s)
              [] OTHER -> EndTextLine(s))

-----------------------------------------------------------------------------
(* feed_decided: a byte of a line that is decided.  An action takes the     *)
(* state the byte finds.                                                    *)
IsCode(s) == s.in_code_block \/ s.mode = "code"

FenceByte(s, b) ==
    /\ s.mode = "fence" /\ b # Newline
    /\ parser' = [s EXCEPT !.fence_info = Append(@, b)]
OpenFence(s, b) ==
    /\ s.mode = "fence" /\ b = Newline
    /\ parser' = LET t == ResetLine([s EXCEPT !.fence_info = <<>>])
                 IN  IF s.fence_info = <<"i">>
                     THEN [t EXCEPT !.in_chart_block = TRUE, !.chart_buf = <<>>,
                                    !.chart_quote_depth = s.quote_depth]
                     ELSE Mark([t EXCEPT !.in_code_block = TRUE], "CODE_BLOCK_START")
ChartByte(s, b) ==
    /\ s.mode = "chart"
    /\ parser' = LET t == [s EXCEPT !.chart_buf = Append(@, b)]
                 IN  IF b = Newline THEN ResetLine(t) ELSE t

TaskSpace(s) ==
    IF s.pending_task_space
    THEN [Emit(s, "SPACE", <<" ">>, 0) EXCEPT !.pending_task_space = FALSE] ELSE s
(* A mutant of EndProbe: what the probe holds is forgotten. *)
EndProbeEmpty(s) ==
    IF s.list_task_probe THEN [StartHeldItem(s) EXCEPT !.task = <<>>, !.list_task_probe = FALSE]
    ELSE s

(* The newline also resolves a task marker that was cut short. *)
EndProbe(s) ==
    IF ~s.list_task_probe THEN s
    ELSE LET t == StartHeldItem(s)
         IN  [IF s.task = <<>> THEN t ELSE Emit(t, "TEXT", s.task, 0)
                EXCEPT !.task = <<>>, !.list_task_probe = FALSE]
EndDecidedLine(s, b) ==
    /\ s.mode \notin {"fence", "chart"} /\ b = Newline
    /\ parser' = EndLine(EndProbe(TaskSpace([s EXCEPT !.hard_break = s.trailing_spaces >= 2])))

SkipByte(s, b) == s.mode = "closed" /\ b # Newline /\ parser' = s

(* The first four bytes of a bullet item tell whether it is a task. *)
Probing(s) == s.list_task_probe /\ s.mode # "closed"
ProbeTask(s, b) ==
    LET padding == b = " " /\ ToSet(s.task) \subseteq {" "}
        task    == Append(s.task, b)
        t == [s EXCEPT !.task = task,
                       !.list_continuation_indent = IF padding THEN @ + 1 ELSE @]
        u == StartHeldItem([t EXCEPT !.list_task_probe = FALSE])
        boxed == task[1] = "[" /\ task[3] = "]" /\ task[4] = " "
        v == IF boxed
             THEN [u EXCEPT !.list_continuation_indent = @ + 4,
                            !.list_visual_continuation_indent = @ + 4,
                            !.pending_task_space = TRUE]
             ELSE u
    IN  /\ Probing(s) /\ b # Newline
        /\ parser' = CASE Len(task) < 4 -> t
                       [] Len(task) = 4 /\ boxed /\ task[2] = "X" -> Mark(v, "TASK_CHECKED")
                       [] Len(task) = 4 /\ boxed /\ task[2] = " " -> Mark(v, "TASK_UNCHECKED")
                       [] OTHER -> [Emit(v, "TEXT", task, 0) EXCEPT !.task = <<>>]

Plain(s, b) == s.mode \notin {"fence", "chart", "closed"} /\ ~Probing(s) /\ b # Newline
CodeByte(s, b) ==
    Plain(s, b) /\ IsCode(s) /\ parser' = Emit(s, "CODE_TEXT", <<b>>, 0)

(* Blanks wait for what follows them: at the end of a line they are         *)
(* dropped, and two or more are a hard break.                               *)
SpaceByte(s, b) ==
    LET t == [TaskSpace(s) EXCEPT !.trailing_spaces = IF b = " " THEN @ + 1 ELSE 0]
        u == FlushSpaces(t)
    IN  /\ Plain(s, b) /\ ~IsCode(s) /\ b \in Blank
        /\ parser' = IF Len(s.immediate_spaces) < GapCap
                     THEN [t EXCEPT !.immediate_spaces = Append(@, b)]
                     ELSE Emit([u EXCEPT !.trailing_spaces = IF b = " " THEN @ + 1 ELSE 0],
                               "SPACE", <<b>>, 0)
TextByte(s, b) ==
    /\ Plain(s, b) /\ ~IsCode(s) /\ b \notin Blank
    /\ parser' = Emit([FlushSpaces(TaskSpace(s)) EXCEPT !.trailing_spaces = 0], "TEXT", <<b>>, 0)

FeedDecided(s, b) ==
    \/ FenceByte(s, b)
    \/ OpenFence(s, b)
    \/ ChartByte(s, b)
    \/ EndDecidedLine(s, b)
    \/ SkipByte(s, b)
    \/ ProbeTask(s, b)
    \/ CodeByte(s, b)
    \/ SpaceByte(s, b)
    \/ TextByte(s, b)

-----------------------------------------------------------------------------
(* decide_prefix, first part: what earlier lines left pending is resolved   *)
(* by the first bytes of this one.  `rule' is "go" until a stage settles    *)
(* that the line must wait for its next byte, or is decided.                *)
Wait(s)  == [s EXCEPT !.rule = "wait"]
Start(s) == ByteAt(s.prefix, Lead(s))

ShowListBreaks(s) ==
    [Marks(s, "NEWLINE", s.pending_list_blank_breaks, 0) EXCEPT !.pending_list_blank_breaks = 0]

ResolveBareQuote(s) ==
    LET t == [s EXCEPT !.pending_bare_quote_blank_depth = 0]
    IN  CASE s.rule # "go" \/ s.pending_bare_quote_blank_depth = 0 -> s
          [] s.rule = "go" /\ QuoteAlone(s.prefix, Lead(s)) -> Wait(s)
          [] s.rule = "go" /\ QuoteAt(s.prefix, Lead(s)) ->
               KeepQuoteBlank(t, s.pending_bare_quote_blank_depth)
          [] OTHER -> EndQuote(t)

ResolveQuotedList(s) ==
    LET t == [s EXCEPT !.pending_quoted_list_blank_depth = 0]
    IN  CASE s.rule # "go" \/ s.pending_quoted_list_blank_depth = 0 -> s
          [] s.rule = "go" /\ QuoteAlone(s.prefix, Lead(s)) -> Wait(s)
          [] s.rule = "go" /\ QuoteAt(s.prefix, Lead(s)) ->
               KeepQuoteBlank(t, s.pending_quoted_list_blank_depth)
          [] OTHER -> EndQuote(t)

(* Text after this line's quote markers.  Below a quoted list item it       *)
(* starts the next item or, without its indentation, goes on with the text. *)
MarkerAt(p, k)    == BulletAt(p, k) \/ OrderedAt(p, k)
MarkerAlone(p, k) == BulletAlone(p, k) \/ OrderedAlone(p, k)
InQuote(s) ==
    LET t == IF s.prev_quote_line_text /\ BulletAt(s.prefix, Lead(s))
             THEN [Mark(s, "PARAGRAPH_END") EXCEPT !.prev_quote_line_text = FALSE] ELSE s
    IN  [OpenPendingQuotes(t) EXCEPT !.list_marker_quote_context = TRUE]
ContinueQuotedItem(s) ==
    LET t == OpenPendingQuotes(s)
    IN  FlushPrefix([t EXCEPT !.prefix = From(@, Lead(s)), !.pending_soft_space = FALSE,
                              !.decided = TRUE, !.rule = "decided"])
OpenQuotedLine(s) ==
    LET p == s.prefix
        k == Lead(s)
    IN  CASE s.rule # "go" \/ s.pending_quote_depth = 0 \/ Start(s) = ">" -> s
          [] s.rule = "go" /\ s.pending_list_item_end /\ MarkerAlone(p, k) -> Wait(s)
          [] s.rule = "go" /\ s.pending_list_item_end /\ MarkerAt(p, k) ->
               InQuote(OpenPendingQuotes(EndItem(s)))
          [] s.rule = "go" /\ s.pending_list_item_end /\ ~MarkerAt(p, k) -> ContinueQuotedItem(s)
          [] s.rule = "go" /\ s.prev_quote_line_text /\ BulletAlone(p, k) -> Wait(s)
          [] OTHER -> InQuote(s)

(* A line without the quote marker below a quote goes on with the quote.    *)
ContinueQuote(s) ==
    LET p == s.prefix
    IN  IF s.rule # "go" \/ s.prev_quote_depth = 0 \/ s.quote_depth > 0 \/ Lead(s) > 0
           \/ Start(s) = ">" THEN s
        ELSE IF s.prev_quote_line_text /\ BulletAlone(p, 0) THEN Wait(s)
        ELSE OpenQuotes(
                 IF s.prev_quote_line_text /\ MarkerAt(p, 0)
                 THEN [Mark(s, "PARAGRAPH_END") EXCEPT !.prev_quote_line_text = FALSE] ELSE s,
                 s.prev_quote_depth, 0)

LeaveIndentCode(s) ==
    IF s.rule = "go" /\ s.in_indent_code /\ Lead(s) < 4
    THEN [Mark(s, "CODE_BLOCK_END") EXCEPT !.in_indent_code = FALSE] ELSE s

Settled(s) ==
    LeaveIndentCode(ContinueQuote(OpenQuotedLine(ResolveQuotedList(ResolveBareQuote(
        ShowListBreaks(s))))))

-----------------------------------------------------------------------------
(* decide_prefix, second part: the first rule that applies.                 *)
InList(s)    == s.list_continuation_indent > 0
Continues(s) == InList(s) /\ Lead(s) >= s.list_continuation_indent
IndentedMarker(s) == InList(s) /\ Lead(s) >= 4 /\ MarkerAt(s.prefix, Lead(s))
Hashes(s) == Skip(s.prefix, Lead(s), {"#"}) - Lead(s)
ThematicByte(s, b) ==
    /\ s.thematic_possible
    /\ \/ s.thematic_char = "" /\ b \in {"-", "*", "_"} \cup Blank
       \/ s.thematic_char # "" /\ b = s.thematic_char

Rule(s, b) ==
    LET p == s.prefix
        k == Lead(s)
    IN  CASE s.rule # "go" -> s.rule
          \* a quote or code below a list item's blank line
          [] s.list_blank_pending /\ Continues(s) /\ QuoteAlone(p, k) -> "wait"
          [] s.list_blank_pending /\ Continues(s) /\ QuoteAt(p, k) -> "list quote"
          [] s.list_blank_pending /\ InList(s) /\ k >= s.list_continuation_indent + 4 -> "list code"
          \* not yet known to be a marker or a fence
          [] InList(s) /\ k >= 4 /\ MarkerAlone(p, k) -> "wait"
          [] Continues(s) /\ BulletAlone(p, k) -> "wait"
          [] FenceStartAlone(s) -> "wait"
          [] FenceStarts(s) -> "fence"
          [] Continues(s) /\ ~IndentedMarker(s) /\ ByteAt(p, k) # ">" /\ ~BulletAt(p, k) ->
               "continue item"
          \* four columns: a quote below a quote or a list, or code
          [] (s.prev_quote_depth > 0 \/ InList(s)) /\ k >= 4 /\ QuoteAlone(p, k) -> "wait"
          [] (s.prev_quote_depth > 0 \/ InList(s)) /\ k >= 4 /\ QuoteAt(p, k) -> "deep quote"
          [] k >= 4 /\ ~IndentedMarker(s) -> "code"
          [] Hashes(s) \in 1 .. 6 /\ k + Hashes(s) = Len(p) -> "wait"
          [] Hashes(s) \in 1 .. 6 /\ ByteAt(p, k + Hashes(s)) = " " -> "heading"
          [] QuoteAlone(p, k) -> "wait"
          [] QuoteAt(p, k) -> "quote"
          [] BulletAt(p, k) -> "bullet"
          [] ByteAt(p, k) = "+" /\ k + 1 = Len(p) -> "wait"
          [] OrderedAlone(p, k) -> "wait"
          [] OrderedAt(p, k) -> "ordered"
          [] ThematicByte(s, b) -> "thematic"
          [] OTHER -> "text"

-----------------------------------------------------------------------------
(* What each rule does. *)
Decide(s, mode) == [s EXCEPT !.prefix = <<>>, !.decided = TRUE, !.mode = mode]
NestQuote(s) ==
    [s EXCEPT !.prefix = <<>>,
              !.pending_quote_depth =
                  IF s.pending_quote_depth > 0 THEN s.pending_quote_depth + 1 ELSE s.quote_depth + 1]

(* The first n bytes of the prefix's buffer, which may hold fewer.          *)
BufferText(s, n) ==
    IF n = 0 THEN s
    ELSE Emit(s, "TEXT",
              [k \in 1 .. n |-> IF k <= Len(s.prefix) THEN s.prefix[k] ELSE "stale"], 0)
Spaces(n) == [k \in 1 .. n |-> " "]
Columns(p) == FoldLeft(LAMBDA n, b : IF b = "\t" THEN n + 4 - (n % 4) ELSE n + 1, 0, p)

StartCode(s, from) ==
    LET t == IF s.in_indent_code THEN s
             ELSE [Mark(s, "CODE_BLOCK_START") EXCEPT !.in_indent_code = TRUE]
    IN  Decide(Emit(t, "CODE_TEXT", From(s.prefix, from), 0), "code")

(* list_visual_indent_for_marker: where an item whose marker is indented by *)
(* this much is shown, by the indentations of the items it is inside of.    *)
Outer(s, indent) == SelectSeq(s.list_stack, LAMBDA e : e.source <= indent)
VisualIndent(s, indent) ==
    LET stack == Outer(s, indent)
        last  == stack[Len(stack)]
    IN  IF indent = 0 THEN 0
        ELSE IF stack = <<>> THEN 2
        ELSE IF last.source = indent THEN last.visual ELSE last.visual + 2
Stacked(s, indent, visual) ==
    Append(SelectSeq(s.list_stack, LAMBDA e : e.source < indent),
           [source |-> indent, visual |-> visual])

ListQuote(s) ==
    LET t == BufferText(EndItem(s), s.list_visual_continuation_indent)
    IN  NestQuote([t EXCEPT !.list_blank_pending = FALSE, !.ordered_active = FALSE])
ListCode(s) ==
    LET t == BufferText(EndItem(s), s.list_visual_continuation_indent)
    IN  StartCode([t EXCEPT !.list_blank_pending = FALSE, !.ordered_active = FALSE],
                  s.list_continuation_indent + 4)
StartFence(s) ==
    Decide([EndParagraphs(s) EXCEPT !.ordered_active = FALSE, !.list_blank_pending = FALSE,
                                    !.fence_info = <<>>], "fence")

ContinueItem(s) ==
    LET indent == s.list_visual_continuation_indent
        t == IF s.list_blank_pending /\ Lead(s) > indent
             THEN [s EXCEPT !.prefix = From(@, Lead(s) - indent)] ELSE s
        soft == s.pending_list_item_end /\ ~s.list_blank_pending /\ ~s.list_hard_break_pending
    IN  FlushPrefix([t EXCEPT !.list_blank_pending = FALSE, !.list_hard_break_pending = FALSE,
                              !.decided = TRUE, !.pending_soft_space = @ \/ soft])

DeepQuote(s) ==
    LET indent == s.list_visual_continuation_indent
    IN  NestQuote(BufferText(s, IF s.prev_quote_depth = 0 /\ indent < Lead(s) THEN indent ELSE 0))
IndentCode(s) == StartCode([EndItem(s) EXCEPT !.ordered_active = FALSE], 4)
StartHeading(s) ==
    LET t == [EndItem(s) EXCEPT !.ordered_active = FALSE, !.heading_level = Hashes(s)]
    IN  Decide(Emit(t, "HEADING_START", <<>>, Hashes(s)), "heading")
StartQuote(s) ==
    LET indent == s.list_visual_continuation_indent
        below == s.list_blank_pending /\ indent > 0
                   /\ Columns(SubSeq(s.prefix, 1, Lead(s))) >= s.list_continuation_indent
        t == IF below THEN [Emit(s, "TEXT", Spaces(indent), 0) EXCEPT !.list_blank_pending = FALSE]
             ELSE s
    IN  NestQuote([t EXCEPT !.ordered_active = FALSE])

StartBullet(s) ==
    LET k      == Lead(s)
        nested == s.pending_list_item_end /\ Continues(s)
        own    == VisualIndent(s, k)
        indent == IF nested /\ s.list_visual_continuation_indent > own
                  THEN s.list_visual_continuation_indent ELSE own
        t == IF nested
             THEN Marks([s EXCEPT !.pending_list_item_end = FALSE], "NEWLINE",
                        IF s.ordered_active THEN 2 ELSE 1, 0)
             ELSE EndItem(s)
    IN  [Decide(EndParagraphs(t), "item")
            EXCEPT !.list_marker = Append(Spaces(indent), "-"),
                   !.list_stack = Stacked(s, k, indent),
                   !.list_continuation_indent = k + 2,
                   !.list_visual_continuation_indent = indent + 2,
                   !.ordered_active = FALSE, !.list_blank_pending = FALSE,
                   !.list_task_probe = TRUE, !.list_item_start_pending = TRUE]

StartOrdered(s) ==
    LET k      == Lead(s)
        indent == VisualIndent(s, k)
        number == IF s.ordered_active /\ s.ordered_source_indent = k
                  THEN s.ordered_next ELSE NumberAt(s.prefix, k)
        marker == Spaces(indent) \o <<ToString(number), ".">>
        width  == indent + (IF number < 10 THEN 1 ELSE 2) + 1
        t == EndParagraphs(EndItem(s))
    IN  [Emit(Decide(t, "item"), "LIST_ITEM_START", marker,
              IF s.quote_depth > 0 THEN s.quote_depth
              ELSE IF s.pending_quote_depth > 0 THEN s.pending_quote_depth
              ELSE s.prev_quote_depth)
            EXCEPT !.list_marker = marker,
                   !.list_stack = Stacked(s, k, indent),
                   !.list_continuation_indent = AfterDigits(s.prefix, k) + 2,
                   !.list_visual_continuation_indent = width + 1,
                   !.ordered_active = TRUE, !.ordered_source_indent = k,
                   !.ordered_next = number + 1, !.list_blank_pending = FALSE]

CountThematic(s, b) ==
    IF b \in Blank THEN s
    ELSE [s EXCEPT !.thematic_char = b, !.thematic_count = @ + 1]

(* Text: it goes on with the item above unless a blank line or a hard break *)
(* ended that item's paragraph.                                             *)
BelowBreak(s) == s.pending_list_item_end /\ s.list_hard_break_pending
Short(s) == s.list_visual_continuation_indent - Columns(SubSeq(s.prefix, 1, Lead(s)))
AlignBelowBreak(s) ==
    LET room == PrefixCap - 1 - Len(s.prefix)
    IN  IF Short(s) <= 0 THEN s
        ELSE [s EXCEPT !.prefix = Spaces(IF Short(s) > room THEN room ELSE Short(s)) \o @]
(* In a full prefix the room, a size_t, wraps, and the fill that follows is *)
(* of nearly the whole address space: the program does not survive it, so   *)
(* no step is taken from there.                                             *)
PadFaults(s) == BelowBreak(s) /\ Short(s) > 0 /\ Len(s.prefix) = PrefixCap
BelowItem(s) ==
    CASE s.pending_list_item_end /\ ~s.list_blank_pending /\ ~s.list_hard_break_pending ->
           [s EXCEPT !.pending_soft_space = TRUE]
      [] BelowBreak(s) ->
           [AlignBelowBreak([s EXCEPT !.pending_soft_space = FALSE])
               EXCEPT !.list_hard_break_pending = FALSE]
      [] OTHER -> [EndItem(s) EXCEPT !.list_blank_pending = FALSE, !.ordered_active = FALSE]
Unindented(s, k) ==
    IF k < 4 /\ ~InList(s) /\ s.prev_quote_depth = 0
         /\ s.pending_quote_depth = 0 /\ s.quote_depth = 0
    THEN [s EXCEPT !.prefix = From(@, k)] ELSE s
StartText(s) ==
    FlushPrefix(Unindented(BelowItem([s EXCEPT !.decided = TRUE, !.thematic_possible = FALSE]),
                           Lead(s)))

(* The first byte of a line inside a chart or a fenced code block.          *)
ChartLine(s) ==
    IF ClosingFence(s) \/ PartialFence(s) THEN s
    ELSE Decide([s EXCEPT !.chart_buf = @ \o ChartContent(s)], "chart")
CodeLine(s) ==
    CASE s.prefix = <<"tick", "tick", "tick">> ->
           Decide(Mark([s EXCEPT !.in_code_block = FALSE], "CODE_BLOCK_END"), "closed")
      [] s.prefix[1] = "tick" /\ Len(s.prefix) < 3 -> s
      [] OTHER -> Decide(Emit(s, "CODE_TEXT", s.prefix, 0), "code")

-----------------------------------------------------------------------------
(* decide_prefix as actions: b is the line's next byte, s the parser with b *)
(* in its prefix.                                                           *)
Grown(b) == [parser EXCEPT !.prefix = Append(@, b)]

InChart(s) == s.in_chart_block /\ parser' = ChartLine(s)
InCode(s)  == ~s.in_chart_block /\ s.in_code_block /\ parser' = CodeLine(s)

Outside(s) == ~s.in_chart_block /\ ~s.in_code_block
NothingYet(s) ==
    \/ s.prefix[1] = "tick" /\ Len(s.prefix) < 3
    \/ Lead(s) = Len(s.prefix)
AwaitStart(s) == Outside(s) /\ NothingYet(s) /\ parser' = s

Unruled(s) == [f \in DOMAIN s \ {"rule"} |-> s[f]]
DecideLine(s, b) ==
    /\ Outside(s) /\ ~NothingYet(s)
    /\ \E t \in {Settled([rule |-> "go"] @@ s)} : \E rule \in {Rule(t, b)} :
         \/ rule \in {"wait", "decided"} /\ parser' = Unruled(t)
         \/ rule = "list quote"    /\ parser' = Unruled(ListQuote(t))
         \/ rule = "list code"     /\ parser' = Unruled(ListCode(t))
         \/ rule = "fence"         /\ parser' = Unruled(StartFence(t))
         \/ rule = "continue item" /\ parser' = Unruled(ContinueItem(t))
         \/ rule = "deep quote"    /\ parser' = Unruled(DeepQuote(t))
         \/ rule = "code"          /\ parser' = Unruled(IndentCode(t))
         \/ rule = "heading"       /\ parser' = Unruled(StartHeading(t))
         \/ rule = "quote"         /\ parser' = Unruled(StartQuote(t))
         \/ rule = "bullet"        /\ parser' = Unruled(StartBullet(t))
         \/ rule = "ordered"       /\ parser' = Unruled(StartOrdered(t))
         \/ rule = "thematic"      /\ parser' = Unruled(CountThematic(t, b))
         \/ rule = "text"          /\ parser' = Unruled(StartText(t))

DecidePrefix(b) ==
    \/ b = "\r" /\ parser' = parser
    \/ b = Newline /\ parser' = EndLine(parser)
    \/ /\ b \notin {"\r", Newline} /\ Len(parser.prefix) < PrefixCap
       /\ \E s \in {Grown(b)} :
            InChart(s) \/ InCode(s) \/ AwaitStart(s) \/ DecideLine(s, b)
    \* the prefix is full: the line is text whatever it began with
    \/ /\ b \notin {"\r", Newline} /\ Len(parser.prefix) = PrefixCap
       /\ \E s \in {FlushPrefix([parser EXCEPT !.decided = TRUE])} : FeedDecided(s, b)

(* feed_parse_bytes: one byte. *)
Open == phase \in {"reading", "ending"}
Feed ==
    /\ Open /\ input # <<>>
    /\ input' = Tail(input)
    /\ IF parser.decided
       THEN IF Head(input) = "\r" THEN parser' = parser ELSE FeedDecided(parser, Head(input))
       ELSE DecidePrefix(Head(input))
    /\ given' = IF Head(input) \in ToSet(Letters)
                THEN [given EXCEPT ![Len(given)] = Append(@, Head(input))] ELSE given
    /\ UNCHANGED phase

(* The next line of the document.  The last one may lack its newline.       *)
Lettered(line) ==
    [k \in DOMAIN line |->
        IF line[k] = "w"
        THEN Letters[Len(FlattenSeq(given)) + Cardinality({j \in 1 .. k : line[j] = "w"})]
        ELSE line[k]]
ReadLine ==
    /\ phase = "reading" /\ input = <<>> /\ Len(given) < MaxLines
    /\ given' = Append(given, <<>>)
    /\ \E line \in Lines :
         \/ input' = Append(Lettered(line), Newline) /\ phase' = "reading"
         \/ ~WholeLines /\ line # <<>> /\ input' = Lettered(line) /\ phase' = "ending"
    /\ UNCHANGED parser

(* mdf_parser_finish_document: the line the end of the document leaves, and *)
(* whatever else is pending.                                                *)
FinishPending(s) ==
    LET t == IF s.pending_quoted_list_blank_depth > 0
             THEN EndQuote([s EXCEPT !.pending_quoted_list_blank_depth = 0]) ELSE s
        u == IF t.pending_bare_quote_blank_depth > 0
             THEN [t EXCEPT !.pending_bare_quote_blank_depth = 0, !.prev_quote_depth = 0] ELSE t
        v == EndItem(u)
    IN  Mark(IF v.in_chart_block THEN EmitChart([v EXCEPT !.in_chart_block = FALSE]) ELSE v,
             "DOCUMENT_END")
ShortItem == parser.list_task_probe /\ parser.task # <<>>
FinishDocument ==
    /\ Open /\ input = <<>>
    /\ parser' = FinishPending(IF parser.prefix # <<>> \/ parser.decided
                               THEN EndLine(parser) ELSE parser)
    /\ phase' = IF ShortItem THEN "cut" ELSE "finished"
    /\ UNCHANGED <<input, given>>

Init ==
    /\ parser = LineFields @@ DocumentFields
    /\ input = <<>> /\ given = <<>> /\ phase = "reading"

Next == ReadLine \/ Feed \/ FinishDocument
Spec == Init /\ [][Next]_vars

-----------------------------------------------------------------------------

Position(types) == {k \in DOMAIN parser.out : parser.out[k].type \in types}
LettersOf(text) == SelectSeq(text, LAMBDA b : b \in ToSet(Letters))
Shown == LettersOf(FlattenSeq([k \in DOMAIN parser.out |-> parser.out[k].text]))
Held  == LettersOf(parser.chart_buf \o parser.task \o parser.prefix)

(* Whatever the lines turn out to be, each letter of the document reaches   *)
(* the renderer once and in order: none is lost or doubled by the prefix,   *)
(* the task probe and the chart buffer it waits in while its line and the   *)
(* lines before it are decided, or by the blank lines and quotes that are   *)
(* resolved late (src/src/render_parse.c:5389-6055).  A document that ends  *)
(* within the first bytes of a bullet item is the exception.                *)
TextKept == phase # "cut" => Shown \o Held = FlattenSeq(given)

LastBefore(k, types) ==
    LET before == {j \in Position(types) : j < k}
    IN  IF before = {} THEN "" ELSE parser.out[CHOOSE j \in before : \A m \in before : m <= j].type
CodeEnds == {"CODE_BLOCK_START", "CODE_BLOCK_END"}

(* The letters of two lines never touch: a token or a blank comes between,  *)
(* whichever handler ended the first line and decided the second (end_line, *)
(* decide_prefix).  Left out are lines that nobody decides, which join      *)
(* their neighbours: two bytes that begin with a backtick                   *)
(* (src/src/render_parse.c:5462-5464), and text that indented code takes in *)
(* because its first bytes fill the prefix (5419-5426).                     *)
Undecided(k) ==
    \/ Len(parser.out[k].text) \in 1 .. 2 /\ parser.out[k].text[1] = "tick"
    \/ parser.out[k].type = "TEXT" /\ LastBefore(k, CodeEnds) = "CODE_BLOCK_START"
Stream ==
    FlattenSeq([k \in DOMAIN parser.out |->
        IF parser.out[k].type \in {"TEXT", "CODE_TEXT"} /\ ~Undecided(k)
        THEN parser.out[k].text
        ELSE <<"token">> \o parser.out[k].text \o <<"token">>])
Visible ==
    SelectSeq(Stream, LAMBDA b : b \in ToSet(Letters) \cup Blank \cup {Newline, "token"})
SameLine(a, b) == \E n \in DOMAIN given : {a, b} \subseteq ToSet(given[n])
LinesKeptApart ==
    LET shown == Visible
    IN  \A k \in 1 .. Len(shown) - 1 :
            {shown[k], shown[k + 1]} \subseteq ToSet(Letters) => SameLine(shown[k], shown[k + 1])

(* An item ends once: LIST_ITEM_END waits for what follows the item, and    *)
(* nine handlers send it.                                                   *)
ItemsEndOnce ==
    phase # "cut" => \A k \in Position({"LIST_ITEM_END"}) :
        LastBefore(k, {"LIST_ITEM_START", "LIST_ITEM_END"}) = "LIST_ITEM_START"

=============================================================================
