---------------------------- MODULE TableFilter -----------------------------
(***************************************************************************)
(* The table filter in front of the Markdown parser (table_filter,         *)
(* src/src/render_parse.c).  It holds back a line that may be a table's    *)
(* header until the lines after it tell, renders tables itself, and hands  *)
(* every other byte on to the parser in the order it came.                 *)
(*                                                                         *)
(* Input arrives in pieces, each a feed of its own (the finest chunking    *)
(* retains the most): a line is an optional prefix, an optional text and   *)
(* its newline.  A text stands for all bytes after the prefix; what the    *)
(* filter asks of them is whether they start with a pipe, how many cells   *)
(* they make and whether they are a delimiter row.  Pieces are named by    *)
(* their position in `fed'; a piece that is not a newline counts one byte. *)
(***************************************************************************)
EXTENDS Integers, Sequences, SequencesExt

CONSTANTS
    Options,            \* what a filter is created for:
                        \*   format      "ANSI" or "HTML"
                        \*   buffer_mode opts.table_buffer_mode: "full" or "row"
                        \*   limits      incremental_limits: feed has some, a
                        \*               render has none
    MaxConstructBytes,  \* MDF_MAX_INCREMENTAL_CONSTRUCT_BYTES
    MaxRetainedRows,    \* TABLE_MAX_RETAINED_ROWS
    Marks,              \* subset of {"quote", "space"}
    Texts,              \* subset of DOMAIN TextCells
    MaxLines            \* bound: lines of a document

(* The texts, by example: `a', `|', `| a |', `| a | b |', `| - |', `a | b'.  *)
TextCells == [word |-> 0, bar |-> 0, row1 |-> 1, row2 |-> 2, delim |-> 1, loose |-> 2]
Barred    == {"bar", "row1", "row2", "delim"}

ASSUME OptionsAssumption ==
    Options \subseteq
        [format : {"ANSI", "HTML"}, buffer_mode : {"full", "row"}, limits : BOOLEAN]
ASSUME LimitAssumption == MaxConstructBytes \in Nat \ {0} /\ MaxRetainedRows \in Nat \ {0}
ASSUME InputAssumption ==
    Marks \subseteq {"quote", "space"} /\ Texts \subseteq DOMAIN TextCells

VARIABLES
    options,
    fed,                \* the pieces received
    delivered,          \* positions handed on, "text" to the parser, as part of
                        \* a "table", or the "gap" a table's blank line leaves
    phase,              \* "open", "finished", "failed"
    \* struct table_filter
    state,              \* 0 "pass", 4 "prelude", 1 "candidate", 2 "header", 3 "table"
    line_start,
    line,               \* the line held so far, without its newline
    line_chunks,        \* how many chunk boundaries it contains
    header, delimiter,  \* copies of lines, without a quote prefix
    rows,
    quote_prefix, has_header, row_layout_ready,
    retained_bytes

held == <<state, line, line_chunks, header, delimiter, rows, quote_prefix,
          has_header, row_layout_ready, retained_bytes>>
vars == <<options, fed, delivered, phase, line_start, held>>

Pieces  == Marks \cup Texts \cup {"newline"}
RowMode == options.format = "ANSI" /\ options.buffer_mode = "row"

Init ==
    /\ options \in Options
    /\ fed = << >>
    /\ delivered = << >>
    /\ phase = "open"
    /\ state = "pass"
    /\ line_start = TRUE
    /\ line = << >>
    /\ line_chunks = 0
    /\ header = << >>
    /\ delimiter = << >>
    /\ rows = << >>
    /\ quote_prefix = FALSE
    /\ has_header = FALSE
    /\ row_layout_ready = FALSE
    /\ retained_bytes = 0

-----------------------------------------------------------------------------
(* Lines, as sequences of positions *)

Quoted(s) == s # << >> /\ fed[s[1]] = "quote"

(* table_quote_content *)
Unquoted(s) == IF Quoted(s) THEN Tail(s) ELSE s

(* table_count_cells.  A quote mark that is not stripped is text in front of *)
(* the first pipe: a cell of its own.                                        *)
Cells(s) ==
    IF s = << >> \/ Last(s) \notin DOMAIN fed \/ fed[Last(s)] \notin Texts
       \/ TextCells[fed[Last(s)]] = 0
    THEN 0
    ELSE TextCells[fed[Last(s)]] + IF Quoted(s) THEN 1 ELSE 0

(* What a line contributes to a table that began as this one did. *)
Content(s) == IF quote_prefix THEN Unquoted(s) ELSE s

IsDelimiter(s) ==
    s # << >> /\ fed[Last(s)] = "delim" /\ ~Quoted(s) /\ Cells(s) = Cells(header)

(* A completed line together with its newline, the piece after it. *)
Ended(s) == Append(s, Last(s) + 1)

Items(s, as) == [i \in DOMAIN s |-> [n |-> s[i], as |-> as]]
Handed(items) == delivered' = delivered \o items

-----------------------------------------------------------------------------
(* What is held *)

Held == Len(header) + Len(delimiter) + Len(FlattenSeq(rows))

(* Fault: the chunk boundaries of the line stay counted. *)
ChunksStayCounted == Len(line)

LineBytes == Len(line) + line_chunks

(* A chunk boundary inside a held line is noted when the next piece comes.   *)
Boundary == IF state # "pass" /\ line # << >> THEN 1 ELSE 0

BoundaryBytes == Boundary

ResetLine(bytes) ==
    /\ line' = << >>
    /\ line_chunks' = 0
    /\ retained_bytes' = bytes - LineBytes

(* table_filter_reset_candidate *)
ResetCandidate ==
    /\ state' = "pass"
    /\ header' = << >>
    /\ delimiter' = << >>
    /\ rows' = << >>
    /\ quote_prefix' = FALSE
    /\ has_header' = FALSE
    /\ row_layout_ready' = FALSE
    /\ ResetLine(retained_bytes - Held)

KeepCandidate == UNCHANGED <<header, delimiter, rows, quote_prefix, has_header,
                             row_layout_ready>>

(* The lines of the table that were not rendered yet. *)
Unrendered ==
    IF row_layout_ready THEN << >>
    ELSE (IF has_header THEN Ended(header) \o Ended(delimiter) ELSE << >>)
         \o FlattenSeq([i \in DOMAIN rows |-> Ended(rows[i])])

(* A row is stored, unless it can be rendered at once. *)
Stored == ~(RowMode /\ row_layout_ready)

(* The bytes that feeding piece x adds before it gives any back. *)
Growth(x) ==
    CASE state = "pass"                          -> IF line_start /\ x # "newline" THEN 1 ELSE 0
      [] state # "pass" /\ x # "newline"         -> 1
      [] state = "prelude" /\ x = "newline"      -> 0
      [] state = "candidate" /\ x = "newline"    -> IF Cells(Unquoted(line)) > 0
                                                    THEN Len(Unquoted(line)) ELSE 0
      [] state = "header" /\ x = "newline" ->
            IF IsDelimiter(Content(line)) THEN Len(Content(line))
            ELSE IF Cells(Content(line)) = Cells(header)
            THEN Len(header) + Len(Content(line)) ELSE 0
      [] state = "table" /\ x = "newline"        -> IF Cells(Content(line)) > 0 /\ Stored
                                                    THEN Len(Content(line)) ELSE 0

Exceeds(x) ==
    /\ options.limits
    /\ \/ retained_bytes + Boundary + Growth(x) > MaxConstructBytes
       \/ /\ state = "table" /\ x = "newline" /\ Stored /\ Cells(Content(line)) > 0
          /\ Len(rows) = MaxRetainedRows

-----------------------------------------------------------------------------
(* table_filter_feed *)

LastPiece == IF fed = << >> THEN "newline" ELSE Last(fed)
Lines     == Len(SelectSeq(fed, LAMBDA x : x = "newline"))

(* The application feeds a piece that can follow. *)
Arrives(x) ==
    /\ phase = "open"
    /\ Lines < MaxLines
    /\ x \in Marks => LastPiece = "newline"
    /\ x \in Texts => LastPiece \in Marks \cup {"newline"}
    /\ fed' = Append(fed, x)
    /\ UNCHANGED options

Feeds(x) == Arrives(x) /\ ~Exceeds(x) /\ UNCHANGED phase

Here == Len(fed) + 1

(* MDF_ERROR_PARSE: the document fails, and what is held is only destroyed.  *)
LimitExceeded(x) ==
    /\ Arrives(x)
    /\ Exceeds(x)
    /\ phase' = "failed"
    /\ UNCHANGED <<delivered, line_start, held>>

(* An allocation, or a write of the renderer, fails on the way. *)
Breaks(x) ==
    /\ Arrives(x)
    /\ phase' = "failed"
    /\ UNCHANGED <<delivered, line_start, held>>

(* In the middle of a line, and for a blank one, bytes go straight on. *)
PassOn(x) ==
    /\ Feeds(x)
    /\ state = "pass"
    /\ ~line_start \/ x = "newline"
    /\ Handed(Items(<<Here>>, "text"))
    /\ line_start' = (x = "newline")
    /\ UNCHANGED held

(* The first piece of a line: a pipe or a prefix is held, text goes on. *)
StartLine(x) ==
    /\ Feeds(x)
    /\ state = "pass"
    /\ line_start
    /\ x # "newline"
    /\ IF x \in Barred \cup Marks
       THEN /\ state' = IF x \in Barred THEN "candidate" ELSE "prelude"
            /\ line' = <<Here>>
            /\ retained_bytes' = retained_bytes + 1
            /\ UNCHANGED <<delivered, line_start>>
       ELSE /\ Handed(Items(<<Here>>, "text"))
            /\ line_start' = FALSE
            /\ UNCHANGED <<state, line, retained_bytes>>
    /\ UNCHANGED line_chunks
    /\ KeepCandidate

(* After a prefix, a pipe makes a candidate and other text ends the doubt. *)
GrowPrelude(x) ==
    /\ Feeds(x)
    /\ state = "prelude"
    /\ IF x \in Barred
       THEN /\ state' = "candidate"
            /\ line' = Append(line, Here)
            /\ line_chunks' = line_chunks + Boundary
            /\ retained_bytes' = retained_bytes + BoundaryBytes + 1
            /\ UNCHANGED <<delivered, line_start>>
       ELSE /\ state' = "pass"
            /\ Handed(Items(Append(line, Here), "text"))
            /\ line_start' = (x = "newline")
            /\ ResetLine(retained_bytes)
    /\ KeepCandidate

GrowLine(x) ==
    /\ Feeds(x)
    /\ state \in {"candidate", "header", "table"}
    /\ x # "newline"
    /\ line' = Append(line, Here)
    /\ line_chunks' = line_chunks + Boundary
    /\ retained_bytes' = retained_bytes + BoundaryBytes + 1
    /\ UNCHANGED <<delivered, state, line_start>>
    /\ KeepCandidate

(* table_filter_complete_line in state 1: a header, unless it has no cells.  *)
CompleteCandidate ==
    /\ Feeds("newline")
    /\ state = "candidate"
    /\ IF Cells(Unquoted(line)) = 0
       THEN /\ Handed(Items(Ended(line), "text"))
            /\ ResetCandidate
            /\ line_start' = TRUE
       ELSE /\ state' = "header"
            /\ header' = Unquoted(line)
            /\ quote_prefix' = Quoted(line)
            /\ ResetLine(retained_bytes + Len(Unquoted(line)))
            /\ UNCHANGED <<delivered, line_start, delimiter, rows, has_header,
                           row_layout_ready>>

(* State 2, a delimiter: the table has a header. *)
CompleteDelimiter ==
    /\ Feeds("newline")
    /\ state = "header"
    /\ IsDelimiter(Content(line))
    /\ state' = "table"
    /\ delimiter' = Content(line)
    /\ has_header' = TRUE
    /\ ResetLine(retained_bytes + Len(Content(line)))
    /\ UNCHANGED <<delivered, line_start, header, rows, quote_prefix, row_layout_ready>>

(* State 2, a second line with as many cells: a table without a header. *)
CompleteHeaderless ==
    /\ Feeds("newline")
    /\ state = "header"
    /\ ~IsDelimiter(Content(line))
    /\ Cells(Content(line)) = Cells(header)
    /\ state' = "table"
    /\ IF RowMode
       THEN /\ Handed(Items(Ended(header) \o Ended(Content(line)), "table"))
            /\ row_layout_ready' = TRUE
            /\ ResetLine(retained_bytes)
            /\ UNCHANGED rows
       ELSE /\ rows' = <<header, Content(line)>>
            /\ ResetLine(retained_bytes + Len(header) + Len(Content(line)))
            /\ UNCHANGED <<delivered, row_layout_ready>>
    /\ UNCHANGED <<line_start, header, delimiter, quote_prefix, has_header>>

(* Fault: the header is replayed after the line that decided it. *)
ReplayedLate == Append(line, Here) \o Ended(header)

(* What a header and its next line become when they are no table. *)
Replayed == Ended(header) \o Append(line, Here)

RejectHeader ==
    /\ Feeds("newline")
    /\ state = "header"
    /\ Cells(Content(line)) # Cells(header)
    /\ Handed(Items(Replayed, "text"))
    /\ ResetCandidate
    /\ line_start' = TRUE

(* The row that is being completed lets row mode compute the layout. *)
RowOpens == Len(rows) + 1 >= IF has_header THEN 1 ELSE 2

(* State 3, another row.  Row mode renders the first one with the header     *)
(* (table_render_ansi_row_open) and later ones as they come.                 *)
AddRow ==
    /\ Feeds("newline")
    /\ state = "table"
    /\ Cells(Content(line)) > 0
    /\ IF RowMode /\ (row_layout_ready \/ RowOpens)
       THEN /\ Handed(Items(Unrendered \o Ended(Content(line)), "table"))
            /\ rows' = << >>
            /\ row_layout_ready' = TRUE
            /\ ResetLine(retained_bytes - Len(FlattenSeq(rows)))
       ELSE /\ rows' = Append(rows, Content(line))
            /\ ResetLine(retained_bytes + Len(Content(line)))
            /\ UNCHANGED <<delivered, row_layout_ready>>
    /\ UNCHANGED <<state, line_start, header, delimiter, quote_prefix, has_header>>

(* A line that is no row ends the table; a blank one belongs to it. *)
Ending == IF line = << >> THEN Items(<<Here>>, "gap")
                          ELSE Items(Append(line, Here), "text")

EndTable ==
    /\ Feeds("newline")
    /\ state = "table"
    /\ Cells(Content(line)) = 0
    /\ Handed(Items(Unrendered, "table") \o Ending)
    /\ ResetCandidate
    /\ line_start' = TRUE

(* What EOF makes of a header and the line after it. *)
HeaderAtEof == Ended(header) \o line

(* table_filter_finish.  A table is rendered; the line begun after its last  *)
(* newline is dropped with the candidate.                                    *)
FinishDocument ==
    /\ phase = "open"
    /\ phase' = "finished"
    /\ Handed(CASE state = "header" -> Items(HeaderAtEof, "text")
                [] state = "table"  -> Items(Unrendered, "table")
                [] OTHER            -> Items(line, "text"))
    /\ ResetCandidate
    /\ UNCHANGED <<options, fed, line_start>>

Next ==
    \/ \E x \in Pieces : \/ LimitExceeded(x) \/ Breaks(x) \/ PassOn(x)
                         \/ StartLine(x) \/ GrowPrelude(x) \/ GrowLine(x)
    \/ CompleteCandidate \/ CompleteDelimiter \/ CompleteHeaderless \/ RejectHeader
    \/ AddRow \/ EndTable
    \/ FinishDocument

Spec == Init /\ [][Next]_vars

-----------------------------------------------------------------------------
(* Properties *)

Numbers(items) == [i \in DOMAIN items |-> items[i].n]

(* What has been fed and not handed on, in the order it will be. *)
Pending ==
    (CASE state = "header" -> Ended(header)
       [] state = "table"  -> Unrendered
       [] OTHER            -> << >>) \o line

NoQuotes(s) == FlattenSeq([i \in DOMAIN s |-> IF fed[s[i]] = "quote" THEN << >> ELSE <<s[i]>>])
AllFed      == [i \in DOMAIN fed |-> i]

(* Holding lines back, deciding and replaying them never loses, repeats or   *)
(* reorders input: at any moment what was handed on, followed by what is     *)
(* held, is the input (quote marks aside); and EOF resolves everything up to *)
(* the last newline, whatever was held.                                      *)
Conservation ==
    /\ phase = "open" => NoQuotes(Numbers(delivered) \o Pending) = NoQuotes(AllFed)
    /\ phase = "finished" =>
        \A m \in DOMAIN fed : fed[m] = "newline" =>
            IsPrefix(NoQuotes([i \in 1 .. m |-> i]), NoQuotes(Numbers(delivered)))

(* retained_bytes, kept up piecemeal over a dozen places, is what is held:   *)
(* the limits of an incremental document are enforced on the real amount,    *)
(* and nothing is carried over from one candidate to the next.               *)
RetainedIsHeld ==
    phase # "failed" => /\ retained_bytes = Len(line) + line_chunks + Held
                        /\ state = "pass" => retained_bytes = 0

=============================================================================
