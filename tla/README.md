# Formal models of libmdf

libmdf renders Markdown to ANSI terminals and to HTML, from a source in one
call or incrementally as fragments arrive. `cmdf` is its command, with a pager;
a Lua module binds it. This directory holds TLA+ models of the parts whose
correctness depends on orders of events, on failures half way and on counters
that several places keep up, the TLC runs that check them, and TLAPS proofs.
Paths such as `src/mdf.c` are relative to the repository.

## The system

| component | state | operations | talks to |
|---|---|---|---|
| reusable memory pool (`mdf_memory_*`, `src/mdf.c`) | free list, retained byte counter, block headers | alloc, realloc, free, destroy | every buffer of a renderer; the application's allocator |
| renderer session and document lifecycle (`src/mdf.c`, `src/render.c`) | `render_active`, `active_sink`, `emission_active`, `incremental_state`, title, geometry, error text | feed, flush, finish_document, begin_document, write_token, finish, render, reset, set_sink, set_geometry, set_html_title, destroy | sink, source and trace callbacks, which may call back; parsers |
| table filter (`src/render_parse.c`) | held line, header, delimiter, rows, five states, `retained_bytes` | feed, complete a line, finish | in front of the block parser; renders tables itself |
| block parser (`src/render_parse.c`) | line state, list and quote stacks, pending breaks, probes that hold input | feed bytes, end of line, EOF | tokens to the renderer |
| inline parser (`src/render_parse.c`) | delimiters, pending code, links, entities | bytes of a line | tokens to the renderer |
| ANSI renderer (`src/render_ansi*.c`) | word, pending space and breaks, styles, retained code and links | one handler per token | sink |
| HTML renderer (`src/render_html.c`) | open elements, shell | one handler per token | sink |
| HTML decks (`src/mdf.c`) | whole source, slide bounds | render | HTML renderer |
| automatic title (`src/mdf.c`) | prefix of the source, replay position | detect, replay | source callback |
| emission buffer, plain filter (`src/mdf.c`) | buffer, escape state | append, flush | sink, trace |
| pager (`src/pager.c`) | signal handlers, terminal modes, screen, resize flags, search, view | keys, resizes, signals | terminal, kernel, renderer |
| `cmdf` (`src/cmdf.c`) | options, output file, incremental pager source | run | library, file system |
| font dump (`src/html_fonts.c`) | two files | dump | file system |
| Lua binding (`lua/`) | handles, callback contexts | methods, finalizers | Lua VM, library |

What makes it hard:

* **Callbacks re-enter.** A sink, trace or source callback runs in the middle of
  a call and may call the same renderer. Two flags and a frame counter decide
  what such a call may do.
* **Failures half way.** Any write, read or allocation can fail between two
  steps of a call; the document is then latched until `reset`.
* **Input is held back** (tables, lists, links) and later rendered, replayed or
  limited; EOF can come in any state.
* **Output is held back**: a word waits for its end, and what precedes a word (a
  space, breaks, a margin, a list marker) waits for the word, while the
  application may change the geometry.
* **Signals** reach the pager between any two steps.
* **Counters** of retained memory are updated in many places and compared as
  `limit - counter`.

What makes each component correct: the pool never gives a block to two buffers
and keeps to its limits; a call gives back what it borrowed whichever way it
ends, and an application sees the lifecycle `include/libmdf/mdf.h` describes;
the table filter loses, repeats and reorders nothing and counts what it holds;
the renderer
prints each glyph once, in order, and apart where it was apart;
the pager gives the terminal back before a signal reaches its caller, and loses
no signal and no resize. `PROJECT.json` lists each hazard at its line.

## Modules

| module | models | checked by |
|---|---|---|
| `Heap` | what a buffer may expect of its allocator (abstract) | as `HeapSpec` in `renderer`; proved |
| `MemoryPool` | the reusable pool; implements `Heap` | `renderer`, `RendererProofs` |
| `DocumentLifecycle` | the incremental lifecycle an application sees (abstract) | as `LifecycleSpec` in `renderer`; proved |
| `Session` | every call on a renderer and its callbacks; implements `DocumentLifecycle` | `renderer`, `RendererProofs` |
| `TableFilter` | `table_filter_*` | `table`, `TableFilterProofs` |
| `TableCells` | where a row is cut into cells, and what of a cell is rendered | `table_layout`, `escaped_pipe` |
| `TableLayout` | a table's columns, wrapping, wires and styles on the terminal | `table_layout` |
| `BlockParser` | `decide_prefix`, `end_line`, `feed_decided` and their helpers | `blocks` |
| `SourcePath` | title detection, its replay and the front matter filter | `source_path`, `SourcePathProofs` |
| `HtmlDeck` | how a deck's source is cut into slides | `source_path`, `SourcePathProofs` |
| `Pager` | `mdf_pager_run` and the signal handlers | `pager`, `PagerProofs` |
| `PagerView` | the pager's layout, scrolling, search and relayout | `pager`, `PagerProofs` |
| `WordSplit` | where a word may be cut (pure operators) | through `LineWrap` |
| `LineWrap` | the ANSI renderer's layout of text in lines, fed by the block parser | `wrap`, `wrap_loop` |
| `HtmlBridge` | the HTML renderer's translation of ANSI output into markup | `html`, `HtmlProofs`, `HtmlTextProofs` |
| `LuaBinding` | handles, callbacks and errors of the Lua module | `lua`, `lua_error`, `LuaBindingProofs` |

`MC*` modules extend these for TLC; their `.cfg` files give the constants.
`*Proofs` modules hold the theorems, and `SequenceLemmas` what several of them need
to know about sequences. Four runs check two modules each, side by side and not
mixed (in three of them a variable `part` of the MC module says which of the two moves). `RendererProofs` and `PagerProofs` are about two modules
each, which share no state: the names of the first begin with `Pool` and `Loop`. A `CASE` is read as TLC evaluates it, the first arm that
holds; where there are proofs it has one meaning, as no two arms hold at once or the
proof allows for either.

**MemoryPool.** `free_list`, `retained_bytes` and `cap` are the fields of
`mdf_memory` and its block headers; `cap[b] = 0` says that the backing
allocator owns `b`. `Take` is `mdf_memory_alloc_cb` (first fit, else the backing
allocator) and `GiveBack` is `mdf_memory_free_cb`, both on an explicit pool so
that `ReallocMove` can chain them as the code does. A backing allocator that
refuses makes the call return NULL and leaves everything alone, which is a
stuttering step. The first-fit order is kept because the list order is state.
`RetentionBounded` is about the listed blocks: their capacities, added up, are
`retained_bytes` and stay within `max_retained_bytes`.

**Session.** A call is cut where the library calls the application: `pc` in
`op` names the stretch, `callback` the callback in progress. An application
action is enabled between calls and inside callbacks, so every re-entrance is
explored; most are refused by `render_active`, some (set_geometry in a source
callback, set_sink to the sink that is bound, set_html_title) are not.
The variable `session` abstracts the renderer's wrap state and HTML openness to what entry
points test; what is printed is abstract, who may write when is not. `fault`
and `route` say what failed and through which write path, because the code's
three unwinding functions classify by both. `MaxWrites` and `MaxReads` cut the
loops inside a call short, so nothing is said here about whether a call returns;
`LineWrap` asks that of the one loop where it is in doubt.

**TableFilter.** A line is at most three pieces, each fed on its own (the
chunking that retains most): an optional prefix, an optional text, a newline.
Texts are chosen by what the code asks of a line: a leading pipe, the number of
cells, a delimiter row. Positions in the input stand for the bytes, so that
losing, repeating and reordering are visible. One byte per piece and one byte
per chunk offset stand for their sizes; the limits are scaled alike. Alignment
and the deliberate loss of a wide rune cut by a chunk boundary
(`table_filter_apply_go_chunk_utf8_loss`, parity with the Go implementation)
are left out.

**TableCells.** Pure operators on a row of characters: `NextPipe` is the scan
`table_next_pipe` with its look-aheads, `CellText` the bounds of a cell, `CopyCell`
what the inline renderer gets. The one action reads a row character by character, so
that every row is looked at. The operators and the C functions were compared on
236 000 rows; no count, bound or copy differed. `CellsReadAlone` compares the
cuts, which start again in every cell, with Markdown's reading of the whole
row, for rows without brackets. Rows that end in an escaped pipe are its exception:
`EscapedPipesKept`, which says of all rows what the documentation does, is the
violation that `escaped_pipe` shows.

**TableLayout.** A cell is what the inline renderer made of it, runs of glyphs
in one style; what the styles contain is abstracted to "opens a link" and names.
`WrapCell` is `table_wrap_styled_cell`, `Metrics` and `ComputeWidths` measure and fit
as `table_compute_ansi_widths` does (with `AllocateWidths` when the words have to be
split), `RowLine` writes a line with the terminal's colour and link after every
switch. A link the code does not close is still open on the next line, so lines are
written one behind the other. `RenderFull` is a buffered table; `RenderRowOpen`, `RenderRowContinue` and
`RenderRowFinish` are row mode, with `SetWidth` between rows. What opens row mode is
measured together: the header and a row, or two rows without a header. Such a table
has its first row's columns; buffered, it has those of its longest row, up to `MaxColumns`
(32 in the code). 8 000 layouts of 500 random tables, at four widths, were
made by the model and by the library, without a difference in text or width. HTML
cells, and which bytes share a write, are left out.

**SourcePath.** A document is a sequence of lines, each a kind (what the two
detectors and the filter can tell apart) and a newline, read in units: a read
may stop before or after any kind. `DetectLine` and `DetectFront` are one turn
of the loops of `auto_title_detect_from_source`, enabled when the bytes they
look at are there and otherwise preceded by `ReadAhead`; `Feed` is
`mdf_parser_feed_unfiltered` up to the table filter, with `Decide` for
`frontmatter_decide`. The first bytes of a fence are one unit, so a fence cut
between its dashes is not explored; `frontmatter_opening_prefix_possible`, which
handles that case, answers for a whole unit. The properties state what the
title and the front matter of a whole document are, once, over its lines, and
compare the incremental decisions with that.

**HtmlDeck.** The loop of `deck_render` over the lines of a source: `ReadLine` is
`deck_read_line`, and the line then goes to the front matter that is held
(`HoldFrontMatter`, `CloseFrontMatter`, `RejectFrontMatter`) or to the slide
(`FencedLine`, `BodyLine`, `NextSlide`). A line is what the predicates tell apart:
its indentation, what it starts with, and of a fence or a break the mark and its
length. `deck_out` is what was written, every slide a heading and a body as
`deck_write_section` cuts them from the slide's HTML; any read, rendering or write may
fail. A slide is rendered as a document of its own, so lines at its start that look
like front matter are not shown (`Kept`): a delimiter, a line of metadata, and
the delimiter again. `docs/html-slide-deck-mode.md` speaks of the deck's front matter only.
`DeckLinesKept` says that nothing else is lost, with the definition over the
document's lines, `OwnFrontMatter`. A slide whose metadata exceeds the parser's probe
is left out. Style sheets, scripts and the page's head are left out. 5 721 random decks
were cut by the model and by the library, without a difference.

**Pager.** One step per system call and per test of a signal variable.
`interrupted` says that the system call in progress will return EINTR; a
signal handled while one may be blocking can interrupt it or come just outside
it. Every write may fail for good, be accepted in part, or be given up because a
recorded signal interrupted it; `given_up` remembers which of the writes that switch
the screen ended so, since only these leave the alternate screen on. The debounce time is abstract: with a resize pending, a wait may end at any
moment. The view is the terminal size it was laid out for. Handlers are
installed in one step (a partial installation needs `sigaction` to fail on a
valid signal), and failures of `sigprocmask` on valid arguments are left out.

**LineWrap.** The renderer is a record `r` whose fields are those of `mdf_impl`
that a decision reads, and each function of `src/render_ansi.c` on the way from
a token to the sink is an operator from such a record to the one it leaves:
`FlushWord` is `ansi_flush_word_reserved`, `PlainGlyph` is
`ansi_handle_plain_visible_char`, and so on. Loops over breaks, bytes and
tokens, and the word that is flushed with a withheld slash behind it, are
recursive, so the module is for TLC only. `printed` is what the sink was
given, each cell with the geometry it was printed under. `block`, `line`,
`spaces` and `soft` are the parser's part: spaces that wait for a glyph, the
soft space a line break leaves, the probe of an item's first bytes. A glyph is a
kind of byte that some decision tells apart (letters, the punctuation a line may
break after, quotation marks, the parts of a URL's scheme) or a wide rune of
two columns and three bytes. Ordinary text only: inline markup, quotes, code,
nested and ordered lists, words with `digit:digit` (written in two pieces, with
the same effect) and styles are left out, as are a hard break inside an item and
an item whose probe is cut by a blank line or by EOF. `typed` is history: the
glyphs and what separated them, which the properties compare with `printed`.
Random behaviours of the model (some 30 000, with more fragments, levels and
geometries than the runs have) were replayed on the library; the output was the
same byte for byte.

**BlockParser.** Every byte of a line that is not yet understood runs all of
`decide_prefix`: `Settled` resolves the blank lines and quote marks that earlier
lines left pending, then `Rule` names the first of the function's branches that
applies, and there is one action per branch. Once a line is decided its bytes go
through the actions of `feed_decided`, and `EndLine` is `end_line`. `out` is the
token sequence handed to the renderer. Letters are all different, so that a byte
that is lost, doubled or moved is seen. The capacities of the prefix and of the
held spaces are constants, small enough to be reached. The info string of a
fence (chart options), the limit on retained charts, the depth limits of the
list and quote stacks and the overflow of ordered numbers are left out. Below a hard
break in an item, `AlignBelowBreak` computes how many blanks fit in front of the
prefix; in a full prefix that `size_t` wraps and the program does not survive the fill
(`PadFaults`). The model takes no step from there; the lines of the run do not lead there. Some
330 000 documents were parsed by the model and by the library; no token differed.

**PagerView.** One action is one turn of `mdf_pager_run`'s loop after a key's
bytes, or a settled resize, have arrived (how they arrive is `Pager`). `Rendered`,
a constant, stands for the renderer: the runs use a word wrapper that closes
styles and links at breaks. A view is its bytes and whole escape sequences.
`SearchEnds` folds case as `mdf_pager_search_equal` does, with a rune that folds to two
letters; `AnchorText` and `FindAnchor` are the place a `Relayout` returns to. The status
line, the replacement of control characters and failed allocations are left out.

**HtmlBridge.** The HTML renderer reads what the ANSI renderer writes. Its input
is bytes and whole escape sequences (a style, a link), chosen per line from
templates; `html` holds `struct html_state` and `page`, what a browser makes of
the output (the elements open, the text, what each piece of text is nested in).
A line is written as it comes ("plain", "heading") or collected in segments and
written when the next one starts (`FlushLine`); charts go through the same bridge
in a box, tables are written around it. The *lead* is the prefix that a heading in
a quote or a code block, or a chart row, does not show: `BlocksAssumption` says how
long it is for the lines and chart rows the ANSI renderer writes, and that their
characters are whole. Boring output, the
alignment of vertical charts at their axis, cells of tables, tables in quotes and
items (whose rows carry a prefix), the page's head and style sheet and incomplete
UTF-8 are left out. The translation of some 2000 documents was
compared with the library's; none differed.

**LuaBinding.** A method is C code that calls the core, which calls C callbacks,
which run Lua functions, which may call methods again; token getters and
finalizers run Lua code outside callbacks. `frames` is the C and Lua stacks as
one sequence. `handle` has the fields of `lua_mdf_handle` and its uservalue, where
the functions are anchored under one key per context; `core` is external: whether
it is inside an operation and which context it would write to. Two Lua threads
stand for the main one and a coroutine. An error lies on the stack of the thread it was raised
on, and the method looks for it on its own: `Answer` is that object when the two are
the same thread, else another value.

## Runs

| run | instance | shows |
|---|---|---|
| `renderer` | a pool of 3 blocks, 2 buffers, sizes 1 to 4, retention 5, reusable up to 3; an ANSI and an HTML renderer, 2 sinks, 2 geometries, 2 writes and 2 reads a call | ownership, limits, the counter, refinement of `Heap`; borrowed sinks, silence after failure, refinement of `DocumentLifecycle` |
| `table` | all documents of 4 lines, buffered tables and row mode, limits 8 bytes and 2 rows | conservation, accounting, complete lines at EOF |
| `table_layout` | tables of 1 to 3 columns, up to 4 rows of which later ones have more or fewer cells, 8 kinds of cells, 5 ways to write them, 3 widths, `MaxColumns` 2, a resize between rows; all rows of 6 characters from 4 alphabets | cells cut as Markdown reads them, their text kept, rows aligned, columns fitted, colours and links closed |
| `blocks` | all documents of 3 lines from 27, a prefix of 8 bytes and 2 held spaces | every letter once and in order, lines apart, items ended once |
| `pager` | the loop with 2 signals, 3 keys and resizes; the view of a text, a Markdown and an empty document, 2 terminal sizes, queries of 4 bytes | what was taken is given back before a signal reaches the caller, no lost signal or resize, a signal ends the pager, a resize is followed; rows faithful on their own, matches of the layout on screen, the display follows, the place is kept |
| `source_path` | all documents of 4 lines of 8 kinds, reads of 1 to 3 units, a probe of 6 units; decks of 5 lines from 5 sets of lines | the source is replayed; front matter and title do not depend on how it was read; a deck's lines are kept but for front matter and its slides end at breaks |
| `wrap` | 3 pieces (text fragments, headings, items), width 6 and width 8 with margins 2 and 1, one change of the geometry | glyphs once and in order, words apart or together as fed, no avoidable overflow |
| `html` | 3 blocks of 12 lines and 3 charts, 3 styles, 2 links, one unsafe | the text once and in order, dressed as it was written, elements nested and closed |
| `lua` | 2 threads, 2 functions, 6 frames | the writer is held, a handle is open while methods use it, the counters, errors reach the caller |
| `wrap_loop` | the instance of `wrap` with a heading | the code does not do what a document says (below) |
| `lua_error` | the instance of `lua` | likewise |
| `escaped_pipe` | the rows of `table_layout` | likewise |

*Bounds.* Three blocks are a full free list, or the two blocks of a moving
realloc next to another buffer's. Two sinks are the bound one and another; two
writes let one be accepted before one fails; two geometries let a change be
made and undone. Four lines are a header, a delimiter, a row and a line that
ends the table, or a rejected candidate followed by another. A probe of six units ends in the middle of the
four line documents, so that both fitting and too long ones occur. Two signals are
one that is recorded and one that comes too late. Three fragments fill more
than one line of six columns, and meet in every order with any space or break
between them: a word, a URL or a scheme is continued, cut or given up.
Three lines are an
opening block, a line inside it and the one after. A prefix of 8 bytes and a gap of two spaces
overflow. Widths of 3 to 13 columns reach tables that fit, that wrap at
words, that split words and that cannot fit; two columns at most are passed by rows of three
cells. Links are written either for a terminal that knows them or with their address,
not both in one table. Two terminal sizes are a resize and its undoing; a query of four bytes
is one past the length that searches at once. Six frames are a method, its callback, a
method in it and another callback, with a getter or finalizer on top.
`CHECK_DEADLOCK FALSE` is set where the system stops: a document that is
finished or failed, a pager that returned.

*Fairness.* `Pager`: its own steps (waits are bounded by `wait_ms`; a write
ends, accepted or failed, which is the terminal's part) and the delivery of a sent SIGWINCH are weakly fair; keys, resizes and
termination signals are not. The safety properties of the other
modules need none.

## What the runs found

| run | source | the code | the document |
|---|---|---|---|
| `wrap_loop` | `src/render_ansi.c:1640` | a geometry change in a heading can make a feed print line breaks without end | `mdf.h:655` |
| `lua_error` | `lua/libmdf_core.c:325` | an error raised on another Lua thread is looked for on the wrong stack; the method raises another value | `README.md:841` |
| `escaped_pipe` | `src/render_parse.c:735` | an escaped pipe at the end of a row is taken for the closing one | `README.md:524` |

Also seen, without a run of its own; those that can be observed were reproduced with the library.

Sessions and sources:

* a sink that refuses a table write, or a failure after a stale "out of memory"
  text, is reported as `MDF_ERROR_NOMEM` (`src/mdf.c:2838`, `src/render.c:23`; `mdf.h:27`);
* the automatic title of a failed render passes for an explicit one (`src/mdf.c:2788`; `mdf.h:660`);
* the title is taken from a comment in front matter that is stripped (`src/mdf.c:830`; `README.md:712`);
* in a deck, a fence among lines that are held as front matter and then turn out to be
  none is not noticed, so a break inside that code splits the slide (`src/mdf.c:1989`;
  `docs/html-slide-deck-mode.md:126`); a line of spaces does not end a list the way an
  empty one does;
* lines at a slide's start that look like front matter are not shown (`src/mdf.c:1396`;
  `docs/html-slide-deck-mode.md:30`).

Block parser and tables:

* a blank line of a code block below a list item comes out after the block; blank lines in code end a paragraph;
* a two byte line of a backtick and a letter is text inside code, and joins its neighbours in places;
* a list quote copies stale bytes of an earlier prefix (`src/render_parse.c:5680`);
* a heading directly below a paragraph line continues that line, and the
  pending space follows the heading (`src/render_parse.c:5845`);
* a quoted fence without its quote mark never closes; a thematic break below a quote leaves it open;
* a line whose prefix reaches 256 bytes becomes text; below a hard break in an item the
  count of blanks to put before it wraps (`src/render_parse.c:6036`; read, not run);
* the line after a table's last newline is dropped at EOF (`src/render_parse.c:4563`; `README.md:298`);
* a rejected table header in a block quote loses its quote mark (`src/render_parse.c:4386`);
* a bullet item of less than four bytes loses its text at EOF without a newline (`src/render_parse.c:6491`; `README.md:298`).

Table layout:

* the link of a header cell is never closed, so that a parenthesis behind it and the cells
  that follow belong to it, and without wires the link that ends a line stays open (`src/render_parse.c:3147`;
  `README.md:529`; `StylesEnd` states both exceptions);
* a cell that starts with a code span's space makes its row one column wider, as does a wide
  rune in a column of one (`RowsAlign` states the exceptions);
* `(` in a cell swallows all pipes after it when nothing closes it (`src/render_parse.c:1118`).

Inline markup, seen while comparing cells:

* backslash escapes work only in the first bytes of a line (`src/render_ansi.c:9013`);
* an unfinished link inside emphasis leaves the emphasis open in the next paragraph (`src/render_ansi.c:4718`);
* a `(` before a code span that never closes is lost (`src/render_ansi.c:8989`); an underscore
  within a word prints a space; a run of more backticks than opened a code span closes it.

ANSI and HTML renderers:

* a URL whose only `?` is its last byte is not printed (`src/render_ansi.c:3411`; `mdf.h:494`);
* a single word after a heading's prefix or a left margin overflows the line by
  the width of these (`OnlyLoneWordsOverflow` states the exception);
* two trailing spaces of a heading make the next blank line print a line break;
* the last line of an HTML document leaves its line open when it has a marker;
  a link that is a whole line closes inside the spans it was opened around;
* `> # head` and `> text` print the quote mark behind the heading; an indented
  `# x` is a heading; links and colours of streamed headings are dropped;
* a bar chart whose longest label begins with `# ` becomes a heading without its bars (`src/render_html.c:2511`; `README.md:451`);
* an incomplete UTF-8 sequence at the end of a streamed line is dropped (`src/render_html.c:1408`).

Pager:

* a byte that was read is dropped when a resize is noticed just then, and
  the rest of an escape sequence is taken for keys (`src/pager.c:1908`);
* a recorded signal that interrupts the write that enters the alternate screen, after part of it went
  out, or a resize that interrupts the write that leaves it, leaves the terminal there (`src/pager.c:1414`,
  although the comment at 1408 has the cleanup restore it; `GivenBack` states the exception);
* after a jump to a match below the last page, Page Down moves up; words a relayout split are not found;
* a place whose text is not found again keeps its old row (`src/pager.c:1951`), as when its
  64 bytes end inside a rune.

## Proofs

`RendererProofs` proves of `MemoryPool`, for every set of blocks, buffers and sizes and every
value of the options, that `PoolTypeOK`, `Ownership`, `LargeEnough` and
`RetentionBounded` are invariants and that `MemoryPool` implements `Heap`.
The assumptions are those of the module: sizes are positive (the code raises 0
to 1), options are naturals, NULL is neither a block nor an object.

The invariant is `PoolInv`. `RetentionBounded` says that the counter is the sum of the listed
capacities, without a fold (a function of partial sums exists), and that this sum is within the limit.
It is not inductive: unlinking subtracts a capacity, and that the rest still adds up needs
every block to be listed once. `PoolOK(p, H)` says so, together with the list being free of
repetitions, blocks in use and blocks returned. What alloc and free do to a
pool is proved once each (`TakeOK`, `GiveBackOK`), for any pool `p` and any set
`H` of blocks handed out; the six actions are one or two of these. The
refinement maps alloc to `Allocate`, both reallocs to `Resize`, free to
`Release`, and destroy to a stutter; it needs `Ownership` (a write to one
buffer's block changes no other object).

`LuaBindingProofs` proves, for every set of threads and functions and every
bound of the stacks, that `TypeOK`, `WriterHeld`, `CallsKeepHandle`,
`CoreGuarded` and `ErrorsReachCaller` are invariants. A frame on the stack says
what C code will do when the frames above it have returned, so the invariant
`IInv` is about all frames at once: `Layered` (what may stand on what), `OneCore`
(the core is inside an operation exactly when a frame of it is on the stack, and
only once), `Counted` and `Entered` (the handle's counters are the numbers of
such frames), `ErrorWaits` (a pending error belongs to the method that will raise
it), `SinkKnown` and `OpenKnown`. Every action pushes a frame, pops one or
changes the topmost, so the lemmas `Pushed`, `Popped` and `Replaced` carry each
part over the frames below, and each action adds its own.

`PagerProofs` proves of `Pager`, for every set of termination signals and every number of
keys and resizes, that `LoopTypeOK`, `ModesRestored` and `SignalsReachCaller` are
invariants, and that every step satisfies `RestoredBeforeSignal`: a signal reaches the caller only after
modes and handlers are back, and the screen unless a write that switches it was given up.
The properties speak of the end; `LoopInv` says what is held at every
step before it: `HeldAt` which handlers, mode and mask are in place at each `pc`,
`ScreenAt` where the alternate screen may be on, `SignalsAt` where a signal that
was sent is: recorded, pending, picked, or with the caller.

`RendererProofs` proves of `Session`, for every set of sinks and geometries and every number of
writes and reads, that `TypeOK`, `SinkBorrowedForCall` and `FailedDocumentIsSilent`
are invariants and that `Session` implements `DocumentLifecycle`. `IInv` ties the
renderer to the call in progress: `PlaceOK` (the steps a call goes through),
`BorrowedOK` (what is set exactly while a call runs), `CallbackOK` (which callback
can run where), `DocumentOK` (the states of a document in each of those) and
`FaultOK`. In the refinement a call maps
to its beginning, the opening of the document when a feeding call makes it active,
and the step that ends it; a refused or configuring call is one `Answer`, a geometry
change that loses retained input `RelayoutFails`. Every other step inside a call and
the return of a callback is a stutter, which needs to know that a nested call cannot
change `incremental_state`.

`TableFilterProofs` proves, for documents of any length and any limits, that
`TypeOK`, `RetainedIsHeld` and `Conservation` are invariants. The properties are
nearly inductive: `FilterOK` adds, per state, which copies exist and that a stored line is not
empty and had its newline. The work is in the sequences: quote marks are
dropped on both sides of the equation, so dropping has to distribute over `\o`,
and a rejected candidate is replayed line by line.

`SourcePathProofs` proves, for every set of lines, sizes of reads and limit of the probe,
that `TypeOK`, `SourceReplayed`, `FrontMatterAnyChunking` and `TitleAnyChunking` are invariants.
`IInv` adds `ReplayOK` (how far was read, scanned and replayed) and `FrontOK` (what is held
back and written of what was fed). The core is that a decision made on a
prefix of the document is the one the whole document gets: `DecidedEarly`,
`UndecidedLate` and `DecidedAtEnd`, about the definition over whole lines that
the property uses. `TitleOK` is inductive given `IInv`: the lines already passed have
no title, no key or no closing fence, in each stage of the search.

`SourcePathProofs` also proves of `HtmlDeck`, for documents of any length made of any lines,
that `DeckLinesKept` and `SlidesEndAtBreaks` are invariants. `DeckInv` says at each point of the loop where
the document was cut: there are breaks `b` and an end of front matter `e` such that
each slide written shows the lines between two of them (`Sliced`), and
`slide_markdown` is what was read since the last (`Cut`). What is known of the
front matter goes with it: that there is none, that it ended, that it was held in vain, or that
it is still open (`Settled`, `Opened`), and `FrontIs` shows that this is what the property's
definition over the whole document says. That a slide shows just the lines it
was given, less its own front matter, `PieceText`, is about the text in its HTML, which the cut into heading and body
(`SectionText`) and the white space that is left out (`BodyText`) do not change. What its
render drops depends on the lines it was given, the property's `OwnFrontMatter` on those between two
separators of the document; the two agree because a slide's lines are those (`KeptSpan`).
That the cuts are where they should be is the other half: the splitter keeps three variables,
and the property looks at the lines of the slide. `SlideContext` says
what the variables are of these lines (the open fence, whether a quote goes on, where the
content of the last item starts unless a line left it), `ContextFenced` and `ContextBody`
that each line keeps it so, and `BreakIs` that the splitter's test and the property's then agree.
Nothing is said of lines held as front matter in vain (`Unsplit`), which
the splitter never sees; the next cut ends that.

`PagerProofs` proves of `PagerView`, for every set of documents, renderer, sizes and typed
bytes, that `TypeOK` and `MatchesFresh` are invariants and that every step satisfies
`DisplayFollows`. `TypeOK` says that the view is the layout for the present width
and the top row one of its rows, so no line is read that the view does not have.
`DisplayFollows` is obvious but for one step: a byte that leaves a rune of the query
incomplete is not drawn, and the prompt must not change (`PartsDoNotShow`). The
assumption on the renderer is that it returns a sequence of units.

`HtmlProofs` proves, for every document of any lines and charts that
`BlocksAssumption` admits, that `TagsMatch` is an invariant. `TagsMatch` speaks of
what is nested and of what is open between two lines; the tags a line needs depend on
the state of the stream, so `TagsInv` says in each state of `html_state` what is open:
`Opens` is the stack that the stream, its span and anchor and the box of a chart
stand for. Each of the ways a line is written (`FlushLine` with its segments, a heading,
a line that is streamed) is proved to add a balanced piece to the page, or one that
opens or closes just what the state gains or loses.

`HtmlTextProofs` proves, for the same documents, that `TextInOrder` and
`DressedAsWritten` are invariants. They compare the page with what the ANSI renderer
wrote, less the leads. What a lead is belongs to the ANSI renderer's line; what is
left out the bridge decides when it has the whole line; so the two must
be shown to agree, line by line. `TextInv` cuts `given` in two, `done` that is shown and
`rest` that is held: the page shows `done` (`FitsGiven`), what is held is `rest`
with the style and link of each character (`AgreeAll`), and `LineAt` says where in which
line the ANSI renderer is, and that `rest` is what of this line was read. A line that
is flushed whole is `rest`, and loses the characters `LeftOut` counts, the number
that `IsLine` gives its lead: that number depends on the line's characters and, for
code, on the style of the one after the prefix, and both are those of the line. A line that is streamed has no lead left to lose. `WaitingIs` and
`WrittenIs` turn this into the two properties.

*Assumptions.* Those the modules name, all of which TLC evaluates on the runs'
instances: bounds are naturals, positive where the code's are; a value that stands for
"none" is not one of the others; an option has its fields. Documents, lines and
queries are bounded by constants, of any value.

*Induction.* A fact about sequences of every length is proved by its least
counterexample (`LeastOf`, from the well-foundedness of `<`), and a recursive
function by its existence and the steps it takes (`FlattenAppend` for
`FlattenSeq`, `StepsDefine` and `HandedOn` in `PagerProofs`). For this, a few
definitions are written with `FlattenSeq` or a recursive function where
`SelectSeq` or a fold would do.

*Model-checked only.* All liveness, and `PlaceKept`. `RowsFaithful` compares two
paintings of the whole document and has no proof. `BlockParser`, `LineWrap`, `TableCells` and
`TableLayout` use recursive operators, or modules that do, about which nothing can be proved here.

## Plan

1. (done) the pool, sessions, the table filter, the source
   path with title detection and front matter, the pager loop, line wrapping, the block parser,
   the pager's views and search, the HTML bridge, deck segmentation, table layout, the Lua binding's callbacks.
2. The inline parser; the layout of charts; the plain filter
   and the emission buffer.
3. The ANSI renderer's retained code and links under a geometry change, on top
   of `LineWrap`; the font dump next to other processes; `cmdf`'s output files.
4. Proofs: `RowsFaithful` of `PagerView` (what painting the rows in turn leaves is what
   painting the units does).

## Not modelled

Colours, themes, charts' drawing, entity and Unicode tables,
path resolution, embedded assets, option parsing and the build, test, fuzzing
and release tools are formatting, data or pure functions. The other components
without a module are in the plan; `PROJECT.json` gives the status of each.
A failed render's residue reaches the next document: it was observed while
reading and waits for a module that covers it.
