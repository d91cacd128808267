------------------------------ MODULE Session -------------------------------
(***************************************************************************)
(* One renderer (struct mdf) and the calls an application makes on it:     *)
(* feed, flush, finish_document, begin_document, write_token, finish,      *)
(* render, reset, set_sink, set_geometry, set_html_title.                  *)
(*                                                                         *)
(* A call runs in the application's thread, but it gives control back to   *)
(* the application in the middle of its work: the source's read, the       *)
(* sink's write and the write trace are callbacks, and a callback may call *)
(* the renderer again.  `op' is the call in progress, `callback' says      *)
(* which callback the application is in; every action is one call, or one  *)
(* uninterrupted stretch of the library between two callbacks.             *)
(*                                                                         *)
(* What the parser and the renderer decide to print is abstract: a stretch *)
(* may write, retain something, or fail.  What is kept is who may write    *)
(* when, and what each call does to the document's state.                  *)
(***************************************************************************)
EXTENDS Naturals

CONSTANTS
    Options,        \* the options renderers are created with:
                    \*   format   "ANSI" or "HTML"; a deck keeps no document
                    \*   escapes  ansi_mode is not OFF: reset has bytes to write
                    \*   traced   a write_trace callback is configured
    Sinks,
    NoSink,
    Geometries,     \* (width, margins) triples that pass the bounds check
    NoParser,
    MaxWrites,      \* bound: writes of a call, shell and closure aside
    MaxReads        \* bound: reads of a title detection, and of a render

ASSUME OptionsAssumption ==
    Options \subseteq [format : {"ANSI", "HTML"}, escapes : BOOLEAN, traced : BOOLEAN]
ASSUME SinkAssumption     == NoSink \notin Sinks
ASSUME GeometryAssumption == Geometries # {} /\ NoParser \notin Geometries
ASSUME BoundAssumption    == MaxWrites \in Nat /\ MaxReads \in Nat \ {0}

VARIABLES
    \* struct mdf_impl
    render_active,      \* a call is using the renderer
    active_sink,        \* the sink that call has borrowed
    emission_active,    \* how many frames of a sink write or trace are open
    incremental_state,  \* "idle", "active", "finished", "failed"
    incremental_parser, \* the width the document's parser was told, or NoParser
    render_parser,      \* likewise for the parser of a render in progress
    html_title,         \* "none", "explicit", "auto"
    html_open,          \* html_start has run for this session
    session,            \* "clean", "dirty", or "pending": an undecided inline
                        \* code or link is retained for reflow
    error,              \* impl->error, by class
    sink,               \* the receiver's bound sink, or NoSink
    geometry,           \* opts.width and opts.margin_*
    options,            \* the rest of opts
    \* struct mdf_parser_impl of the incremental document
    undecided,          \* the parser retains input it has not decided
    parser_error,       \* its error string is set
    \* the call in progress and the application
    op, callback, writes, reads,
    status              \* what the last call returned, mdf_create's MDF_OK told apart

entry    == <<render_active, active_sink>>
document == <<incremental_state, incremental_parser, undecided, parser_error>>
rendered == <<html_title, html_open, session>>
config   == <<sink, geometry, options>>
call     == <<op, callback, writes, reads>>
vars     == <<entry, emission_active, document, render_parser, rendered, error,
              config, call, status>>

NoOp == [name |-> "none", sink |-> NoSink, bind |-> NoSink, pc |-> "none",
         route |-> "none", fault |-> "none"]

Format  == options.format
Escapes == options.escapes
Traced  == options.traced

Incremental == {"feed", "finish_document"}
Manual      == {"write_token", "finish"}
Resets      == {"reset", "set_sink"}
(* How an emission reaches the sink.  A token's write goes through           *)
(* write_token_internal, which diagnoses a failure; a table is written       *)
(* directly, and its caller only sees a status; an HTML footer's failure is  *)
(* always called one.                                                        *)
Routes      == {"token", "direct", "footer"}
Faults      == {"sink", "memory", "limit", "source", "refused"}
Errors      == {"none", "refused", "out of memory", "sink write failed", "parser",
                "source read failed", "reset failed"}
Statuses    == {"created", "OK", "INVALID", "NOMEM", "IO", "PARSE"}

-----------------------------------------------------------------------------
(* The application runs between calls and inside a callback; the library     *)
(* runs in between.                                                          *)
AppRuns     == op = NoOp \/ callback # "none"
LibraryRuns == op # NoOp /\ callback = "none"

At(pc)    == LibraryRuns /\ op.pc = pc
GoTo(pc)  == op' = [op EXCEPT !.pc = pc]
Fail(route, fault) ==
    op' = [op EXCEPT !.route = route, !.fault = fault, !.pc = "unwind"]

(* A call that only answers. *)
Answer(st) ==
    /\ status' = st
    /\ UNCHANGED <<entry, emission_active, document, render_parser, rendered,
                   config, call>>

(* A refused call: a diagnostic, MDF_ERROR_INVALID and nothing else. *)
Refuse == error' = "refused" /\ Answer("INVALID")

(* A call enters the renderer with sink s borrowed for its duration. *)
Enter(name, s, pc) ==
    /\ render_active' = TRUE
    /\ active_sink' = s
    /\ op' = [NoOp EXCEPT !.name = name, !.sink = s, !.pc = pc]
    /\ writes' = 0
    /\ reads' = 0
    /\ UNCHANGED <<emission_active, document, render_parser, config, callback, status>>

EnterReset(name, bind) ==
    /\ render_active' = TRUE
    /\ op' = [NoOp EXCEPT !.name = name, !.bind = bind, !.pc = "reset"]
    /\ writes' = 0
    /\ UNCHANGED <<active_sink, emission_active, document, render_parser,
                   rendered, error, config, callback, reads, status>>

(* Fault: the borrowed sink is not given back. *)
LeaveBorrowing(st) ==
    render_active' = FALSE /\ op' = NoOp /\ status' = st /\ UNCHANGED active_sink

(* It leaves: the previous (absent) active sink is restored. *)
Leave(st) ==
    /\ render_active' = FALSE
    /\ active_sink' = NoSink
    /\ op' = NoOp
    /\ status' = st

(* mdf_impl_reset_render_state, but for the error text. *)
ResetRenderState ==
    /\ session' = "clean"
    /\ html_open' = FALSE
    /\ html_title' = IF html_title = "auto" THEN "none" ELSE html_title

(* What a stretch of parsing or rendering leaves retained in the session. *)
Retain == session' \in IF Format = "ANSI" THEN {"dirty", "pending"} ELSE {"dirty"}

DropParser ==
    /\ incremental_parser' = NoParser
    /\ undecided' = FALSE
    /\ parser_error' = FALSE

(* The library's step moves on, and may write, within a call. *)
StepOn == UNCHANGED <<entry, incremental_state, incremental_parser,
                      render_parser, html_title, config, status>>

Init ==
    /\ render_active = FALSE
    /\ active_sink = NoSink
    /\ emission_active = 0
    /\ incremental_state = "idle"
    /\ incremental_parser = NoParser
    /\ render_parser = NoParser
    /\ html_title = "none"
    /\ html_open = FALSE
    /\ session = "clean"
    /\ error = "none"
    /\ sink = NoSink
    /\ geometry \in Geometries
    /\ options \in Options
    /\ undecided = FALSE
    /\ parser_error = FALSE
    /\ op = NoOp
    /\ callback = "none"
    /\ writes = 0
    /\ reads = 0
    /\ status = "created"

-----------------------------------------------------------------------------
(* Sink writes and source reads *)

(* mdf_emit_all opens a frame around the write and its trace;                *)
(* mdf_sink_callback_guard_write opens one around the write alone.  HTML     *)
(* writes to the guarded sink directly; reset writes to the bound sink,      *)
(* which is not guarded.                                                     *)
Resetting   == op.name \in Resets
EmitFrames  == IF Format = "ANSI" THEN 1 ELSE 0
GuardFrames == IF Resetting THEN 0 ELSE 1

BeginWrite(route, next) ==
    /\ writes' = writes + 1
    /\ callback' = "sink"
    /\ emission_active' = emission_active + EmitFrames + GuardFrames
    /\ op' = [op EXCEPT !.route = route, !.pc = next]

NoWrite == UNCHANGED <<emission_active, callback, writes>>

SinkAccepts ==
    /\ callback = "sink"
    /\ IF Format = "ANSI" /\ Traced
       THEN /\ callback' = "trace"
            /\ emission_active' = emission_active - GuardFrames
       ELSE /\ callback' = "none"
            /\ emission_active' = emission_active - GuardFrames - EmitFrames
    /\ StepOn
    /\ UNCHANGED <<undecided, parser_error, html_open, session, error, op, writes, reads>>

TraceAccepts ==
    /\ callback = "trace"
    /\ callback' = "none"
    /\ emission_active' = emission_active - EmitFrames
    /\ StepOn
    /\ UNCHANGED <<undecided, parser_error, html_open, session, error, op, writes, reads>>

(* The frames a failure in the current callback closes. *)
OpenFrames == EmitFrames + IF callback = "sink" THEN GuardFrames ELSE 0

WriteFails ==
    /\ callback \in {"sink", "trace"}
    /\ callback' = "none"
    /\ emission_active' = emission_active - OpenFrames
    /\ op' = [op EXCEPT !.fault = "sink",
                        !.pc = IF Resetting THEN "discard" ELSE "unwind"]
    /\ StepOn
    /\ UNCHANGED <<undecided, parser_error, html_open, session, error, writes, reads>>

-----------------------------------------------------------------------------
(* Calls: what each entry point does before any callback *)

Feed(s) ==
    /\ AppRuns
    /\ IF render_active
       THEN Refuse
       ELSE Enter("feed", s, "start") /\ UNCHANGED <<rendered, error>>

FinishDocument(s) ==
    /\ AppRuns
    /\ IF render_active
       THEN Refuse
       ELSE Enter("finish_document", s, "start") /\ UNCHANGED <<rendered, error>>

Untitled == Format = "HTML" /\ html_title = "none"

(* Flush observes; it begins nothing and writes nothing. *)
Flush ==
    /\ AppRuns
    /\ IF render_active \/ Untitled \/ incremental_state \in {"finished", "failed"}
       THEN Refuse
       ELSE Answer("OK") /\ UNCHANGED error

(* Fault: begin_document also recovers from a failure. *)
DocumentEndedSomehow == incremental_state \in {"finished", "failed"}

DocumentEnded == incremental_state = "finished"

BeginDocument ==
    /\ AppRuns
    /\ IF render_active \/ ~DocumentEnded
       THEN Refuse
       ELSE /\ DropParser
            /\ ResetRenderState
            /\ incremental_state' = "idle"
            /\ error' = "none"
            /\ status' = "OK"
            /\ UNCHANGED <<entry, emission_active, render_parser, config, call>>

(* write_token_internal and finish_internal refuse a failed document. *)
WriteToken(s) ==
    /\ AppRuns
    /\ IF render_active \/ incremental_state = "failed"
       THEN Refuse
       ELSE Enter("write_token", s, "body") /\ UNCHANGED <<rendered, error>>

(* Fault: finish does not look for a failed document. *)
FinishUnguarded(s) ==
    /\ AppRuns
    /\ IF render_active
       THEN Refuse
       ELSE Enter("finish", s, "close") /\ UNCHANGED <<rendered, error>>

Finish(s) ==
    /\ AppRuns
    /\ IF render_active \/ incremental_state = "failed"
       THEN Refuse
       ELSE Enter("finish", s, "close") /\ UNCHANGED <<rendered, error>>

(* instance_render discards whatever session an earlier call left. *)
Render(s) ==
    /\ AppRuns
    /\ IF render_active \/ incremental_state # "idle"
       THEN Refuse
       ELSE Enter("render", s, "title") /\ ResetRenderState /\ error' = "none"

Reset ==
    /\ AppRuns
    /\ IF render_active THEN Refuse ELSE EnterReset("reset", NoSink)

(* Binding the bound sink again is accepted anywhere and does nothing;       *)
(* replacing it resets the renderer on the old sink first.                   *)
SetSink(s) ==
    /\ AppRuns
    /\ \/ /\ sink = s
          /\ Answer("OK")
          /\ UNCHANGED error
       \/ sink # s /\ render_active /\ Refuse
       \/ /\ sink = NoSink /\ ~render_active
          /\ sink' = s
          /\ error' = "none"
          /\ status' = "OK"
          /\ UNCHANGED <<entry, emission_active, document, render_parser,
                         rendered, geometry, options, call>>
       \/ sink \notin {s, NoSink} /\ ~render_active /\ EnterReset("set_sink", s)

TitleLocked == render_active \/ incremental_state = "active" \/ html_open

(* title is "explicit", or "none" for set_html_title(NULL). *)
SetTitle(title) ==
    /\ AppRuns
    /\ IF Format = "ANSI"
       THEN Answer("INVALID") /\ UNCHANGED error
       ELSE IF TitleLocked
       THEN Refuse
       ELSE \/ /\ html_title' = title
               /\ status' = "OK"
               /\ UNCHANGED <<entry, emission_active, document, render_parser,
                              html_open, session, error, config, call>>
            \/ title = "explicit" /\ Answer("NOMEM") /\ UNCHANGED error

Told(p, g) == IF p = NoParser THEN NoParser ELSE g

(* set_geometry: legal between calls and in a source callback.  A retained   *)
(* code or link is laid out again, which may run out of memory: then the old *)
(* geometry stands, what was retained is gone and the document fails.        *)
Relayout(g) ==
    /\ geometry' = g
    /\ render_parser' = Told(render_parser, g)
    /\ incremental_parser' = Told(incremental_parser, g)
    /\ status' = "OK"
    /\ UNCHANGED <<entry, emission_active, incremental_state, undecided,
                   parser_error, rendered, error, sink, options, call>>

RelayoutFails ==
    /\ session = "pending"
    /\ session' = "dirty"
    /\ error' = "out of memory"
    /\ incremental_state' = "failed"
    /\ status' = "NOMEM"
    /\ UNCHANGED <<entry, emission_active, incremental_parser, undecided,
                   parser_error, render_parser, html_title, html_open, config, call>>

SetGeometry(g) ==
    /\ AppRuns
    /\ IF incremental_state = "failed" \/ emission_active > 0
       THEN Refuse
       ELSE IF g = geometry
       THEN Answer("OK") /\ UNCHANGED error
       ELSE Relayout(g) \/ RelayoutFails

(* Arguments the entry points' checks turn away. *)
InvalidArguments == AppRuns /\ Refuse

-----------------------------------------------------------------------------
(* Steps: what the library does between two callbacks *)

(* mdf_incremental_start.  An HTML document opens with its shell. *)
IncrementalStart ==
    /\ At("start")
    /\ IF Untitled \/ incremental_state \in {"finished", "failed"}
       THEN /\ Leave("INVALID")
            /\ error' = "refused"
            /\ NoWrite
            /\ UNCHANGED <<document, render_parser, rendered, config, reads>>
       ELSE /\ IF incremental_state = "idle" /\ Format = "HTML" /\ ~html_open
               THEN html_open' = TRUE /\ BeginWrite("token", "parser")
               ELSE /\ GoTo(IF incremental_state = "idle" THEN "parser" ELSE "body")
                    /\ NoWrite
                    /\ UNCHANGED html_open
            /\ StepOn
            /\ UNCHANGED <<undecided, parser_error, session, error, reads>>

(* mdf_parser_create, for a document or for one render.  A render's parser   *)
(* is attached after its shell is written; no call in between tells the      *)
(* difference.                                                               *)
CreateParser ==
    /\ At("parser")
    /\ IF op.name = "render"
       THEN /\ render_parser' = geometry
            /\ GoTo("shell")
            /\ UNCHANGED document
       ELSE /\ incremental_parser' = geometry
            /\ undecided' = FALSE
            /\ parser_error' = FALSE
            /\ incremental_state' = "active"
            /\ GoTo("body")
            /\ UNCHANGED render_parser
    /\ NoWrite
    /\ UNCHANGED <<entry, rendered, error, config, reads, status>>

CreateParserFails ==
    /\ At("parser")
    /\ error' = "out of memory"
    /\ incremental_state' = IF op.name = "render" THEN incremental_state ELSE "failed"
    /\ Leave("NOMEM")
    /\ NoWrite
    /\ UNCHANGED <<incremental_parser, undecided, parser_error, render_parser,
                   rendered, config, reads>>

(* Automatic title detection: without a title, an HTML render reads ahead    *)
(* until it knows one, or knows there is none.                               *)
DetectTitle ==
    /\ At("title")
    /\ \/ /\ Untitled /\ reads < MaxReads
          /\ callback' = "source"
          /\ reads' = reads + 1
          /\ UNCHANGED <<html_title, op>>
       \/ /\ Untitled /\ reads > 0
          /\ html_title' \in {"none", "auto"}
          /\ reads' = 0
          /\ GoTo("parser")
          /\ UNCHANGED callback
       \/ /\ ~Untitled
          /\ GoTo("parser")
          /\ UNCHANGED <<html_title, callback, reads>>
    /\ UNCHANGED <<entry, emission_active, document, render_parser, html_open,
                   session, error, config, writes, status>>

DetectTitleFails ==
    /\ At("title")
    /\ Untitled /\ reads > 0
    /\ \/ error' = "out of memory" /\ Leave("NOMEM")
       \/ error' = "source read failed" /\ Leave("IO")
    /\ NoWrite
    /\ UNCHANGED <<document, render_parser, rendered, config, reads>>

(* mdf_renderer_begin_internal for a render. *)
RenderShell ==
    /\ At("shell")
    /\ IF Format = "HTML" /\ ~html_open
       THEN html_open' = TRUE /\ BeginWrite("token", "body")
       ELSE GoTo("body") /\ NoWrite /\ UNCHANGED html_open
    /\ StepOn
    /\ UNCHANGED <<undecided, parser_error, session, error, reads>>

(* What a route admits: write_token_internal refuses a failed document; a    *)
(* manual token is never a table.                                            *)
Admitted(route) ==
    /\ route = "token"  => incremental_state # "failed"
    /\ route = "direct" => op.name # "write_token"

(* A decision is written.  HTML opens its shell first if need be. *)
WriteDecision(route) ==
    /\ At("body")
    /\ writes < MaxWrites
    /\ Admitted(route)
    /\ html_open' = (html_open \/ Format = "HTML")
    /\ Retain
    /\ BeginWrite(route, "body")
    /\ StepOn
    /\ UNCHANGED <<undecided, parser_error, error, reads>>

(* write_token_internal after a reflow failed in a source callback. *)
TokenRefused ==
    /\ At("body") \/ At("close")
    /\ op.name = "render" /\ incremental_state = "failed"
    /\ error' = "refused"
    /\ Fail("token", "refused")
    /\ StepOn
    /\ NoWrite
    /\ UNCHANGED <<undecided, parser_error, html_open, session, reads>>

(* An allocation fails: on the token route most sites mark the error, some   *)
(* do not; in the parser the status alone may carry it.                      *)
MemoryFails(route) ==
    /\ At("body")
    /\ Admitted(route)
    /\ Fail(route, "memory")
    /\ error' \in IF route = "token" THEN {error, "out of memory"} ELSE {error}
    /\ parser_error' \in IF route = "direct" /\ op.name \in Incremental
                         THEN {parser_error, TRUE} ELSE {parser_error}
    /\ StepOn
    /\ NoWrite
    /\ UNCHANGED <<undecided, html_open, session, reads>>

(* A pending table or chart outgrows the incremental retention limits. *)
LimitExceeded ==
    /\ At("body")
    /\ op.name \in Incremental
    /\ parser_error' = TRUE
    /\ Fail("direct", "limit")
    /\ StepOn
    /\ NoWrite
    /\ UNCHANGED <<undecided, html_open, session, error, reads>>

(* The fragment, or the token, has been consumed. *)
BodyDone ==
    /\ At("body")
    /\ op.name \in {"feed", "write_token"}
    /\ Retain
    /\ html_open' = (html_open \/ (Format = "HTML" /\ op.name = "write_token"))
    /\ undecided' \in IF op.name = "feed" THEN BOOLEAN ELSE {undecided}
    /\ Leave("OK")
    /\ NoWrite
    /\ UNCHANGED <<incremental_state, incremental_parser, parser_error,
                   render_parser, html_title, error, config, reads>>

ReadSource ==
    /\ At("body")
    /\ op.name = "render"
    /\ reads < MaxReads
    /\ callback' = "source"
    /\ reads' = reads + 1
    /\ StepOn
    /\ UNCHANGED <<undecided, parser_error, emission_active, html_open, session,
                   error, op, writes>>

(* Title detection looks at what it read in its own step; the parser goes    *)
(* on, closes at the source's end, or stops at its error.                    *)
SourceReturns ==
    /\ callback = "source"
    /\ callback' = "none"
    /\ \/ op.pc = "title" /\ UNCHANGED <<session, op>>
       \/ op.pc = "body" /\ reads < MaxReads /\ Retain /\ UNCHANGED op
       \/ op.pc = "body" /\ GoTo("close") /\ UNCHANGED session
       \/ op.pc = "body" /\ Fail("direct", "source") /\ UNCHANGED session
    /\ StepOn
    /\ UNCHANGED <<undecided, parser_error, emission_active, html_open, error,
                   writes, reads>>

(* EOF: finish_document's parser resolves what it retains. *)
ResolveEof ==
    /\ At("body")
    /\ op.name = "finish_document"
    /\ GoTo("close")
    /\ undecided' = FALSE
    /\ StepOn
    /\ NoWrite
    /\ UNCHANGED <<parser_error, html_open, session, error, reads>>

(* The renderer's finish: HTML always writes a footer, after a shell if the  *)
(* session has none; ANSI at most ends its line.                             *)
CloseOutput ==
    /\ At("close")
    /\ op.name = "render" => incremental_state # "failed"
    /\ html_open' = (html_open \/ Format = "HTML")
    /\ \/ \E route \in IF Format = "HTML" /\ html_open THEN {"footer"} ELSE {"token"} :
            BeginWrite(route, "closed")
       \/ Format = "ANSI" /\ GoTo("closed") /\ NoWrite
    /\ StepOn
    /\ UNCHANGED <<undecided, parser_error, session, error, reads>>

(* A session ends with its document. *)
Closed ==
    /\ At("closed")
    /\ Leave("OK")
    /\ ResetRenderState
    /\ error' = "none"
    /\ IF op.name = "finish_document"
       THEN incremental_state' = "finished" /\ parser_error' = FALSE
       ELSE UNCHANGED <<incremental_state, parser_error>>
    /\ render_parser' = NoParser
    /\ NoWrite
    /\ UNCHANGED <<incremental_parser, undecided, config, reads>>

-----------------------------------------------------------------------------
(* How a call ends when a step of it failed *)

(* mdf_renderer_fail_from_impl: whatever text is there classifies the        *)
(* failure, and the session is reset.                                        *)
TokenText   == IF error = "none" THEN "sink write failed" ELSE error
TokenStatus == IF error = "out of memory" THEN "NOMEM" ELSE "IO"

(* What the failed stretch leaves in error, and returns to the entry point.  *)
Text ==
    CASE op.route = "token" /\ op.fault # "refused" -> TokenText
      [] op.route = "footer"                        -> "sink write failed"
      [] OTHER                                      -> error
Outcomes ==
    CASE op.fault = "refused"   -> {"INVALID"}
      [] op.route = "token"     -> {TokenStatus}
      [] op.route = "footer"    -> {"IO"}
      [] op.fault = "memory"    -> {"IO", "NOMEM"}
      [] op.fault = "limit"     -> {"PARSE"}
      [] OTHER                  -> {"IO"}

EndSession ==
    IF op.fault # "refused" /\ op.route \in {"token", "footer"}
    THEN ResetRenderState ELSE UNCHANGED rendered

UnwindToken ==
    /\ At("unwind")
    /\ op.name \in Manual
    /\ error' = Text
    /\ EndSession
    /\ \E st \in Outcomes : Leave(st)
    /\ NoWrite
    /\ UNCHANGED <<document, render_parser, config, reads>>

(* A document that failed to start (its shell was not written) keeps the     *)
(* outcome; one that was active goes through mdf_incremental_fail, which     *)
(* takes a failure without a text for an allocation failure.                 *)
UnwindIncremental ==
    /\ At("unwind")
    /\ op.name \in Incremental
    /\ incremental_state' = "failed"
    /\ \E st \in Outcomes :
        IF incremental_state = "idle" \/ parser_error \/ Text # "none"
        THEN /\ error' = IF incremental_state = "active" /\ parser_error
                         THEN "parser" ELSE Text
             /\ Leave(st)
        ELSE /\ error' = "out of memory"
             /\ Leave("NOMEM")
    /\ EndSession
    /\ NoWrite
    /\ UNCHANGED <<incremental_parser, undecided, parser_error, render_parser,
                   config, reads>>

(* A render's parser has a text of its own for a failing source and, at most *)
(* sites, for a failing allocation.                                          *)
UnwindRender ==
    /\ At("unwind")
    /\ op.name = "render"
    /\ error' \in CASE op.fault = "source" -> {"source read failed"}
                    [] op.fault = "memory" /\ op.route = "direct"
                                           -> {error, "out of memory"}
                    [] OTHER               -> {Text}
    /\ EndSession
    /\ \E st \in Outcomes : Leave(st)
    /\ render_parser' = NoParser
    /\ NoWrite
    /\ UNCHANGED <<document, config, reads>>

-----------------------------------------------------------------------------
(* reset, set_sink's reset of the old sink, and destroy *)

(* One write closes the link and the colours, composed beforehand. *)
CloseTerminal ==
    /\ At("reset")
    /\ IF Format = "ANSI" /\ Escapes /\ sink # NoSink
       THEN \/ BeginWrite("token", "discard") /\ UNCHANGED error
            \/ /\ op' = [op EXCEPT !.fault = "memory", !.pc = "discard"]
               /\ error' = "out of memory"
               /\ NoWrite
       ELSE GoTo("discard") /\ NoWrite /\ UNCHANGED error
    /\ StepOn
    /\ UNCHANGED <<undecided, parser_error, html_open, session, reads>>

Discard ==
    /\ At("discard")
    /\ DropParser
    /\ ResetRenderState
    /\ incremental_state' = "idle"
    /\ IF op.name = "set_sink"
       THEN sink' = op.bind /\ error' = "none" /\ Leave("OK")
       ELSE /\ UNCHANGED sink
            /\ error' = IF op.fault = "none" THEN "none" ELSE "reset failed"
            /\ Leave(CASE op.fault = "sink"   -> "IO"
                       [] op.fault = "memory" -> "NOMEM"
                       [] OTHER               -> "OK")
    /\ NoWrite
    /\ UNCHANGED <<render_parser, geometry, options, reads>>

(* destroy, after which the application creates another renderer. *)
Recreate ==
    /\ AppRuns
    /\ IF render_active
       THEN /\ error' = "refused"
            /\ UNCHANGED <<entry, emission_active, document, render_parser,
                           rendered, config, call, status>>
       ELSE /\ DropParser
            /\ incremental_state' = "idle"
            /\ html_title' = "none"
            /\ html_open' = FALSE
            /\ error' = "none"
            /\ sink' = NoSink
            /\ geometry' \in Geometries
            /\ options' \in Options
            /\ session' = "clean"
            /\ status' = "created"
            /\ UNCHANGED <<entry, emission_active, render_parser, call>>

-----------------------------------------------------------------------------
Calls ==
    \/ \E s \in Sinks : \/ Feed(s) \/ FinishDocument(s) \/ WriteToken(s)
                        \/ Finish(s) \/ Render(s) \/ SetSink(s)
    \/ Flush \/ BeginDocument \/ Reset \/ InvalidArguments \/ Recreate
    \/ \E title \in {"none", "explicit"} : SetTitle(title)
    \/ \E g \in Geometries : SetGeometry(g)

CallbackReturns == SinkAccepts \/ TraceAccepts \/ WriteFails \/ SourceReturns

LibraryStep ==
    \/ IncrementalStart \/ CreateParser \/ CreateParserFails
    \/ DetectTitle \/ DetectTitleFails \/ RenderShell
    \/ \E route \in {"token", "direct"} : WriteDecision(route) \/ MemoryFails(route)
    \/ TokenRefused \/ LimitExceeded \/ BodyDone \/ ReadSource \/ ResolveEof
    \/ CloseOutput \/ Closed
    \/ UnwindToken \/ UnwindIncremental \/ UnwindRender
    \/ CloseTerminal \/ Discard

Next == Calls \/ CallbackReturns \/ LibraryStep

(* Whether a call returns is not asked here: MaxWrites and MaxReads cut its   *)
(* loops short.  LineWrap asks it of the loop that does not always end.       *)
Spec == Init /\ [][Next]_vars

-----------------------------------------------------------------------------
(* Properties *)

(* A sink is borrowed for its call only (mdf.h): whichever way a call ends,  *)
(* and after whatever its callbacks tried, no borrowed sink, render parser   *)
(* or emission frame is left behind and the renderer accepts calls again;    *)
(* while it runs, no nested call has replaced the sink it writes to.         *)
SinkBorrowedForCall ==
    IF op = NoOp
    THEN /\ ~render_active
         /\ active_sink = NoSink
         /\ render_parser = NoParser
         /\ emission_active = 0
    ELSE /\ render_active
         /\ active_sink = op.sink
         /\ emission_active > 0 <=> callback \in {"sink", "trace"}

(* "A sink failure latches this document in a failed state without retrying  *)
(* output" (mdf.h): a failed document writes nothing.  Only reset's cleanup, *)
(* and tables and shell of a render that fails on the way, may still write.  *)
FailedDocumentIsSilent ==
    callback = "sink" /\ incremental_state = "failed"
        => op.name \in Resets \cup {"render"}

(* The application sees the document lifecycle of mdf.h. *)
CallClass == CASE op.name \in Resets -> "reset"
               [] op.name \in Manual -> "manual"
               [] OTHER              -> op.name
Lifecycle == INSTANCE DocumentLifecycle WITH
                 document <- incremental_state, call <- CallClass, result <- status
LifecycleSpec == Lifecycle!Spec
=============================================================================
