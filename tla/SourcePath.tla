------------------------------ MODULE SourcePath ----------------------------
(***************************************************************************)
(* From the source of a one-shot render to the block parser (src/src/mdf.c *)
(* and src/src/render_parse.c): an HTML document without an explicit title *)
(* first reads ahead for one, what was read ahead is then                  *)
(* replayed, and front matter is held in a probe until it is known whether *)
(* it is any.  A source returns as much or as little as it likes, so each  *)
(* decision has to wait for the same input however it was cut.             *)
(*                                                                         *)
(* A line is its kind followed by a newline; the two are read separately.  *)
(* A chunk is a sequence of positions in the source.                       *)
(***************************************************************************)
EXTENDS Naturals, Sequences, FiniteSetsExt, SequencesExt

CONSTANTS
    Lines,          \* the kinds of line a document has, of LineKinds
    MaxLines,       \* bound: lines of a document
    MaxProbe,       \* MDF_MAX_FRONTMATTER_PROBE
    ProbeRead,      \* the size of the buffer of auto_title_read_more
    RenderRead      \* and of mdf_parse_stream

LineKinds ==
    {"dash",        \* ---
     "spaced",      \* ---, indented by a space
     "plus",        \* +++
     "list",        \* another line that begins with a dash
     "meta",        \* key: value
     "more",        \* a continuation, indented by a space
     "brace",       \* { and more
     "heading",     \* # and text
     "comment",     \* # and text with a colon
     "blank", "text"}

ASSUME LinesAssumption == Lines \subseteq LineKinds
ASSUME BoundsAssumption == {MaxLines, MaxProbe, ProbeRead, RenderRead} \subseteq Nat \ {0}

VARIABLES
    source,         \* the source's units: kinds of lines, and "nl"
    titling,        \* HTML, and no explicit title
    \* auto_title_source
    prefix_len,     \* units read ahead
    ended,          \* the last read of the source returned nothing
    scan_off,
    replay_off,
    \* auto_title_detect_from_source
    stage,          \* "line", "front", "decided"
    fm_has_key,
    html_title,     \* the position of the heading chosen, 0: none
    \* mdf_parse_stream and frontmatter_filter
    source_off,     \* units that the source returned
    fed,            \* what the parser was fed
    passthrough,
    output,         \* what the table filter was fed
    status          \* "running", "OK", "IO"

detection == <<stage, fm_has_key, html_title, scan_off>>
parsing   == <<fed, passthrough, output>>
vars == <<source, titling, prefix_len, ended, replay_off, detection, source_off,
          parsing, status>>

Span(from, to) == [i \in 1 .. to - from |-> from + i]

UnitsOf(kind) == IF kind = "blank" THEN <<"nl">> ELSE <<kind, "nl">>

Units(lines, terminated) ==
    LET all == FlattenSeq([i \in DOMAIN lines |-> UnitsOf(lines[i])])
    IN  IF terminated THEN all ELSE Front(all)

Documents ==
    UNION {{Units(lines, t) : lines \in [1 .. n -> Lines], t \in BOOLEAN} : n \in 1 .. MaxLines}

(* How many units a read may return: none at the end of the source only. *)
Reads(cap) ==
    LET left == Len(source) - source_off
    IN  IF left = 0 THEN {0} ELSE 1 .. Min({left, cap})

Running == status = "running"

Init ==
    /\ source \in Documents
    /\ titling \in BOOLEAN
    /\ prefix_len = 0 /\ scan_off = 0 /\ replay_off = 0 /\ source_off = 0
    /\ ended = FALSE
    /\ stage = IF titling THEN "line" ELSE "decided"
    /\ fm_has_key = FALSE
    /\ html_title = 0
    /\ fed = << >> /\ output = << >>
    /\ passthrough = FALSE
    /\ status = "running"

SourceFails ==
    /\ Running
    /\ status' = "IO"
    /\ UNCHANGED <<source, titling, prefix_len, ended, replay_off, detection,
                   source_off, parsing>>

-----------------------------------------------------------------------------
(* Title detection.  Kinds of lines, as its functions tell them apart.      *)

IsHeading(kind)      == kind \in {"heading", "comment"}
IsTitleFence(kind)   == kind = "dash"
IsMetadata(kind)     == kind \in {"blank", "heading", "comment", "meta"}
IsContinuation(kind) == kind \in {"more", "spaced"}

(* The least heading up to a position, 0 when there is none. *)
FirstHeading(end) ==
    LET hs == {p \in 1 .. end : IsHeading(source[p])}
    IN  IF hs = {} THEN 0 ELSE Min(hs)

LineEnds(from, end) == {e \in from + 1 .. end : source[e] = "nl"}

(* Fault: a line is taken to end where the input read so far ends. *)
AnyRead(off) == prefix_len > off \/ ended

(* The line from an offset is there whole: its newline, or the end. *)
WholeLine(off) == LineEnds(off, prefix_len) # {} \/ ended

LineEnd(off) ==
    IF LineEnds(off, prefix_len) = {} THEN prefix_len ELSE Min(LineEnds(off, prefix_len))

LineKind(off) == IF source[off + 1] = "nl" THEN "blank" ELSE source[off + 1]

(* A line that is read to its end before it is looked at. *)
ReadsLine ==
    \/ stage = "front"
    \/ /\ stage = "line" /\ scan_off < prefix_len
       /\ \/ IsHeading(LineKind(scan_off))
          \/ scan_off = 0 /\ LineKind(0) \in {"dash", "list"}

MoreNeeded ==
    \/ stage = "line" /\ scan_off = prefix_len /\ ~ended
    \/ ReadsLine /\ ~WholeLine(scan_off)

(* auto_title_read_more *)
ReadAhead ==
    /\ Running /\ MoreNeeded
    /\ \E n \in Reads(ProbeRead) :
        /\ source_off' = source_off + n
        /\ prefix_len' = prefix_len + n
        /\ ended' = (n = 0)
    /\ UNCHANGED <<source, titling, replay_off, detection, parsing, status>>

Decided(title) == stage' = "decided" /\ html_title' = title

Detecting(st) ==
    /\ Running /\ stage = st /\ ~MoreNeeded
    /\ UNCHANGED <<source, titling, prefix_len, ended, replay_off, source_off, parsing, status>>

(* A blank line is passed over; a heading is the title; front matter may     *)
(* begin with the first line; anything else says that there is no title.     *)
DetectLine ==
    /\ Detecting("line")
    /\ scan_off' = IF scan_off = prefix_len THEN scan_off ELSE LineEnd(scan_off)
    /\ IF scan_off = prefix_len
       THEN Decided(0)
       ELSE CASE LineKind(scan_off) = "blank" -> UNCHANGED <<stage, html_title>>
              [] IsHeading(LineKind(scan_off)) -> Decided(scan_off + 1)
              [] scan_off = 0 /\ IsTitleFence(LineKind(0)) ->
                     stage' = "front" /\ UNCHANGED html_title
              [] OTHER -> Decided(0)
    /\ UNCHANGED fm_has_key

(* Within what may be front matter.  The last line without a newline, a line *)
(* that is no metadata, and a close before any key: it was none, and the     *)
(* lines read so far are searched for a heading.                             *)
DetectFront ==
    /\ Detecting("front")
    /\ scan_off' = LineEnd(scan_off)
    /\ LET end  == LineEnd(scan_off)
           kind == LineKind(scan_off)
       IN  IF LineEnds(scan_off, prefix_len) = {}
           THEN Decided(FirstHeading(end)) /\ UNCHANGED fm_has_key
           ELSE CASE IsTitleFence(kind) /\ (fm_has_key \/ FirstHeading(end) = 0) ->
                         stage' = "line" /\ UNCHANGED <<html_title, fm_has_key>>
                  [] IsMetadata(kind) ->
                         /\ fm_has_key' = (fm_has_key \/ kind = "meta")
                         /\ UNCHANGED <<stage, html_title>>
                  [] IsContinuation(kind) /\ fm_has_key ->
                         UNCHANGED <<stage, html_title, fm_has_key>>
                  [] OTHER -> Decided(FirstHeading(end)) /\ UNCHANGED fm_has_key

-----------------------------------------------------------------------------
(* Front matter *)

Fence(kind) == CASE kind \in {"dash", "spaced"} -> "-" [] kind = "plus" -> "+" [] OTHER -> "none"

IsMetadataLikely(kind) == kind \in {"meta", "comment", "brace"}

Kinds(chunk) == [i \in DOMAIN chunk |-> source[chunk[i]]]

(* frontmatter_decide: how much of the probe is front matter, or {} while    *)
(* that is open.  At EOF the last line ends, and an empty one follows.       *)
Decide(probe, eof) ==
    LET u        == IF eof THEN probe \o <<"nl", "nl">> ELSE probe
        ends     == {i \in DOMAIN u : u[i] = "nl"}
        Kind(e)  == IF e > 1 /\ u[e - 1] # "nl" THEN u[e - 1] ELSE "blank"
        first    == Min(ends)
        second   == Min(ends \ {first})
        closes   == {e \in ends : e > second /\ Fence(Kind(e)) = Fence(Kind(first))}
        possible == probe = << >> \/ Fence(probe[1]) # "none"
    IN  IF ~eof /\ ~possible THEN {0}
        ELSE CASE ends = {}                                -> {}
               [] ends # {} /\ Fence(Kind(first)) = "none" -> {0}
               [] ends # {} /\ Fence(Kind(first)) # "none" ->
                     CASE ends = {first} -> {}
                       [] ends # {first} /\ ~IsMetadataLikely(Kind(second)) -> {0}
                       [] ends # {first} /\ IsMetadataLikely(Kind(second)) ->
                             IF closes # {} THEN {Min({Min(closes), Len(probe)})}
                             ELSE IF eof THEN {0} ELSE {}

(* Fault: what was fed so far is taken for all of it. *)
AlwaysAtEof == TRUE

AtEof == FALSE

Room == MaxProbe - Len(fed)

(* mdf_parser_feed_unfiltered, up to the table filter.  While nothing is     *)
(* decided the probe holds all that was fed.                                 *)
Feed(chunk) ==
    LET all     == fed \o chunk
        full    == Len(chunk) > Room
        probe   == IF full THEN SubSeq(all, 1, Len(fed) + Room) ELSE all
        rest    == SubSeq(all, Len(probe) + 1, Len(all))
        verdict == Decide(Kinds(probe), AtEof)
    IN  /\ fed' = all
        /\ CASE passthrough -> output' = output \o chunk /\ UNCHANGED passthrough
             [] ~passthrough /\ verdict = {} /\ ~full -> UNCHANGED <<output, passthrough>>
             [] ~passthrough /\ verdict = {} /\ full  -> output' = all /\ passthrough' = TRUE
             [] OTHER -> \E n \in verdict :
                    /\ output' = SubSeq(probe, n + 1, Len(probe)) \o rest
                    /\ passthrough' = TRUE

(* Fault: what was read ahead is given up once the first part was replayed. *)
ReplayOnce == IF replay_off = 0 THEN prefix_len ELSE replay_off

ReplayLimit == prefix_len

(* auto_title_source_read: first what was read ahead. *)
Replay ==
    /\ Running /\ stage = "decided" /\ replay_off < ReplayLimit
    /\ LET n == Min({prefix_len - replay_off, RenderRead})
       IN  replay_off' = replay_off + n /\ Feed(Span(replay_off, replay_off + n))
    /\ UNCHANGED <<source, titling, prefix_len, ended, detection, source_off, status>>

Read ==
    /\ Running /\ stage = "decided" /\ ~(replay_off < ReplayLimit)
    /\ \E n \in Reads(RenderRead) \ {0} :
        /\ source_off' = source_off + n
        /\ Feed(Span(source_off, source_off + n))
    /\ UNCHANGED <<source, titling, prefix_len, ended, replay_off, detection, status>>

(* mdf_parser_finish_document, up to the table filter. *)
FinishDocument ==
    /\ Running /\ stage = "decided" /\ ~(replay_off < ReplayLimit)
    /\ Reads(RenderRead) = {0}
    /\ IF passthrough \/ fed = << >>
       THEN UNCHANGED <<output, passthrough>>
       ELSE \E n \in Decide(Kinds(fed), TRUE) :
                output' = SubSeq(fed, n + 1, Len(fed)) /\ passthrough' = TRUE
    /\ status' = "OK"
    /\ UNCHANGED <<source, titling, prefix_len, ended, replay_off, detection,
                   source_off, fed>>

Next ==
    \/ SourceFails \/ ReadAhead \/ DetectLine \/ DetectFront
    \/ Replay \/ Read \/ FinishDocument

Spec == Init /\ [][Next]_vars

-----------------------------------------------------------------------------
(* Properties *)

(* The parser is fed the source, each byte once and in order, whatever was   *)
(* read ahead (auto_title_source_read).                                      *)
SourceReplayed ==
    /\ fed = Span(0, Len(fed))
    /\ status = "OK" => Len(fed) = Len(source)

(* The lines of the whole source, by their first positions. *)
Starts        == {p \in 1 .. Len(source) : p = 1 \/ source[p - 1] = "nl"}
KindAt(p)     == IF source[p] = "nl" THEN "blank" ELSE source[p]
EndOf(p)      == Min({q \in p .. Len(source) : source[q] = "nl"} \cup {Len(source)})
Terminated(p) == source[EndOf(p)] = "nl"

(* What a document has of front matter: a fence, a line that looks like      *)
(* metadata, and a fence of the same kind again.  Of a document that is      *)
(* longer than the probe, the close has to end within it.                    *)
FrontMatterEnd ==
    LET second == Min(Starts \ {1})
        closes == {p \in Starts : /\ p > second
                                  /\ Fence(KindAt(p)) = Fence(KindAt(1))
                                  /\ \/ Len(source) <= MaxProbe
                                     \/ Terminated(p) /\ EndOf(p) <= MaxProbe}
    IN  IF /\ Starts \ {1} # {} /\ Fence(KindAt(1)) # "none"
           /\ IsMetadataLikely(KindAt(second)) /\ closes # {}
        THEN EndOf(Min(closes))
        ELSE 0

(* What is stripped as front matter depends on the document, not on how it   *)
(* was cut into reads: deciding early never decides otherwise, and the limit *)
(* of the probe is a position in the document (frontmatter_decide).          *)
FrontMatterAnyChunking ==
    status = "OK" => output = Span(FrontMatterEnd, Len(source))

(* The first line from p on that is not blank, if it is a heading. *)
HeadingAhead(p) ==
    LET solid == {q \in Starts : q >= p /\ KindAt(q) # "blank"}
    IN  IF solid = {} \/ ~IsHeading(KindAt(Min(solid))) THEN 0 ELSE Min(solid)

(* The inner lines of what may be front matter: its first key, the lines it  *)
(* cannot go on with, and the first heading there.                           *)
Later == Starts \ {1}
Keyed(p) == \E q \in Later : q < p /\ KindAt(q) = "meta"
Stops(p) ==
    \/ KindAt(p) = "dash"
    \/ ~Terminated(p)
    \/ ~IsMetadata(KindAt(p)) /\ ~(IsContinuation(KindAt(p)) /\ Keyed(p))

HeadingBefore(p) ==
    LET hs == {q \in Starts : q <= p /\ IsHeading(KindAt(q))}
    IN  IF hs = {} THEN 0 ELSE Min(hs)

(* The title of the whole source.                                            *)
Title ==
    LET stops  == {p \in Later : Stops(p)}
        stop   == Min(stops)
        closed == KindAt(stop) = "dash" /\ Terminated(stop)
    IN  IF source = << >> \/ KindAt(1) # "dash" THEN HeadingAhead(1)
        ELSE IF stops = {} THEN HeadingBefore(Len(source))
        ELSE IF closed /\ (Keyed(stop) \/ HeadingBefore(stop) = 0) THEN HeadingAhead(stop + 1)
        ELSE HeadingBefore(stop)

(* The title is that of the document, not of how it was cut into reads: the  *)
(* first line, or the first after front matter, as the whole source has it.  *)
TitleAnyChunking ==
    titling /\ stage = "decided" => html_title = Title

=============================================================================
