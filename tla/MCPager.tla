------------------------------ MODULE MCPager -------------------------------
(* The pager's loop, with two signals (one that is recorded, one that comes *)
(* too late) and a few keys and resizes.                                    *)
(*                                                                          *)
(* Its view, with a text file and a Markdown document, for which a simple   *)
(* renderer stands: it breaks lines at spaces, and closes what is open at a *)
(* break as the ANSI renderer does.                                         *)
EXTENDS Pager, PagerView, TLC

VARIABLE part   \* "loop" or "view": they share no state and run apart

MCInputs ==
    { [markdown |-> FALSE,
       units |-> <<"s", "A", "\t", "W", "W", "bell", "\r", "\n", "\n", "s", "S", "c1", " ", "\r", "a">>],
      [markdown |-> TRUE,
       units |-> <<"s", "bold", "s", "s", "reset", "s", " ", "linkA", "A", "bold", "W", "a", " ", "S",
                   "reset", "unlink", "\n", "\n", "linkB", "s", "S", "unlink", " ", "b", "c", "a">>],
      [markdown |-> TRUE, units |-> << >>] }

MCUnits == UNION {ToSet(doc.units) : doc \in MCInputs}

(* The renderer. *)
BreakLine(s) ==
    [s EXCEPT !.out = @ \o (IF s.link = NoLink THEN << >> ELSE <<NoLink>>)
                        \o (IF s.bold THEN <<"reset">> ELSE << >>) \o <<"\n">>
                        \o (IF s.link = NoLink THEN << >> ELSE <<s.link>>)
                        \o (IF s.bold THEN <<"bold">> ELSE << >>),
              !.col = 0]
WordWidth(units, i) ==
    LET stops == {k \in i..Len(units) : units[k] \in {" ", "\n"}}
        end   == IF stops = {} THEN Len(units) ELSE (CHOOSE k \in stops : \A j \in stops : k <= j) - 1
    IN  FoldLeft(LAMBDA n, k : IF units[k] \in Escapes THEN n ELSE n + GlyphWidth(units[k]),
                 0, [k \in 1..(IF end < i THEN 0 ELSE end - i + 1) |-> i + k - 1])
RenderUnit(s, units, i, width) ==
    CASE units[i] = "\n" -> BreakLine(s)
      [] units[i] = " " -> IF s.col + 1 + WordWidth(units, i + 1) > width THEN BreakLine(s)
                           ELSE [s EXCEPT !.out = Append(@, " "), !.col = @ + 1]
      [] units[i] \in Escapes ->
             [s EXCEPT !.out = Append(@, units[i]),
                       !.bold = IF units[i] \in Styles THEN units[i] = "bold" ELSE @,
                       !.link = IF units[i] \in Styles THEN @ ELSE units[i]]
      [] OTHER -> [s EXCEPT !.out = Append(@, units[i]), !.col = @ + GlyphWidth(units[i])]
MCRendered(units, width) ==
    FoldLeft(LAMBDA s, i : RenderUnit(s, units, i, width),
             [out |-> << >>, col |-> 0, bold |-> FALSE, link |-> NoLink],
             [i \in 1..Len(units) |-> i]).out

MCSizes == {<<2, 6>>, <<9, 3>>}

PagerInit ==
    /\ part \in {"loop", "view"} /\ LoopInit /\ Init
    /\ part = "loop" => input.units = << >> /\ columns = 9
    /\ part = "view" => termination_signal = None

PagerNext ==
    /\ UNCHANGED part
    /\ \/ part = "loop" /\ LoopNext /\ UNCHANGED vars
       \/ part = "view" /\ Next /\ UNCHANGED loop_vars

(* The fairness of LoopSpec. *)
PagerFairness ==
    /\ WF_loop_vars(part = "loop" /\ PagerStep)
    /\ WF_loop_vars(part = "loop" /\ DeliverWinch)

PagerSpec == PagerInit /\ [][PagerNext]_<<part, loop_vars, vars>> /\ PagerFairness
=============================================================================
