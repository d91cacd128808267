--------------------------- MODULE MCTableLayout ---------------------------
(* Tables of up to two columns, of which later rows may have more cells,    *)
(* laid out at several widths between which the terminal may be resized;    *)
(* and the rows of up to six characters of four small alphabets, cut into   *)
(* cells.                                                                   *)
EXTENDS TableLayout, TableCells

VARIABLE part   \* "layout" or "cells": they share no state and run apart

Text_(s, style) == [text |-> s, style |-> style]
T(s) == <<Text_(s, <<>>)>>
Word == T(<<"a", "b">>)
Long == T(<<"a", "b", "c", "d", " ", "e">>)
Wide == T(<<"W", "W">>)
Held == T(<<"a", "~", "b", " ", "c">>)
Code == <<Text_(<<" ", "a", "b">>, <<"code">>)>>
LinkText == Text_(<<"a", " ", "b">>, <<"osc", "label">>)

(* A link with its address, or on a terminal that has links.                *)
Link(osc8) ==
    IF osc8 THEN <<LinkText>>
    ELSE <<Text_(<<"a">>, <<"label">>), Text_(<<" ", "(">>, <<>>),
           Text_(<<"u">>, <<"url">>), Text_(<<")">>, <<>>)>>
Parens == <<Text_(<<"(">>, <<>>), LinkText, Text_(<<")">>, <<>>)>>
CellSet(osc8) ==
    {<<>>, Word, Wide, Link(osc8)} \cup (IF osc8 THEN {Parens} ELSE {Long, Held, Code})

Later(osc8) ==
    {<<>>, <<<<Word>>>>, <<<<Wide, Long>>>>, <<<<Long, Link(osc8), Word>>, <<Link(osc8), Word>>>>}

WithHeader(osc8) ==
    {[hasHeader |-> TRUE, header |-> <<Word, l>>, rows |-> r \o more, align |-> <<"right", "center">>] :
        l \in {Word, IF osc8 THEN Parens ELSE Link(osc8)},
        r \in {<<<<c, d>>>> : c, d \in CellSet(osc8)}, more \in Later(osc8)}
    \cup {[hasHeader |-> TRUE, header |-> <<Link(osc8)>>, rows |-> <<>>, align |-> <<"left">>],
          [hasHeader |-> TRUE, header |-> <<Word, Link(osc8), Word>>, rows |-> <<<<Wide, Word, Word>>, <<Long>>>>,
           align |-> <<"left", "right", "left">>]}

FirstRows(osc8) ==
    {<<<<c>>, <<d>>>> : c \in CellSet(osc8), d \in {Word, Wide}}
    \cup {<<<<c, d>>, <<d, Word>>>> : c, d \in CellSet(osc8)}
    \cup {<<<<Word, c, Word>>, <<Wide, Word, Long>>>> : c \in CellSet(osc8)}
Headerless(osc8) ==
    {[hasHeader |-> FALSE, header |-> <<>>, rows |-> r \o more, align |-> <<>>] :
        r \in FirstRows(osc8), more \in Later(osc8)}

MCTables == UNION {WithHeader(osc8) \cup Headerless(osc8) : osc8 \in BOOLEAN}

Written_(wire, byRow, style) ==
    [wire |-> wire, byRow |-> byRow, styled |-> style # "plain", quoted |-> style = "quoted",
     prefix |-> IF style = "quoted" THEN 2 ELSE 0]
MCOptions ==
    {Written_("line", FALSE, "styled"), Written_("line", TRUE, "quoted"), Written_("line", TRUE, "plain"),
     Written_("space", FALSE, "plain"), Written_("space", TRUE, "styled")}

MCAlphabets ==
    {{"a", "|", "\\", "bt"}, {"a", "|", "[", "]", "(", ")"},
     {"a", "|", "bt", "<", ":", ">"}, {"a", " ", "|", "bt", "[", "("}}

Pair == <<<<Word>>, <<Word>>>>
TableInit ==
    \/ /\ part = "layout" /\ LayoutInit
       /\ row = <<>> /\ alphabet = {}
    \/ /\ part = "cells" /\ CellsInit
       /\ table = [hasHeader |-> FALSE, header |-> <<>>, rows |-> Pair, align |-> <<>>]
       /\ opts = Written_("line", FALSE, "plain") /\ width = 9 /\ fitted = 0 /\ resizes = 0
       /\ cols = <<>> /\ next = 1 /\ phase = "new" /\ out = <<>>

TableNext ==
    /\ UNCHANGED part
    /\ \/ part = "layout" /\ LayoutNext /\ UNCHANGED cellVars
       \/ part = "cells" /\ CellsNext /\ UNCHANGED layoutVars

TableSpec == TableInit /\ [][TableNext]_<<part, layoutVars, cellVars>>
=============================================================================
