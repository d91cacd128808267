--------------------------- MODULE MCTableFilter ----------------------------
(* TableFilter over every document of MaxLines short lines. *)
EXTENDS TableFilter
Incremental(mode) == [format |-> "ANSI", buffer_mode |-> mode, limits |-> TRUE]
BothModes  == {Incremental("full"), Incremental("row")}
=============================================================================
