----------------------------- MODULE MCRenderer -----------------------------
(* The pool of a renderer, with three addresses, two buffers and requests   *)
(* of 1 to 4 bytes: room for a full free list while nothing is held, and    *)
(* for a move (the old and the new block of a realloc) next to another      *)
(* buffer's block.                                                          *)
(*                                                                          *)
(* Its calls, with two sinks (a bound one and another), two geometries and  *)
(* two writes and reads per call: a write that is accepted before one that  *)
(* fails, a read that delivers before one that ends or fails.               *)
EXTENDS MemoryPool, Session

VARIABLE part   \* "pool" or "calls": they share no state and run apart

MCSizes == 1 .. 4

TerminalOptions == [format |-> "ANSI", escapes |-> TRUE, traced |-> TRUE]
PageOptions     == [format |-> "HTML", escapes |-> FALSE, traced |-> FALSE]
BothOptions     == {TerminalOptions, PageOptions}

RendererInit ==
    /\ part \in {"pool", "calls"} /\ PoolInit /\ Init
    /\ part = "pool" => options = PageOptions /\ geometry = CHOOSE g \in Geometries : TRUE

RendererNext ==
    /\ UNCHANGED part
    /\ \/ part = "pool" /\ PoolNext /\ UNCHANGED vars
       \/ part = "calls" /\ Next /\ UNCHANGED pool_vars

RendererSpec == RendererInit /\ [][RendererNext]_<<part, pool_vars, vars>>
=============================================================================
