---------------------------- MODULE MCBlockParser ---------------------------
(* BlockParser over every document of up to MaxLines lines of the kinds     *)
(* below: each construct plain, in a quote, in a list and indented, the     *)
(* lines that end undecided, and lines that overflow the small buffers.     *)
EXTENDS BlockParser

Alphabet == <<"a", "b", "c", "d", "e", "f", "g", "h", "k", "l", "m", "n", "o", "p">>

Plain4   == <<" ", " ", " ", " ">>
Fence    == <<"tick", "tick", "tick">>
Quoted(line) == <<">", " ">> \o line
AllLines ==
    { <<>>, <<"w">>, <<" ", " ", "w">>, Plain4 \o <<"w">>, <<"w", " ", " ">>,
      <<"w", "\t", " ", " ", "w", "\r">>, <<"\r">>, <<" ", " ">> \o Plain4 \o <<"w">>,
      <<"-", " ", "w">>, <<" ", " ", "-", " ", "w">>, Plain4 \o <<"-", " ", "w">>,
      <<"-", " ", "[", "X", "]", " ", "w">>, <<"*", " ", "w", "w", "w", "w">>,
      <<"1", ".", " ", "w">>,
      <<">">>, Quoted(<<>>), Quoted(<<"w">>), Quoted(<<"-", " ", "w">>), Quoted(Fence),
      <<" ", " ">> \o Quoted(<<"w">>), Plain4 \o Quoted(<<"w">>),
      <<"#", " ", "w">>, <<"-", "-", "-">>, Fence, Fence \o <<"i">>, <<"tick", "w">>,
      [k \in 1 .. 9 |-> " "] \o <<"w">> }
=============================================================================
