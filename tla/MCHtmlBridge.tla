---------------------------- MODULE MCHtmlBridge ----------------------------
(* Documents of up to three lines, charts and tables, out of a line for     *)
(* each kind the bridge tells apart.  The lead of a line is what it does    *)
(* not show: the markers before a heading, and before a chart's row.        *)
EXTENDS HtmlBridge

MCSafe(url) == url # "script"
Line(lead, body) == [lead |-> lead, body |-> body]
Body(body) == Line(<<>>, body)

MCLines ==
    { Body(<<"a", "bold", "b", "reset", "c">>),
      Body(<<"url", "bold", "e1", "e2", "unlink", "reset", "b", "script", "c", "unlink">>),
      Body(<<"bold", "#", " ", "a", "url", "e1", "e2", "unlink", "b", "reset">>),
      Body(<<"#", "#", "a">>),
      Line(<<">", " ">>, <<"#", " ", "a">>),
      Body(<<">">>),
      Body(<<">", " ">>),
      Body(<<"-", " ", "url", "bold", "a", "reset", "b", "unlink">>),
      Body(<<"1", ".", " ", "a", "url", "b", "unlink", "c">>),
      Line(<<" ", " ">>, <<"code", "#", " ", "a", "reset">>),
      Body(<<">", " ", "-", " ", "[", "x", "]", " ", "a", "bold", "b">>),
      Body(<<"1", "a", "bold", "#", " ">>) }

MCCharts ==
    { [kind |-> "bar",  rows |-> <<Line(<<" ">>, <<"a", "bold", "b", "reset">>), Body(<<"1", ".", " ", "c">>)>>],
      [kind |-> "bar",  rows |-> <<Body(<<"a">>), Line(<<">", " ", " ">>, <<"b">>), Body(<<"#", " ", "c">>)>>],
      [kind |-> "tile", rows |-> <<Body(<<"a", "bold", "b", "reset">>), Body(<<>>), Line(<<" ">>, <<"c">>)>>] }
=============================================================================
