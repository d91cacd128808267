----------------------------- MODULE MCLineWrap -----------------------------
EXTENDS LineWrap

(* Between them: punctuation that a quotation mark may follow, a wide      *)
(* rune, what may be a URL's scheme, and what makes it one.                *)
MCFragments == {<<"a", "b", "?">>, <<Wide, "g", ":">>, <<"/", "/", "i", ",", Quote>>}
MCGeometries == {<<6, 0, 0>>, <<8, 2, 1>>}
MCLevels == {1}

(* A margin that leaves no room beside the prefix of a heading.            *)
LoopFragments == {<<"a">>, <<"g", ":", "/", "/", "i", "/">>}
LoopGeometries == {<<12, 0, 0>>, <<10, 7, 0>>}
LoopLevels == {2}
=============================================================================
