---------------------------- MODULE MCSourcePath ----------------------------
(* Documents of a few lines, read a few units at a time; and decks of a few *)
(* lines, split into slides.                                                *)
EXTENDS SourcePath, HtmlDeck

DeckLine(lead, what, mark, run, rest) == [lead |-> lead, what |-> what, mark |-> mark, run |-> run, rest |-> rest]
Blank       == DeckLine(0, "blank", "", 0, "")
Spaces      == DeckLine(1, "blank", "", 0, "")
Text        == DeckLine(0, "text", "", 0, "")
Inner       == DeckLine(2, "text", "", 0, "")
Rule(n)     == DeckLine(n, "break", "-", 3, "")
SpacedRule  == DeckLine(0, "break", "*", 3, "spaced")
Item(n)     == DeckLine(n, "item", "", 1, "")
Numbered    == DeckLine(0, "item", "", 2, "")
Quote       == DeckLine(0, "quote", "", 0, "")
Code(n)     == DeckLine(n, "fence", "bt", 3, "")
CodeInfo    == DeckLine(0, "fence", "bt", 3, "info")
Tildes      == DeckLine(0, "fence", "~", 4, "")
Key         == DeckLine(0, "key", "", 0, "theme")
Heading     == DeckLine(0, "comment", "", 0, "")
NamedHeading == DeckLine(0, "comment", "", 0, "meta")
Plus        == DeckLine(0, "text", "+", 3, "")
Pair        == DeckLine(0, "text", "", 0, "meta")

MCDeckLines ==
    {{Rule(0), Rule(1), Key, Blank, Heading, Inner, Code(1)},
     {Rule(0), Rule(3), SpacedRule, Item(0), Item(2), Numbered, Spaces, Blank},
     {Rule(0), Text, Code(0), CodeInfo, Tildes, Heading},
     {Rule(2), Quote, Blank, Text, Item(0), Code(0), Rule(4)},
     {Rule(0), Rule(4), Plus, Pair, NamedHeading, Blank}}

pathVars == vars
NoSource == /\ source = << >> /\ titling = FALSE /\ prefix_len = 0 /\ scan_off = 0 /\ replay_off = 0
            /\ source_off = 0 /\ ended = FALSE /\ stage = "decided" /\ fm_has_key = FALSE /\ html_title = 0
            /\ fed = << >> /\ output = << >> /\ passthrough = FALSE /\ status = "deck"

(* Either a source is rendered or a deck is made.                           *)
PathOrDeckInit ==
    \/ /\ Init
       /\ kinds = {} /\ doc = << >> /\ todo = "" /\ front_matter = << >> /\ in_front_matter = FALSE
       /\ front_matter_has_key = FALSE /\ slide_markdown = << >> /\ fence = NoFence /\ list_indent = 0
       /\ blockquote_lazy_active = FALSE /\ front_theme = 0 /\ html_renderer = "none" /\ deck_out = << >> /\ deck_status = "none"
    \/ NoSource /\ DeckInit

PathOrDeckNext ==
    \/ Next /\ UNCHANGED deckVars
    \/ DeckNext /\ UNCHANGED pathVars

PathOrDeckSpec == PathOrDeckInit /\ [][PathOrDeckNext]_<<pathVars, deckVars>>
=============================================================================
