------------------------------ MODULE WordSplit -----------------------------
(***************************************************************************)
(* Where the ANSI renderer may break a word (src/src/render_ansi.c).  A    *)
(* word is a sequence of glyphs: a wide rune takes two columns and three   *)
(* bytes, everything else one of each.  Offsets count glyphs, and a split  *)
(* of 0 means that there is none.                                          *)
(***************************************************************************)
EXTENDS Integers, Sequences, FiniteSets, FiniteSetsExt, SequencesExt

Nul   == "nul"      \* the '\0' that stands for "the token ends here"
Wide  == "wide"
Quote == "quote"    \* a straight quotation mark
Punctuation == {",", "?", ")", ":", "/", Quote}
Letter(c) == c \notin Punctuation \cup {Wide, Nul, " "}

Cols(s)  == Len(s) + Len(SelectSeq(s, LAMBDA c : c = Wide))
Bytes(s) == Len(s) + 2 * Len(SelectSeq(s, LAMBDA c : c = Wide))
Upto(s, n)  == SubSeq(s, 1, n)
After(s, n) == SubSeq(s, n + 1, Len(s))
HasWide(s)  == Wide \in ToSet(s)

(* Punctuation after which a word may be cut, seen with the glyph that     *)
(* follows it in the same token.                                           *)
PunctBoundary(c, next) == c \in {",", ":", "?"} /\ next # Quote

(* The end of the first :// of w, 0 if it has none. *)
SchemeEnd(w) ==
    LET at == {i \in 1 .. Len(w) - 2 : SubSeq(w, i, i + 2) = <<":", "/", "/">>}
    IN  IF at = {} THEN 0 ELSE Min(at) + 2

HasScheme(w) == SchemeEnd(w) > 0
StartsAuthority(w) == Len(w) >= 2 /\ Upto(w, 2) = <<"/", "/">>

(* A word such as https: that a // may turn into a URL. *)
EndsWithScheme(w) ==
    /\ Len(w) >= 2
    /\ Last(w) = ":"
    /\ \A i \in 1 .. Len(w) - 1 : Letter(w[i])

HasBreakBefore(w, limit) ==
    \E i \in 1 .. Min({Len(w), limit}) :
        \/ PunctBoundary(w[i], IF i < Len(w) THEN w[i + 1] ELSE Nul)
        \/ w[i] \in {"/", ":", "?"} /\ i > 1 /\ ~(i = 2 /\ w[1] = "/" /\ w[2] = "/")

(* The most glyphs of w that fit in limit columns. *)
Fitting(w, limit) == Max({n \in 0 .. Len(w) : n = 0 \/ Cols(Upto(w, n)) <= limit})

(* Cut where the columns end; a quotation mark next to the cut, or the     *)
(* closing one left alone behind it, takes the rune before it along.       *)
RuneSplit(w, limit) ==
    LET at(n) == IF /\ n > 1
                    /\ n < Len(w)
                    /\ w[n] = Quote \/ (n + 1 = Len(w) /\ w[n + 1] = Quote)
                 THEN n - 1
                 ELSE n
    IN  at(Fitting(w, limit))

(* Cut a URL: never inside a :// that does not fit, else after the last    *)
(* separator that fits, else as a word.                                    *)
UrlSplit(w, limit) ==
    LET scheme == SchemeEnd(w)
        breaks == {i \in 1 .. Fitting(w, limit) : w[i] \in {"/", ":", "?"}}
    IN  CASE limit <= 0 -> 0
          [] limit > 0 /\ scheme > 0 /\ Bytes(Upto(w, scheme)) > limit -> scheme
          [] OTHER -> IF breaks # {} THEN Max(breaks) ELSE RuneSplit(w, limit)

(* The ends of the pieces of w when Split chooses each cut among limit     *)
(* columns: the last piece is what fits, or what cannot be split.          *)
PieceEnds(w, limit, Split(_, _)) ==
    LET cut(rest) == IF Cols(rest) <= limit THEN 0 ELSE Split(rest, limit)
        ends[from \in 0 .. Len(w)] ==
            LET from_to(to) == IF to \in {from, Len(w)} THEN <<Len(w)>>
                               ELSE <<to>> \o ends[to]
            IN  from_to(from + cut(After(w, from)))
    IN  ends[0]

(* The same as pieces. *)
Pieces(w, limit, Split(_, _)) ==
    LET ends == PieceEnds(w, limit, Split)
    IN  [k \in DOMAIN ends |-> SubSeq(w, IF k = 1 THEN 1 ELSE ends[k - 1] + 1, ends[k])]
=============================================================================
