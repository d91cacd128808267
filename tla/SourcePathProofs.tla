-------------------------- MODULE SourcePathProofs --------------------------
(***************************************************************************)
(* Proofs about SourcePath, for documents of any length, any reads and any *)
(* probe: the parser is fed the source once and in order, and what is      *)
(* stripped as front matter is that of the document, however it is cut.    *)
(* And about HtmlDeck: a deck shows each line of its document once, and is *)
(* cut where the document says.                                            *)
(***************************************************************************)
EXTENDS SourcePath, HtmlDeck, SequenceLemmas, FiniteSetTheorems

Unit == (Lines \ {"blank"}) \cup {"nl"}

(* A line has one unit before its newline at most. *)
Lined(s) == \A i \in 1 .. Len(s) - 1 : s[i] # "nl" => s[i + 1] = "nl"

TypeOK ==
    /\ source \in Seq(Unit)
    /\ titling \in BOOLEAN
    /\ prefix_len \in Nat
    /\ ended \in BOOLEAN
    /\ scan_off \in Nat
    /\ replay_off \in Nat
    /\ stage \in {"line", "front", "decided"}
    /\ fm_has_key \in BOOLEAN
    /\ html_title \in Nat
    /\ source_off \in Nat
    /\ fed \in Seq(Nat)
    /\ passthrough \in BOOLEAN
    /\ output \in Seq(Nat)
    /\ status \in {"running", "OK", "IO"}

(* What was read ahead, replayed and read after that. *)
ReplayOK ==
    /\ replay_off <= prefix_len
    /\ prefix_len <= source_off
    /\ source_off <= Len(source)
    /\ stage # "decided" => replay_off = 0 /\ source_off = prefix_len
    /\ replay_off < prefix_len => source_off = prefix_len
    /\ fed = Span(0, IF replay_off < prefix_len THEN replay_off ELSE source_off)
    /\ status = "OK" => stage = "decided" /\ replay_off = prefix_len /\ source_off = Len(source)

-----------------------------------------------------------------------------
(* Numbers and spans *)

(* The least element of a set of numbers. *)
LEMMA MinOf ==
    \A S \in SUBSET Nat : S # {} => Min(S) \in S /\ \A x \in S : Min(S) <= x
<1>. SUFFICES ASSUME NEW S \in SUBSET Nat, S # {}
              PROVE  Min(S) \in S /\ \A x \in S : Min(S) <= x
  OBVIOUS
<1>1. \E n \in S : \A m \in S : n <= m
  BY LeastOf
<1>. QED
  BY <1>1, Zenon DEF Min

(* And how to tell it. *)
LEMMA MinIs ==
    \A S \in SUBSET Nat : \A n \in S : (\A x \in S : n <= x) => Min(S) = n
<1>. SUFFICES ASSUME NEW S \in SUBSET Nat, NEW n \in S, \A x \in S : n <= x
              PROVE  Min(S) = n
  OBVIOUS
<1>1. Min(S) \in S /\ Min(S) <= n
  BY MinOf
<1>2. n <= Min(S) /\ n \in Nat /\ Min(S) \in Nat
  BY <1>1
<1>. QED
  BY <1>1, <1>2

(* The lesser of two numbers. *)
LEMMA MinOfTwo ==
    \A a, b \in Nat : Min({a, b}) = IF a <= b THEN a ELSE b
<1>. SUFFICES ASSUME NEW a \in Nat, NEW b \in Nat
              PROVE  Min({a, b}) = IF a <= b THEN a ELSE b
  OBVIOUS
<1>1. {a, b} \in SUBSET Nat
  OBVIOUS
<1>2. CASE a <= b
  <2>1. a \in {a, b} /\ \A x \in {a, b} : a <= x
    BY <1>2
  <2>. QED
    BY <1>1, <1>2, <2>1, MinIs
<1>3. CASE ~(a <= b)
  <2>1. b \in {a, b} /\ \A x \in {a, b} : b <= x
    BY <1>3
  <2>. QED
    BY <1>1, <1>3, <2>1, MinIs
<1>. QED
  BY <1>2, <1>3

(* A span is a sequence of numbers. *)
LEMMA SpanType ==
    \A m, n \in Nat : m <= n =>
        /\ Span(m, n) \in Seq(Nat) /\ Len(Span(m, n)) = n - m
        /\ \A i \in 1 .. n - m : Span(m, n)[i] = m + i
<1>. SUFFICES ASSUME NEW m \in Nat, NEW n \in Nat, m <= n
              PROVE  /\ Span(m, n) \in Seq(Nat) /\ Len(Span(m, n)) = n - m
                     /\ \A i \in 1 .. n - m : Span(m, n)[i] = m + i
  OBVIOUS
<1>1. n - m \in Nat /\ \A i \in 1 .. n - m : m + i \in Nat
  OBVIOUS
<1>2. Span(m, n) \in Seq(Nat)
  BY <1>1, IsASeq DEF Span
<1>. QED
  BY <1>1, <1>2 DEF Span

(* Two spans that meet make one. *)
LEMMA SpanConcat ==
    \A l, m, n \in Nat : l <= m /\ m <= n => Span(l, m) \o Span(m, n) = Span(l, n)
<1>. SUFFICES ASSUME NEW l \in Nat, NEW m \in Nat, NEW n \in Nat, l <= m, m <= n
              PROVE  Span(l, m) \o Span(m, n) = Span(l, n)
  OBVIOUS
<1>. DEFINE a == Span(l, m)
            b == Span(m, n)
            c == Span(l, n)
<1>1. /\ a \in Seq(Nat) /\ Len(a) = m - l /\ \A i \in 1 .. m - l : a[i] = l + i
      /\ b \in Seq(Nat) /\ Len(b) = n - m /\ \A i \in 1 .. n - m : b[i] = m + i
      /\ c \in Seq(Nat) /\ Len(c) = n - l /\ \A i \in 1 .. n - l : c[i] = l + i
  <2>1. l <= n
    OBVIOUS
  <2>. QED
    BY <2>1, SpanType
<1>. HIDE DEF a, b, c
<1>2. /\ a \o b \in Seq(Nat) /\ Len(a \o b) = n - l
      /\ \A i \in 1 .. n - l : (a \o b)[i] = IF i <= m - l THEN a[i] ELSE b[i - (m - l)]
  <2>1. /\ a \o b \in Seq(Nat) /\ Len(a \o b) = Len(a) + Len(b)
        /\ \A i \in 1 .. Len(a) + Len(b) :
              (a \o b)[i] = IF i <= Len(a) THEN a[i] ELSE b[i - Len(a)]
    BY <1>1, ConcatProperties
  <2>2. Len(a) = m - l /\ Len(a) + Len(b) = n - l
    BY <1>1
  <2>. QED
    BY <2>1, <2>2
<1>3. ASSUME NEW i \in 1 .. n - l
      PROVE  c[i] = (a \o b)[i]
  <2>1. CASE i <= m - l
    BY <1>1, <1>2, <2>1
  <2>2. CASE ~(i <= m - l)
    <3>1. i - (m - l) \in 1 .. n - m /\ m + (i - (m - l)) = l + i
      BY <2>2
    <3>. QED
      BY <1>1, <1>2, <2>2, <3>1
  <2>. QED
    BY <2>1, <2>2
<1>4. c = a \o b
  BY <1>1, <1>2, <1>3, SeqEqual
<1>. QED
  BY <1>4 DEF a, b, c

-----------------------------------------------------------------------------
(* Documents *)

(* Lines that are all ended. *)
Closed(s) == \A i \in 1 .. Len(s) : s[i] # "nl" => i < Len(s) /\ s[i + 1] = "nl"

OneLine == {<<"nl">>} \cup {<<k, "nl">> : k \in Lines \ {"blank"}}

(* One more line. *)
LEMMA ClosedAppend ==
    ASSUME NEW s \in Seq(Unit), Closed(s), NEW e \in OneLine
    PROVE  s \o e \in Seq(Unit) /\ Closed(s \o e)
<1>1. e \in Seq(Unit) /\ Closed(e)
  <2>1. CASE e = <<"nl">>
    BY <2>1 DEF Unit, Closed
  <2>2. CASE e # <<"nl">>
    <3>1. PICK k \in Lines \ {"blank"} : e = <<k, "nl">>
      BY <2>2 DEF OneLine
    <3>. QED
      BY <3>1 DEF Unit, Closed
  <2>. QED
    BY <2>1, <2>2
<1>. DEFINE t == s \o e
<1>2. /\ t \in Seq(Unit) /\ Len(t) = Len(s) + Len(e)
      /\ \A i \in 1 .. Len(s) + Len(e) : t[i] = IF i <= Len(s) THEN s[i] ELSE e[i - Len(s)]
      /\ Len(s) \in Nat /\ Len(e) \in Nat
  BY <1>1, ConcatProperties
<1>. HIDE DEF t
<1>3. ASSUME NEW i \in 1 .. Len(t), t[i] # "nl"
      PROVE  i < Len(t) /\ t[i + 1] = "nl"
  <2>1. CASE i <= Len(s)
    <3>1. s[i] # "nl" /\ i \in 1 .. Len(s)
      BY <1>2, <1>3, <2>1
    <3>2. i < Len(s) /\ s[i + 1] = "nl"
      BY <3>1 DEF Closed
    <3>3. i + 1 \in 1 .. Len(s) + Len(e) /\ i + 1 <= Len(s)
      BY <1>2, <3>2
    <3>. QED
      BY <1>2, <3>2, <3>3
  <2>2. CASE ~(i <= Len(s))
    <3>. DEFINE j == i - Len(s)
    <3>1. j \in 1 .. Len(e) /\ t[i] = e[j]
      BY <1>2, <2>2
    <3>2. j < Len(e) /\ e[j + 1] = "nl"
      BY <1>1, <1>3, <3>1 DEF Closed
    <3>3. /\ i + 1 \in 1 .. Len(s) + Len(e) /\ ~(i + 1 <= Len(s))
          /\ (i + 1) - Len(s) = j + 1
      BY <1>2, <2>2, <3>1, <3>2
    <3>. QED
      BY <1>2, <3>2, <3>3
  <2>. QED
    BY <2>1, <2>2
<1>. QED
  BY <1>2, <1>3 DEF t, Closed

(* All of them. *)
LEMMA LinesClosed ==
    ASSUME NEW seqs \in Seq(OneLine)
    PROVE  FlattenSeq(seqs) \in Seq(Unit) /\ Closed(FlattenSeq(seqs))
<1>. DEFINE Has(s) == FlattenSeq(s) \in Seq(Unit) /\ Closed(FlattenSeq(s))
            D      == {n \in Nat : \E s \in Seq(OneLine) : Len(s) = n /\ ~Has(s)}
<1>1. D = {}
  <2>1. SUFFICES ASSUME D # {}
                 PROVE  FALSE
    OBVIOUS
  <2>2. PICK n \in D : \A m \in D : n <= m
    <3>1. D \in SUBSET Nat
      OBVIOUS
    <3>. HIDE DEF D
    <3>. QED
      BY <2>1, <3>1, LeastOf
  <2>3. PICK s \in Seq(OneLine) : Len(s) = n /\ ~Has(s)
    BY <2>2
  <2>4. CASE s = << >>
    BY <2>3, <2>4, FlattenEmpty DEF Closed
  <2>5. CASE s # << >>
    <3>1. PICK t \in Seq(OneLine), e \in OneLine : s = Append(t, e) /\ Len(s) = Len(t) + 1
      BY <2>5, FrontAndLast
    <3>2. Len(t) \in Nat /\ ~(n <= Len(t))
      BY <2>3, <3>1
    <3>3. Has(t)
      <4>. HIDE DEF Has
      <4>. QED
        BY <2>2, <3>2
    <3>4. t \in Seq(Seq(Unit)) /\ e \in Seq(Unit)
      <4>1. \A x \in OneLine : x \in Seq(Unit)
        <5>1. "nl" \in Unit /\ \A k \in Lines \ {"blank"} : k \in Unit
          BY DEF Unit
        <5>. HIDE DEF Unit
        <5>2. <<"nl">> \in Seq(Unit) /\ \A k \in Lines \ {"blank"} : <<k, "nl">> \in Seq(Unit)
          BY <5>1
        <5>. QED
          BY <5>2 DEF OneLine
      <4>. HIDE DEF Has, D
      <4>. QED
        BY <4>1
    <3>5. FlattenSeq(s) = FlattenSeq(t) \o e
      BY <3>1, <3>4, FlattenAppend
    <3>. QED
      BY <2>3, <3>3, <3>5, ClosedAppend
  <2>. QED
    BY <2>4, <2>5
<1>2. Has(seqs)
  <2>. HIDE DEF Has
  <2>1. Len(seqs) \in Nat
    OBVIOUS
  <2>. QED
    BY <1>1, <2>1
<1>. QED
  BY <1>2

(* A document is a sequence of units, one to a line. *)
LEMMA DocumentsLined ==
    ASSUME NEW d \in Documents
    PROVE  d \in Seq(Unit) /\ Lined(d)
<1>1. PICK n \in 1 .. MaxLines :
        \E lines \in [1 .. n -> Lines] : \E t \in BOOLEAN : d = Units(lines, t)
  BY DEF Documents
<1>. PICK lines \in [1 .. n -> Lines], t \in BOOLEAN : d = Units(lines, t)
  BY <1>1
<1>. DEFINE seqs == [i \in DOMAIN lines |-> UnitsOf(lines[i])]
            all  == FlattenSeq(seqs)
<1>2. d = IF t THEN all ELSE Front(all)
  BY DEF Units
<1>3. seqs \in Seq(OneLine)
  <2>1. n \in Nat /\ DOMAIN lines = 1 .. n
    BY BoundsAssumption
  <2>2. \A i \in 1 .. n : UnitsOf(lines[i]) \in OneLine
    BY DEF UnitsOf, OneLine
  <2>. QED
    BY <2>1, <2>2, IsASeq
<1>. HIDE DEF seqs
<1>4. all \in Seq(Unit) /\ Closed(all)
  BY <1>3, LinesClosed
<1>. HIDE DEF all
<1>5. CASE t
  <2>1. d = all
    BY <1>2, <1>5
  <2>. QED
    BY <1>4, <2>1 DEF Closed, Lined
<1>6. CASE ~t
  <2>1. d = SubSeq(all, 1, Len(all) - 1)
    BY <1>2, <1>6 DEF Front
  <2>2. /\ d \in Seq(Unit) /\ Len(d) <= Len(all) /\ Len(d) \in Nat /\ Len(all) \in Nat
        /\ \A i \in 1 .. Len(d) : d[i] = all[i]
    <3>1. CASE all = << >>
      BY <1>4, <2>1, <3>1
    <3>2. CASE all # << >>
      <4>1. Len(all) - 1 \in Nat /\ Len(all) \in Nat
        BY <1>4, <3>2
      <4>. QED
        BY <1>4, <2>1, <4>1
    <3>. QED
      BY <3>1, <3>2
  <2>3. ASSUME NEW i \in 1 .. Len(d) - 1, d[i] # "nl"
        PROVE  d[i + 1] = "nl"
    <3>1. i \in 1 .. Len(d) /\ i + 1 \in 1 .. Len(d) /\ i \in 1 .. Len(all)
      BY <2>2
    <3>. QED
      BY <1>4, <2>2, <2>3, <3>1 DEF Closed
  <2>. QED
    BY <2>2, <2>3 DEF Lined
<1>. QED
  BY <1>5, <1>6

-----------------------------------------------------------------------------
(* Front matter.  The parts of Decide, for the units u of a probe. *)

Ends(u)      == {i \in DOMAIN u : u[i] = "nl"}
KindOf(u, e) == IF e > 1 /\ u[e - 1] # "nl" THEN u[e - 1] ELSE "blank"
First(u)     == Min(Ends(u))
Second(u)    == Min(Ends(u) \ {First(u)})
Closes(u)    == {e \in Ends(u) : /\ e > Second(u)
                                 /\ Fence(KindOf(u, e)) = Fence(KindOf(u, First(u)))}

(* The units Decide looks at. *)
Seen(p, eof) == IF eof THEN p \o <<"nl", "nl">> ELSE p

(* Decide in these terms. *)
LEMMA DecideIs ==
    ASSUME NEW p, NEW eof \in BOOLEAN
    PROVE  Decide(p, eof) =
             IF ~eof /\ ~(p = << >> \/ Fence(p[1]) # "none") THEN {0}
             ELSE IF Ends(Seen(p, eof)) = {} THEN {}
             ELSE IF Fence(KindOf(Seen(p, eof), First(Seen(p, eof)))) = "none" THEN {0}
             ELSE IF Ends(Seen(p, eof)) = {First(Seen(p, eof))} THEN {}
             ELSE IF ~IsMetadataLikely(KindOf(Seen(p, eof), Second(Seen(p, eof)))) THEN {0}
             ELSE IF Closes(Seen(p, eof)) # {}
                  THEN {Min({Min(Closes(Seen(p, eof))), Len(p)})}
             ELSE IF eof THEN {0} ELSE {}
  BY DEF Decide, Seen, Ends, KindOf, First, Second, Closes

(* An empty line is no fence. *)
LEMMA FenceOf == Fence("nl") = "none" /\ Fence("blank") = "none"
  BY DEF Fence

(* Ends are positions. *)
LEMMA EndsAreNumbers ==
    \A u \in Seq(Unit) : /\ Ends(u) \in SUBSET Nat /\ Ends(u) \in SUBSET (1 .. Len(u))
                         /\ Len(u) \in Nat
                         /\ \A i \in 1 .. Len(u) : i \in Ends(u) <=> u[i] = "nl"
  BY DEF Ends

(* The end of the first line, when it begins with anything but a newline. *)
LEMMA FirstLine ==
    ASSUME NEW u \in Seq(Unit), Lined(u), Len(u) >= 1, u[1] # "nl"
    PROVE  /\ Len(u) = 1 => Ends(u) = {}
           /\ Len(u) >= 2 => /\ 2 \in Ends(u) /\ First(u) = 2 /\ KindOf(u, First(u)) = u[1]
                             /\ 1 \notin Ends(u)
<1>1. /\ Ends(u) \in SUBSET Nat /\ Ends(u) \in SUBSET (1 .. Len(u)) /\ Len(u) \in Nat
      /\ \A i \in 1 .. Len(u) : i \in Ends(u) <=> u[i] = "nl"
  BY EndsAreNumbers
<1>2. 1 \notin Ends(u)
  BY <1>1
<1>3. CASE Len(u) = 1
  BY <1>1, <1>2, <1>3
<1>4. CASE Len(u) >= 2
  <2>1. u[2] = "nl"
    <3>1. 1 \in 1 .. Len(u) - 1
      BY <1>1, <1>4
    <3>. QED
      BY <3>1 DEF Lined
  <2>2. 2 \in Ends(u)
    BY <1>1, <1>4, <2>1
  <2>3. \A x \in Ends(u) : 2 <= x
    BY <1>1, <1>2
  <2>4. First(u) = 2
    BY <1>1, <2>2, <2>3, MinIs DEF First
  <2>5. KindOf(u, 2) = u[1]
    <3>1. 2 - 1 = 1 /\ 2 > 1
      OBVIOUS
    <3>. QED
      BY <3>1, Zenon DEF KindOf
  <2>. QED
    BY <1>1, <1>2, <1>4, <2>2, <2>4, <2>5
<1>. QED
  BY <1>1, <1>3, <1>4

(* The end of the second line, which may be blank. *)
LEMMA SecondLine ==
    ASSUME NEW u \in Seq(Unit), Lined(u), Len(u) >= 2, u[1] # "nl"
    PROVE  /\ Len(u) = 2 => Ends(u) = {2}
           /\ Len(u) = 3 /\ u[3] # "nl" => Ends(u) = {2}
           /\ Len(u) >= 3 /\ u[3] = "nl" =>
                3 \in Ends(u) /\ Second(u) = 3 /\ KindOf(u, Second(u)) = "blank"
           /\ Len(u) >= 4 /\ u[3] # "nl" =>
                4 \in Ends(u) /\ Second(u) = 4 /\ KindOf(u, Second(u)) = u[3]
<1>1. /\ Ends(u) \in SUBSET Nat /\ Ends(u) \in SUBSET (1 .. Len(u)) /\ Len(u) \in Nat
      /\ \A i \in 1 .. Len(u) : i \in Ends(u) <=> u[i] = "nl"
  BY EndsAreNumbers
<1>2. 2 \in Ends(u) /\ First(u) = 2 /\ 1 \notin Ends(u) /\ u[2] = "nl"
  BY <1>1, FirstLine
<1>. DEFINE later == Ends(u) \ {2}
<1>3. later \in SUBSET Nat /\ Second(u) = Min(later)
  BY <1>1, <1>2 DEF Second
<1>4. CASE Len(u) = 2
  BY <1>1, <1>2, <1>4
<1>5. CASE Len(u) = 3 /\ u[3] # "nl"
  <2>1. 3 \notin Ends(u)
    BY <1>1, <1>5
  <2>. QED
    BY <1>1, <1>2, <1>5, <2>1
<1>6. CASE Len(u) >= 3 /\ u[3] = "nl"
  <2>1. 3 \in later
    BY <1>1, <1>6
  <2>2. \A x \in later : 3 <= x
    BY <1>1, <1>2
  <2>3. Second(u) = 3
    <3>. HIDE DEF later
    <3>. QED
      BY <1>3, <2>1, <2>2, MinIs
  <2>. QED
    BY <1>2, <1>6, <2>1, <2>3 DEF KindOf
<1>7. CASE Len(u) >= 4 /\ u[3] # "nl"
  <2>1. u[4] = "nl"
    <3>1. 3 \in 1 .. Len(u) - 1
      BY <1>1, <1>7
    <3>. QED
      BY <1>7, <3>1 DEF Lined
  <2>2. 4 \in later /\ 3 \notin later
    BY <1>1, <1>7, <2>1
  <2>3. \A x \in later : 4 <= x
    BY <1>1, <1>2, <2>2
  <2>4. Second(u) = 4
    <3>. HIDE DEF later
    <3>. QED
      BY <1>3, <2>2, <2>3, MinIs
  <2>5. KindOf(u, 4) = u[3]
    <3>1. 4 - 1 = 3 /\ 4 > 1
      OBVIOUS
    <3>. QED
      BY <1>7, <3>1, Zenon DEF KindOf
  <2>. QED
    BY <1>1, <1>7, <2>2, <2>4, <2>5
<1>. QED
  BY <1>4, <1>5, <1>6, <1>7

(* The lines after the second that may close the front matter, by the        *)
(* positions of their fences.                                                *)
FencesTo(u, n) == {q \in 5 .. n : Fence(u[q]) = Fence(u[1])}

(* What may close the front matter are the fences after the second line. *)
LEMMA ClosesAre ==
    ASSUME NEW u \in Seq(Unit), Lined(u), Len(u) >= 4, u[1] # "nl", u[3] # "nl",
           Fence(u[1]) # "none"
    PROVE  /\ Closes(u) = {} <=> FencesTo(u, Len(u) - 1) = {}
           /\ FencesTo(u, Len(u) - 1) # {} =>
                Min(Closes(u)) = Min(FencesTo(u, Len(u) - 1)) + 1
<1>1. /\ Ends(u) \in SUBSET Nat /\ Ends(u) \in SUBSET (1 .. Len(u)) /\ Len(u) \in Nat
      /\ \A i \in 1 .. Len(u) : i \in Ends(u) <=> u[i] = "nl"
  BY EndsAreNumbers
<1>2. First(u) = 2 /\ KindOf(u, First(u)) = u[1] /\ Second(u) = 4 /\ 4 \in Ends(u)
  BY <1>1, FirstLine, SecondLine
<1>. DEFINE F == FencesTo(u, Len(u) - 1)
            C == Closes(u)
<1>3. C = {e \in Ends(u) : e > 4 /\ Fence(KindOf(u, e)) = Fence(u[1])}
  BY <1>2 DEF Closes
<1>4. F \in SUBSET Nat /\ C \in SUBSET Nat
  BY <1>1, <1>3 DEF FencesTo
<1>5. ASSUME NEW q \in F
      PROVE  q + 1 \in C
  <2>1. q \in 1 .. Len(u) - 1 /\ q > 4 /\ Fence(u[q]) = Fence(u[1])
    BY <1>1 DEF FencesTo
  <2>2. u[q] # "nl"
    BY <2>1, FenceOf
  <2>3. u[q + 1] = "nl"
    BY <2>1, <2>2 DEF Lined
  <2>4. q + 1 \in Ends(u)
    BY <1>1, <2>1, <2>3
  <2>5. KindOf(u, q + 1) = u[q]
    BY <2>1, <2>2 DEF KindOf
  <2>. QED
    BY <1>3, <2>1, <2>4, <2>5
<1>6. ASSUME NEW e \in C
      PROVE  e - 1 \in F
  <2>1. e \in Ends(u) /\ e \in 1 .. Len(u) /\ e > 4 /\ Fence(KindOf(u, e)) = Fence(u[1])
    BY <1>1, <1>3
  <2>2. u[e - 1] # "nl" /\ KindOf(u, e) = u[e - 1]
    BY <2>1, FenceOf DEF KindOf
  <2>3. e - 1 # 4
    BY <1>1, <1>2, <2>2
  <2>4. e - 1 \in 5 .. Len(u) - 1
    BY <1>1, <2>1, <2>3
  <2>. QED
    BY <2>1, <2>2, <2>4 DEF FencesTo
<1>. HIDE DEF F, C
<1>7. C = {} <=> F = {}
  BY <1>5, <1>6
<1>8. ASSUME F # {}
      PROVE  Min(C) = Min(F) + 1
  <2>1. Min(F) \in F /\ \A q \in F : Min(F) <= q
    BY <1>4, <1>8, MinOf
  <2>2. Min(F) + 1 \in C
    BY <1>5, <2>1
  <2>3. ASSUME NEW e \in C
        PROVE  Min(F) + 1 <= e
    <3>1. Min(F) <= e - 1
      BY <1>6, <2>1
    <3>2. e \in Nat /\ Min(F) \in Nat
      BY <1>4, <2>1
    <3>. QED
      BY <3>1, <3>2
  <2>. QED
    BY <1>4, <2>2, <2>3, MinIs
<1>. QED
  BY <1>7, <1>8 DEF F, C

(* Where the front matter of a document may close. *)
Closing == {q \in FencesTo(source, Len(source)) : Len(source) <= MaxProbe \/ q < MaxProbe}

Opens == /\ Len(source) >= 3
         /\ Fence(source[1]) # "none"
         /\ source[3] # "nl" /\ IsMetadataLikely(source[3])

(* Where the lines of a document start. *)
LEMMA SourceStarts ==
    ASSUME source \in Seq(Unit), Lined(source)
    PROVE  /\ Starts \in SUBSET Nat /\ Starts \in SUBSET (1 .. Len(source))
           /\ Len(source) >= 1 => 1 \in Starts
           /\ \A p \in 2 .. Len(source) : p \in Starts <=> source[p - 1] = "nl"
           /\ \A p \in 1 .. Len(source) : source[p] # "nl" => p \in Starts
<1>1. Len(source) \in Nat
  OBVIOUS
<1>2. Starts \in SUBSET Nat /\ Starts \in SUBSET (1 .. Len(source))
  BY <1>1 DEF Starts
<1>3. Len(source) >= 1 => 1 \in Starts
  BY <1>1 DEF Starts
<1>4. \A p \in 2 .. Len(source) : p \in Starts <=> source[p - 1] = "nl"
  BY <1>1 DEF Starts
<1>5. ASSUME NEW p \in 1 .. Len(source), source[p] # "nl"
      PROVE  p \in Starts
  <2>1. CASE p = 1
    BY <1>1, <1>3, <2>1
  <2>2. CASE p # 1
    <3>1. p - 1 \in 1 .. Len(source) - 1 /\ p \in 2 .. Len(source) /\ (p - 1) + 1 = p
      BY <1>1, <2>2
    <3>2. source[p - 1] = "nl"
      BY <1>5, <3>1 DEF Lined
    <3>. QED
      BY <1>4, <3>1, <3>2
  <2>. QED
    BY <2>1, <2>2
<1>. QED
  BY <1>2, <1>3, <1>4, <1>5

(* The end of a line that begins with anything but a newline. *)
LEMMA EndOfLine ==
    ASSUME source \in Seq(Unit), Lined(source),
           NEW p \in 1 .. Len(source), source[p] # "nl"
    PROVE  /\ EndOf(p) = IF p < Len(source) THEN p + 1 ELSE Len(source)
           /\ Terminated(p) <=> p < Len(source)
<1>. DEFINE N == {q \in p .. Len(source) : source[q] = "nl"}
<1>1. /\ Len(source) \in Nat /\ N \cup {Len(source)} \in SUBSET Nat
      /\ EndOf(p) = Min(N \cup {Len(source)})
  BY DEF EndOf
<1>2. CASE p < Len(source)
  <2>1. source[p + 1] = "nl"
    <3>1. p \in 1 .. Len(source) - 1
      BY <1>1, <1>2
    <3>. QED
      BY <3>1 DEF Lined
  <2>2. p + 1 \in N \cup {Len(source)}
    BY <1>1, <1>2, <2>1
  <2>3. \A x \in N \cup {Len(source)} : p + 1 <= x
    BY <1>1, <1>2
  <2>4. EndOf(p) = p + 1
    <3>. HIDE DEF N
    <3>. QED
      BY <1>1, <2>2, <2>3, MinIs
  <2>. QED
    BY <1>2, <2>1, <2>4 DEF Terminated
<1>3. CASE ~(p < Len(source))
  <2>1. p = Len(source)
    BY <1>1, <1>3
  <2>2. Len(source) \in N \cup {Len(source)} /\ \A x \in N \cup {Len(source)} : Len(source) <= x
    BY <1>1, <2>1
  <2>3. EndOf(p) = Len(source)
    <3>. HIDE DEF N
    <3>. QED
      BY <1>1, <2>2, MinIs
  <2>. QED
    BY <1>3, <2>1, <2>3 DEF Terminated
<1>. QED
  BY <1>2, <1>3

(* What a document has of front matter, by the positions of its fences. *)
LEMMA FrontMatterIs ==
    ASSUME source \in Seq(Unit), Lined(source)
    PROVE  FrontMatterEnd =
             IF Opens /\ Closing # {}
             THEN IF Min(Closing) < Len(source) THEN Min(Closing) + 1 ELSE Len(source)
             ELSE 0
<1>. DEFINE L      == Len(source)
            second == Min(Starts \ {1})
            closes == {p \in Starts : /\ p > second
                                      /\ Fence(KindAt(p)) = Fence(KindAt(1))
                                      /\ \/ Len(source) <= MaxProbe
                                         \/ Terminated(p) /\ EndOf(p) <= MaxProbe}
<1>1. /\ L \in Nat /\ MaxProbe \in Nat
      /\ Starts \in SUBSET Nat /\ Starts \in SUBSET (1 .. L)
      /\ L >= 1 => 1 \in Starts
      /\ \A p \in 2 .. L : p \in Starts <=> source[p - 1] = "nl"
      /\ \A p \in 1 .. L : source[p] # "nl" => p \in Starts
  BY SourceStarts, BoundsAssumption
<1>2. FrontMatterEnd = IF /\ Starts \ {1} # {} /\ Fence(KindAt(1)) # "none"
                          /\ IsMetadataLikely(KindAt(second)) /\ closes # {}
                       THEN EndOf(Min(closes)) ELSE 0
  BY DEF FrontMatterEnd
<1>. HIDE DEF closes, second
<1>3. KindAt(1) = (IF source[1] = "nl" THEN "blank" ELSE source[1])
      /\ Fence(KindAt(1)) = Fence(source[1])
  BY FenceOf DEF KindAt
<1>4. CASE ~Opens
  <2>1. SUFFICES ASSUME Starts \ {1} # {}, Fence(KindAt(1)) # "none",
                        IsMetadataLikely(KindAt(second))
                 PROVE  FALSE
    BY <1>2, <1>4
  <2>2. source[1] # "nl"
    BY <1>3, <2>1, FenceOf
  <2>3. PICK p \in Starts : p # 1
    BY <2>1
  <2>4. p \in 2 .. L /\ p # 2
    <3>1. p \in 2 .. L
      BY <1>1, <2>3
    <3>2. p = 2 => source[1] = "nl"
      <4>1. 2 - 1 = 1
        OBVIOUS
      <4>. QED
        BY <1>1, <3>1, <4>1
    <3>. QED
      BY <2>2, <3>1, <3>2
  <2>5. L >= 3
    BY <1>1, <2>4
  <2>6. second = 3
    <3>1. source[2] = "nl"
      <4>1. 1 \in 1 .. L - 1 /\ 1 + 1 = 2
        BY <1>1, <2>5
      <4>. QED
        BY <2>2, <4>1 DEF Lined
    <3>2. 3 \in Starts \ {1} /\ 2 \notin Starts
      <4>1. 3 \in 2 .. L /\ 3 - 1 = 2 /\ 2 \in 2 .. L /\ 2 - 1 = 1
        BY <1>1, <2>5
      <4>. QED
        BY <1>1, <2>2, <3>1, <4>1
    <3>3. \A x \in Starts \ {1} : 3 <= x
      BY <1>1, <3>2
    <3>4. Starts \ {1} \in SUBSET Nat
      BY <1>1
    <3>. QED
      BY <3>2, <3>3, <3>4, MinIs DEF second
  <2>7. source[3] # "nl" /\ IsMetadataLikely(source[3])
    BY <2>1, <2>6 DEF KindAt, IsMetadataLikely
  <2>. QED
    BY <1>3, <1>4, <2>1, <2>5, <2>7 DEF Opens
<1>5. CASE Opens
  <2>1. /\ L >= 3 /\ Fence(source[1]) # "none" /\ source[3] # "nl"
        /\ IsMetadataLikely(source[3]) /\ source[1] # "nl"
    BY <1>5, FenceOf DEF Opens
  <2>2. second = 3 /\ Starts \ {1} # {}
    <3>1. source[2] = "nl"
      <4>1. 1 \in 1 .. L - 1 /\ 1 + 1 = 2
        BY <1>1, <2>1
      <4>. QED
        BY <2>1, <4>1 DEF Lined
    <3>2. 3 \in Starts \ {1} /\ 2 \notin Starts
      <4>1. 3 \in 2 .. L /\ 3 - 1 = 2 /\ 2 \in 2 .. L /\ 2 - 1 = 1
        BY <1>1, <2>1
      <4>. QED
        BY <1>1, <2>1, <3>1, <4>1
    <3>3. \A x \in Starts \ {1} : 3 <= x
      BY <1>1, <3>2
    <3>4. Starts \ {1} \in SUBSET Nat
      BY <1>1
    <3>. QED
      BY <3>2, <3>3, <3>4, MinIs DEF second
  <2>3. IsMetadataLikely(KindAt(second)) /\ Fence(KindAt(1)) # "none"
    BY <1>3, <2>1, <2>2 DEF KindAt
  <2>4. closes = Closing
    <3>1. ASSUME NEW p \in closes
          PROVE  p \in Closing
      <4>1. /\ p \in Starts /\ p > 3 /\ Fence(KindAt(p)) = Fence(source[1])
            /\ \/ L <= MaxProbe
               \/ Terminated(p) /\ EndOf(p) <= MaxProbe
        BY <1>3, <2>2 DEF closes
      <4>2. p \in 1 .. L /\ source[p] # "nl" /\ KindAt(p) = source[p]
        BY <1>1, <2>1, <4>1, FenceOf DEF KindAt
      <4>3. p # 4
        <5>1. CASE L >= 4
          <6>1. 3 \in 1 .. L - 1 /\ 3 + 1 = 4
            BY <1>1, <5>1
          <6>. QED
            BY <2>1, <4>2, <6>1 DEF Lined
        <5>2. CASE ~(L >= 4)
          BY <1>1, <4>2, <5>2
        <5>. QED
          BY <5>1, <5>2
      <4>4. p \in FencesTo(source, L)
        BY <1>1, <4>1, <4>2, <4>3 DEF FencesTo
      <4>5. L <= MaxProbe \/ p < MaxProbe
        <5>1. SUFFICES ASSUME Terminated(p), EndOf(p) <= MaxProbe
                       PROVE  p < MaxProbe
          BY <4>1
        <5>2. EndOf(p) = p + 1
          BY <4>2, <5>1, EndOfLine
        <5>. QED
          BY <1>1, <4>2, <5>1, <5>2
      <4>. QED
        BY <4>4, <4>5 DEF Closing
    <3>2. ASSUME NEW q \in Closing
          PROVE  q \in closes
      <4>1. /\ q \in 5 .. L /\ Fence(source[q]) = Fence(source[1])
            /\ L <= MaxProbe \/ q < MaxProbe
        BY DEF Closing, FencesTo
      <4>2. source[q] # "nl" /\ KindAt(q) = source[q] /\ q \in 1 .. L /\ q > 3
        BY <1>1, <2>1, <4>1, FenceOf DEF KindAt
      <4>3. q \in Starts
        BY <1>1, <4>2
      <4>4. L <= MaxProbe \/ (Terminated(q) /\ EndOf(q) <= MaxProbe)
        <5>1. SUFFICES ASSUME ~(L <= MaxProbe)
                       PROVE  Terminated(q) /\ EndOf(q) <= MaxProbe
          OBVIOUS
        <5>2. q < L /\ q < MaxProbe
          BY <1>1, <4>1, <5>1
        <5>3. EndOf(q) = q + 1 /\ Terminated(q)
          BY <4>2, <5>2, EndOfLine
        <5>. QED
          BY <1>1, <4>2, <5>2, <5>3
      <4>. QED
        BY <1>3, <2>2, <4>1, <4>2, <4>3, <4>4 DEF closes
    <3>. QED
      BY <3>1, <3>2
  <2>5. CASE Closing = {}
    BY <1>2, <2>4, <2>5
  <2>6. CASE Closing # {}
    <3>1. Closing \in SUBSET Nat /\ Min(Closing) \in Closing
      <4>1. Closing \in SUBSET Nat
        BY <1>1 DEF Closing, FencesTo
      <4>. QED
        BY <2>6, <4>1, MinOf
    <3>2. Min(Closing) \in 1 .. L /\ source[Min(Closing)] # "nl"
      BY <1>1, <2>1, <3>1, FenceOf DEF Closing, FencesTo
    <3>3. EndOf(Min(Closing)) = IF Min(Closing) < L THEN Min(Closing) + 1 ELSE L
      BY <3>2, EndOfLine
    <3>. QED
      BY <1>2, <1>5, <2>2, <2>3, <2>4, <2>6, <3>3
  <2>. QED
    BY <2>5, <2>6
<1>. QED
  BY <1>4, <1>5

(* At the end of the input Decide sees a probe, and an empty line after it. *)
LEMMA SeenType ==
    ASSUME NEW p \in Seq(Unit), Lined(p), NEW eof \in BOOLEAN
    PROVE  /\ Seen(p, eof) \in Seq(Unit) /\ Lined(Seen(p, eof))
           /\ Len(Seen(p, eof)) = Len(p) + (IF eof THEN 2 ELSE 0)
           /\ \A i \in 1 .. Len(p) : Seen(p, eof)[i] = p[i]
           /\ eof => Seen(p, eof)[Len(p) + 1] = "nl" /\ Seen(p, eof)[Len(p) + 2] = "nl"
<1>1. CASE ~eof
  BY <1>1 DEF Seen
<1>2. CASE eof
  <2>. DEFINE t == <<"nl", "nl">>
              u == p \o t
  <2>1. t \in Seq(Unit) /\ Len(t) = 2 /\ t[1] = "nl" /\ t[2] = "nl"
    BY DEF Unit
  <2>2. /\ u \in Seq(Unit) /\ Len(u) = Len(p) + 2 /\ Len(p) \in Nat
        /\ \A i \in 1 .. Len(p) + 2 : u[i] = IF i <= Len(p) THEN p[i] ELSE t[i - Len(p)]
    <3>. HIDE DEF t
    <3>1. /\ u \in Seq(Unit) /\ Len(u) = Len(p) + Len(t) /\ Len(p) \in Nat
          /\ \A i \in 1 .. Len(p) + Len(t) : u[i] = IF i <= Len(p) THEN p[i] ELSE t[i - Len(p)]
      BY <2>1, ConcatProperties
    <3>. QED
      BY <2>1, <3>1
  <2>. HIDE DEF u
  <2>3. /\ \A i \in 1 .. Len(p) : u[i] = p[i]
        /\ u[Len(p) + 1] = "nl" /\ u[Len(p) + 2] = "nl"
    <3>. HIDE DEF t
    <3>1. \A i \in 1 .. Len(p) : u[i] = p[i]
      BY <2>2
    <3>2. /\ Len(p) + 1 \in 1 .. Len(p) + 2 /\ ~(Len(p) + 1 <= Len(p))
          /\ (Len(p) + 1) - Len(p) = 1
      BY <2>2
    <3>3. /\ Len(p) + 2 \in 1 .. Len(p) + 2 /\ ~(Len(p) + 2 <= Len(p))
          /\ (Len(p) + 2) - Len(p) = 2
      BY <2>2
    <3>. QED
      BY <2>1, <2>2, <3>1, <3>2, <3>3
  <2>4. ASSUME NEW i \in 1 .. Len(u) - 1, u[i] # "nl"
        PROVE  u[i + 1] = "nl"
    <3>1. CASE i < Len(p)
      <4>1. i \in 1 .. Len(p) - 1 /\ i \in 1 .. Len(p) /\ i + 1 \in 1 .. Len(p)
        BY <2>2, <3>1
      <4>. QED
        BY <2>3, <2>4, <4>1 DEF Lined
    <3>2. CASE i = Len(p)
      BY <2>3, <3>2
    <3>3. CASE i > Len(p)
      <4>1. i = Len(p) + 1
        BY <2>2, <3>3
      <4>. QED
        BY <2>3, <2>4, <4>1
    <3>. QED
      BY <2>2, <3>1, <3>2, <3>3
  <2>5. Seen(p, eof) = u
    BY <1>2 DEF Seen, u
  <2>. QED
    BY <1>2, <2>2, <2>3, <2>4, <2>5 DEF Lined
<1>. QED
  BY <1>1, <1>2

(* What Decide says of a probe of which it sees u, in the terms of            *)
(* FrontMatterIs.                                                            *)
Says(u, n, eof) ==
    IF Fence(u[1]) = "none" THEN {0}
    ELSE IF Len(u) < 3 \/ (Len(u) = 3 /\ u[3] # "nl") THEN {}
    ELSE IF ~IsMetadataLikely(u[3]) THEN {0}
    ELSE IF FencesTo(u, Len(u) - 1) # {} THEN {Min({Min(FencesTo(u, Len(u) - 1)) + 1, n})}
    ELSE IF eof THEN {0} ELSE {}

(* A decision is made by the first unit, the third and the fences after it. *)
LEMMA Verdict ==
    ASSUME NEW p \in Seq(Unit), Lined(p), Len(p) >= 1, NEW eof \in BOOLEAN
    PROVE  Decide(p, eof) = Says(Seen(p, eof), Len(p), eof)
<1>. DEFINE u == Seen(p, eof)
<1>1. /\ u \in Seq(Unit) /\ Lined(u) /\ Len(p) \in Nat
      /\ Len(u) = Len(p) + (IF eof THEN 2 ELSE 0)
      /\ u[1] = p[1] /\ Len(u) \in Nat
      /\ eof => u[Len(p) + 1] = "nl"
  <2>1. 1 \in 1 .. Len(p)
    OBVIOUS
  <2>2. Len(p) \in Nat
    OBVIOUS
  <2>. QED
    BY <2>1, <2>2, SeenType
<1>2. Len(u) \in Nat /\ Len(u) >= 1 /\ (eof => Len(u) >= 3)
  <2>1. CASE eof
    <3>1. Len(u) = Len(p) + 2
      BY <1>1, <2>1
    <3>2. Len(u) >= 3
      BY <1>1, <3>1
    <3>. QED
      BY <1>1, <3>2
  <2>2. CASE ~eof
    <3>1. Len(u) = Len(p)
      BY <1>1, <2>2
    <3>. QED
      BY <1>1, <2>2, <3>1
  <2>. QED
    BY <2>1, <2>2
<1>3. p # << >>
  OBVIOUS
<1>4. Decide(p, eof) =
        IF ~eof /\ Fence(p[1]) = "none" THEN {0}
        ELSE IF Ends(u) = {} THEN {}
        ELSE IF Fence(KindOf(u, First(u))) = "none" THEN {0}
        ELSE IF Ends(u) = {First(u)} THEN {}
        ELSE IF ~IsMetadataLikely(KindOf(u, Second(u))) THEN {0}
        ELSE IF Closes(u) # {} THEN {Min({Min(Closes(u)), Len(p)})}
        ELSE IF eof THEN {0} ELSE {}
  BY <1>3, DecideIs
<1>. HIDE DEF u
<1>. SUFFICES Decide(p, eof) = Says(u, Len(p), eof)
  BY DEF u
<1>7. Len(u) \in Nat /\ Len(u) >= 1
  BY <1>2
<1>8. \A n \in Nat : /\ n >= 4 => ~(n < 3) /\ ~(n = 3)
                     /\ n >= 2 => n = 2 \/ n = 3 \/ n >= 4
                     /\ n = 3 \/ n >= 4 => n >= 3
                     /\ n >= 1 => n = 1 \/ n >= 2
  OBVIOUS
<1>5. CASE Fence(p[1]) = "none"
  <2>1. CASE ~eof
    BY <1>1, <1>4, <1>5, <2>1 DEF Says
  <2>2. CASE eof /\ p[1] = "nl"
    <3>1. Ends(u) \in SUBSET Nat /\ 1 \in Ends(u) /\ \A x \in Ends(u) : 1 <= x
      BY <1>1, <1>2, <2>2, EndsAreNumbers
    <3>2. First(u) = 1
      BY <3>1, MinIs DEF First
    <3>3. KindOf(u, First(u)) = "blank"
      BY <3>2 DEF KindOf
    <3>. QED
      BY <1>1, <1>4, <1>5, <2>2, <3>1, <3>3, FenceOf DEF Says
  <2>3. CASE eof /\ p[1] # "nl"
    <3>1. 2 \in Ends(u) /\ KindOf(u, First(u)) = p[1]
      BY <1>1, <1>2, <2>3, FirstLine
    <3>. QED
      BY <1>1, <1>4, <1>5, <2>3, <3>1 DEF Says
  <2>. QED
    BY <2>1, <2>2, <2>3
<1>6. CASE Fence(p[1]) # "none"
  <2>1. u[1] # "nl"
    BY <1>1, <1>6, FenceOf
  <2>2. CASE Len(u) = 1
    BY <1>1, <1>4, <1>6, <2>1, <2>2, FirstLine DEF Says
  <2>3. CASE Len(u) >= 2
    <3>1. 2 \in Ends(u) /\ First(u) = 2 /\ KindOf(u, First(u)) = p[1] /\ Ends(u) # {}
      BY <1>1, <2>1, <2>3, FirstLine
    <3>2. CASE Len(u) = 2 \/ (Len(u) = 3 /\ u[3] # "nl")
      <4>1. Ends(u) = {2}
        BY <1>1, <2>1, <2>3, <3>2, SecondLine
      <4>. QED
        BY <1>1, <1>4, <1>6, <3>1, <3>2, <4>1 DEF Says
    <3>3. CASE Len(u) >= 3 /\ u[3] = "nl"
      <4>1. 3 \in Ends(u) /\ KindOf(u, Second(u)) = "blank"
        BY <1>1, <2>1, <2>3, <3>3, SecondLine
      <4>2. Ends(u) # {First(u)} /\ ~IsMetadataLikely("blank") /\ ~IsMetadataLikely(u[3])
        BY <3>1, <3>3, <4>1 DEF IsMetadataLikely
      <4>. QED
        BY <1>1, <1>4, <1>6, <3>1, <3>3, <4>1, <4>2 DEF Says
    <3>4. CASE Len(u) >= 4 /\ u[3] # "nl"
      <4>1. 4 \in Ends(u) /\ KindOf(u, Second(u)) = u[3]
        BY <1>1, <2>1, <2>3, <3>4, SecondLine
      <4>2. Ends(u) # {First(u)}
        BY <3>1, <4>1
      <4>3. /\ Closes(u) = {} <=> FencesTo(u, Len(u) - 1) = {}
            /\ FencesTo(u, Len(u) - 1) # {} =>
                 Min(Closes(u)) = Min(FencesTo(u, Len(u) - 1)) + 1
        BY <1>1, <1>6, <2>1, <3>4, ClosesAre
      <4>4. ~(Len(u) < 3) /\ ~(Len(u) = 3)
        <5>1. Len(u) >= 4
          BY <3>4
        <5>. QED
          BY <1>7, <1>8, <5>1, Zenon
      <4>5. Decide(p, eof) =
              IF ~IsMetadataLikely(u[3]) THEN {0}
              ELSE IF Closes(u) # {} THEN {Min({Min(Closes(u)), Len(p)})}
              ELSE IF eof THEN {0} ELSE {}
        BY <1>4, <1>6, <3>1, <4>1, <4>2
      <4>. QED
        BY <1>1, <1>6, <4>3, <4>4, <4>5 DEF Says
    <3>5. Len(u) = 2 \/ Len(u) = 3 \/ Len(u) >= 4
      BY <1>7, <1>8, <2>3, Zenon
    <3>6. Len(u) = 3 \/ Len(u) >= 4 => Len(u) >= 3
      BY <1>7, <1>8, Zenon
    <3>. QED
      BY <3>2, <3>3, <3>4, <3>5, <3>6, Zenon
  <2>4. Len(u) = 1 \/ Len(u) >= 2
    BY <1>7, <1>8, Zenon
  <2>. QED
    BY <2>2, <2>3, <2>4, Zenon
<1>. QED
  BY <1>5, <1>6

(* A probe is a document's beginning. *)
LEMMA PrefixIs ==
    ASSUME source \in Seq(Unit), Lined(source), NEW k \in 1 .. Len(source)
    PROVE  /\ SubSeq(source, 1, k) \in Seq(Unit) /\ Lined(SubSeq(source, 1, k))
           /\ Len(SubSeq(source, 1, k)) = k
           /\ \A i \in 1 .. k : SubSeq(source, 1, k)[i] = source[i]
<1>. DEFINE p == SubSeq(source, 1, k)
<1>1. k \in Nat /\ Len(source) \in Nat /\ 1 <= k /\ k <= Len(source)
  OBVIOUS
<1>2. p \in Seq(Unit) /\ Len(p) = k /\ \A i \in 1 .. k : p[i] = source[i]
  OBVIOUS
<1>. HIDE DEF p
<1>3. Lined(p)
  <2>. SUFFICES ASSUME NEW i \in 1 .. k - 1, p[i] # "nl"
                PROVE  p[i + 1] = "nl"
    BY <1>2 DEF Lined
  <2>1. i \in 1 .. Len(source) - 1 /\ i \in 1 .. k /\ i + 1 \in 1 .. k
    BY <1>1
  <2>. QED
    BY <1>2, <2>1 DEF Lined
<1>. QED
  BY <1>2, <1>3 DEF p

(* What is decided early is what the whole document has. *)
LEMMA DecidedEarly ==
    ASSUME source \in Seq(Unit), Lined(source), NEW k \in 1 .. Len(source), k <= MaxProbe,
           NEW j \in Decide(SubSeq(source, 1, k), FALSE)
    PROVE  j = FrontMatterEnd /\ j <= k
<1>. DEFINE p == SubSeq(source, 1, k)
<1>1. /\ p \in Seq(Unit) /\ Lined(p) /\ Len(p) = k
      /\ \A i \in 1 .. k : p[i] = source[i]
  BY PrefixIs
<1>2. k \in Nat /\ Len(source) \in Nat /\ 1 <= k /\ k <= Len(source) /\ MaxProbe \in Nat
  BY BoundsAssumption
<1>3. Decide(p, FALSE) = Says(p, k, FALSE)
  <2>1. Seen(p, FALSE) = p
    BY DEF Seen
  <2>. HIDE DEF p
  <2>. QED
    BY <1>1, <1>2, <2>1, Verdict
<1>4. j \in Says(p, k, FALSE)
  BY <1>3
<1>. HIDE DEF p
<1>5. p[1] = source[1]
  BY <1>1, <1>2
<1>. DEFINE F == FencesTo(p, k - 1)
<1>6. CASE Fence(p[1]) = "none"
  <2>1. j = 0
    BY <1>4, <1>6 DEF Says
  <2>2. ~Opens
    BY <1>5, <1>6 DEF Opens
  <2>. QED
    BY <1>2, <2>1, <2>2, FrontMatterIs
<1>7. CASE Fence(p[1]) # "none"
  <2>1. ~(k < 3 \/ (k = 3 /\ p[3] # "nl"))
    BY <1>1, <1>4, <1>7 DEF Says
  <2>2. k >= 3 /\ p[3] = source[3]
    BY <1>1, <1>2, <2>1
  <2>3. CASE ~IsMetadataLikely(p[3])
    <3>1. j = 0
      BY <1>1, <1>4, <1>7, <2>1, <2>3 DEF Says
    <3>2. ~Opens
      BY <2>2, <2>3 DEF Opens
    <3>. QED
      BY <1>2, <3>1, <3>2, FrontMatterIs
  <2>4. CASE IsMetadataLikely(p[3])
    <3>1. F # {} /\ j = Min({Min(F) + 1, k})
      BY <1>1, <1>4, <1>7, <2>1, <2>4 DEF Says
    <3>2. F \in SUBSET Nat /\ \A q : q \in F <=> q \in 5 .. k - 1 /\ Fence(p[q]) = Fence(p[1])
      BY <1>2 DEF FencesTo
    <3>. HIDE DEF F
    <3>3. PICK m \in F : m = Min(F) /\ \A x \in F : m <= x
      BY <3>1, <3>2, MinOf
    <3>4. m \in Nat /\ 5 <= m /\ m <= k - 1 /\ Fence(p[m]) = Fence(p[1])
      BY <1>2, <3>2, <3>3
    <3>5. j = m + 1
      <4>1. m + 1 \in Nat /\ m + 1 <= k
        BY <1>2, <3>4
      <4>2. Min({m + 1, k}) = m + 1
        BY <1>2, <4>1, MinOfTwo
      <4>. QED
        BY <3>1, <3>3, <4>2, Zenon
    <3>6. \A q : q \in Closing <=> /\ q \in 5 .. Len(source)
                                   /\ Fence(source[q]) = Fence(source[1])
                                   /\ Len(source) <= MaxProbe \/ q < MaxProbe
      BY DEF Closing, FencesTo
    <3>7. Closing \in SUBSET Nat
      BY <1>2, <3>6
    <3>8. m \in Closing
      <4>1. m \in 5 .. Len(source) /\ m < MaxProbe /\ m \in 1 .. k
        BY <1>2, <3>4
      <4>. QED
        BY <1>1, <1>5, <3>4, <3>6, <4>1
    <3>9. ASSUME NEW x \in Closing
          PROVE  m <= x
      <4>1. x \in 5 .. Len(source) /\ Fence(source[x]) = Fence(source[1])
        BY <3>6
      <4>2. CASE x <= k - 1
        <5>1. x \in 5 .. k - 1 /\ x \in 1 .. k
          BY <1>2, <4>1, <4>2
        <5>2. x \in F
          BY <1>1, <1>5, <3>2, <4>1, <5>1
        <5>. QED
          BY <3>3, <5>2
      <4>3. CASE ~(x <= k - 1)
        BY <1>2, <3>4, <4>1, <4>3
      <4>. QED
        BY <4>2, <4>3
    <3>10. Min(Closing) = m
      BY <3>7, <3>8, <3>9, MinIs
    <3>11. Opens
      <4>1. source[3] # "nl" /\ IsMetadataLikely(source[3])
        BY <2>2, <2>4 DEF IsMetadataLikely
      <4>. QED
        BY <1>2, <1>5, <1>7, <2>2, <4>1 DEF Opens
    <3>12. m < Len(source) /\ Closing # {} /\ j <= k
      BY <1>2, <3>4, <3>5, <3>8
    <3>13. FrontMatterEnd = m + 1
      BY <3>10, <3>11, <3>12, FrontMatterIs
    <3>. QED
      BY <3>5, <3>12, <3>13
  <2>. QED
    BY <2>3, <2>4
<1>. QED
  BY <1>6, <1>7

(* And what is open when the probe is full is no front matter. *)
LEMMA UndecidedLate ==
    ASSUME source \in Seq(Unit), Lined(source), MaxProbe < Len(source),
           Decide(SubSeq(source, 1, MaxProbe), FALSE) = {}
    PROVE  FrontMatterEnd = 0
<1>. DEFINE k == MaxProbe
            p == SubSeq(source, 1, k)
            F == FencesTo(p, k - 1)
<1>1. k \in Nat /\ Len(source) \in Nat /\ 1 <= k /\ k <= Len(source) /\ k \in 1 .. Len(source)
  BY BoundsAssumption
<1>2. /\ p \in Seq(Unit) /\ Lined(p) /\ Len(p) = k
      /\ \A i \in 1 .. k : p[i] = source[i]
  BY <1>1, PrefixIs
<1>3. Says(p, k, FALSE) = {}
  <2>1. Seen(p, FALSE) = p
    BY DEF Seen
  <2>2. Decide(p, FALSE) = {}
    OBVIOUS
  <2>. HIDE DEF p
  <2>. QED
    BY <1>1, <1>2, <2>1, <2>2, Verdict
<1>4. \A q \in Closing : q \in 5 .. k - 1 /\ Fence(source[q]) = Fence(source[1])
  BY <1>1 DEF Closing, FencesTo
<1>5. p[1] = source[1]
  BY <1>1, <1>2
<1>. HIDE DEF p, k
<1>6. CASE k < 3 \/ (k = 3 /\ p[3] # "nl")
  <2>1. k <= 3
    BY <1>1, <1>6
  <2>2. Closing = {}
    BY <1>1, <1>4, <2>1
  <2>. QED
    BY <2>2, FrontMatterIs
<1>7. CASE ~(k < 3 \/ (k = 3 /\ p[3] # "nl"))
  <2>1. F = {}
    BY <1>2, <1>3, <1>7 DEF Says
  <2>2. ASSUME NEW q \in Closing PROVE FALSE
    <3>1. q \in 5 .. k - 1 /\ q \in 1 .. k
      BY <1>1, <1>4
    <3>2. Fence(p[q]) = Fence(p[1])
      BY <1>2, <1>4, <1>5, <3>1
    <3>3. q \in F
      BY <3>1, <3>2 DEF FencesTo
    <3>. QED
      BY <2>1, <3>3
  <2>. QED
    BY <2>2, FrontMatterIs
<1>. QED
  BY <1>6, <1>7

(* What is decided at the end of a document that the probe holds whole. *)
LEMMA DecidedAtEnd ==
    ASSUME source \in Seq(Unit), Lined(source), Len(source) >= 1, Len(source) <= MaxProbe,
           NEW j \in Decide(source, TRUE)
    PROVE  j = FrontMatterEnd /\ j <= Len(source)
<1>. DEFINE L == Len(source)
            u == Seen(source, TRUE)
            F == FencesTo(u, L + 1)
<1>1. L \in Nat /\ MaxProbe \in Nat /\ L >= 1
  BY BoundsAssumption
<1>2. /\ u \in Seq(Unit) /\ Lined(u) /\ Len(u) = L + 2
      /\ \A i \in 1 .. L : u[i] = source[i]
      /\ u[L + 1] = "nl" /\ u[L + 2] = "nl"
  BY SeenType
<1>3. Decide(source, TRUE) = Says(u, L, TRUE)
  <2>. HIDE DEF u
  <2>. QED
    BY <1>1, Verdict DEF u
<1>4. j \in Says(u, L, TRUE)
  BY <1>3
<1>. HIDE DEF u, L
<1>5. u[1] = source[1]
  BY <1>1, <1>2
<1>6. Opens => L >= 3
  BY DEF Opens, L
<1>7. CASE Fence(u[1]) = "none"
  <2>1. j = 0
    BY <1>4, <1>7 DEF Says
  <2>2. ~Opens
    BY <1>5, <1>7 DEF Opens
  <2>. QED
    BY <1>1, <2>1, <2>2, FrontMatterIs DEF L
<1>8. CASE Fence(u[1]) # "none"
  <2>1. ~(Len(u) < 3 \/ (Len(u) = 3 /\ u[3] # "nl"))
    BY <1>4, <1>8 DEF Says
  <2>2. CASE ~IsMetadataLikely(u[3])
    <3>1. j = 0
      BY <1>4, <1>8, <2>1, <2>2 DEF Says
    <3>2. L >= 3 => u[3] = source[3]
      BY <1>1, <1>2
    <3>3. ~Opens
      BY <1>6, <2>2, <3>2 DEF Opens
    <3>. QED
      BY <1>1, <3>1, <3>3, FrontMatterIs DEF L
  <2>3. CASE IsMetadataLikely(u[3])
    <3>1. u[3] # "nl"
      BY <2>3 DEF IsMetadataLikely
    <3>2. L >= 3
      <4>1. L = 1 => L + 2 = 3
        OBVIOUS
      <4>2. L = 2 => L + 1 = 3
        OBVIOUS
      <4>. QED
        BY <1>1, <1>2, <3>1, <4>1, <4>2
    <3>3. u[3] = source[3]
      BY <1>1, <1>2, <3>2
    <3>4. Opens
      BY <1>5, <1>8, <2>3, <3>1, <3>2, <3>3 DEF Opens, L
    <3>5. F = Closing
      <4>1. ASSUME NEW q \in F PROVE q \in Closing
        <5>1. q \in 5 .. L + 1 /\ Fence(u[q]) = Fence(u[1])
          BY DEF FencesTo
        <5>2. q # L + 1
          BY <1>2, <1>8, <5>1, FenceOf
        <5>3. q \in 5 .. L /\ q \in 1 .. L
          BY <1>1, <5>1, <5>2
        <5>4. Fence(source[q]) = Fence(source[1])
          BY <1>2, <1>5, <5>1, <5>3
        <5>. QED
          BY <5>3, <5>4 DEF Closing, FencesTo, L
      <4>2. ASSUME NEW q \in Closing PROVE q \in F
        <5>1. q \in 5 .. L /\ Fence(source[q]) = Fence(source[1])
          BY DEF Closing, FencesTo, L
        <5>2. q \in 5 .. L + 1 /\ q \in 1 .. L
          BY <1>1, <5>1
        <5>3. Fence(u[q]) = Fence(u[1])
          BY <1>2, <1>5, <5>1, <5>2
        <5>. QED
          BY <5>2, <5>3 DEF FencesTo
      <4>. QED
        BY <4>1, <4>2
    <3>6. Len(u) - 1 = L + 1
      BY <1>1, <1>2
    <3>7. CASE Closing = {}
      <4>1. j = 0
        BY <1>4, <1>8, <2>1, <2>3, <3>5, <3>6, <3>7 DEF Says
      <4>. QED
        BY <1>1, <3>7, <4>1, FrontMatterIs DEF L
    <3>8. CASE Closing # {}
      <4>1. j = Min({Min(Closing) + 1, L})
        BY <1>4, <1>8, <2>1, <2>3, <3>5, <3>6, <3>8 DEF Says
      <4>2. Closing \in SUBSET Nat /\ \A q \in Closing : q <= L
        BY <1>1 DEF Closing, FencesTo, L
      <4>3. Min(Closing) \in Nat /\ Min(Closing) <= L
        BY <3>8, <4>2, MinOf
      <4>4. FrontMatterEnd = IF Min(Closing) < L THEN Min(Closing) + 1 ELSE L
        BY <3>4, <3>8, FrontMatterIs DEF L
      <4>. HIDE DEF F
      <4>. DEFINE m == Min(Closing)
      <4>5. /\ m \in Nat /\ m <= L /\ j = Min({m + 1, L})
            /\ FrontMatterEnd = IF m < L THEN m + 1 ELSE L
        BY <4>1, <4>3, <4>4
      <4>. HIDE DEF m
      <4>6. m + 1 \in Nat /\ (m + 1 <= L <=> m < L)
        BY <1>1, <4>5
      <4>7. Min({m + 1, L}) = IF m + 1 <= L THEN m + 1 ELSE L
        BY <1>1, <4>6, MinOfTwo
      <4>8. j = FrontMatterEnd /\ j <= L
        BY <1>1, <4>5, <4>6, <4>7
      <4>. QED
        BY <4>8 DEF L
    <3>. QED
      BY <3>7, <3>8
  <2>. QED
    BY <2>2, <2>3
<1>. QED
  BY <1>7, <1>8

-----------------------------------------------------------------------------
(* The invariant *)

(* The source is one of lines; while the probe is open it holds all that was *)
(* fed, and once it is not, what is front matter was decided rightly.        *)
FrontOK ==
    /\ Lined(source)
    /\ ~passthrough => output = << >> /\ Len(fed) <= MaxProbe
    /\ passthrough => FrontMatterEnd <= Len(fed) /\ output = Span(FrontMatterEnd, Len(fed))
    /\ status = "OK" => output = Span(FrontMatterEnd, Len(source))

IInv == TypeOK /\ ReplayOK /\ FrontOK

(* A document keeps its front matter. *)
LEMMA SameFrontMatter ==
    ASSUME source' = source
    PROVE  FrontMatterEnd' = FrontMatterEnd
<1>1. Starts' = Starts
  BY DEF Starts
<1>2. \A p : KindAt(p)' = KindAt(p) /\ EndOf(p)' = EndOf(p) /\ Terminated(p)' = Terminated(p)
  BY DEF KindAt, EndOf, Terminated
<1>. QED
  BY <1>1, <1>2 DEF FrontMatterEnd, Starts, KindAt, EndOf, Terminated

(* A part of a span. *)
LEMMA SpanPart ==
    \A l, m, n \in Nat : l <= m /\ m <= n => SubSeq(Span(0, n), l + 1, m) = Span(l, m)
<1>. SUFFICES ASSUME NEW l \in Nat, NEW m \in Nat, NEW n \in Nat, l <= m, m <= n
              PROVE  SubSeq(Span(0, n), l + 1, m) = Span(l, m)
  OBVIOUS
<1>. DEFINE s == Span(0, n)
            t == SubSeq(s, l + 1, m)
            c == Span(l, m)
<1>1. s \in Seq(Nat) /\ Len(s) = n /\ \A i \in 1 .. n : s[i] = i
  <2>1. 0 \in Nat /\ 0 <= n /\ n - 0 = n /\ \A i \in 1 .. n : 0 + i = i
    OBVIOUS
  <2>. QED
    BY <2>1, SpanType
<1>2. c \in Seq(Nat) /\ Len(c) = m - l /\ \A i \in 1 .. m - l : c[i] = l + i
  BY SpanType
<1>3. t \in Seq(Nat) /\ Len(t) = m - l /\ \A i \in 1 .. m - l : t[i] = s[l + i]
  <2>. HIDE DEF s
  <2>1. CASE l = m
    <3>1. t = << >>
      BY <1>1, <2>1
    <3>. QED
      BY <2>1, <3>1
  <2>2. CASE l < m
    <3>1. l + 1 \in 1 .. Len(s) /\ m \in l + 1 .. Len(s)
      BY <1>1, <2>2
    <3>2. t \in Seq(Nat) /\ Len(t) = m - (l + 1) + 1
          /\ \A i \in 1 .. m - (l + 1) + 1 : t[i] = s[(l + 1) + i - 1]
      BY <1>1, <3>1
    <3>3. m - (l + 1) + 1 = m - l /\ \A i \in 1 .. m - l : (l + 1) + i - 1 = l + i
      OBVIOUS
    <3>. QED
      BY <3>2, <3>3
  <2>. QED
    BY <2>1, <2>2
<1>4. \A i \in 1 .. m - l : l + i \in 1 .. n
  OBVIOUS
<1>. HIDE DEF s, t, c
<1>5. t = c
  BY <1>1, <1>2, <1>3, <1>4, SeqEqual
<1>. QED
  BY <1>5 DEF t, c, s

(* The empty span. *)
LEMMA SpanEmpty ==
    \A m \in Nat : Span(m, m) = << >>
<1>. SUFFICES ASSUME NEW m \in Nat PROVE Span(m, m) = << >>
  OBVIOUS
<1>1. Span(m, m) \in Seq(Nat) /\ Len(Span(m, m)) = 0
  BY SpanType
<1>. QED
  BY <1>1

(* The units of the first positions are the beginning of the source. *)
LEMMA KindsIs ==
    ASSUME source \in Seq(Unit), NEW k \in 1 .. Len(source)
    PROVE  Kinds(Span(0, k)) = SubSeq(source, 1, k)
<1>. DEFINE s == Span(0, k)
            p == SubSeq(source, 1, k)
<1>1. k \in Nat /\ Len(source) \in Nat /\ 1 <= k /\ k <= Len(source)
  OBVIOUS
<1>2. s \in Seq(Nat) /\ Len(s) = k /\ \A i \in 1 .. k : s[i] = i
  <2>1. 0 \in Nat /\ 0 <= k /\ k - 0 = k /\ \A i \in 1 .. k : 0 + i = i
    BY <1>1
  <2>. QED
    BY <1>1, <2>1, SpanType
<1>3. p \in Seq(Unit) /\ Len(p) = k /\ \A i \in 1 .. k : p[i] = source[i]
  OBVIOUS
<1>. HIDE DEF s, p
<1>4. Kinds(s) = [i \in 1 .. k |-> source[i]]
  BY <1>2 DEF Kinds
<1>5. p = [i \in 1 .. k |-> source[i]]
  BY <1>3
<1>. QED
  BY <1>4, <1>5 DEF s, p

(* What a read may return. *)
LEMMA ReadsAre ==
    ASSUME source \in Seq(Unit), source_off \in Nat, source_off <= Len(source),
           NEW cap \in Nat, cap >= 1
    PROVE  /\ \A n \in Reads(cap) : n \in Nat /\ source_off + n <= Len(source)
           /\ 0 \in Reads(cap) => source_off = Len(source)
<1>. DEFINE left == Len(source) - source_off
<1>1. left \in Nat /\ Len(source) \in Nat
  OBVIOUS
<1>2. CASE left = 0
  BY <1>1, <1>2 DEF Reads
<1>3. CASE left # 0
  <2>1. Reads(cap) = 1 .. Min({left, cap})
    BY <1>3 DEF Reads
  <2>2. Min({left, cap}) = IF left <= cap THEN left ELSE cap
    <3>. HIDE DEF left
    <3>. QED
      BY <1>1, MinOfTwo
  <2>3. \A n \in Reads(cap) : n \in Nat /\ n >= 1 /\ n <= left
    <3>. HIDE DEF left
    <3>. QED
      BY <1>1, <2>1, <2>2
  <2>. QED
    BY <1>1, <2>3
<1>. QED
  BY <1>2, <1>3

(* What is fed goes on from what was fed before; it is held, and once what   *)
(* is front matter is known all that follows it is let through.              *)
LEMMA FeedIs ==
    ASSUME source \in Seq(Unit), Lined(source), NEW m \in Nat, NEW n \in Nat,
           m <= n, n <= Len(source), n >= 1,
           fed = Span(0, m), passthrough \in BOOLEAN,
           ~passthrough => output = << >> /\ m <= MaxProbe,
           passthrough => FrontMatterEnd <= m /\ output = Span(FrontMatterEnd, m),
           FrontMatterEnd \in Nat,
           Feed(Span(m, n))
    PROVE  /\ fed' = Span(0, n) /\ passthrough' \in BOOLEAN
           /\ ~passthrough' => output' = << >> /\ n <= MaxProbe
           /\ passthrough' => FrontMatterEnd <= n /\ output' = Span(FrontMatterEnd, n)
<1>1. /\ MaxProbe \in Nat /\ MaxProbe >= 1 /\ Len(source) \in Nat /\ 0 \in Nat
      /\ 0 <= m /\ 0 <= n /\ m - 0 = m /\ n - 0 = n /\ n - m \in Nat /\ n <= n
  BY BoundsAssumption
<1>2. Len(fed) = m /\ Len(Span(m, n)) = n - m /\ Len(Span(0, n)) = n
  BY <1>1, SpanType
<1>3. fed \o Span(m, n) = Span(0, n)
  BY <1>1, SpanConcat
<1>. DEFINE F       == FrontMatterEnd
            full    == n > MaxProbe
            k       == IF full THEN MaxProbe ELSE n
            verdict == Decide(SubSeq(source, 1, k), FALSE)
            open    == Span(0, n)
<1>4. k \in Nat /\ k <= n /\ k <= MaxProbe /\ 1 <= k /\ k \in 1 .. Len(source)
  BY <1>1
<1>5. CASE passthrough
  <2>1. fed' = Span(0, n) /\ output' = output \o Span(m, n) /\ passthrough' = passthrough
    BY <1>3, <1>5 DEF Feed
  <2>2. output' = Span(F, n) /\ F <= n
    <3>1. F <= m /\ output = Span(F, m) /\ F \in Nat
      BY <1>5
    <3>2. Span(F, m) \o Span(m, n) = Span(F, n)
      BY <3>1, SpanConcat
    <3>3. F <= n
      BY <1>1, <3>1
    <3>. QED
      BY <2>1, <3>1, <3>2, <3>3, Zenon
  <2>. QED
    BY <1>5, <2>1, <2>2
<1>6. CASE ~passthrough
  <2>1. (Len(Span(m, n)) > Room) = full
    <3>1. Room = MaxProbe - m
      BY <1>2 DEF Room
    <3>2. n - m > MaxProbe - m <=> n > MaxProbe
      BY <1>1
    <3>. QED
      BY <1>2, <3>1, <3>2
  <2>2. SubSeq(open, 1, Len(fed) + Room) = Span(0, MaxProbe) \/ ~full
    <3>1. Len(fed) + Room = MaxProbe
      BY <1>1, <1>2 DEF Room
    <3>2. CASE full
      <4>1. MaxProbe <= n /\ 0 <= MaxProbe /\ 0 + 1 = 1
        BY <1>1, <3>2
      <4>2. SubSeq(open, 0 + 1, MaxProbe) = Span(0, MaxProbe)
        BY <1>1, <4>1, SpanPart
      <4>. QED
        BY <3>1, <4>1, <4>2
    <3>. QED
      BY <3>2
  <2>. DEFINE held == Span(0, k)
              rest  == SubSeq(open, Len(held) + 1, Len(open))
  <2>3. (IF Len(Span(m, n)) > Room THEN SubSeq(open, 1, Len(fed) + Room) ELSE open) = held
    BY <2>1, <2>2
  <2>4. Decide(Kinds(held), AtEof) = verdict
    BY <1>4, KindsIs DEF AtEof
  <2>5. Len(held) = k /\ rest = Span(k, n)
    <3>1. 0 <= k /\ k - 0 = k
      BY <1>4
    <3>2. Len(held) = k
      BY <1>1, <1>4, <3>1, SpanType
    <3>3. SubSeq(open, k + 1, n) = Span(k, n)
      BY <1>1, <1>4, SpanPart
    <3>. QED
      BY <1>2, <3>2, <3>3
  <2>6. /\ fed' = open
        /\ CASE passthrough -> output' = output \o Span(m, n) /\ UNCHANGED passthrough
             [] ~passthrough /\ verdict = {} /\ ~full -> UNCHANGED <<output, passthrough>>
             [] ~passthrough /\ verdict = {} /\ full  -> output' = open /\ passthrough' = TRUE
             [] OTHER -> \E j \in verdict :
                    /\ output' = SubSeq(held, j + 1, Len(held)) \o rest
                    /\ passthrough' = TRUE
    <3>. HIDE DEF full, verdict, held
    <3>. QED
      BY <1>3, <2>1, <2>3, <2>4 DEF Feed
  <2>. HIDE DEF full, verdict, held, rest, open, k
  <2>7. CASE verdict = {} /\ ~full
    <3>1. output' = output /\ passthrough' = passthrough
      BY <1>6, <2>6, <2>7
    <3>2. n <= MaxProbe
      BY <1>1, <2>7 DEF full
    <3>. QED
      BY <1>6, <2>6, <3>1, <3>2 DEF open
  <2>8. CASE verdict = {} /\ full
    <3>1. output' = open /\ passthrough' = TRUE
      BY <1>6, <2>6, <2>8
    <3>2. k = MaxProbe /\ MaxProbe < Len(source)
      BY <1>1, <2>8 DEF full, k
    <3>3. Decide(SubSeq(source, 1, MaxProbe), FALSE) = {}
      BY <2>8, <3>2 DEF verdict
    <3>4. F = 0
      BY <3>2, <3>3, UndecidedLate
    <3>. QED
      BY <1>1, <2>6, <3>1, <3>4 DEF open
  <2>9. CASE verdict # {}
    <3>1. PICK j \in verdict : /\ output' = SubSeq(held, j + 1, Len(held)) \o rest
                               /\ passthrough' = TRUE
      BY <1>6, <2>6, <2>9
    <3>2. j = F /\ j <= k
      <4>1. j \in Decide(SubSeq(source, 1, k), FALSE)
        BY DEF verdict
      <4>. QED
        BY <1>4, <4>1, DecidedEarly
    <3>3. F \in Nat /\ F <= k /\ k <= n
      BY <1>4, <3>2
    <3>4. SubSeq(held, j + 1, Len(held)) = Span(F, k)
      <4>1. k <= k
        BY <1>4
      <4>2. SubSeq(Span(0, k), F + 1, k) = Span(F, k)
        BY <1>4, <3>3, <4>1, SpanPart
      <4>. QED
        BY <2>5, <3>2, <4>2 DEF held
    <3>5. output' = Span(F, k) \o Span(k, n)
      BY <2>5, <3>1, <3>4
    <3>6. output' = Span(F, n)
      BY <1>1, <1>4, <3>3, <3>5, SpanConcat
    <3>7. F <= n
      BY <1>1, <1>4, <3>3
    <3>. QED
      BY <2>6, <3>1, <3>6, <3>7 DEF open
  <2>. QED
    BY <2>7, <2>8, <2>9
<1>. QED
  BY <1>5, <1>6

(* Front matter ends within the document. *)
LEMMA FrontMatterType ==
    ASSUME source \in Seq(Unit), Lined(source)
    PROVE  FrontMatterEnd \in Nat /\ (Len(source) = 0 => FrontMatterEnd = 0)
<1>1. Len(source) \in Nat
  OBVIOUS
<1>2. Closing \in SUBSET Nat
  BY <1>1 DEF Closing, FencesTo
<1>3. Closing # {} => Min(Closing) \in Nat
  BY <1>2, MinOf
<1>4. FrontMatterEnd \in Nat
  <2>. DEFINE m == Min(Closing)
  <2>1. Closing # {} => m \in Nat /\ m + 1 \in Nat
    BY <1>3
  <2>. HIDE DEF m
  <2>2. FrontMatterEnd = IF Opens /\ Closing # {}
                         THEN IF m < Len(source) THEN m + 1 ELSE Len(source)
                         ELSE 0
    BY FrontMatterIs DEF m
  <2>. QED
    BY <1>1, <2>1, <2>2
<1>5. Len(source) = 0 => ~Opens
  BY DEF Opens
<1>. QED
  BY <1>4, <1>5, FrontMatterIs

-----------------------------------------------------------------------------
(* The invariant holds at first, and every step keeps it. *)

LEMMA InitOK == Init => IInv
<1>. SUFFICES ASSUME Init PROVE IInv
  OBVIOUS
<1>1. source \in Seq(Unit) /\ Lined(source)
  BY DocumentsLined DEF Init
<1>2. Len(source) \in Nat
  BY <1>1
<1>3. Span(0, 0) = << >>
  BY SpanEmpty
<1>4. TypeOK
  <2>1. << >> \in Seq(Nat) /\ 0 \in Nat
    OBVIOUS
  <2>2. /\ titling \in BOOLEAN /\ ended \in BOOLEAN /\ fm_has_key \in BOOLEAN
        /\ passthrough \in BOOLEAN
    BY Zenon DEF Init
  <2>3. stage \in {"line", "front", "decided"} /\ status \in {"running", "OK", "IO"}
    BY DEF Init
  <2>4. /\ fed = << >> /\ output = << >> /\ prefix_len = 0 /\ scan_off = 0
        /\ replay_off = 0 /\ source_off = 0 /\ html_title = 0
    BY DEF Init
  <2>. QED
    BY <1>1, <2>1, <2>2, <2>3, <2>4 DEF TypeOK
<1>5. ReplayOK
  BY <1>2, <1>3 DEF Init, ReplayOK
<1>6. FrontOK
  BY <1>1, BoundsAssumption DEF Init, FrontOK
<1>. QED
  BY <1>4, <1>5, <1>6 DEF IInv

(* A step that leaves alone what was fed and what came out. *)
LEMMA FrontKept ==
    ASSUME FrontOK, source' = source, fed' = fed, output' = output,
           passthrough' = passthrough, status' = status \/ status' # "OK"
    PROVE  FrontOK'
<1>1. FrontMatterEnd' = FrontMatterEnd
  BY SameFrontMatter
<1>2. Len(source') = Len(source) /\ Len(fed') = Len(fed)
  OBVIOUS
<1>. DEFINE F == FrontMatterEnd
<1>3. F' = F
  BY <1>1
<1>4. Lined(source)'
  BY DEF FrontOK, Lined
<1>. HIDE DEF F
<1>5. FrontOK <=> /\ Lined(source)
                  /\ ~passthrough => output = << >> /\ Len(fed) <= MaxProbe
                  /\ passthrough => F <= Len(fed) /\ output = Span(F, Len(fed))
                  /\ status = "OK" => output = Span(F, Len(source))
  BY DEF FrontOK, F
<1>6. FrontOK' <=> /\ Lined(source)'
                   /\ ~passthrough' => output' = << >> /\ Len(fed') <= MaxProbe
                   /\ passthrough' => F' <= Len(fed') /\ output' = Span(F', Len(fed'))
                   /\ status' = "OK" => output' = Span(F', Len(source'))
  BY DEF FrontOK, F, Span
<1>. QED
  BY <1>2, <1>3, <1>4, <1>5, <1>6

(* A failing source ends the render. *)
LEMMA SourceFailsOK ==
    ASSUME IInv, SourceFails
    PROVE  IInv'
<1>1. TypeOK'
  BY DEF IInv, TypeOK, SourceFails, detection, parsing
<1>2. ReplayOK'
  BY DEF IInv, ReplayOK, SourceFails, detection, parsing, Span
<1>3. FrontOK'
  BY FrontKept DEF IInv, SourceFails, parsing
<1>. QED
  BY <1>1, <1>2, <1>3 DEF IInv

(* auto_title_read_more: the prefix grows with what is read. *)
LEMMA ReadAheadOK ==
    ASSUME IInv, ReadAhead
    PROVE  IInv'
<1>. USE DEF IInv
<1>1. /\ source \in Seq(Unit) /\ source_off \in Nat /\ source_off <= Len(source)
      /\ prefix_len \in Nat /\ replay_off = 0 /\ source_off = prefix_len
      /\ fed = Span(0, 0)
      /\ stage # "decided" /\ ProbeRead \in Nat /\ ProbeRead >= 1 /\ Len(source) \in Nat
      /\ status = "running"
  <2>1. stage # "decided" /\ status = "running"
    BY DEF ReadAhead, MoreNeeded, ReadsLine, Running
  <2>2. source_off = prefix_len /\ replay_off = 0
    BY <2>1 DEF ReplayOK
  <2>3. prefix_len \in Nat
    BY DEF TypeOK
  <2>4. fed = Span(0, 0)
    BY <2>2, <2>3 DEF ReplayOK
  <2>. QED
    BY <2>1, <2>2, <2>4, BoundsAssumption DEF TypeOK, ReplayOK
<1>2. PICK n \in Reads(ProbeRead) : /\ source_off' = source_off + n
                                    /\ prefix_len' = prefix_len + n
                                    /\ ended' = (n = 0)
  BY DEF ReadAhead
<1>3. n \in Nat /\ source_off + n <= Len(source)
  BY <1>1, ReadsAre
<1>4. /\ UNCHANGED <<source, titling, replay_off, status>>
      /\ UNCHANGED <<stage, fm_has_key, html_title, scan_off>>
      /\ UNCHANGED <<fed, passthrough, output>>
  BY DEF ReadAhead, detection, parsing
<1>5. TypeOK'
  <2>1. source_off' \in Nat /\ prefix_len' \in Nat
    BY <1>1, <1>2, <1>3
  <2>2. ended' \in BOOLEAN
    BY <1>2, Zenon
  <2>. QED
    BY <1>4, <2>1, <2>2 DEF TypeOK
<1>6. ReplayOK'
  <2>1. /\ replay_off' = 0 /\ source_off' = prefix_len' /\ source_off' \in Nat
        /\ source_off' <= Len(source') /\ fed' = Span(0, 0)
        /\ stage' # "decided" /\ status' # "OK"
    BY <1>1, <1>2, <1>3, <1>4
  <2>2. (IF replay_off' < prefix_len' THEN replay_off' ELSE source_off') = 0
    BY <2>1
  <2>3. Span(0, IF replay_off < prefix_len THEN replay_off ELSE source_off)' = Span(0, 0)
    BY <2>2 DEF Span
  <2>. QED
    BY <2>1, <2>3 DEF ReplayOK
<1>7. FrontOK'
  BY <1>4, FrontKept
<1>. QED
  BY <1>5, <1>6, <1>7

(* What the detection chooses. *)
LEMMA ScanType ==
    ASSUME prefix_len \in Nat, NEW off \in Nat
    PROVE  LineEnd(off) \in Nat
<1>1. LineEnds(off, prefix_len) \in SUBSET Nat
  BY DEF LineEnds
<1>. QED
  BY <1>1, MinOf DEF LineEnd

(* A heading has a position. *)
LEMMA HeadingType ==
    ASSUME NEW end \in Nat
    PROVE  FirstHeading(end) \in Nat
<1>. DEFINE hs == {p \in 1 .. end : IsHeading(source[p])}
<1>1. hs \in SUBSET Nat
  OBVIOUS
<1>2. FirstHeading(end) = IF hs = {} THEN 0 ELSE Min(hs)
  BY DEF FirstHeading
<1>. HIDE DEF hs
<1>3. hs # {} => Min(hs) \in Nat
  BY <1>1, MinOf
<1>. QED
  BY <1>2, <1>3

(* Detection reads the prefix only. *)
LEMMA DetectOK ==
    ASSUME IInv, DetectLine \/ DetectFront
    PROVE  IInv'
<1>. USE DEF IInv
<1>1. /\ status = "running" /\ stage # "decided"
      /\ UNCHANGED <<source, titling, prefix_len, ended, replay_off, source_off, status>>
      /\ UNCHANGED <<fed, passthrough, output>>
  BY DEF DetectLine, DetectFront, Detecting, Running, parsing
<1>2. scan_off \in Nat /\ prefix_len \in Nat /\ LineEnd(scan_off) \in Nat
      /\ FirstHeading(LineEnd(scan_off)) \in Nat
      /\ html_title \in Nat /\ fm_has_key \in BOOLEAN
  BY ScanType, HeadingType DEF TypeOK
<1>3. /\ scan_off' \in Nat /\ html_title' \in Nat /\ fm_has_key' \in BOOLEAN
      /\ stage' \in {"line", "front", "decided"}
  <2>1. CASE DetectLine
    <3>1. scan_off' \in Nat /\ fm_has_key' \in BOOLEAN
      BY <1>2, <2>1 DEF DetectLine
    <3>2. scan_off + 1 \in Nat /\ 0 \in Nat /\ stage = "line"
      BY <1>2, <2>1 DEF DetectLine, Detecting
    <3>3. html_title' \in Nat /\ stage' \in {"line", "front", "decided"}
      <4>. DEFINE kind == LineKind(scan_off)
      <4>1. IF scan_off = prefix_len
            THEN Decided(0)
            ELSE CASE kind = "blank" -> UNCHANGED <<stage, html_title>>
                   [] IsHeading(kind) -> Decided(scan_off + 1)
                   [] scan_off = 0 /\ IsTitleFence(LineKind(0)) ->
                          stage' = "front" /\ UNCHANGED html_title
                   [] OTHER -> Decided(0)
        BY <2>1 DEF DetectLine
      <4>. HIDE DEF kind
      <4>. QED
        BY <1>2, <3>2, <4>1 DEF Decided
    <3>. QED
      BY <3>1, <3>3
  <2>2. CASE DetectFront
    <3>1. scan_off' \in Nat /\ stage = "front"
      BY <1>2, <2>2 DEF DetectFront, Detecting
    <3>. DEFINE end  == LineEnd(scan_off)
                kind == LineKind(scan_off)
                h    == FirstHeading(end)
    <3>2. IF LineEnds(scan_off, prefix_len) = {}
           THEN Decided(h) /\ UNCHANGED fm_has_key
           ELSE CASE IsTitleFence(kind) /\ (fm_has_key \/ h = 0) ->
                         stage' = "line" /\ UNCHANGED <<html_title, fm_has_key>>
                  [] IsMetadata(kind) ->
                         /\ fm_has_key' = (fm_has_key \/ kind = "meta")
                         /\ UNCHANGED <<stage, html_title>>
                  [] IsContinuation(kind) /\ fm_has_key ->
                         UNCHANGED <<stage, html_title, fm_has_key>>
                  [] OTHER -> Decided(h) /\ UNCHANGED fm_has_key
      BY <2>2 DEF DetectFront
    <3>3. h \in Nat
      BY <1>2
    <3>4. (fm_has_key \/ kind = "meta") \in BOOLEAN
      OBVIOUS
    <3>. HIDE DEF kind, h, end
    <3>5. fm_has_key' \in BOOLEAN
      BY <1>2, <3>2, <3>4
    <3>6. html_title' \in Nat /\ stage' \in {"line", "front", "decided"}
      BY <1>2, <3>1, <3>2, <3>3 DEF Decided
    <3>. QED
      BY <3>1, <3>5, <3>6
  <2>. QED
    BY <2>1, <2>2
<1>4. TypeOK'
  BY <1>1, <1>3 DEF TypeOK
<1>5. ReplayOK'
  <2>1. /\ replay_off = 0 /\ source_off = prefix_len /\ prefix_len \in Nat
        /\ source_off <= Len(source) /\ source_off \in Nat
        /\ fed = Span(0, IF replay_off < prefix_len THEN replay_off ELSE source_off)
    BY <1>1 DEF ReplayOK, TypeOK
  <2>2. Span(0, IF replay_off < prefix_len THEN replay_off ELSE source_off)'
        = Span(0, IF replay_off < prefix_len THEN replay_off ELSE source_off)
    BY <1>1 DEF Span
  <2>. QED
    BY <1>1, <2>1, <2>2 DEF ReplayOK
<1>6. FrontOK'
  BY <1>1, FrontKept
<1>. QED
  BY <1>4, <1>5, <1>6

(* A step that feeds the parser what follows. *)
LEMMA FedOK ==
    ASSUME IInv, Running, source' = source, status' = status,
           NEW m \in Nat, NEW n \in Nat, m <= n, n >= 1, n <= Len(source),
           fed = Span(0, m), Feed(Span(m, n))
    PROVE  /\ fed' = Span(0, n) /\ fed' \in Seq(Nat) /\ output' \in Seq(Nat)
           /\ passthrough' \in BOOLEAN /\ FrontOK'
<1>. USE DEF IInv
<1>1. source \in Seq(Unit) /\ Lined(source) /\ passthrough \in BOOLEAN
  BY DEF TypeOK, FrontOK
<1>. DEFINE F == FrontMatterEnd
<1>2. F \in Nat /\ F' = F
  BY <1>1, SameFrontMatter, FrontMatterType
<1>3. Len(fed) = m
  <2>1. 0 \in Nat /\ 0 <= m /\ m - 0 = m
    OBVIOUS
  <2>. QED
    BY <2>1, SpanType
<1>. HIDE DEF F
<1>4. /\ ~passthrough => output = << >> /\ m <= MaxProbe
      /\ passthrough => F <= m /\ output = Span(F, m)
  BY <1>3 DEF FrontOK, F
<1>5. /\ fed' = Span(0, n) /\ passthrough' \in BOOLEAN
      /\ ~passthrough' => output' = << >> /\ n <= MaxProbe
      /\ passthrough' => F <= n /\ output' = Span(F, n)
  <2>1. /\ FrontMatterEnd \in Nat
        /\ ~passthrough => output = << >> /\ m <= MaxProbe
        /\ passthrough => FrontMatterEnd <= m /\ output = Span(FrontMatterEnd, m)
    BY <1>2, <1>4 DEF F
  <2>2. /\ fed' = Span(0, n) /\ passthrough' \in BOOLEAN
        /\ ~passthrough' => output' = << >> /\ n <= MaxProbe
        /\ passthrough' => FrontMatterEnd <= n /\ output' = Span(FrontMatterEnd, n)
    BY <1>1, <2>1, FeedIs
  <2>. QED
    BY <2>2 DEF F
<1>6. Len(fed') = n /\ fed' \in Seq(Nat)
  <2>1. 0 \in Nat /\ 0 <= n /\ n - 0 = n
    OBVIOUS
  <2>. QED
    BY <1>5, <2>1, SpanType
<1>7. output' \in Seq(Nat)
  <2>1. << >> \in Seq(Nat)
    OBVIOUS
  <2>2. F <= n => Span(F, n) \in Seq(Nat)
    BY <1>2, SpanType
  <2>. QED
    BY <1>5, <2>1, <2>2
<1>8. FrontOK'
  <2>1. Lined(source)'
    BY <1>1 DEF Lined
  <2>2. status' # "OK"
    BY DEF Running
  <2>3. FrontOK' <=> /\ Lined(source)'
                     /\ ~passthrough' => output' = << >> /\ Len(fed') <= MaxProbe
                     /\ passthrough' => F' <= Len(fed') /\ output' = Span(F', Len(fed'))
                     /\ status' = "OK" => output' = Span(F', Len(source'))
    BY DEF FrontOK, F, Span
  <2>. QED
    BY <1>2, <1>5, <1>6, <2>1, <2>2, <2>3
<1>. QED
  BY <1>5, <1>6, <1>7, <1>8

(* auto_title_source_read, from the prefix. *)
LEMMA ReplayStepOK ==
    ASSUME IInv, Replay
    PROVE  IInv'
<1>. USE DEF IInv
<1>1. /\ Running /\ stage = "decided" /\ replay_off < prefix_len
      /\ UNCHANGED <<source, titling, prefix_len, ended, source_off, status>>
      /\ UNCHANGED <<stage, fm_has_key, html_title, scan_off>>
  BY DEF Replay, ReplayLimit, detection
<1>. DEFINE n == Min({prefix_len - replay_off, RenderRead})
<1>2. replay_off' = replay_off + n /\ Feed(Span(replay_off, replay_off + n))
  BY DEF Replay
<1>3. /\ replay_off \in Nat /\ prefix_len \in Nat /\ source_off \in Nat /\ Len(source) \in Nat
      /\ prefix_len <= source_off /\ source_off <= Len(source) /\ source_off = prefix_len
      /\ RenderRead \in Nat /\ RenderRead >= 1
  BY <1>1, BoundsAssumption DEF TypeOK, ReplayOK
<1>4. n \in Nat /\ n >= 1 /\ replay_off + n <= prefix_len
  <2>. DEFINE left == prefix_len - replay_off
  <2>1. left \in Nat /\ left >= 1
    BY <1>1, <1>3
  <2>2. Min({left, RenderRead}) = IF left <= RenderRead THEN left ELSE RenderRead
    <3>. HIDE DEF left
    <3>. QED
      BY <1>3, <2>1, MinOfTwo
  <2>3. n = IF left <= RenderRead THEN left ELSE RenderRead
    BY <2>2
  <2>. HIDE DEF n
  <2>. QED
    BY <1>3, <2>1, <2>3
<1>. HIDE DEF n
<1>. DEFINE to == replay_off + n
<1>5. /\ to \in Nat /\ replay_off <= to /\ to >= 1 /\ to <= Len(source) /\ to <= prefix_len
      /\ replay_off' = to /\ Feed(Span(replay_off, to))
  BY <1>2, <1>3, <1>4
<1>. HIDE DEF to
<1>6. fed = Span(0, replay_off)
  BY <1>1 DEF ReplayOK
<1>7. /\ fed' = Span(0, to) /\ fed' \in Seq(Nat) /\ output' \in Seq(Nat)
      /\ passthrough' \in BOOLEAN /\ FrontOK'
  BY <1>1, <1>3, <1>5, <1>6, FedOK
<1>8. TypeOK'
  BY <1>1, <1>5, <1>7 DEF TypeOK
<1>9. ReplayOK'
  <2>1. (IF replay_off < prefix_len THEN replay_off ELSE source_off)' = to
    BY <1>1, <1>3, <1>5
  <2>2. Span(0, IF replay_off < prefix_len THEN replay_off ELSE source_off)' = Span(0, to)
    BY <2>1 DEF Span
  <2>. QED
    BY <1>1, <1>3, <1>5, <1>7, <2>2 DEF ReplayOK, Running
<1>. QED
  BY <1>7, <1>8, <1>9

(* And from the source. *)
LEMMA ReadStepOK ==
    ASSUME IInv, Read
    PROVE  IInv'
<1>. USE DEF IInv
<1>1. /\ Running /\ stage = "decided" /\ ~(replay_off < prefix_len)
      /\ UNCHANGED <<source, titling, prefix_len, ended, replay_off, status>>
      /\ UNCHANGED <<stage, fm_has_key, html_title, scan_off>>
  BY DEF Read, ReplayLimit, detection
<1>2. PICK n \in Reads(RenderRead) \ {0} : /\ source_off' = source_off + n
                                           /\ Feed(Span(source_off, source_off + n))
  BY DEF Read
<1>3. /\ replay_off \in Nat /\ prefix_len \in Nat /\ source_off \in Nat /\ Len(source) \in Nat
      /\ source \in Seq(Unit) /\ replay_off = prefix_len
      /\ prefix_len <= source_off /\ source_off <= Len(source)
      /\ RenderRead \in Nat /\ RenderRead >= 1
  BY <1>1, BoundsAssumption DEF TypeOK, ReplayOK
<1>4. n \in Nat /\ n # 0 /\ source_off + n <= Len(source)
  BY <1>3, ReadsAre
<1>. DEFINE to == source_off + n
<1>5. /\ to \in Nat /\ source_off <= to /\ to >= 1 /\ to <= Len(source)
      /\ source_off' = to /\ Feed(Span(source_off, to))
  BY <1>2, <1>3, <1>4
<1>. HIDE DEF to
<1>6. fed = Span(0, source_off)
  BY <1>1 DEF ReplayOK
<1>7. /\ fed' = Span(0, to) /\ fed' \in Seq(Nat) /\ output' \in Seq(Nat)
      /\ passthrough' \in BOOLEAN /\ FrontOK'
  BY <1>1, <1>3, <1>5, <1>6, FedOK
<1>8. TypeOK'
  BY <1>1, <1>5, <1>7 DEF TypeOK
<1>9. ReplayOK'
  <2>1. (IF replay_off < prefix_len THEN replay_off ELSE source_off)' = to
    BY <1>1, <1>3, <1>5
  <2>2. Span(0, IF replay_off < prefix_len THEN replay_off ELSE source_off)' = Span(0, to)
    BY <2>1 DEF Span
  <2>. QED
    BY <1>1, <1>3, <1>5, <1>7, <2>2 DEF ReplayOK, Running
<1>. QED
  BY <1>7, <1>8, <1>9

(* mdf_parser_finish_document decides what is still open. *)
LEMMA FinishDocumentOK ==
    ASSUME IInv, FinishDocument
    PROVE  IInv'
<1>. USE DEF IInv
<1>1. /\ stage = "decided" /\ ~(replay_off < prefix_len)
      /\ UNCHANGED <<source, titling, prefix_len, ended, replay_off, source_off, fed>>
      /\ UNCHANGED <<stage, fm_has_key, html_title, scan_off>>
      /\ status' = "OK"
  BY DEF FinishDocument, ReplayLimit, detection
<1>. DEFINE L == Len(source)
            F == FrontMatterEnd
<1>2. /\ replay_off \in Nat /\ prefix_len \in Nat /\ source_off \in Nat /\ L \in Nat
      /\ source \in Seq(Unit) /\ Lined(source) /\ replay_off = prefix_len
      /\ prefix_len <= source_off /\ source_off <= L
      /\ RenderRead \in Nat /\ RenderRead >= 1 /\ MaxProbe \in Nat
  BY <1>1, BoundsAssumption DEF TypeOK, ReplayOK, FrontOK
<1>3. source_off = L
  <2>1. 0 \in Reads(RenderRead)
    BY DEF FinishDocument
  <2>. QED
    BY <1>2, <2>1, ReadsAre
<1>4. fed = Span(0, L)
  BY <1>1, <1>3 DEF ReplayOK
<1>5. Len(fed) = L
  <2>1. 0 \in Nat /\ 0 <= L /\ L - 0 = L
    BY <1>2
  <2>. HIDE DEF L
  <2>. QED
    BY <1>2, <1>4, <2>1, SpanType
<1>6. F \in Nat /\ F' = F /\ (L = 0 => F = 0)
  BY <1>1, <1>2, SameFrontMatter, FrontMatterType
<1>. HIDE DEF F, L
<1>7. /\ passthrough \in BOOLEAN
      /\ ~passthrough => output = << >> /\ L <= MaxProbe
      /\ passthrough => F <= L /\ output = Span(F, L)
  BY <1>5 DEF FrontOK, F, TypeOK
<1>8. /\ passthrough' \in BOOLEAN
      /\ ~passthrough' => output' = << >> /\ L <= MaxProbe
      /\ passthrough' => F <= L
      /\ output' = Span(F, L)
  <2>1. CASE passthrough
    <3>1. output' = output /\ passthrough' = passthrough
      BY <2>1 DEF FinishDocument
    <3>. QED
      BY <1>7, <2>1, <3>1
  <2>2. CASE ~passthrough /\ fed = << >>
    <3>1. output' = output /\ passthrough' = passthrough
      BY <2>2 DEF FinishDocument
    <3>2. L = 0
      BY <1>5, <2>2
    <3>3. Span(0, 0) = << >>
      BY SpanEmpty
    <3>. QED
      BY <1>6, <1>7, <2>2, <3>1, <3>2, <3>3
  <2>3. CASE ~passthrough /\ fed # << >>
    <3>1. PICK j \in Decide(Kinds(fed), TRUE) :
              output' = SubSeq(fed, j + 1, Len(fed)) /\ passthrough' = TRUE
      BY <2>3 DEF FinishDocument
    <3>2. L # 0
      BY <1>4, <2>3, SpanEmpty
    <3>3. L \in 1 .. Len(source) /\ L = Len(source) /\ L >= 1 /\ L <= MaxProbe
      BY <1>2, <1>7, <2>3, <3>2 DEF L
    <3>4. Kinds(fed) = source
      <4>1. Kinds(fed) = SubSeq(source, 1, L)
        BY <1>2, <1>4, <3>3, KindsIs
      <4>2. SubSeq(source, 1, Len(source)) = source
        BY <1>2
      <4>. QED
        BY <3>3, <4>1, <4>2
    <3>5. j = F /\ j <= L
      <4>1. j \in Decide(source, TRUE) /\ Len(source) >= 1 /\ Len(source) <= MaxProbe
        BY <3>3, <3>4
      <4>. QED
        BY <1>2, <3>3, <4>1, DecidedAtEnd DEF F
    <3>6. SubSeq(Span(0, L), F + 1, L) = Span(F, L)
      <4>1. F <= L /\ L <= L
        BY <1>2, <3>5
      <4>. QED
        BY <1>2, <1>6, <4>1, SpanPart
    <3>7. output' = Span(F, L)
      BY <1>4, <1>5, <3>1, <3>5, <3>6
    <3>. QED
      BY <3>1, <3>5, <3>7
  <2>. QED
    BY <1>7, <2>1, <2>2, <2>3
<1>9. output' \in Seq(Nat)
  <2>1. << >> \in Seq(Nat)
    OBVIOUS
  <2>2. F <= L => Span(F, L) \in Seq(Nat)
    BY <1>2, <1>6, SpanType
  <2>. QED
    BY <1>8, <2>1, <2>2
<1>10. TypeOK'
  BY <1>1, <1>8, <1>9 DEF TypeOK
<1>11. ReplayOK'
  <2>1. (IF replay_off < prefix_len THEN replay_off ELSE source_off)' = L
    BY <1>1, <1>3
  <2>2. Span(0, IF replay_off < prefix_len THEN replay_off ELSE source_off)' = Span(0, L)
    BY <2>1 DEF Span
  <2>3. Len(source') = L
    BY <1>1 DEF L
  <2>. QED
    BY <1>1, <1>2, <1>3, <1>4, <2>2, <2>3 DEF ReplayOK
<1>12. FrontOK'
  <2>1. Lined(source)'
    BY <1>1, <1>2 DEF Lined
  <2>2. Len(fed') = L /\ Len(source') = L
    BY <1>1, <1>5 DEF L
  <2>3. FrontOK' <=> /\ Lined(source)'
                     /\ ~passthrough' => output' = << >> /\ Len(fed') <= MaxProbe
                     /\ passthrough' => F' <= Len(fed') /\ output' = Span(F', Len(fed'))
                     /\ status' = "OK" => output' = Span(F', Len(source'))
    BY DEF FrontOK, F, Span
  <2>. QED
    BY <1>6, <1>8, <2>1, <2>2, <2>3
<1>. QED
  BY <1>10, <1>11, <1>12

(* Nothing happens. *)
LEMMA StutterOK ==
    ASSUME IInv, UNCHANGED vars
    PROVE  IInv'
<1>1. /\ UNCHANGED <<source, titling, prefix_len, ended, replay_off, source_off, status>>
      /\ UNCHANGED <<stage, fm_has_key, html_title, scan_off>>
      /\ UNCHANGED <<fed, passthrough, output>>
  BY DEF vars, detection, parsing
<1>2. TypeOK'
  BY <1>1 DEF IInv, TypeOK
<1>3. ReplayOK'
  BY <1>1 DEF IInv, ReplayOK, Span
<1>4. FrontOK'
  BY <1>1, FrontKept DEF IInv
<1>. QED
  BY <1>2, <1>3, <1>4 DEF IInv

(* Every step keeps the invariant. *)
LEMMA NextOK == IInv /\ [Next]_vars => IInv'
<1>. SUFFICES ASSUME IInv, [Next]_vars PROVE IInv'
  OBVIOUS
<1>1. CASE SourceFails
  BY <1>1, SourceFailsOK
<1>2. CASE ReadAhead
  BY <1>2, ReadAheadOK
<1>3. CASE DetectLine \/ DetectFront
  BY <1>3, DetectOK
<1>4. CASE Replay
  BY <1>4, ReplayStepOK
<1>5. CASE Read
  BY <1>5, ReadStepOK
<1>6. CASE FinishDocument
  BY <1>6, FinishDocumentOK
<1>7. CASE UNCHANGED vars
  BY <1>7, StutterOK
<1>. QED
  BY <1>1, <1>2, <1>3, <1>4, <1>5, <1>6, <1>7 DEF Next

(* The inductive invariant, of every execution of mdf_parse_stream.          *)
THEOREM Invariance == Spec => []IInv
<1>1. Init => IInv
  BY InitOK
<1>2. IInv /\ [Next]_vars => IInv'
  BY NextOK
<1>. QED
  BY <1>1, <1>2, PTL DEF Spec

(* The state has its types: offsets, positions and the units of the source.  *)
THEOREM TypeCorrect == Spec => []TypeOK
<1>1. IInv => TypeOK
  BY DEF IInv
<1>. QED
  BY <1>1, Invariance, PTL

(* What was read ahead for a title is replayed: the parser is fed the source, *)
(* each unit once and in order, whatever the sizes of the reads and the       *)
(* buffers (auto_title_source_read).                                          *)
THEOREM EachUnitOnce == Spec => []SourceReplayed
<1>1. IInv => SourceReplayed
  <2>. SUFFICES ASSUME IInv PROVE SourceReplayed
    OBVIOUS
  <2>. DEFINE m == IF replay_off < prefix_len THEN replay_off ELSE source_off
  <2>1. fed = Span(0, m) /\ m \in Nat
    BY DEF IInv, ReplayOK, TypeOK
  <2>2. status = "OK" => m = Len(source)
    BY DEF IInv, ReplayOK, TypeOK
  <2>. HIDE DEF m
  <2>3. Len(fed) = m
    <3>1. 0 \in Nat /\ 0 <= m /\ m - 0 = m
      BY <2>1
    <3>. QED
      BY <2>1, <3>1, SpanType
  <2>. QED
    BY <2>1, <2>2, <2>3 DEF SourceReplayed
<1>. QED
  BY <1>1, Invariance, PTL

(* What is stripped as front matter is what the document has of it, however  *)
(* it was cut into reads and wherever the limit of the probe falls           *)
(* (frontmatter_filter, frontmatter_decide).                                 *)
THEOREM FrontMatterRight == Spec => []FrontMatterAnyChunking
<1>1. IInv => FrontMatterAnyChunking
  BY DEF IInv, FrontOK, FrontMatterAnyChunking
<1>. QED
  BY <1>1, Invariance, PTL

-----------------------------------------------------------------------------
(* The title *)

(* At the start of a line that is looked for a heading. *)
LineTitle(off, key) ==
    /\ off = 0 => ~key
    /\ off > 0 => source[off] = "nl" /\ Title = HeadingAhead(off + 1)

(* And within what may be front matter: no line so far ended it. *)
FrontTitle(off, key) ==
    /\ Len(source) >= 1 /\ KindAt(1) = "dash" /\ off >= 1
    /\ source[off] = "nl" \/ off = Len(source)
    /\ \A p \in Later : p <= off => ~Stops(p)
    /\ key <=> Keyed(off + 1)

TitleOK ==
    /\ scan_off <= prefix_len
    /\ ended => prefix_len = Len(source)
    /\ stage = "line" => LineTitle(scan_off, fm_has_key)
    /\ stage = "front" => FrontTitle(scan_off, fm_has_key)
    /\ titling /\ stage = "decided" => html_title = Title

(* A document keeps its title. *)
LEMMA SameTitle ==
    ASSUME source' = source
    PROVE  TitleOK' <=> /\ scan_off' <= prefix_len'
                        /\ ended' => prefix_len' = Len(source)
                        /\ stage' = "line" => LineTitle(scan_off', fm_has_key')
                        /\ stage' = "front" => FrontTitle(scan_off', fm_has_key')
                        /\ titling' /\ stage' = "decided" => html_title' = Title
<1>1. Starts' = Starts /\ Later' = Later
  BY DEF Starts, Later
<1>2. \A p : /\ KindAt(p)' = KindAt(p) /\ EndOf(p)' = EndOf(p)
             /\ Terminated(p)' = Terminated(p)
  BY DEF KindAt, EndOf, Terminated
<1>3. \A p : HeadingAhead(p)' = HeadingAhead(p)
  BY <1>1, <1>2 DEF HeadingAhead, Starts, KindAt
<1>4. \A p : HeadingBefore(p)' = HeadingBefore(p)
  BY <1>1, <1>2 DEF HeadingBefore, Starts, KindAt
<1>5. \A p : Keyed(p)' = Keyed(p)
  BY <1>1, <1>2 DEF Keyed
<1>6. \A p : Stops(p)' = Stops(p)
  BY <1>1, <1>2, <1>5 DEF Stops
<1>7. Title' = Title
  BY <1>1, <1>2, <1>3, <1>4, <1>5, <1>6 DEF Title
<1>. QED
  BY <1>1, <1>2, <1>3, <1>5, <1>6, <1>7 DEF TitleOK, LineTitle, FrontTitle

(* The kind of a line, and where it ends. *)
LEMMA LineIs ==
    ASSUME source \in Seq(Unit), Lined(source), NEW p \in 1 .. Len(source)
    PROVE  /\ source[p] = "nl" => KindAt(p) = "blank" /\ Terminated(p)
           /\ source[p] # "nl" => /\ KindAt(p) = source[p] /\ KindAt(p) # "blank"
                                  /\ Terminated(p) <=> p < Len(source)
                                  /\ p < Len(source) => source[p + 1] = "nl"
<1>1. Len(source) \in Nat /\ p \in Nat
  OBVIOUS
<1>2. CASE source[p] = "nl"
  <2>. DEFINE N == {q \in p .. Len(source) : source[q] = "nl"} \cup {Len(source)}
  <2>1. N \in SUBSET Nat /\ p \in N /\ \A x \in N : p <= x
    BY <1>1, <1>2
  <2>2. EndOf(p) = Min(N)
    BY DEF EndOf
  <2>. HIDE DEF N
  <2>3. EndOf(p) = p
    BY <2>1, <2>2, MinIs
  <2>. QED
    BY <1>2, <2>3 DEF KindAt, Terminated
<1>3. CASE source[p] # "nl"
  <2>1. source[p] \in Unit
    BY <1>1
  <2>2. KindAt(p) = source[p] /\ KindAt(p) # "blank"
    BY <1>3, <2>1 DEF KindAt, Unit
  <2>3. p < Len(source) => source[p + 1] = "nl"
    <3>1. p < Len(source) => p \in 1 .. Len(source) - 1
      BY <1>1
    <3>. QED
      BY <1>3, <3>1 DEF Lined
  <2>. QED
    BY <1>3, <2>2, <2>3, EndOfLine
<1>. QED
  BY <1>2, <1>3

(* What is read of a line that begins at p, the offset before it and the     *)
(* units read ahead.                                                         *)
LEMMA LineRead ==
    ASSUME source \in Seq(Unit), Lined(source), prefix_len \in Nat, prefix_len <= Len(source),
           NEW off \in Nat, NEW p, p = off + 1, p <= prefix_len
    PROVE  /\ LineKind(off) = KindAt(p)
           /\ source[p] = "nl" => LineEnds(off, prefix_len) # {} /\ LineEnd(off) = p
           /\ source[p] # "nl" =>
                /\ LineEnds(off, prefix_len) # {} => /\ LineEnd(off) = p + 1
                                                     /\ p + 1 <= prefix_len
                                                     /\ source[p + 1] = "nl"
                /\ LineEnds(off, prefix_len) = {} => p = prefix_len /\ LineEnd(off) = p
<1>. DEFINE E == LineEnds(off, prefix_len)
<1>1. /\ Len(source) \in Nat /\ p \in 1 .. Len(source) /\ off + 1 = p /\ p \in Nat
  OBVIOUS
<1>2. LineKind(off) = KindAt(p)
  BY <1>1 DEF LineKind, KindAt
<1>3. /\ E \in SUBSET Nat /\ \A e \in E : p <= e
      /\ \A e : e \in E <=> e \in p .. prefix_len /\ source[e] = "nl"
  BY <1>1 DEF LineEnds
<1>4. LineEnd(off) = IF E = {} THEN prefix_len ELSE Min(E)
  BY DEF LineEnd
<1>. HIDE DEF E
<1>5. CASE source[p] = "nl"
  <2>1. p \in E
    BY <1>1, <1>3, <1>5
  <2>2. Min(E) = p
    BY <1>3, <2>1, MinIs
  <2>. QED
    BY <1>2, <1>4, <1>5, <2>1, <2>2 DEF E
<1>6. CASE source[p] # "nl"
  <2>1. p < Len(source) => source[p + 1] = "nl"
    BY <1>1, <1>6, LineIs
  <2>2. p < prefix_len => p + 1 \in E
    <3>1. p < prefix_len => p < Len(source) /\ p + 1 \in p .. prefix_len
      BY <1>1
    <3>. QED
      BY <1>3, <2>1, <3>1
  <2>3. CASE E = {}
    <3>1. p = prefix_len
      BY <1>1, <2>2, <2>3
    <3>. QED
      BY <1>2, <1>4, <1>6, <2>3, <3>1 DEF E
  <2>4. CASE E # {}
    <3>1. PICK e \in E : TRUE
      BY <2>4
    <3>2. e \in p .. prefix_len /\ source[e] = "nl"
      BY <1>3
    <3>3. e # p
      BY <1>6, <3>2
    <3>4. p < prefix_len
      BY <1>1, <3>2, <3>3
    <3>5. p + 1 \in E
      BY <2>2, <3>4
    <3>6. \A x \in E : p + 1 <= x
      <4>. SUFFICES ASSUME NEW x \in E PROVE p + 1 <= x
        OBVIOUS
      <4>1. x \in p .. prefix_len /\ x # p
        BY <1>3, <1>6
      <4>. QED
        BY <1>1, <4>1
    <3>7. Min(E) = p + 1
      BY <1>3, <3>5, <3>6, MinIs
    <3>8. p + 1 <= prefix_len /\ source[p + 1] = "nl"
      BY <1>1, <1>3, <3>4, <3>5
    <3>. QED
      BY <1>2, <1>4, <1>6, <2>4, <3>7, <3>8 DEF E
  <2>. QED
    BY <2>3, <2>4
<1>. QED
  BY <1>5, <1>6

(* The first line that is not blank. *)
LEMMA AheadIs ==
    ASSUME source \in Seq(Unit), Lined(source), NEW p \in Nat, p >= 1
    PROVE  /\ p > Len(source) => HeadingAhead(p) = 0
           /\ p \notin Starts \/ KindAt(p) = "blank" => HeadingAhead(p) = HeadingAhead(p + 1)
           /\ p \in Starts /\ KindAt(p) # "blank" =>
                HeadingAhead(p) = IF IsHeading(KindAt(p)) THEN p ELSE 0
<1>. DEFINE Solid(n) == {q \in Starts : q >= n /\ KindAt(q) # "blank"}
<1>1. Starts \in SUBSET (1 .. Len(source)) /\ Starts \in SUBSET Nat /\ Len(source) \in Nat
  BY SourceStarts
<1>2. \A n : HeadingAhead(n) = IF Solid(n) = {} \/ ~IsHeading(KindAt(Min(Solid(n))))
                               THEN 0 ELSE Min(Solid(n))
  BY DEF HeadingAhead
<1>3. p > Len(source) => Solid(p) = {}
  <2>1. p > Len(source) => \A q \in Starts : ~(q >= p)
    BY <1>1
  <2>. QED
    BY <2>1
<1>4. p \notin Starts \/ KindAt(p) = "blank" => Solid(p) = Solid(p + 1)
  <2>. SUFFICES ASSUME p \notin Starts \/ KindAt(p) = "blank"
                PROVE  \A q \in Starts : q >= p /\ KindAt(q) # "blank" <=>
                                         q >= p + 1 /\ KindAt(q) # "blank"
    OBVIOUS
  <2>. SUFFICES ASSUME NEW q \in Starts
                PROVE  q >= p /\ KindAt(q) # "blank" <=> q >= p + 1 /\ KindAt(q) # "blank"
    OBVIOUS
  <2>1. q \in Nat
    BY <1>1
  <2>2. CASE q = p
    BY <2>1, <2>2
  <2>3. CASE q # p
    BY <2>1, <2>3
  <2>. QED
    BY <2>2, <2>3
<1>5. p \in Starts /\ KindAt(p) # "blank" => Min(Solid(p)) = p /\ Solid(p) # {}
  <2>. SUFFICES ASSUME p \in Starts, KindAt(p) # "blank"
                PROVE  Min(Solid(p)) = p /\ Solid(p) # {}
    OBVIOUS
  <2>. DEFINE S == Solid(p)
  <2>1. S \in SUBSET Nat /\ p \in S /\ \A x \in S : p <= x
    <3>1. S \in SUBSET Starts /\ \A x \in S : x >= p
      OBVIOUS
    <3>2. p \in S
      <4>1. p >= p
        OBVIOUS
      <4>. QED
        BY <4>1
    <3>. HIDE DEF S
    <3>. QED
      BY <1>1, <3>1, <3>2
  <2>. HIDE DEF S
  <2>2. Min(S) = p /\ S # {}
    BY <2>1, MinIs
  <2>. QED
    BY <2>2 DEF S
<1>. HIDE DEF Solid
<1>. QED
  BY <1>2, <1>3, <1>4, <1>5

(* The first heading so far is that of the lines so far. *)
LEMMA BeforeIs ==
    ASSUME source \in Seq(Unit), Lined(source), NEW p \in Nat, NEW e \in Nat,
           p <= e, e <= Len(source),
           \A q \in p + 1 .. e : source[q] = "nl"
    PROVE  FirstHeading(e) = HeadingBefore(p)
<1>. DEFINE A == {q \in 1 .. e : IsHeading(source[q])}
            B == {q \in Starts : q <= p /\ IsHeading(KindAt(q))}
<1>1. /\ Starts \in SUBSET (1 .. Len(source)) /\ Len(source) \in Nat
      /\ \A q \in 1 .. Len(source) : source[q] # "nl" => q \in Starts
  BY SourceStarts
<1>2. A = B
  <2>1. ASSUME NEW q \in A PROVE q \in B
    <3>1. q \in 1 .. e /\ q \in 1 .. Len(source) /\ q \in Nat /\ IsHeading(source[q])
      BY <1>1
    <3>2. source[q] # "nl"
      BY <3>1 DEF IsHeading
    <3>3. q <= p
      <4>1. q > p => q \in p + 1 .. e
        BY <3>1
      <4>. QED
        BY <3>1, <3>2, <4>1
    <3>4. KindAt(q) = source[q]
      BY <3>2 DEF KindAt
    <3>. QED
      BY <1>1, <3>1, <3>2, <3>3, <3>4
  <2>2. ASSUME NEW q \in B PROVE q \in A
    <3>1. q \in 1 .. Len(source) /\ q <= p /\ IsHeading(KindAt(q))
      BY <1>1
    <3>2. q \in 1 .. e
      BY <3>1
    <3>3. source[q] # "nl" /\ KindAt(q) = source[q]
      BY <3>1 DEF KindAt, IsHeading
    <3>. QED
      BY <3>1, <3>2, <3>3
  <2>. QED
    BY <2>1, <2>2
<1>3. FirstHeading(e) = (IF A = {} THEN 0 ELSE Min(A))
      /\ HeadingBefore(p) = (IF B = {} THEN 0 ELSE Min(B))
  BY DEF FirstHeading, HeadingBefore
<1>. HIDE DEF A, B
<1>. QED
  BY <1>2, <1>3

(* The title, once a line is known that the front matter cannot go on with,  *)
(* or that there is none.                                                    *)
LEMMA StopIs ==
    ASSUME source \in Seq(Unit), Lined(source), Len(source) >= 1, KindAt(1) = "dash"
    PROVE  /\ \A p \in Later :
                Stops(p) /\ (\A q \in Later : q < p => ~Stops(q)) =>
                Title = IF /\ KindAt(p) = "dash" /\ Terminated(p)
                           /\ Keyed(p) \/ HeadingBefore(p) = 0
                        THEN HeadingAhead(p + 1) ELSE HeadingBefore(p)
           /\ (\A p \in Later : ~Stops(p)) => Title = HeadingBefore(Len(source))
<1>. DEFINE S == {p \in Later : Stops(p)}
<1>1. Later \in SUBSET Nat /\ Len(source) \in Nat
  BY SourceStarts DEF Later
<1>2. source # << >>
  OBVIOUS
<1>3. Title = IF S = {} THEN HeadingBefore(Len(source))
              ELSE IF /\ KindAt(Min(S)) = "dash" /\ Terminated(Min(S))
                      /\ Keyed(Min(S)) \/ HeadingBefore(Min(S)) = 0
                   THEN HeadingAhead(Min(S) + 1)
                   ELSE HeadingBefore(Min(S))
  BY <1>2 DEF Title
<1>4. ASSUME NEW p \in Later, Stops(p), \A q \in Later : q < p => ~Stops(q)
      PROVE  S # {} /\ Min(S) = p
  <2>1. p \in S /\ S \in SUBSET Later
    BY <1>4
  <2>2. \A x \in S : p <= x
    BY <1>1, <1>4
  <2>. HIDE DEF S
  <2>. QED
    BY <1>1, <2>1, <2>2, MinIs
<1>5. (\A p \in Later : ~Stops(p)) => S = {}
  OBVIOUS
<1>. HIDE DEF S
<1>. QED
  BY <1>3, <1>4, <1>5

(* A line of what may be front matter is seen: the lines up to its end are   *)
(* those before it and itself.                                               *)
LEMMA LineSeen ==
    ASSUME source \in Seq(Unit), Lined(source), NEW off \in Nat, off >= 1,
           NEW p, p = off + 1, p <= Len(source), source[off] = "nl",
           NEW e \in {p, p + 1}, e <= Len(source),
           e = p + 1 => source[p] # "nl" /\ source[e] = "nl"
    PROVE  /\ p \in Later
           /\ \A q \in Later : q < p <=> q <= off
           /\ \A q \in Later : q <= e <=> q <= off \/ q = p
           /\ Keyed(e + 1) <=> Keyed(p) \/ KindAt(p) = "meta"
           /\ FirstHeading(e) = HeadingBefore(p)
<1>1. /\ Len(source) \in Nat /\ p \in 2 .. Len(source) /\ p - 1 = off /\ p \in Nat /\ e \in Nat
      /\ p <= e /\ p \in 1 .. Len(source)
  OBVIOUS
<1>2. /\ Starts \in SUBSET (1 .. Len(source)) /\ Starts \in SUBSET Nat
      /\ \A q \in 2 .. Len(source) : q \in Starts <=> source[q - 1] = "nl"
  BY SourceStarts
<1>3. p \in Later
  BY <1>1, <1>2 DEF Later
<1>4. Later \in SUBSET Nat /\ \A q \in Later : q \in Starts /\ q # 1
  BY <1>2 DEF Later
<1>5. \A q \in Later : q < p <=> q <= off
  BY <1>1, <1>4
<1>6. e = p + 1 => e \notin Later
  <2>. SUFFICES ASSUME e = p + 1 PROVE e \notin Starts
    BY <1>4
  <2>1. e \in 2 .. Len(source) /\ e - 1 = p /\ source[p] # "nl"
    BY <1>1
  <2>. QED
    BY <1>2, <2>1
<1>7. \A q \in Later : q <= e <=> q <= off \/ q = p
  <2>. SUFFICES ASSUME NEW q \in Later PROVE q <= e <=> q <= off \/ q = p
    OBVIOUS
  <2>1. q \in Nat /\ (e = p + 1 => q # e)
    BY <1>4, <1>6
  <2>. QED
    BY <1>1, <2>1
<1>8. \A q \in Later : q < e + 1 <=> q < p \/ q = p
  <2>1. \A q \in Later : q < e + 1 <=> q <= e
    BY <1>1, <1>4
  <2>. QED
    BY <1>5, <1>7, <2>1
<1>9. Keyed(e + 1) <=> Keyed(p) \/ KindAt(p) = "meta"
  BY <1>3, <1>8 DEF Keyed
<1>10. FirstHeading(e) = HeadingBefore(p)
  <2>1. \A q \in p + 1 .. e : source[q] = "nl"
    BY <1>1
  <2>. QED
    BY <1>1, <2>1, BeforeIs
<1>. QED
  BY <1>3, <1>5, <1>7, <1>9, <1>10

(* A step that reads no line keeps what is known of the title.               *)
LEMMA TitleKept ==
    ASSUME TitleOK, source' = source, titling' = titling, stage' = stage,
           scan_off' = scan_off, fm_has_key' = fm_has_key, html_title' = html_title,
           scan_off' <= prefix_len', ended' => prefix_len' = Len(source)
    PROVE  TitleOK'
  BY SameTitle DEF TitleOK

(* auto_title_detect_from_source, outside of front matter.                   *)
LEMMA DetectLineTitle ==
    ASSUME IInv, TitleOK, DetectLine
    PROVE  TitleOK'
<1>1. /\ source \in Seq(Unit) /\ Lined(source) /\ prefix_len \in Nat /\ scan_off \in Nat
      /\ prefix_len <= Len(source) /\ Len(source) \in Nat /\ html_title \in Nat
      /\ source_off <= Len(source)
  BY DEF IInv, TypeOK, ReplayOK, FrontOK
<1>2. /\ stage = "line" /\ ~MoreNeeded
      /\ UNCHANGED <<source, titling, prefix_len, ended>> /\ fm_has_key' = fm_has_key
  BY DEF DetectLine, Detecting
<1>3. /\ scan_off <= prefix_len /\ (ended => prefix_len = Len(source))
      /\ LineTitle(scan_off, fm_has_key)
  BY <1>2 DEF TitleOK
<1>. DEFINE p    == scan_off + 1
            kind == LineKind(scan_off)
            end  == LineEnd(scan_off)
<1>4. Starts \in SUBSET (1 .. Len(source)) /\ (Len(source) >= 1 => 1 \in Starts)
      /\ \A q \in 2 .. Len(source) : q \in Starts <=> source[q - 1] = "nl"
  BY <1>1, SourceStarts
<1>5. scan_off > 0 \/ source = << >> \/ KindAt(1) # "dash" => Title = HeadingAhead(p)
  <2>1. CASE scan_off > 0
    BY <1>3, <2>1 DEF LineTitle
  <2>2. CASE ~(scan_off > 0)
    <3>1. p = 1
      BY <1>1, <2>2
    <3>. QED
      BY <3>1, <2>2 DEF Title
  <2>. QED
    BY <2>1, <2>2
<1>6. CASE scan_off = prefix_len
  <2>1. scan_off' = scan_off /\ stage' = "decided" /\ html_title' = 0
    BY <1>6 DEF DetectLine, Decided
  <2>2. ended /\ prefix_len = Len(source)
    BY <1>2, <1>3, <1>6 DEF MoreNeeded
  <2>3. p > Len(source) /\ p \in Nat /\ p >= 1
    BY <1>1, <1>6, <2>2
  <2>4. scan_off > 0 \/ source = << >>
    BY <1>1, <1>6, <2>2
  <2>5. Title = 0
    BY <1>1, <1>5, <2>3, <2>4, AheadIs
  <2>6. scan_off' <= prefix_len' /\ (ended' => prefix_len' = Len(source))
    BY <1>2, <1>3, <2>1
  <2>. QED
    BY <1>2, <2>1, <2>5, <2>6, SameTitle
<1>7. CASE scan_off # prefix_len
  <2>1. /\ p <= prefix_len /\ p \in 1 .. Len(source) /\ p \in Nat /\ p >= 1
        /\ scan_off < prefix_len
    BY <1>1, <1>3, <1>7
  <2>2. /\ kind = KindAt(p)
        /\ source[p] = "nl" => LineEnds(scan_off, prefix_len) # {} /\ end = p
        /\ source[p] # "nl" =>
             /\ LineEnds(scan_off, prefix_len) # {} => /\ end = p + 1
                                                       /\ p + 1 <= prefix_len
                                                       /\ source[p + 1] = "nl"
             /\ LineEnds(scan_off, prefix_len) = {} => p = prefix_len /\ end = p
    BY <1>1, <2>1, LineRead
  <2>3. scan_off' = end /\ end <= prefix_len /\ end \in Nat /\ end >= 1
    <3>1. scan_off' = end
      BY <1>7 DEF DetectLine
    <3>. HIDE DEF end, p
    <3>. QED
      BY <1>1, <2>1, <2>2, <3>1
  <2>4. p \in Starts
    <3>1. CASE scan_off = 0
      BY <1>1, <1>4, <2>1, <3>1
    <3>2. CASE scan_off # 0
      <4>1. p \in 2 .. Len(source) /\ p - 1 = scan_off /\ scan_off > 0
        BY <1>1, <2>1, <3>2
      <4>. QED
        BY <1>3, <1>4, <4>1 DEF LineTitle
    <3>. QED
      BY <3>1, <3>2
  <2>5. scan_off' <= prefix_len' /\ (ended' => prefix_len' = Len(source))
    BY <1>2, <1>3, <2>3
  <2>6. (CASE kind = "blank" -> UNCHANGED <<stage, html_title>>
           [] IsHeading(kind) -> Decided(p)
           [] scan_off = 0 /\ IsTitleFence(LineKind(0)) ->
                  stage' = "front" /\ UNCHANGED html_title
           [] OTHER -> Decided(0))
    BY <1>7 DEF DetectLine
  <2>7. source[p] = "nl" <=> kind = "blank"
    BY <1>1, <2>1, <2>2, LineIs
  <2>. HIDE DEF kind, end, p
  <2>8. CASE kind = "blank"
    <3>1. stage' = "line" /\ html_title' = html_title
      BY <1>2, <2>6, <2>8 DEF IsHeading, IsTitleFence, kind
    <3>2. scan_off' = p /\ source[p] = "nl"
      BY <2>2, <2>3, <2>7, <2>8
    <3>3. Title = HeadingAhead(p)
      <4>1. scan_off = 0 => KindAt(1) # "dash"
        BY <2>2, <2>8 DEF p
      <4>2. scan_off = 0 \/ scan_off > 0
        BY <1>1
      <4>. QED
        BY <1>5, <4>1, <4>2
    <3>4. Title = HeadingAhead(p + 1)
      BY <1>1, <2>1, <2>2, <2>8, <3>3, AheadIs
    <3>5. LineTitle(scan_off', fm_has_key')
      BY <2>1, <2>3, <3>2, <3>4 DEF LineTitle
    <3>. QED
      BY <1>2, <2>5, <3>1, <3>5, SameTitle
  <2>9. CASE IsHeading(kind)
    <3>1. stage' = "decided" /\ html_title' = p
      BY <2>6, <2>9 DEF IsHeading, IsTitleFence, kind, Decided
    <3>2. KindAt(p) # "blank" /\ (p = 1 => KindAt(1) # "dash")
      BY <2>2, <2>9 DEF IsHeading
    <3>3. Title = HeadingAhead(p)
      <4>1. scan_off = 0 => p = 1
        BY DEF p
      <4>2. scan_off = 0 \/ scan_off > 0
        BY <1>1
      <4>. QED
        BY <1>5, <3>2, <4>1, <4>2
    <3>4. HeadingAhead(p) = p
      BY <1>1, <2>1, <2>2, <2>4, <2>9, <3>2, AheadIs
    <3>. QED
      BY <1>2, <2>5, <3>1, <3>3, <3>4, SameTitle
  <2>10. CASE scan_off = 0 /\ kind = "dash"
    <3>1. stage' = "front" /\ html_title' = html_title
      BY <2>6, <2>10 DEF IsHeading, IsTitleFence, kind
    <3>2. p = 1 /\ KindAt(1) = "dash" /\ Len(source) >= 1
      <4>1. p = 1
        BY <2>10 DEF p
      <4>2. KindAt(1) = "dash"
        BY <2>2, <2>10, <4>1, Zenon
      <4>3. Len(source) >= 1
        BY <1>1, <2>1
      <4>. QED
        BY <4>1, <4>2, <4>3
    <3>3. ~fm_has_key
      BY <1>3, <2>10 DEF LineTitle
    <3>4. ReadsLine
      BY <1>2, <2>1, <2>10 DEF ReadsLine, kind
    <3>5. WholeLine(scan_off)
      BY <1>2, <3>4 DEF MoreNeeded
    <3>6. source[1] # "nl"
      BY <2>7, <2>10, <3>2
    <3>7. (end = 2 /\ source[2] = "nl") \/ (end = 1 /\ Len(source) = 1)
      <4>1. CASE LineEnds(scan_off, prefix_len) # {}
        <5>1. p + 1 = 2
          BY <3>2
        <5>. QED
          BY <2>2, <3>2, <3>6, <4>1, <5>1
      <4>2. CASE LineEnds(scan_off, prefix_len) = {}
        BY <1>3, <2>2, <3>2, <3>5, <3>6, <4>2 DEF WholeLine
      <4>. QED
        BY <4>1, <4>2
    <3>8. \A q \in Later : ~(q <= end)
      <4>. SUFFICES ASSUME NEW q \in Later, q <= end PROVE FALSE
        OBVIOUS
      <4>1. q \in Starts /\ q # 1 /\ q \in 1 .. Len(source)
        BY <1>4 DEF Later
      <4>2. q = 2 /\ end = 2 /\ 2 \in 2 .. Len(source)
        BY <1>1, <3>7, <4>1
      <4>3. source[1] = "nl"
        <5>1. 2 - 1 = 1
          OBVIOUS
        <5>. QED
          BY <1>4, <4>1, <4>2, <5>1
      <4>. QED
        BY <3>6, <4>3
    <3>9. ~Keyed(end + 1)
      <4>1. \A q \in Later : q \in Nat
        BY <1>1, <1>4 DEF Later
      <4>2. \A q \in Later : q < end + 1 => q <= end
        BY <2>3, <4>1
      <4>. QED
        BY <3>8, <4>2 DEF Keyed
    <3>10. source[end] = "nl" \/ end = Len(source)
      BY <3>7
    <3>11. FrontTitle(scan_off', fm_has_key')
      BY <1>2, <2>3, <3>2, <3>3, <3>8, <3>9, <3>10 DEF FrontTitle
    <3>. QED
      BY <1>2, <2>5, <3>1, <3>11, SameTitle
  <2>11. CASE kind # "blank" /\ ~IsHeading(kind) /\ ~(scan_off = 0 /\ kind = "dash")
    <3>1. stage' = "decided" /\ html_title' = 0
      <4>1. ~(scan_off = 0 /\ IsTitleFence(LineKind(0)))
        BY <2>11 DEF IsTitleFence, kind
      <4>. QED
        BY <2>6, <2>11, <4>1 DEF Decided
    <3>2. Title = HeadingAhead(p)
      <4>1. scan_off = 0 => p = 1 /\ KindAt(1) # "dash"
        BY <2>2, <2>11 DEF p
      <4>2. scan_off = 0 \/ scan_off > 0
        BY <1>1
      <4>. QED
        BY <1>5, <4>1, <4>2
    <3>3. HeadingAhead(p) = 0
      BY <1>1, <2>1, <2>2, <2>4, <2>11, AheadIs
    <3>. QED
      BY <1>2, <2>5, <3>1, <3>2, <3>3, SameTitle
  <2>. QED
    BY <2>8, <2>9, <2>10, <2>11
<1>. QED
  BY <1>6, <1>7

(* And within what may be front matter.                                      *)
LEMMA DetectFrontTitle ==
    ASSUME IInv, TitleOK, DetectFront
    PROVE  TitleOK'
<1>1. /\ source \in Seq(Unit) /\ Lined(source) /\ prefix_len \in Nat /\ scan_off \in Nat
      /\ prefix_len <= Len(source) /\ Len(source) \in Nat /\ fm_has_key \in BOOLEAN
  BY DEF IInv, TypeOK, ReplayOK, FrontOK
<1>2. /\ stage = "front" /\ ~MoreNeeded
      /\ UNCHANGED <<source, titling, prefix_len, ended>>
      /\ scan_off' = LineEnd(scan_off)
  BY DEF DetectFront, Detecting
<1>3. /\ scan_off <= prefix_len /\ (ended => prefix_len = Len(source))
      /\ Len(source) >= 1 /\ KindAt(1) = "dash" /\ scan_off >= 1
      /\ source[scan_off] = "nl" \/ scan_off = Len(source)
      /\ \A q \in Later : q <= scan_off => ~Stops(q)
      /\ fm_has_key <=> Keyed(scan_off + 1)
  BY <1>2 DEF TitleOK, FrontTitle
<1>. DEFINE p    == scan_off + 1
            kind == LineKind(scan_off)
            end  == LineEnd(scan_off)
            E    == LineEnds(scan_off, prefix_len)
<1>4. E # {} \/ ended
  BY <1>2 DEF MoreNeeded, ReadsLine, WholeLine
<1>5. IF E = {}
      THEN Decided(FirstHeading(end)) /\ UNCHANGED fm_has_key
      ELSE CASE IsTitleFence(kind) /\ (fm_has_key \/ FirstHeading(end) = 0) ->
                    stage' = "line" /\ UNCHANGED <<html_title, fm_has_key>>
             [] IsMetadata(kind) ->
                    /\ fm_has_key' = (fm_has_key \/ kind = "meta")
                    /\ UNCHANGED <<stage, html_title>>
             [] IsContinuation(kind) /\ fm_has_key ->
                    UNCHANGED <<stage, html_title, fm_has_key>>
             [] OTHER -> Decided(FirstHeading(end)) /\ UNCHANGED fm_has_key
  BY DEF DetectFront
<1>6. p \in Nat /\ p >= 1 /\ p - 1 = scan_off
  BY <1>1
<1>7. Later \in SUBSET (1 .. Len(source))
  BY <1>1, SourceStarts DEF Later
<1>8. CASE scan_off = prefix_len
  <2>1. E = {}
    BY <1>1, <1>8 DEF LineEnds
  <2>2. prefix_len = Len(source) /\ end = Len(source)
    BY <1>3, <1>4, <2>1 DEF LineEnd
  <2>3. stage' = "decided" /\ html_title' = FirstHeading(Len(source))
    BY <1>5, <2>1, <2>2 DEF Decided
  <2>4. \A q \in Later : ~Stops(q)
    <3>1. \A q \in Later : q <= scan_off
      BY <1>1, <1>7, <1>8, <2>2
    <3>. QED
      BY <1>3, <3>1
  <2>5. FirstHeading(Len(source)) = HeadingBefore(Len(source))
    <3>1. Len(source) <= Len(source) /\ \A q \in Len(source) + 1 .. Len(source) : source[q] = "nl"
      BY <1>1
    <3>. QED
      BY <1>1, <3>1, BeforeIs
  <2>6. Title = HeadingBefore(Len(source))
    BY <1>1, <1>3, <2>4, StopIs
  <2>7. scan_off' <= prefix_len' /\ (ended' => prefix_len' = Len(source))
    BY <1>1, <1>2, <1>3, <2>2
  <2>. QED
    BY <1>2, <2>3, <2>5, <2>6, <2>7, SameTitle
<1>9. CASE scan_off # prefix_len
  <2>1. /\ p <= prefix_len /\ p \in 1 .. Len(source) /\ p <= Len(source)
        /\ source[scan_off] = "nl"
    BY <1>1, <1>3, <1>9
  <2>2. /\ kind = KindAt(p)
        /\ source[p] = "nl" => E # {} /\ end = p
        /\ source[p] # "nl" =>
             /\ E # {} => end = p + 1 /\ p + 1 <= prefix_len /\ source[p + 1] = "nl"
             /\ E = {} => p = prefix_len /\ end = p
    BY <1>1, <2>1, LineRead
  <2>3. /\ source[p] = "nl" => KindAt(p) = "blank" /\ Terminated(p)
        /\ source[p] # "nl" => /\ KindAt(p) = source[p] /\ KindAt(p) # "blank"
                               /\ Terminated(p) <=> p < Len(source)
    BY <1>1, <2>1, LineIs
  <2>. HIDE DEF kind, end, E
  <2>4. /\ end \in {p, p + 1} /\ end <= prefix_len /\ end <= Len(source)
        /\ end = p + 1 => source[p] # "nl" /\ source[end] = "nl"
    <3>1. p # p + 1
      BY <1>6
    <3>. HIDE DEF p
    <3>2. end \in {p, p + 1} /\ end <= prefix_len
      BY <1>6, <2>1, <2>2
    <3>3. end <= Len(source)
      <4>1. end \in Nat
        BY <1>6, <3>2
      <4>. QED
        BY <1>1, <3>2, <4>1
    <3>4. end = p + 1 => source[p] # "nl" /\ source[end] = "nl"
      BY <2>2, <3>1
    <3>. QED
      BY <3>2, <3>3, <3>4
  <2>5. /\ p \in Later
        /\ \A q \in Later : q < p <=> q <= scan_off
        /\ \A q \in Later : q <= end <=> q <= scan_off \/ q = p
        /\ Keyed(end + 1) <=> Keyed(p) \/ KindAt(p) = "meta"
        /\ FirstHeading(end) = HeadingBefore(p)
    BY <1>1, <1>3, <2>1, <2>4, LineSeen
  <2>6. fm_has_key <=> Keyed(p)
    BY <1>3
  <2>7. Stops(p) => Title = IF /\ KindAt(p) = "dash" /\ Terminated(p)
                               /\ Keyed(p) \/ HeadingBefore(p) = 0
                            THEN HeadingAhead(p + 1) ELSE HeadingBefore(p)
    <3>1. \A q \in Later : q < p => ~Stops(q)
      BY <1>3, <2>5
    <3>. QED
      BY <1>1, <1>3, <2>5, <3>1, StopIs
  <2>8. scan_off' = end /\ scan_off' <= prefix_len' /\ (ended' => prefix_len' = Len(source))
    BY <1>2, <1>3, <2>4 DEF end
  <2>9. E # {} => Terminated(p) /\ source[end] = "nl"
    <3>1. CASE source[p] = "nl"
      BY <2>2, <2>3, <3>1
    <3>2. CASE source[p] # "nl" /\ E # {}
      <4>1. p < Len(source)
        BY <1>1, <1>6, <2>2, <3>2
      <4>. QED
        BY <2>2, <2>3, <3>2, <4>1
    <3>. QED
      BY <3>1, <3>2
  <2>10. Stops(p) <=> \/ KindAt(p) = "dash" \/ ~Terminated(p)
                      \/ ~IsMetadata(KindAt(p)) /\ ~(IsContinuation(KindAt(p)) /\ Keyed(p))
    BY DEF Stops
  <2>11. end \in Nat /\ end >= 1
    BY <1>6, <2>4
  <2>. HIDE DEF p
  <2>12. CASE E = {}
    <3>1. stage' = "decided" /\ html_title' = FirstHeading(end)
      BY <1>5, <2>12 DEF Decided
    <3>2. source[p] # "nl" /\ p = prefix_len
      BY <2>2, <2>12
    <3>3. ~Terminated(p)
      BY <1>1, <1>3, <1>4, <2>3, <2>12, <3>2
    <3>4. Title = HeadingBefore(p)
      BY <2>7, <2>10, <3>3
    <3>. QED
      BY <1>2, <2>5, <2>8, <3>1, <3>4, SameTitle
  <2>13. CASE E # {} /\ kind = "dash" /\ (fm_has_key \/ FirstHeading(end) = 0)
    <3>1. stage' = "line" /\ html_title' = html_title /\ fm_has_key' = fm_has_key
      BY <1>5, <2>13 DEF IsTitleFence, IsMetadata, IsContinuation
    <3>2. Title = HeadingAhead(p + 1)
      BY <2>2, <2>5, <2>6, <2>7, <2>9, <2>10, <2>13
    <3>3. source[p] # "nl" /\ end = p + 1 /\ source[p + 1] = "nl"
      BY <2>2, <2>3, <2>13
    <3>4. HeadingAhead(p + 1) = HeadingAhead(p + 1 + 1)
      <4>1. p + 1 \in 2 .. Len(source) /\ (p + 1) - 1 = p /\ p + 1 \in Nat /\ p + 1 >= 1
        BY <1>1, <1>6, <2>4, <3>3
      <4>2. p + 1 \notin Starts
        BY <1>1, <3>3, <4>1, SourceStarts
      <4>. QED
        BY <1>1, <4>1, <4>2, AheadIs
    <3>5. LineTitle(scan_off', fm_has_key')
      <4>1. scan_off' # 0
        BY <2>8, <2>11
      <4>2. source[scan_off'] = "nl" /\ Title = HeadingAhead(scan_off' + 1)
        BY <2>8, <2>9, <2>13, <3>2, <3>3, <3>4
      <4>. QED
        BY <4>1, <4>2 DEF LineTitle
    <3>. QED
      BY <1>2, <2>8, <3>1, <3>5, SameTitle
  <2>14. CASE E # {} /\ ~Stops(p)
    <3>1. /\ stage' = "front" /\ html_title' = html_title
          /\ fm_has_key' <=> fm_has_key \/ KindAt(p) = "meta"
      <4>1. kind # "dash" /\ (IsMetadata(kind) \/ (IsContinuation(kind) /\ fm_has_key))
        BY <2>2, <2>6, <2>9, <2>10, <2>14
      <4>2. CASE IsMetadata(kind)
        <5>1. ~IsTitleFence(kind) /\ ~IsContinuation(kind)
          BY <4>2 DEF IsTitleFence, IsMetadata, IsContinuation
        <5>2. fm_has_key' = (fm_has_key \/ kind = "meta") /\ UNCHANGED <<stage, html_title>>
          BY <1>5, <2>14, <4>2, <5>1
        <5>. QED
          BY <1>2, <2>2, <5>2
      <4>3. CASE IsContinuation(kind) /\ fm_has_key
        <5>1. ~IsTitleFence(kind) /\ ~IsMetadata(kind) /\ kind # "meta"
          BY <4>3 DEF IsTitleFence, IsMetadata, IsContinuation
        <5>2. UNCHANGED <<stage, html_title, fm_has_key>>
          BY <1>5, <2>14, <4>3, <5>1
        <5>. QED
          BY <1>2, <2>2, <5>1, <5>2
      <4>. QED
        BY <4>1, <4>2, <4>3
    <3>2. \A q \in Later : q <= end => ~Stops(q)
      BY <1>3, <2>5, <2>14
    <3>3. fm_has_key' <=> Keyed(end + 1)
      BY <2>5, <2>6, <3>1
    <3>4. FrontTitle(scan_off', fm_has_key')
      BY <1>3, <2>8, <2>9, <2>11, <2>14, <3>2, <3>3 DEF FrontTitle
    <3>. QED
      BY <1>2, <2>8, <3>1, <3>4, SameTitle
  <2>15. CASE /\ E # {} /\ Stops(p)
              /\ ~(kind = "dash" /\ (fm_has_key \/ FirstHeading(end) = 0))
    <3>1. stage' = "decided" /\ html_title' = FirstHeading(end)
      <4>1. ~(IsTitleFence(kind) /\ (fm_has_key \/ FirstHeading(end) = 0))
        BY <2>15 DEF IsTitleFence
      <4>2. ~IsMetadata(kind) /\ ~(IsContinuation(kind) /\ fm_has_key)
        <5>1. KindAt(p) = "dash" => ~IsMetadata(KindAt(p)) /\ ~IsContinuation(KindAt(p))
          BY DEF IsMetadata, IsContinuation
        <5>. QED
          BY <2>2, <2>6, <2>9, <2>10, <2>15, <5>1
      <4>. QED
        BY <1>5, <2>15, <4>1, <4>2 DEF Decided
    <3>2. Title = HeadingBefore(p)
      BY <2>2, <2>5, <2>6, <2>7, <2>15
    <3>. QED
      BY <1>2, <2>5, <2>8, <3>1, <3>2, SameTitle
  <2>16. kind = "dash" /\ E # {} => Stops(p)
    BY <2>2, <2>10
  <2>. QED
    BY <2>12, <2>13, <2>14, <2>15, <2>16
<1>. QED
  BY <1>8, <1>9

(* Every step keeps what is known of the title.                              *)
LEMMA TitleNext == IInv /\ TitleOK /\ [Next]_vars => TitleOK'
<1>. SUFFICES ASSUME IInv, TitleOK, [Next]_vars PROVE TitleOK'
  OBVIOUS
<1>1. /\ source \in Seq(Unit) /\ prefix_len \in Nat /\ scan_off \in Nat
      /\ source_off \in Nat /\ source_off <= Len(source) /\ Len(source) \in Nat
      /\ scan_off <= prefix_len /\ (ended => prefix_len = Len(source))
  BY DEF IInv, TypeOK, ReplayOK, TitleOK
<1>2. CASE DetectLine
  BY <1>2, DetectLineTitle
<1>3. CASE DetectFront
  BY <1>3, DetectFrontTitle
<1>4. CASE ReadAhead
  <2>1. source_off = prefix_len
    BY <1>4 DEF ReadAhead, MoreNeeded, ReadsLine, IInv, ReplayOK
  <2>2. PICK n \in Reads(ProbeRead) : prefix_len' = prefix_len + n /\ ended' = (n = 0)
    BY <1>4 DEF ReadAhead
  <2>3. n \in Nat /\ (n = 0 => prefix_len = Len(source))
    <3>1. ProbeRead \in Nat /\ ProbeRead >= 1
      BY BoundsAssumption
    <3>. QED
      BY <1>1, <2>1, <2>2, <3>1, ReadsAre
  <2>4. UNCHANGED <<source, titling, stage, fm_has_key, html_title, scan_off>>
    BY <1>4 DEF ReadAhead, detection
  <2>5. scan_off' <= prefix_len' /\ (ended' => prefix_len' = Len(source))
    <3>1. prefix_len' \in Nat /\ prefix_len <= prefix_len' /\ (n = 0 => prefix_len' = prefix_len)
      BY <1>1, <2>2, <2>3
    <3>2. scan_off <= prefix_len'
      BY <1>1, <3>1
    <3>. QED
      BY <2>2, <2>3, <2>4, <3>1, <3>2
  <2>. QED
    BY <2>4, <2>5, TitleKept
<1>5. CASE SourceFails \/ Replay \/ Read \/ FinishDocument \/ UNCHANGED vars
  <2>1. UNCHANGED <<source, titling, stage, fm_has_key, html_title, scan_off, prefix_len, ended>>
    BY <1>5 DEF SourceFails, Replay, Read, FinishDocument, vars, detection
  <2>. QED
    BY <1>1, <2>1, TitleKept
<1>. QED
  BY <1>2, <1>3, <1>4, <1>5 DEF Next

(* The title chosen for an HTML document is that of the document, however it *)
(* was cut into reads: the search waits for whole lines, and what it has     *)
(* passed holds no title (auto_title_detect_from_source).                    *)
THEOREM TitleRight == Spec => []TitleAnyChunking
<1>1. Init => TitleOK
  <2>. SUFFICES ASSUME Init PROVE TitleOK
    OBVIOUS
  <2>1. prefix_len = 0 /\ scan_off = 0 /\ ended = FALSE /\ fm_has_key = FALSE
    BY DEF Init
  <2>2. stage = "line" => LineTitle(scan_off, fm_has_key)
    BY <2>1 DEF LineTitle
  <2>3. stage # "front" /\ ~(titling /\ stage = "decided")
    BY DEF Init
  <2>. QED
    BY <2>1, <2>2, <2>3 DEF TitleOK
<1>2. IInv /\ TitleOK /\ [Next]_vars => TitleOK'
  BY TitleNext
<1>3. TitleOK => TitleAnyChunking
  BY DEF TitleOK, TitleAnyChunking
<1>. QED
  BY <1>1, <1>2, <1>3, Invariance, PTL DEF Spec

-----------------------------------------------------------------------------
(* Functions of the elements of a sequence, one after the other              *)

Distributes(F, S) ==
    \A s, t \in Seq(S) :
        FlattenSeq(Mapped(F, s \o t)) = FlattenSeq(Mapped(F, s)) \o FlattenSeq(Mapped(F, t))

LEMMA FlatMapConcat ==
    ASSUME NEW S, NEW T, NEW F \in [S -> Seq(T)]
    PROVE  Distributes(F, S)
<1>. SUFFICES ASSUME NEW s \in Seq(S), NEW t \in Seq(S)
              PROVE  FlattenSeq(Mapped(F, s \o t)) = FlattenSeq(Mapped(F, s)) \o FlattenSeq(Mapped(F, t))
  BY DEF Distributes
<1>. DEFINE G(x) == FlattenSeq(Mapped(F, x))
            P == {u \in Seq(S) : G(s \o u) = G(s) \o G(u)}
<1>1. /\ G(<<>>) = <<>>
      /\ \A x \in Seq(S) : G(x) \in Seq(T)
      /\ \A x \in Seq(S), e \in S : G(Append(x, e)) = G(x) \o F[e]
  BY FlatMapAppend DEF FlatMaps
<1>2. <<>> \in P
  <2>1. s \o <<>> = s /\ <<>> \in Seq(S) /\ G(s) \in Seq(T)
    BY <1>1
  <2>. HIDE DEF G
  <2>2. G(s) \o <<>> = G(s)
    BY <2>1
  <2>. QED
    BY <1>1, <2>1, <2>2
<1>3. ASSUME NEW u \in P, NEW e \in S
      PROVE  Append(u, e) \in P
  <2>. HIDE DEF G
  <2>1. u \in Seq(S) /\ G(s \o u) = G(s) \o G(u)
    OBVIOUS
  <2>2. s \o Append(u, e) = Append(s \o u, e) /\ s \o u \in Seq(S) /\ Append(u, e) \in Seq(S)
    BY <2>1
  <2>3. G(s \o Append(u, e)) = (G(s) \o G(u)) \o F[e] /\ G(Append(u, e)) = G(u) \o F[e]
    BY <1>1, <2>1, <2>2
  <2>4. G(s) \in Seq(T) /\ G(u) \in Seq(T) /\ F[e] \in Seq(T)
    BY <1>1, <2>1
  <2>5. \A x, y, z \in Seq(T) : (x \o y) \o z = x \o (y \o z)
    OBVIOUS
  <2>6. (G(s) \o G(u)) \o F[e] = G(s) \o (G(u) \o F[e])
    BY <2>4, <2>5
  <2>7. G(s \o Append(u, e)) = G(s) \o G(Append(u, e))
    BY <2>3, <2>6
  <2>. QED
    BY <2>2, <2>7
<1>4. P = Seq(S)
  <2>. HIDE DEF P
  <2>1. P \in SUBSET Seq(S)
    BY DEF P
  <2>. QED
    BY <1>2, <1>3, <2>1, SeqInduct
<1>. QED
  BY <1>4

(* The texts of joined sequences are those of each.                          *)
Each(F, S) == [x \in Seq(S) |-> FlattenSeq(Mapped(F, x))]

LEMMA FlatMapFlat ==
    ASSUME NEW S, NEW T, NEW F \in [S -> Seq(T)], NEW seqs \in Seq(Seq(S))
    PROVE  /\ FlattenSeq(seqs) \in Seq(S)
           /\ FlattenSeq(Mapped(F, FlattenSeq(seqs))) = FlattenSeq(Mapped(Each(F, S), seqs))
<1>. DEFINE G(x) == FlattenSeq(Mapped(F, x))
            R == Seq(S)
            E == Each(F, S)
            P == {u \in Seq(R) : FlattenSeq(u) \in Seq(S) /\ G(FlattenSeq(u)) = FlattenSeq(Mapped(E, u))}
<1>0. \A x, y \in Seq(S) : G(x \o y) = G(x) \o G(y)
  <2>1. Distributes(F, S)
    BY FlatMapConcat
  <2>. QED
    BY <2>1 DEF Distributes
<1>1. G(<<>>) = <<>> /\ \A x \in R : G(x) \in Seq(T)
  BY FlatMapAppend DEF FlatMaps
<1>2. E \in [R -> Seq(T)] /\ \A x \in R : E[x] = G(x)
  BY <1>1, Zenon DEF Each
<1>3. /\ FlattenSeq(Mapped(E, <<>>)) = <<>>
      /\ \A x \in Seq(R) : FlattenSeq(Mapped(E, x)) \in Seq(T)
      /\ \A x \in Seq(R), e \in R : FlattenSeq(Mapped(E, Append(x, e))) = FlattenSeq(Mapped(E, x)) \o E[e]
  <2>. HIDE DEF R, E
  <2>. QED
    BY <1>2, FlatMapAppend DEF FlatMaps
<1>4. <<>> \in P
  <2>1. <<>> \in Seq(R) /\ <<>> \in Seq(S)
    OBVIOUS
  <2>. QED
    BY <1>1, <1>3, <2>1, FlattenEmpty
<1>5. ASSUME NEW u \in P, NEW e \in R
      PROVE  Append(u, e) \in P
  <2>1. u \in Seq(R) /\ FlattenSeq(u) \in Seq(S) /\ G(FlattenSeq(u)) = FlattenSeq(Mapped(E, u))
    OBVIOUS
  <2>2. FlattenSeq(Append(u, e)) = FlattenSeq(u) \o e /\ e \in Seq(S) /\ Append(u, e) \in Seq(R)
    BY <2>1, FlattenAppend
  <2>3. G(FlattenSeq(u) \o e) = G(FlattenSeq(u)) \o G(e)
    BY <1>0, <2>1
  <2>4. FlattenSeq(Mapped(E, Append(u, e))) = FlattenSeq(Mapped(E, u)) \o G(e)
    <3>. HIDE DEF R, E, G
    <3>. QED
      BY <1>2, <1>3, <2>1
  <2>5. FlattenSeq(u) \o e \in Seq(S)
    BY <2>1, <2>2
  <2>. HIDE DEF G, E
  <2>. QED
    BY <2>1, <2>2, <2>3, <2>4, <2>5
<1>6. P = Seq(R)
  <2>. HIDE DEF P, R
  <2>1. P \in SUBSET Seq(R)
    BY DEF P
  <2>. QED
    BY <1>4, <1>5, <2>1, SeqInduct
<1>. QED
  BY <1>6

-----------------------------------------------------------------------------
(* The text of a slide                                                       *)

Tokens == [tag : {"space", "heading", "#", "text", "/span", "span"}, pos : Nat]
Texts  == [t \in Tokens |-> When(t.tag = "text", <<t.pos>>)]

LEMMA TextsType == Texts \in [Tokens -> Seq(Nat)]
<1>1. ASSUME NEW t \in Tokens
      PROVE  When(t.tag = "text", <<t.pos>>) \in Seq(Nat)
  <2>1. t.pos \in Nat
    BY DEF Tokens
  <2>. QED
    BY <2>1 DEF When
<1>. QED
  BY <1>1, Zenon DEF Texts

LEMMA TextOfIs == \A s \in Seq(Tokens) : TextOf(s) = FlattenSeq(Mapped(Texts, s))
<1>. SUFFICES ASSUME NEW s \in Seq(Tokens)
              PROVE  TextOf(s) = FlattenSeq(Mapped(Texts, s))
  OBVIOUS
<1>1. \A i \in DOMAIN s : s[i] \in Tokens
  OBVIOUS
<1>2. \A i \in DOMAIN s : When(s[i].tag = "text", <<s[i].pos>>) = Texts[s[i]]
  BY <1>1, Zenon DEF Texts
<1>3. [i \in DOMAIN s |-> When(s[i].tag = "text", <<s[i].pos>>)] = Mapped(Texts, s)
  BY <1>2, Zenon DEF Mapped
<1>. QED
  BY <1>3, Zenon DEF TextOf

(* The text of joined tokens is that of each.                                *)
LEMMA TextOfRules ==
    /\ TextOf(<<>>) = <<>>
    /\ \A s \in Seq(Tokens) : TextOf(s) \in Seq(Nat)
    /\ \A s \in Seq(Tokens), t \in Tokens : TextOf(Append(s, t)) = TextOf(s) \o Texts[t]
    /\ \A s, t \in Seq(Tokens) : TextOf(s \o t) = TextOf(s) \o TextOf(t)
<1>1. FlatMaps(Tokens, Nat, Texts)
  BY TextsType, FlatMapAppend
<1>2. Distributes(Texts, Tokens)
  BY TextsType, FlatMapConcat
<1>3. <<>> \in Seq(Tokens) /\ \A s \in Seq(Tokens), t \in Tokens : Append(s, t) \in Seq(Tokens)
  OBVIOUS
<1>4. \A s, t \in Seq(Tokens) : s \o t \in Seq(Tokens)
  OBVIOUS
<1>. DEFINE G(x) == FlattenSeq(Mapped(Texts, x))
<1>5. /\ G(<<>>) = <<>> /\ \A s \in Seq(Tokens) : G(s) \in Seq(Nat)
      /\ \A s \in Seq(Tokens), t \in Tokens : G(Append(s, t)) = G(s) \o Texts[t]
      /\ \A s, t \in Seq(Tokens) : G(s \o t) = G(s) \o G(t)
  BY <1>1, <1>2, Zenon DEF FlatMaps, Distributes
<1>6. \A s \in Seq(Tokens) : TextOf(s) = G(s)
  BY TextOfIs
<1>. HIDE DEF G
<1>7. TextOf(<<>>) = <<>> /\ \A s \in Seq(Tokens) : TextOf(s) \in Seq(Nat)
  BY <1>3, <1>5, <1>6
<1>8. ASSUME NEW s \in Seq(Tokens), NEW t \in Tokens
      PROVE  TextOf(Append(s, t)) = TextOf(s) \o Texts[t]
  <2>1. Append(s, t) \in Seq(Tokens)
    BY <1>3
  <2>. QED
    BY <1>5, <1>6, <2>1, Zenon
<1>9. ASSUME NEW s \in Seq(Tokens), NEW t \in Seq(Tokens)
      PROVE  TextOf(s \o t) = TextOf(s) \o TextOf(t)
  <2>1. s \o t \in Seq(Tokens)
    BY <1>4
  <2>. QED
    BY <1>5, <1>6, <2>1, Zenon
<1>. QED
  BY <1>7, <1>8, <1>9, Zenon

Blanks(s) == \A i \in 1 .. Len(s) : ~IsInk(s[i])

(* White space has none.                                                     *)
LEMMA BlankText == \A s \in Seq(Tokens) : Blanks(s) => TextOf(s) = <<>>
<1>. DEFINE P == {s \in Seq(Tokens) : Blanks(s) => TextOf(s) = <<>>}
<1>1. <<>> \in P
  <2>1. <<>> \in Seq(Tokens)
    OBVIOUS
  <2>. QED
    BY <2>1, TextOfRules
<1>2. ASSUME NEW s \in P, NEW t \in Tokens
      PROVE  Append(s, t) \in P
  <2>1. s \in Seq(Tokens) /\ (Blanks(s) => TextOf(s) = <<>>)
    OBVIOUS
  <2>2. Append(s, t) \in Seq(Tokens) /\ Len(Append(s, t)) = Len(s) + 1 /\ Append(s, t)[Len(s) + 1] = t
        /\ Len(s) \in Nat /\ \A i \in 1 .. Len(s) : Append(s, t)[i] = s[i]
    BY <2>1
  <2>3. ASSUME Blanks(Append(s, t))
        PROVE  TextOf(Append(s, t)) = <<>>
    <3>1. \A i \in 1 .. Len(s) + 1 : ~IsInk(Append(s, t)[i])
      BY <2>2, <2>3 DEF Blanks
    <3>2. Blanks(s)
      BY <2>2, <3>1 DEF Blanks
    <3>3. ~IsInk(t)
      BY <2>2, <3>1
    <3>4. Texts[t] = <<>>
      BY <3>3 DEF Texts, When, IsInk
    <3>5. TextOf(Append(s, t)) = TextOf(s) \o Texts[t]
      BY <2>1, TextOfRules
    <3>6. <<>> \o <<>> = <<>>
      OBVIOUS
    <3>. QED
      BY <2>1, <3>2, <3>4, <3>5, <3>6
  <2>. QED
    BY <2>2, <2>3
<1>3. P = Seq(Tokens)
  <2>. HIDE DEF P
  <2>1. P \in SUBSET Seq(Tokens)
    BY DEF P
  <2>. QED
    BY <1>1, <1>2, <2>1, SeqInduct
<1>. QED
  BY <1>3

(* A sequence in two parts.                                                  *)
LEMMA InParts ==
    ASSUME NEW S, NEW s \in Seq(S), NEW n \in 0 .. Len(s)
    PROVE  /\ SubSeq(s, 1, n) \in Seq(S) /\ SubSeq(s, n + 1, Len(s)) \in Seq(S)
           /\ s = SubSeq(s, 1, n) \o SubSeq(s, n + 1, Len(s))
           /\ Len(SubSeq(s, 1, n)) = n /\ \A i \in 1 .. n : SubSeq(s, 1, n)[i] = s[i]
           /\ Len(SubSeq(s, n + 1, Len(s))) = Len(s) - n
           /\ \A i \in 1 .. Len(s) - n : SubSeq(s, n + 1, Len(s))[i] = s[n + i]
<1>. DEFINE a == SubSeq(s, 1, n)
            b == SubSeq(s, n + 1, Len(s))
<1>1. Len(s) \in Nat /\ n \in Nat
  OBVIOUS
<1>2. /\ a \in Seq(S) /\ Len(a) = n /\ \A i \in 1 .. n : a[i] = s[i]
  BY <1>1, PartOf
<1>3. /\ b \in Seq(S) /\ Len(b) = Len(s) - n /\ \A i \in 1 .. Len(s) - n : b[i] = s[n + i]
  <2>1. n + 1 \in Nat \ {0} /\ Len(s) \in Int /\ Len(s) <= Len(s)
    BY <1>1
  <2>. DEFINE m == n + 1
              l == Len(s)
  <2>2. SubSeq(s, m, l) \in Seq(S) /\ (l < m => Len(SubSeq(s, m, l)) = 0)
        /\ (l >= m => Len(SubSeq(s, m, l)) = l - m + 1)
        /\ \A i \in 1 .. (l - m + 1) : SubSeq(s, m, l)[i] = s[m + i - 1]
    <3>1. m \in Nat \ {0} /\ l \in Int /\ l <= Len(s)
      BY <2>1
    <3>. HIDE DEF m, l
    <3>. QED
      BY <3>1, PartOf
  <2>. QED
    BY <1>1, <2>2
<1>. HIDE DEF a, b
<1>4. a \o b \in Seq(S) /\ Len(a \o b) = Len(s)
      /\ \A i \in 1 .. Len(s) : (a \o b)[i] = IF i <= n THEN a[i] ELSE b[i - n]
  BY <1>1, <1>2, <1>3, ConcatProperties
<1>5. ASSUME NEW i \in 1 .. Len(s)
      PROVE  (a \o b)[i] = s[i]
  BY <1>1, <1>2, <1>3, <1>4
<1>6. a \o b = s
  BY <1>4, <1>5, SeqEqual
<1>. QED
  BY <1>2, <1>3, <1>6 DEF a, b

(* The greatest of some numbers that are bounded.                            *)
LEMMA MaxOf ==
    ASSUME NEW n \in Nat, NEW S \in SUBSET (0 .. n), S # {}
    PROVE  Max(S) \in S /\ \A x \in S : Max(S) >= x
<1>. DEFINE D == {n - x : x \in S}
<1>1. D \in SUBSET Nat /\ D # {}
  <2>1. PICK x \in S : TRUE
    OBVIOUS
  <2>2. n - x \in D
    OBVIOUS
  <2>3. \A y \in S : n - y \in Nat
    OBVIOUS
  <2>. QED
    BY <2>2, <2>3
<1>2. PICK d \in D : \A e \in D : d <= e
  <2>. HIDE DEF D
  <2>. QED
    BY <1>1, LeastOf
<1>3. PICK m \in S : d = n - m
  OBVIOUS
<1>4. \A x \in S : m >= x
  <2>1. \A x \in S : n - x \in D /\ x \in Nat
    OBVIOUS
  <2>2. \A x \in S : d <= n - x
    BY <1>2, <2>1
  <2>. HIDE DEF D
  <2>. QED
    BY <1>3, <2>1, <2>2
<1>. QED
  BY <1>4, Zenon DEF Max

(* Trimming takes white space only.                                          *)
LEMMA TrimText ==
    ASSUME NEW s \in Seq(Tokens)
    PROVE  TrimHtml(s) \in Seq(Tokens) /\ TextOf(TrimHtml(s)) = TextOf(s)
<1>1. Len(s) \in Nat /\ Ink(s) \in SUBSET (0 .. Len(s)) /\ Ink(s) \in SUBSET Nat
      /\ \A i \in 1 .. Len(s) : i \in Ink(s) <=> IsInk(s[i])
  BY DEF Ink
<1>2. CASE Ink(s) = {}
  <2>1. Blanks(s)
    BY <1>1, <1>2 DEF Blanks
  <2>2. TextOf(s) = <<>>
    BY <2>1, BlankText
  <2>3. TrimHtml(s) = <<>>
    BY <1>2 DEF TrimHtml
  <2>4. <<>> \in Seq(Tokens)
    OBVIOUS
  <2>. QED
    BY <2>2, <2>3, <2>4, TextOfRules
<1>3. CASE Ink(s) # {}
  <2>. DEFINE m == Min(Ink(s))
              n == Max(Ink(s))
              u == SubSeq(s, 1, n)
              v == SubSeq(s, n + 1, Len(s))
              a == SubSeq(u, 1, m - 1)
              b == SubSeq(u, m, n)
  <2>1. m \in Ink(s) /\ \A x \in Ink(s) : m <= x
    BY <1>1, <1>3, MinOf
  <2>2. n \in Ink(s) /\ \A x \in Ink(s) : n >= x
    BY <1>1, <1>3, MaxOf
  <2>3. m \in 1 .. Len(s) /\ n \in 1 .. Len(s) /\ m <= n
    BY <2>1, <2>2 DEF Ink
  <2>4. TrimHtml(s) = SubSeq(s, m, n)
    BY <1>3 DEF TrimHtml
  <2>. HIDE DEF m, n
  <2>5. u \in Seq(Tokens) /\ v \in Seq(Tokens) /\ s = u \o v /\ Len(u) = n
        /\ (\A i \in 1 .. n : u[i] = s[i])
        /\ Len(v) = Len(s) - n /\ \A i \in 1 .. Len(s) - n : v[i] = s[n + i]
    <3>1. n \in 0 .. Len(s)
      BY <2>3
    <3>. QED
      BY <3>1, InParts
  <2>6. SubSeq(s, m, n) \in Seq(Tokens) /\ Len(SubSeq(s, m, n)) = n - m + 1
        /\ \A i \in 1 .. (n - m + 1) : SubSeq(s, m, n)[i] = s[m + i - 1]
    <3>1. m \in Nat \ {0} /\ n \in Int /\ n <= Len(s) /\ n >= m
      BY <1>1, <2>3
    <3>. QED
      BY <3>1, PartOf
  <2>7. Blanks(v)
    <3>1. ASSUME NEW i \in 1 .. Len(v)
          PROVE  ~IsInk(v[i])
      <4>1. n + i \in 1 .. Len(s) /\ n + i \notin Ink(s)
        BY <1>1, <2>2, <2>3, <2>5
      <4>. QED
        BY <1>1, <2>5, <4>1
    <3>. QED
      BY <3>1 DEF Blanks
  <2>. HIDE DEF u, v
  <2>8. a \in Seq(Tokens) /\ b \in Seq(Tokens) /\ u = a \o b /\ Len(a) = m - 1
        /\ (\A i \in 1 .. m - 1 : a[i] = u[i])
        /\ Len(b) = n - (m - 1) /\ \A i \in 1 .. n - (m - 1) : b[i] = u[(m - 1) + i]
    <3>. DEFINE k == m - 1
    <3>1. k \in 0 .. Len(u) /\ m = k + 1
      BY <1>1, <2>3, <2>5
    <3>. HIDE DEF k
    <3>2. SubSeq(u, 1, k) \in Seq(Tokens) /\ SubSeq(u, k + 1, n) \in Seq(Tokens)
          /\ u = SubSeq(u, 1, k) \o SubSeq(u, k + 1, n) /\ Len(SubSeq(u, 1, k)) = k
          /\ (\A i \in 1 .. k : SubSeq(u, 1, k)[i] = u[i])
          /\ Len(SubSeq(u, k + 1, n)) = n - k /\ \A i \in 1 .. n - k : SubSeq(u, k + 1, n)[i] = u[k + i]
      <4>1. u \in Seq(Tokens) /\ Len(u) = n
        BY <2>5
      <4>. QED
        BY <3>1, <4>1, InParts
    <3>. QED
      BY <3>1, <3>2 DEF k
  <2>9. Blanks(a)
    <3>1. ASSUME NEW i \in 1 .. Len(a)
          PROVE  ~IsInk(a[i])
      <4>1. i \in 1 .. Len(s) /\ i \notin Ink(s) /\ a[i] = s[i]
        BY <1>1, <2>1, <2>3, <2>5, <2>8
      <4>. QED
        BY <1>1, <4>1
    <3>. QED
      BY <3>1 DEF Blanks
  <2>. HIDE DEF a, b
  <2>10. b = SubSeq(s, m, n)
    <3>1. Len(b) = n - m + 1 /\ m \in Int /\ n \in Int
      BY <1>1, <2>3, <2>8
    <3>2. ASSUME NEW i \in 1 .. n - m + 1
          PROVE  b[i] = SubSeq(s, m, n)[i]
      <4>1. i \in 1 .. n - (m - 1) /\ (m - 1) + i \in 1 .. n /\ (m - 1) + i = m + i - 1
        BY <1>1, <2>3
      <4>. DEFINE k == (m - 1) + i
      <4>2. b[i] = u[k]
        BY <2>8, <4>1
      <4>3. u[k] = s[k]
        BY <2>5, <4>1
      <4>4. SubSeq(s, m, n)[i] = s[k]
        BY <2>6, <4>1
      <4>. QED
        BY <4>2, <4>3, <4>4
    <3>. QED
      BY <2>6, <2>8, <3>1, <3>2, SeqEqual
  <2>11. TextOf(a) = <<>> /\ TextOf(v) = <<>>
    BY <2>5, <2>7, <2>8, <2>9, BlankText
  <2>12. TextOf(u) = TextOf(a) \o TextOf(b) /\ TextOf(s) = TextOf(u) \o TextOf(v) /\ TextOf(b) \in Seq(Nat)
    BY <2>5, <2>8, TextOfRules
  <2>13. \A x \in Seq(Nat) : <<>> \o x = x /\ x \o <<>> = x
    OBVIOUS
  <2>14. TextOf(s) = TextOf(b)
    BY <2>11, <2>12, <2>13
  <2>. QED
    BY <2>4, <2>8, <2>10, <2>14
<1>. QED
  BY <1>2, <1>3

(* What is left out after a heading is white space.                          *)
LEMMA BodyText ==
    ASSUME NEW s \in Seq(Tokens)
    PROVE  BodyHtml(s) \in Seq(Tokens) /\ TextOf(BodyHtml(s)) = TextOf(s)
<1>. DEFINE ends == {SpanEnd(s, i) : i \in {j \in 1 .. Len(s) : s[j].tag = "heading"}}
            After(i) == \E e \in ends \cap 1 .. i - 1 : \A j \in e + 1 .. i : ~IsInk(s[j])
            w == [i \in DOMAIN s |-> When(~After(i), <<s[i]>>)]
            E == Each(Texts, Tokens)
<1>1. BodyHtml(s) = FlattenSeq(w)
  BY Zenon DEF BodyHtml
<1>2. ASSUME NEW i \in DOMAIN s
      PROVE  After(i) => ~IsInk(s[i])
  <2>1. ASSUME NEW e \in 1 .. i - 1, \A j \in e + 1 .. i : ~IsInk(s[j])
        PROVE  ~IsInk(s[i])
    <3>1. i \in e + 1 .. i
      OBVIOUS
    <3>. QED
      BY <2>1, <3>1
  <2>. HIDE DEF ends
  <2>. QED
    BY <2>1
<1>. HIDE DEF ends
<1>3. ASSUME NEW i \in DOMAIN s
      PROVE  w[i] \in Seq(Tokens) /\ E[w[i]] = Texts[s[i]]
  <2>. HIDE DEF After
  <2>1. s[i] \in Tokens /\ <<>> \in Seq(Tokens) /\ <<s[i]>> \in Seq(Tokens)
    OBVIOUS
  <2>2. \A x \in Seq(Tokens) : E[x] = TextOf(x)
    BY TextOfIs, Zenon DEF Each
  <2>3. w[i] = IF After(i) THEN <<>> ELSE <<s[i]>>
    BY DEF When
  <2>4. CASE After(i)
    <3>1. Texts[s[i]] = <<>>
      BY <1>2, <2>1, <2>4 DEF Texts, When, IsInk
    <3>2. w[i] = <<>>
      BY <2>3, <2>4
    <3>. HIDE DEF w, E
    <3>. QED
      BY <2>1, <2>2, <3>1, <3>2, TextOfRules
  <2>5. CASE ~After(i)
    <3>1. w[i] = <<s[i]>>
      BY <2>3, <2>5
    <3>2. <<s[i]>> = Append(<<>>, s[i])
      OBVIOUS
    <3>. HIDE DEF w, E
    <3>3. TextOf(<<s[i]>>) = TextOf(<<>>) \o Texts[s[i]]
      BY <2>1, <3>2, TextOfRules
    <3>4. Texts[s[i]] \in Seq(Nat)
      BY <2>1, TextsType
    <3>5. \A x \in Seq(Nat) : <<>> \o x = x
      OBVIOUS
    <3>. QED
      BY <2>1, <2>2, <3>1, <3>3, <3>4, <3>5, TextOfRules
  <2>. QED
    BY <2>4, <2>5
<1>4. w \in Seq(Seq(Tokens)) /\ DOMAIN w = DOMAIN s
  <2>1. DOMAIN w = 1 .. Len(s) /\ Len(s) \in Nat /\ w = [i \in 1 .. Len(s) |-> w[i]]
    OBVIOUS
  <2>. DEFINE R == Seq(Tokens)
  <2>2. \A i \in 1 .. Len(s) : w[i] \in R
    BY <1>3
  <2>. HIDE DEF w, R
  <2>3. w \in Seq(R)
    BY <2>1, <2>2, IsASeq
  <2>. QED
    BY <2>1, <2>3 DEF R
<1>. HIDE DEF w, E
<1>5. FlattenSeq(w) \in Seq(Tokens) /\ FlattenSeq(Mapped(Texts, FlattenSeq(w))) = FlattenSeq(Mapped(E, w))
  BY <1>4, TextsType, FlatMapFlat DEF E
<1>6. Mapped(E, w) = Mapped(Texts, s)
  BY <1>3, <1>4, Zenon DEF Mapped
<1>. QED
  BY <1>1, <1>5, <1>6, TextOfIs, Zenon

(* Every heading ends.                                                       *)
HeadingsEnd(s) ==
    \A i \in 1 .. Len(s) : s[i].tag = "heading" => \E j \in i .. Len(s) : s[j].tag = "/span"

LEMMA TopEnd ==
    ASSUME NEW s \in Seq(Tokens), HeadingsEnd(s)
    PROVE  TopHeadingEnd(s) \in 0 .. Len(s)
<1>. DEFINE first == Min(Ink(s))
<1>1. CASE Ink(s) # {} /\ s[first].tag = "heading"
  <2>1. Ink(s) \in SUBSET Nat /\ Ink(s) \in SUBSET (1 .. Len(s))
    BY DEF Ink
  <2>2. first \in 1 .. Len(s)
    BY <1>1, <2>1, MinOf
  <2>. HIDE DEF first
  <2>. DEFINE J == {j \in first .. Len(s) : s[j].tag = "/span"}
  <2>3. J \in SUBSET Nat /\ J # {}
    BY <1>1, <2>2 DEF HeadingsEnd
  <2>4. Min(J) \in J
    <3>. HIDE DEF J
    <3>. QED
      BY <2>3, MinOf
  <2>5. SpanEnd(s, first) = Min(J)
    BY DEF SpanEnd
  <2>6. TopHeadingEnd(s) = SpanEnd(s, first)
    BY <1>1, Zenon DEF TopHeadingEnd, first
  <2>. QED
    BY <2>2, <2>4, <2>5, <2>6
<1>2. CASE ~(Ink(s) # {} /\ s[first].tag = "heading")
  <2>1. TopHeadingEnd(s) = 0
    BY <1>2, Zenon DEF TopHeadingEnd
  <2>. QED
    BY <2>1
<1>. QED
  BY <1>1, <1>2

Sections == [header : Seq(Tokens), body : Seq(Tokens)]

(* Cutting a slide into a heading and a body takes no text.                  *)
LEMMA SectionText ==
    ASSUME NEW s \in Seq(Tokens), HeadingsEnd(s), NEW index
    PROVE  /\ Section(s, index) \in Sections
           /\ TextOf(Section(s, index).header) \o TextOf(Section(s, index).body) = TextOf(s)
<1>. DEFINE none == <<>>
            end == TopHeadingEnd(s)
            a == SubSeq(s, 1, end)
            b == SubSeq(s, end + 1, Len(s))
            t == TrimHtml(b)
            c == BodyHtml(t)
<1>0. \A x \in Seq(Nat) : none \o x = x
  OBVIOUS
<1>1. none \in Seq(Tokens) /\ TextOf(none) = none
  BY TextOfRules
<1>2. TextOf(s) \in Seq(Nat)
  BY TextOfRules
<1>3. CASE index = 1
  <2>. HIDE DEF none
  <2>1. Section(s, index) = [header |-> none, body |-> s]
    BY <1>3 DEF Section, none
  <2>. QED
    BY <1>0, <1>1, <1>2, <2>1 DEF Sections
<1>4. CASE index # 1
  <2>1. Section(s, index) = [header |-> a, body |-> c]
    BY <1>4, Zenon DEF Section
  <2>2. end \in 0 .. Len(s)
    BY TopEnd
  <2>. HIDE DEF end
  <2>3. a \in Seq(Tokens) /\ b \in Seq(Tokens) /\ s = a \o b
    BY <2>2, InParts
  <2>. HIDE DEF a, b
  <2>4. t \in Seq(Tokens) /\ TextOf(t) = TextOf(b)
    BY <2>3, TrimText
  <2>. HIDE DEF t
  <2>5. c \in Seq(Tokens) /\ TextOf(c) = TextOf(t)
    BY <2>4, BodyText
  <2>. HIDE DEF c
  <2>6. TextOf(s) = TextOf(a) \o TextOf(b)
    BY <2>3, TextOfRules
  <2>. QED
    BY <2>1, <2>3, <2>4, <2>5, <2>6 DEF Sections
<1>. QED
  BY <1>3, <1>4

(* A line's rendering has its text, unless it is blank.                      *)
LEMMA LineText ==
    ASSUME NEW p \in Nat, NEW fenced
    PROVE  /\ LineHtml(p, fenced) \in Seq(Tokens) /\ HeadingsEnd(LineHtml(p, fenced))
           /\ TextOf(LineHtml(p, fenced)) = When(~IsBlank(doc[p]), <<p>>)
<1>. DEFINE none == <<>>
            T(tag) == [tag |-> tag, pos |-> p]
            space == [tag |-> "space", pos |-> 0]
            s1 == Append(none, space)
            h1 == Append(none, T("heading"))
            h2 == Append(h1, T("#"))
            h3 == Append(h2, space)
            h4 == Append(h3, T("text"))
            h5 == Append(h4, T("/span"))
            h6 == Append(h5, space)
            l1 == Append(none, T("span"))
            l2 == Append(l1, T("text"))
            l3 == Append(l2, T("/span"))
            l4 == Append(l3, space)
            x == LineHtml(p, fenced)
<1>1. /\ space \in Tokens /\ T("heading") \in Tokens /\ T("#") \in Tokens /\ T("text") \in Tokens
      /\ T("/span") \in Tokens /\ T("span") \in Tokens
  BY DEF Tokens
<1>2. /\ Texts[space] = none /\ Texts[T("heading")] = none /\ Texts[T("#")] = none
      /\ Texts[T("/span")] = none /\ Texts[T("span")] = none /\ Texts[T("text")] = <<p>>
  BY <1>1 DEF Texts, When
<1>3. none \in Seq(Tokens) /\ TextOf(none) = none /\ \A s \in Seq(Tokens), t \in Tokens :
        Append(s, t) \in Seq(Tokens) /\ TextOf(Append(s, t)) = TextOf(s) \o Texts[t]
  BY TextOfRules
<1>4. <<p>> \in Seq(Nat) /\ none \in Seq(Nat) /\ \A s \in Seq(Nat) : none \o s = s /\ s \o none = s
  OBVIOUS
<1>5. \A s \in Seq(Tokens), t \in Tokens : Texts[t] = none =>
        Append(s, t) \in Seq(Tokens) /\ TextOf(Append(s, t)) = TextOf(s)
  <2>1. \A s \in Seq(Tokens) : TextOf(s) \in Seq(Nat)
    BY TextOfRules
  <2>. HIDE DEF none
  <2>2. ASSUME NEW s \in Seq(Tokens), NEW t \in Tokens, Texts[t] = none
        PROVE  Append(s, t) \in Seq(Tokens) /\ TextOf(Append(s, t)) = TextOf(s)
    <3>1. TextOf(Append(s, t)) = TextOf(s) \o none
      BY <1>3, <2>2, Zenon
    <3>2. TextOf(s) \o none = TextOf(s)
      BY <1>4, <2>1, Zenon
    <3>. QED
      BY <1>3, <3>1, <3>2, Zenon
  <2>. QED
    BY <2>2, Zenon
<1>6. \A s \in Seq(Tokens), t \in Tokens : Texts[t] = <<p>> /\ TextOf(s) = none =>
        Append(s, t) \in Seq(Tokens) /\ TextOf(Append(s, t)) = <<p>>
  <2>. HIDE DEF none
  <2>. QED
    BY <1>3, <1>4
<1>7. CASE IsBlank(doc[p])
  <2>1. x = s1
    BY <1>7 DEF LineHtml, Space, Token
  <2>2. s1 \in Seq(Tokens) /\ TextOf(s1) = none
    <3>. HIDE DEF space, none
    <3>. QED
      BY <1>1, <1>2, <1>3, <1>4
  <2>3. HeadingsEnd(s1)
    BY DEF HeadingsEnd
  <2>. QED
    BY <1>7, <2>1, <2>2, <2>3 DEF When
<1>8. CASE ~IsBlank(doc[p]) /\ doc[p].what = "comment" /\ ~fenced
  <2>1. x = h6
    BY <1>8 DEF LineHtml, Space, Token
  <2>2. h1 \in Seq(Tokens) /\ TextOf(h1) = none
    <3>. HIDE DEF T, space, none
    <3>. QED
      BY <1>1, <1>2, <1>3, <1>5, <1>6, Zenon
  <2>3. h2 \in Seq(Tokens) /\ TextOf(h2) = none
    <3>. HIDE DEF T, space, none, h1
    <3>. QED
      BY <1>1, <1>2, <1>3, <1>5, <1>6, <2>2, Zenon
  <2>4. h3 \in Seq(Tokens) /\ TextOf(h3) = none
    <3>. HIDE DEF T, space, none, h2
    <3>. QED
      BY <1>1, <1>2, <1>3, <1>5, <1>6, <2>3, Zenon
  <2>5. h4 \in Seq(Tokens) /\ TextOf(h4) = <<p>>
    <3>. HIDE DEF T, space, none, h3
    <3>. QED
      BY <1>1, <1>2, <1>3, <1>5, <1>6, <2>4, Zenon
  <2>6. h5 \in Seq(Tokens) /\ TextOf(h5) = <<p>>
    <3>. HIDE DEF T, space, none, h4
    <3>. QED
      BY <1>1, <1>2, <1>3, <1>5, <1>6, <2>5, Zenon
  <2>7. h6 \in Seq(Tokens) /\ TextOf(h6) = <<p>>
    <3>. HIDE DEF T, space, none, h5
    <3>. QED
      BY <1>1, <1>2, <1>3, <1>5, <1>6, <2>6, Zenon
  <2>8. HeadingsEnd(h6)
    BY DEF HeadingsEnd
  <2>. QED
    BY <1>8, <2>1, <2>7, <2>8 DEF When
<1>9. CASE ~IsBlank(doc[p]) /\ ~(doc[p].what = "comment" /\ ~fenced)
  <2>1. x = l4
    BY <1>9 DEF LineHtml, Space, Token
  <2>2. l1 \in Seq(Tokens) /\ TextOf(l1) = none
    <3>. HIDE DEF T, space, none
    <3>. QED
      BY <1>1, <1>2, <1>3, <1>5, <1>6, Zenon
  <2>3. l2 \in Seq(Tokens) /\ TextOf(l2) = <<p>>
    <3>. HIDE DEF T, space, none, l1
    <3>. QED
      BY <1>1, <1>2, <1>3, <1>5, <1>6, <2>2, Zenon
  <2>4. l3 \in Seq(Tokens) /\ TextOf(l3) = <<p>>
    <3>. HIDE DEF T, space, none, l2
    <3>. QED
      BY <1>1, <1>2, <1>3, <1>5, <1>6, <2>3, Zenon
  <2>5. l4 \in Seq(Tokens) /\ TextOf(l4) = <<p>>
    <3>. HIDE DEF T, space, none, l3
    <3>. QED
      BY <1>1, <1>2, <1>3, <1>5, <1>6, <2>4, Zenon
  <2>6. HeadingsEnd(l4)
    BY DEF HeadingsEnd
  <2>. QED
    BY <1>9, <2>1, <2>5, <2>6 DEF When
<1>. QED
  BY <1>7, <1>8, <1>9

Ended == {s \in Seq(Tokens) : HeadingsEnd(s)}

LEMMA HeadingsJoin == \A s, t \in Ended : s \o t \in Ended
<1>. SUFFICES ASSUME NEW s \in Ended, NEW t \in Ended
              PROVE  s \o t \in Ended
  OBVIOUS
<1>. DEFINE x == s \o t
            m == Len(s)
            n == Len(t)
<1>1. s \in Seq(Tokens) /\ t \in Seq(Tokens) /\ HeadingsEnd(s) /\ HeadingsEnd(t)
  BY DEF Ended
<1>2. x \in Seq(Tokens) /\ Len(x) = m + n /\ m \in Nat /\ n \in Nat
      /\ (\A i \in 1 .. m : x[i] = s[i]) /\ \A i \in 1 .. n : x[m + i] = t[i]
  BY <1>1
<1>. HIDE DEF x
<1>3. ASSUME NEW i \in 1 .. Len(x), x[i].tag = "heading"
      PROVE  \E j \in i .. Len(x) : x[j].tag = "/span"
  <2>1. CASE i <= m
    <3>1. i \in 1 .. m
      BY <2>1
    <3>2. PICK j \in i .. m : s[j].tag = "/span"
      BY <1>1, <1>2, <1>3, <3>1 DEF HeadingsEnd
    <3>3. j \in i .. Len(x) /\ x[j] = s[j]
      BY <1>2, <3>1
    <3>. QED
      BY <3>2, <3>3
  <2>2. CASE i > m
    <3>. DEFINE k == i - m
    <3>1. k \in 1 .. n /\ m + k = i
      BY <1>2, <2>2
    <3>. HIDE DEF k
    <3>2. x[i] = t[k]
      BY <1>2, <3>1
    <3>3. PICK j \in k .. n : t[j].tag = "/span"
      BY <1>1, <1>3, <3>1, <3>2 DEF HeadingsEnd
    <3>4. j \in 1 .. n /\ m + j \in i .. Len(x) /\ x[m + j] = t[j]
      BY <1>2, <3>1
    <3>. QED
      BY <3>3, <3>4
  <2>. QED
    BY <1>2, <2>1, <2>2
<1>4. HeadingsEnd(x)
  BY <1>3 DEF HeadingsEnd
<1>. QED
  BY <1>2, <1>4 DEF Ended, x

LEMMA HeadingsFlat == \A seqs \in Seq(Ended) : FlattenSeq(seqs) \in Ended
<1>. DEFINE P == {u \in Seq(Ended) : FlattenSeq(u) \in Ended}
<1>1. <<>> \in P
  <2>1. <<>> \in Seq(Ended) /\ <<>> \in Seq(Tokens) /\ HeadingsEnd(<<>>)
    BY DEF HeadingsEnd
  <2>. QED
    BY <2>1, FlattenEmpty DEF Ended
<1>2. ASSUME NEW u \in P, NEW e \in Ended
      PROVE  Append(u, e) \in P
  <2>1. u \in Seq(Ended) /\ FlattenSeq(u) \in Ended /\ Append(u, e) \in Seq(Ended)
    OBVIOUS
  <2>2. Ended \in SUBSET Seq(Tokens)
    BY DEF Ended
  <2>3. u \in Seq(Seq(Tokens)) /\ e \in Seq(Tokens)
    BY <2>1, <2>2
  <2>4. FlattenSeq(Append(u, e)) = FlattenSeq(u) \o e
    BY <2>3, FlattenAppend
  <2>5. FlattenSeq(u) \o e \in Ended
    BY <2>1, HeadingsJoin
  <2>. QED
    BY <2>1, <2>4, <2>5
<1>3. P = Seq(Ended)
  <2>. HIDE DEF P
  <2>1. P \in SUBSET Seq(Ended)
    BY DEF P
  <2>. QED
    BY <1>1, <1>2, <2>1, SeqInduct
<1>. QED
  BY <1>3

(* A slide's text is that of its lines.                                      *)
Inked == [p \in Nat |-> When(~IsBlank(doc[p]), <<p>>)]

LEMMA InkedType == Inked \in [Nat -> Seq(Nat)]
<1>1. \A p \in Nat : When(~IsBlank(doc[p]), <<p>>) \in Seq(Nat)
  BY DEF When
<1>. QED
  BY <1>1, Zenon DEF Inked

LEMMA SlideText ==
    ASSUME NEW lines \in Seq(Nat)
    PROVE  LinesHtml(lines) \in Ended /\ TextOf(LinesHtml(lines)) = FlattenSeq(Mapped(Inked, lines))
<1>. DEFINE w == [i \in 1 .. Len(lines) |-> LineHtml(lines[i], FenceBefore(lines)[i] # NoFence)]
            E == Each(Texts, Tokens)
<1>1. LinesHtml(lines) = FlattenSeq(w)
  BY Zenon DEF LinesHtml
<1>2. ASSUME NEW i \in 1 .. Len(lines)
      PROVE  w[i] \in Ended /\ E[w[i]] = Inked[lines[i]]
  <2>. DEFINE fenced == FenceBefore(lines)[i] # NoFence
              p == lines[i]
  <2>1. p \in Nat
    OBVIOUS
  <2>2. w[i] = LineHtml(p, fenced)
    OBVIOUS
  <2>. HIDE DEF fenced, p, w
  <2>3. LineHtml(p, fenced) \in Seq(Tokens) /\ HeadingsEnd(LineHtml(p, fenced))
        /\ TextOf(LineHtml(p, fenced)) = When(~IsBlank(doc[p]), <<p>>)
    BY <2>1, LineText
  <2>4. E[LineHtml(p, fenced)] = TextOf(LineHtml(p, fenced))
    BY <2>3, TextOfIs, Zenon DEF Each
  <2>5. Inked[p] = When(~IsBlank(doc[p]), <<p>>)
    BY <2>1, Zenon DEF Inked
  <2>. HIDE DEF E
  <2>6. E[w[i]] = Inked[p]
    BY <2>2, <2>3, <2>4, <2>5, Zenon
  <2>7. w[i] \in Ended
    BY <2>2, <2>3, Zenon DEF Ended
  <2>. QED
    BY <2>6, <2>7 DEF p
<1>3. w \in Seq(Ended) /\ DOMAIN w = DOMAIN lines
  <2>1. DOMAIN w = 1 .. Len(lines) /\ DOMAIN lines = 1 .. Len(lines) /\ Len(lines) \in Nat
        /\ w = [i \in 1 .. Len(lines) |-> w[i]]
    OBVIOUS
  <2>. HIDE DEF w
  <2>. QED
    BY <1>2, <2>1, IsASeq
<1>. HIDE DEF w, E
<1>4. w \in Seq(Seq(Tokens))
  <2>1. Ended \in SUBSET Seq(Tokens)
    BY DEF Ended
  <2>. QED
    BY <1>3, <2>1
<1>5. FlattenSeq(w) \in Ended
  BY <1>3, HeadingsFlat
<1>6. FlattenSeq(Mapped(Texts, FlattenSeq(w))) = FlattenSeq(Mapped(E, w))
  BY <1>4, TextsType, FlatMapFlat DEF E
<1>7. Mapped(E, w) = Mapped(Inked, lines)
  <2>1. \A i \in DOMAIN w : E[w[i]] = Inked[lines[i]]
    <3>1. DOMAIN lines = 1 .. Len(lines)
      OBVIOUS
    <3>. QED
      BY <1>2, <1>3, <3>1, Zenon
  <2>. QED
    BY <1>3, <2>1, Zenon DEF Mapped
<1>8. FlattenSeq(w) \in Seq(Tokens)
  BY <1>5 DEF Ended
<1>. QED
  BY <1>1, <1>5, <1>6, <1>7, <1>8, TextOfIs, Zenon

(* s has the lines from a + 1 to b that are not blank, in order.             *)
Shows(s, a, b, d) ==
    /\ s \in Seq(Nat)
    /\ \A i, j \in 1 .. Len(s) : i < j => s[i] < s[j]
    /\ \A p \in Nat : (\E i \in 1 .. Len(s) : s[i] = p) <=> a < p /\ p <= b /\ ~IsBlank(d[p])

LEMMA SpanNext ==
    ASSUME NEW a \in Nat, NEW b \in Nat, a <= b
    PROVE  Span(a, b + 1) = Append(Span(a, b), b + 1) /\ Span(a, b) \in Seq(Nat)
<1>. DEFINE s == Span(a, b)
            t == Span(a, b + 1)
            u == Append(s, b + 1)
            n == b - a
<1>1. s \in Seq(Nat) /\ Len(s) = n /\ n \in Nat /\ \A i \in 1 .. n : s[i] = a + i
  BY SpanType
<1>2. t \in Seq(Nat) /\ Len(t) = n + 1 /\ \A i \in 1 .. n + 1 : t[i] = a + i
  <2>1. b + 1 \in Nat /\ a <= b + 1 /\ b + 1 - a = n + 1
    OBVIOUS
  <2>. QED
    BY <2>1, SpanType
<1>. HIDE DEF s, t
<1>3. u \in Seq(Nat) /\ Len(u) = n + 1 /\ u[n + 1] = b + 1 /\ \A i \in 1 .. n : u[i] = s[i]
  BY <1>1
<1>4. ASSUME NEW i \in 1 .. n + 1
      PROVE  t[i] = u[i]
  BY <1>1, <1>2, <1>3
<1>5. t = u
  BY <1>2, <1>3, <1>4, SeqEqual
<1>. QED
  BY <1>1, <1>5 DEF s, t

LEMMA SpanShown ==
    ASSUME NEW a \in Nat, NEW b \in Nat, a <= b
    PROVE  Shows(FlattenSeq(Mapped(Inked, Span(a, b))), a, b, doc)
<1>. DEFINE G(x) == FlattenSeq(Mapped(Inked, x))
            P == {n \in Nat : Shows(G(Span(a, a + n)), a, a + n, doc)}
<1>1. /\ G(<<>>) = <<>> /\ \A x \in Seq(Nat) : G(x) \in Seq(Nat)
      /\ \A x \in Seq(Nat), p \in Nat : G(Append(x, p)) = G(x) \o Inked[p]
  <2>1. FlatMaps(Nat, Nat, Inked)
    BY InkedType, FlatMapAppend
  <2>. QED
    BY <2>1, Zenon DEF FlatMaps
<1>2. 0 \in P
  <2>1. Span(a, a + 0) = <<>>
    BY DEF Span
  <2>2. Shows(<<>>, a, a + 0, doc)
    BY DEF Shows
  <2>. QED
    BY <1>1, <2>1, <2>2
<1>. HIDE DEF G
<1>3. ASSUME NEW n \in P
      PROVE  n + 1 \in P
  <2>. DEFINE q == a + n
              s == G(Span(a, q))
  <2>1. n \in Nat /\ q \in Nat /\ a <= q /\ Shows(s, a, q, doc) /\ a + (n + 1) = q + 1 /\ q + 1 \in Nat
    OBVIOUS
  <2>2. Span(a, q + 1) = Append(Span(a, q), q + 1) /\ Span(a, q) \in Seq(Nat)
    BY <2>1, SpanNext
  <2>3. G(Span(a, q + 1)) = s \o Inked[q + 1]
    BY <1>1, <2>1, <2>2
  <2>4. Inked[q + 1] = When(~IsBlank(doc[q + 1]), <<q + 1>>)
    BY <2>1, Zenon DEF Inked
  <2>. HIDE DEF s, q
  <2>5. Shows(s \o Inked[q + 1], a, q + 1, doc)
    <3>1. CASE IsBlank(doc[q + 1])
      <4>1. s \o Inked[q + 1] = s
        <5>1. Inked[q + 1] = <<>>
          BY <2>4, <3>1 DEF When
        <5>2. \A x \in Seq(Nat) : x \o <<>> = x
          OBVIOUS
        <5>. QED
          BY <2>1, <5>1, <5>2 DEF Shows
      <4>2. \A p \in Nat : a < p /\ p <= q + 1 /\ ~IsBlank(doc[p]) <=> a < p /\ p <= q /\ ~IsBlank(doc[p])
        BY <2>1, <3>1
      <4>. QED
        BY <2>1, <4>1, <4>2 DEF Shows
    <3>2. CASE ~IsBlank(doc[q + 1])
      <4>. DEFINE m == Len(s)
                  t == Append(s, q + 1)
      <4>0. s \in Seq(Nat) /\ (\A i, j \in 1 .. m : i < j => s[i] < s[j])
            /\ \A p \in Nat : (\E i \in 1 .. m : s[i] = p) <=> a < p /\ p <= q /\ ~IsBlank(doc[p])
        BY <2>1 DEF Shows
      <4>1. s \o Inked[q + 1] = t
        <5>1. Inked[q + 1] = <<q + 1>>
          BY <2>4, <3>2 DEF When
        <5>2. \A x \in Seq(Nat) : x \o <<q + 1>> = Append(x, q + 1)
          BY <2>1
        <5>. QED
          BY <4>0, <5>1, <5>2
      <4>2. t \in Seq(Nat) /\ Len(t) = m + 1 /\ m \in Nat /\ t[m + 1] = q + 1 /\ \A i \in 1 .. m : t[i] = s[i]
        BY <2>1, <4>0
      <4>. HIDE DEF t, m
      <4>3. \A i \in 1 .. m : s[i] \in Nat /\ s[i] <= q
        BY <4>0, <4>2 DEF m
      <4>4. ASSUME NEW i \in 1 .. m + 1, NEW j \in 1 .. m + 1, i < j
            PROVE  t[i] < t[j]
        <5>1. i \in 1 .. m
          BY <4>2, <4>4
        <5>2. CASE j = m + 1
          BY <2>1, <4>2, <4>3, <5>1, <5>2
        <5>3. CASE j \in 1 .. m
          BY <4>0, <4>2, <4>4, <5>1, <5>3
        <5>. QED
          BY <4>2, <5>2, <5>3
      <4>5. ASSUME NEW p \in Nat
            PROVE  (\E i \in 1 .. m + 1 : t[i] = p) <=> a < p /\ p <= q + 1 /\ ~IsBlank(doc[p])
        <5>1. (\E i \in 1 .. m + 1 : t[i] = p) <=> p = q + 1 \/ \E i \in 1 .. m : s[i] = p
          BY <4>2
        <5>2. a < p /\ p <= q + 1 /\ ~IsBlank(doc[p]) <=> p = q + 1 \/ (a < p /\ p <= q /\ ~IsBlank(doc[p]))
          BY <2>1, <3>2
        <5>. QED
          BY <4>0, <5>1, <5>2
      <4>. QED
        BY <4>1, <4>2, <4>4, <4>5 DEF Shows
    <3>. QED
      BY <3>1, <3>2
  <2>6. Shows(G(Span(a, a + (n + 1))), a, a + (n + 1), doc)
    BY <2>1, <2>3, <2>5, Zenon
  <2>7. n + 1 \in Nat
    BY <2>1
  <2>. QED
    BY <2>6, <2>7, Zenon
<1>4. P = Nat
  <2>. HIDE DEF P
  <2>1. P \in SUBSET Nat
    BY DEF P
  <2>. QED
    BY <1>2, <1>3, <2>1, NatInduct
<1>5. \A n \in Nat : Shows(G(Span(a, a + n)), a, a + n, doc)
  BY <1>4, Zenon
<1>. DEFINE k == b - a
<1>6. k \in Nat /\ a + k = b
  OBVIOUS
<1>. HIDE DEF k
<1>7. Shows(G(Span(a, b)), a, b, doc)
  BY <1>5, <1>6, Zenon
<1>. QED
  BY <1>7 DEF G

-----------------------------------------------------------------------------
(* Slides that were written                                                  *)

Pieces == [what : {"shell", "slide", "torn", "end"}, section : Sections, given : Seq(Nat)]
Picked == [x \in Pieces |-> When(x.what = "slide", <<x>>)]
SlidesIn(out) == FlattenSeq(Mapped(Picked, out))

LEMMA PickedType == Picked \in [Pieces -> Seq(Pieces)]
<1>1. \A x \in Pieces : When(x.what = "slide", <<x>>) \in Seq(Pieces)
  BY DEF When
<1>. QED
  BY <1>1, Zenon DEF Picked

LEMMA SlidesAre ==
    \A out \in Seq(Pieces) :
        FlattenSeq([k \in DOMAIN out |-> When(out[k].what = "slide", <<out[k]>>)]) = SlidesIn(out)
<1>. SUFFICES ASSUME NEW s \in Seq(Pieces)
              PROVE  FlattenSeq([k \in DOMAIN s |-> When(s[k].what = "slide", <<s[k]>>)]) = SlidesIn(s)
  OBVIOUS
<1>1. \A i \in DOMAIN s : s[i] \in Pieces
  OBVIOUS
<1>2. \A i \in DOMAIN s : When(s[i].what = "slide", <<s[i]>>) = Picked[s[i]]
  BY <1>1, Zenon DEF Picked
<1>3. [i \in DOMAIN s |-> When(s[i].what = "slide", <<s[i]>>)] = Mapped(Picked, s)
  BY <1>2, Zenon DEF Mapped
<1>. QED
  BY <1>3, Zenon DEF SlidesIn

LEMMA SlidesRules ==
    /\ SlidesIn(<<>>) = <<>>
    /\ \A s \in Seq(Pieces) : SlidesIn(s) \in Seq(Pieces)
    /\ \A s \in Seq(Pieces), x \in Pieces :
         SlidesIn(Append(s, x)) = IF x.what = "slide" THEN Append(SlidesIn(s), x) ELSE SlidesIn(s)
<1>1. FlatMaps(Pieces, Pieces, Picked)
  BY PickedType, FlatMapAppend
<1>2. SlidesIn(<<>>) = <<>> /\ \A s \in Seq(Pieces) : SlidesIn(s) \in Seq(Pieces)
  BY <1>1, Zenon DEF FlatMaps, SlidesIn
<1>3. ASSUME NEW s \in Seq(Pieces), NEW x \in Pieces
      PROVE  SlidesIn(Append(s, x)) = IF x.what = "slide" THEN Append(SlidesIn(s), x) ELSE SlidesIn(s)
  <2>1. SlidesIn(Append(s, x)) = SlidesIn(s) \o Picked[x]
    BY <1>1, Zenon DEF FlatMaps, SlidesIn
  <2>2. Picked[x] = IF x.what = "slide" THEN <<x>> ELSE <<>>
    BY Zenon DEF Picked, When
  <2>3. SlidesIn(s) \in Seq(Pieces)
    BY <1>2
  <2>. DEFINE r == SlidesIn(s)
  <2>4. \A t \in Seq(Pieces) : t \o <<x>> = Append(t, x) /\ t \o <<>> = t
    OBVIOUS
  <2>. QED
    BY <2>1, <2>2, <2>3, <2>4, Zenon
<1>. QED
  BY <1>2, <1>3

(* Where the front matter ends that the lines from a + 1 to b begin with.    *)
FrontEnd(d, a, b) ==
    LET closes == {p \in a + 3 .. b : Delimiter(d[p]) = Delimiter(d[a + 1])}
    IN  IF closes # {} /\ Delimiter(d[a + 1]) # "" /\ MetadataLikely(d[a + 2]) THEN Min(closes) ELSE a

(* A slide was given the lines from a + 1 to b, and shows all but those.     *)
Shown(slide, a, b, d) ==
    Shows(slide.given, a, b, d) /\ Shows(ShownOn(slide), FrontEnd(d, a, b), b, d)

LEMMA FrontEndIs ==
    ASSUME NEW d, NEW a \in Nat, NEW b \in Nat, a <= b
    PROVE  FrontEnd(d, a, b) \in a .. b
<1>. DEFINE closes == {p \in a + 3 .. b : Delimiter(d[p]) = Delimiter(d[a + 1])}
            front == closes # {} /\ Delimiter(d[a + 1]) # "" /\ MetadataLikely(d[a + 2])
<1>1. FrontEnd(d, a, b) = IF front THEN Min(closes) ELSE a
  BY Zenon DEF FrontEnd
<1>2. closes # {} => Min(closes) \in a .. b
  <2>1. closes \in SUBSET Nat /\ \A p \in closes : p \in Nat /\ a <= p /\ p <= b
    OBVIOUS
  <2>. HIDE DEF closes
  <2>. DEFINE least == Min(closes)
  <2>2. closes # {} => least \in closes
    BY <2>1, MinOf
  <2>. HIDE DEF least
  <2>3. closes # {} => least \in Nat /\ a <= least /\ least <= b
    BY <2>1, <2>2
  <2>4. closes # {} => least \in a .. b
    BY <2>3
  <2>. QED
    BY <2>4, Zenon DEF least
<1>3. front => closes # {}
  OBVIOUS
<1>. HIDE DEF front, closes
<1>. QED
  BY <1>1, <1>2, <1>3

LEMMA KeptSpan ==
    ASSUME NEW a \in Nat, NEW n \in Nat, a <= n
    PROVE  Kept(Span(a, n)) = Span(FrontEnd(doc, a, n), n)
<1>. DEFINE s == Span(a, n)
            l == n - a
            C == {i \in 3 .. Len(s) : Delimiter(doc[s[i]]) = Delimiter(doc[s[1]])}
            D == {p \in a + 3 .. n : Delimiter(doc[p]) = Delimiter(doc[a + 1])}
<1>1. s \in Seq(Nat) /\ Len(s) = l /\ l \in Nat /\ \A i \in 1 .. l : s[i] = a + i
  BY SpanType
<1>2. CASE C = {}
  <2>1. D = {}
    <3>. SUFFICES ASSUME NEW p \in D PROVE FALSE
      OBVIOUS
    <3>1. p - a \in 3 .. l /\ s[p - a] = p /\ s[1] = a + 1
      BY <1>1
    <3>2. p - a \in C
      BY <1>1, <3>1
    <3>. QED
      BY <1>2, <3>2
  <2>2. Kept(s) = s
    BY <1>2, Zenon DEF Kept, C
  <2>3. FrontEnd(doc, a, n) = a
    BY <2>1 DEF FrontEnd
  <2>. QED
    BY <2>2, <2>3
<1>3. CASE C # {}
  <2>1. PICK i0 \in C : TRUE
    BY <1>3
  <2>2. i0 \in 3 .. l /\ 1 \in 1 .. l /\ 2 \in 1 .. l /\ s[1] = a + 1 /\ s[2] = a + 2
    BY <1>1, <2>1
  <2>3. C \in SUBSET Nat /\ \A i \in C : i \in 3 .. l /\ s[i] = a + i
    BY <1>1
  <2>4. \A i \in C : a + i \in D
    BY <1>1, <2>2, <2>3
  <2>5. \A p \in D : p \in Nat /\ p - a \in C
    <3>. SUFFICES ASSUME NEW p \in D PROVE p \in Nat /\ p - a \in C
      OBVIOUS
    <3>1. p - a \in 3 .. l /\ s[p - a] = p
      BY <1>1
    <3>. QED
      BY <1>1, <2>2, <3>1
  <2>. HIDE DEF C, D
  <2>. DEFINE m == Min(C)
  <2>6. m \in C /\ \A i \in C : m <= i
    BY <1>3, <2>3, MinOf
  <2>7. Min(D) = a + m
    <3>1. D \in SUBSET Nat /\ a + m \in D
      BY <2>4, <2>5, <2>6
    <3>2. \A p \in D : a + m <= p
      <4>. SUFFICES ASSUME NEW p \in D PROVE a + m <= p
        OBVIOUS
      <4>1. p \in Nat /\ p - a \in C /\ m <= p - a /\ m \in Nat
        BY <2>3, <2>5, <2>6
      <4>2. p - a \in 3 .. l
        BY <2>3, <4>1
      <4>. HIDE DEF m
      <4>. QED
        BY <1>1, <4>1, <4>2
    <3>. HIDE DEF m
    <3>. QED
      BY <3>1, <3>2, MinIs
  <2>8. m \in 3 .. l
    BY <2>3, <2>6
  <2>. HIDE DEF m
  <2>9. SubSeq(s, m + 1, Len(s)) = Span(a + m, n)
    <3>. DEFINE t == Span(a + m, n)
                u == SubSeq(s, m + 1, Len(s))
    <3>1. t \in Seq(Nat) /\ Len(t) = l - m /\ \A i \in 1 .. l - m : t[i] = a + m + i
      <4>1. a + m \in Nat /\ a + m <= n /\ n - (a + m) = l - m
        BY <2>8
      <4>. QED
        BY <4>1, SpanType
    <3>2. u \in Seq(Nat) /\ Len(u) = l - m /\ \A i \in 1 .. l - m : u[i] = a + (m + i)
      <4>. HIDE DEF s, l
      <4>1. u \in Seq(Nat) /\ Len(u) = l - m /\ \A i \in 1 .. l - m : u[i] = s[m + i]
        BY <1>1, <2>8
      <4>2. \A i \in 1 .. l - m : m + i \in 1 .. l
        BY <1>1, <2>8
      <4>. QED
        BY <1>1, <4>1, <4>2
    <3>. HIDE DEF t, u, s
    <3>3. l - m \in Nat /\ \A i \in 1 .. l - m : t[i] = u[i]
      BY <1>1, <2>8, <3>1, <3>2
    <3>. HIDE DEF l
    <3>4. t = u
      BY <3>1, <3>2, <3>3, SeqEqual
    <3>. QED
      BY <3>4 DEF t, u
  <2>10. Kept(s) = IF Delimiter(doc[a + 1]) # "" /\ MetadataLikely(doc[a + 2]) THEN Span(a + m, n) ELSE s
    <3>1. Kept(s) = IF C # {} /\ Delimiter(doc[s[1]]) # "" /\ MetadataLikely(doc[s[2]])
                    THEN SubSeq(s, m + 1, Len(s)) ELSE s
      BY Zenon DEF Kept, C, m
    <3>. HIDE DEF s
    <3>. QED
      BY <1>3, <2>2, <2>9, <3>1
  <2>11. FrontEnd(doc, a, n) =
            IF Delimiter(doc[a + 1]) # "" /\ MetadataLikely(doc[a + 2]) THEN a + m ELSE a
    <3>1. D # {}
      BY <2>4, <2>6
    <3>2. FrontEnd(doc, a, n) =
            IF D # {} /\ Delimiter(doc[a + 1]) # "" /\ MetadataLikely(doc[a + 2]) THEN Min(D) ELSE a
      BY DEF FrontEnd, D
    <3>. QED
      BY <2>7, <3>1, <3>2
  <2>. QED
    BY <2>10, <2>11
<1>. QED
  BY <1>2, <1>3

(* The slide with the lines from a + 1 to n.                                 *)
LEMMA PieceText ==
    ASSUME NEW a \in Nat, NEW n \in Nat, a <= n, NEW index
    PROVE  LET piece == SlidePiece(Span(a, n), index)
           IN  piece \in Pieces /\ piece.what = "slide" /\ Shown(piece, a, n, doc)
<1>. DEFINE lines == Span(a, n)
            end  == FrontEnd(doc, a, n)
            html == SlideHtml(lines)
            part == Section(html, index)
            given == Given(lines)
            piece == SlidePiece(lines, index)
<1>0. end \in Nat /\ end <= n
  BY FrontEndIs
<1>. DEFINE kept == Span(end, n)
<1>1. lines \in Seq(Nat) /\ kept \in Seq(Nat)
  <2>. HIDE DEF end
  <2>. QED
    BY <1>0, SpanType
<1>2. html \in Ended /\ TextOf(html) = FlattenSeq(Mapped(Inked, kept))
  <2>1. html = LinesHtml(kept)
    BY KeptSpan, Zenon DEF SlideHtml
  <2>. HIDE DEF kept
  <2>. QED
    BY <1>1, <2>1, SlideText
<1>3. Shows(FlattenSeq(Mapped(Inked, kept)), end, n, doc)
  <2>. HIDE DEF end
  <2>. QED
    BY <1>0, SpanShown
<1>9. given = FlattenSeq(Mapped(Inked, lines))
  <2>. HIDE DEF lines
  <2>1. \A i \in DOMAIN lines : lines[i] \in Nat
    BY <1>1
  <2>2. \A i \in DOMAIN lines : When(~IsBlank(doc[lines[i]]), <<lines[i]>>) = Inked[lines[i]]
    BY <2>1, Zenon DEF Inked
  <2>3. [i \in DOMAIN lines |-> When(~IsBlank(doc[lines[i]]), <<lines[i]>>)] = Mapped(Inked, lines)
    BY <2>2, Zenon DEF Mapped
  <2>. QED
    BY <2>3, Zenon DEF Given
<1>10. Shows(given, a, n, doc) /\ given \in Seq(Nat)
  <2>1. Shows(given, a, n, doc)
    BY <1>9, SpanShown
  <2>. QED
    BY <2>1 DEF Shows
<1>. HIDE DEF html, lines, kept, given
<1>4. html \in Seq(Tokens) /\ HeadingsEnd(html)
  BY <1>2 DEF Ended
<1>5. part \in Sections /\ TextOf(part.header) \o TextOf(part.body) = TextOf(html)
  BY <1>4, SectionText
<1>6. piece \in Pieces /\ piece.what = "slide" /\ piece.section = part /\ piece.given = given
  <2>1. piece = [what |-> "slide", section |-> part, given |-> given]
    BY DEF SlidePiece, html, given
  <2>. HIDE DEF part, piece
  <2>. QED
    BY <1>5, <1>10, <2>1 DEF Pieces
<1>. HIDE DEF piece, part
<1>7. ShownOn(piece) = TextOf(html)
  BY <1>5, <1>6, Zenon DEF ShownOn
<1>8. piece \in Pieces /\ piece.what = "slide" /\ Shown(piece, a, n, doc)
  BY <1>2, <1>3, <1>6, <1>7, <1>10, Zenon DEF Shown, end
<1>. QED
  BY <1>8 DEF piece, lines

(* b holds the breaks between slides, e the end of front matter.             *)
After(b, e, k) == IF k = 1 THEN e ELSE b[k - 1]
LastCut(b, e)  == After(b, e, Len(b) + 1)

Sliced(slides, b, e, d) ==
    \A k \in 1 .. Len(b) :
        /\ b[k] \in 1 .. Len(d) /\ d[b[k]].what = "break" /\ After(b, e, k) < b[k]
        /\ Shown(slides[k], After(b, e, k), b[k] - 1, d)

LEMMA ShowsGrows ==
    ASSUME NEW S, NEW d \in Seq(S), NEW l \in S, NEW s, NEW a \in Nat, NEW n \in Nat, n <= Len(d),
           Shows(s, a, n, d)
    PROVE  Shows(s, a, n, Append(d, l))
<1>1. \A p \in Nat : a < p /\ p <= n => Append(d, l)[p] = d[p]
  OBVIOUS
<1>. QED
  BY <1>1 DEF Shows

LEMMA ShownGrows ==
    ASSUME NEW S, NEW d \in Seq(S), NEW l \in S, NEW slide, NEW a \in Nat, NEW n \in Nat, n <= Len(d),
           a <= n, Shown(slide, a, n, d)
    PROVE  Shown(slide, a, n, Append(d, l))
<1>. DEFINE g == Append(d, l)
            m == FrontEnd(d, a, n)
<1>1. \A p \in a + 1 .. n : g[p] = d[p]
  OBVIOUS
<1>. HIDE DEF g
<1>2. FrontEnd(g, a, n) = m
  <2>1. {p \in a + 3 .. n : Delimiter(g[p]) = Delimiter(g[a + 1])}
          = {p \in a + 3 .. n : Delimiter(d[p]) = Delimiter(d[a + 1])}
    <3>1. \A p \in a + 3 .. n : p \in a + 1 .. n /\ a + 1 \in a + 1 .. n
      OBVIOUS
    <3>. QED
      BY <1>1, <3>1
  <2>2. CASE a + 3 <= n
    <3>1. g[a + 1] = d[a + 1] /\ g[a + 2] = d[a + 2]
      BY <1>1, <2>2
    <3>. QED
      BY <2>1, <3>1, Zenon DEF FrontEnd, m
  <2>3. CASE ~(a + 3 <= n)
    <3>1. a + 3 .. n = {}
      BY <2>3
    <3>. QED
      BY <3>1 DEF FrontEnd
  <2>. QED
    BY <2>2, <2>3
<1>3. m \in Nat
  BY FrontEndIs
<1>. HIDE DEF m
<1>4. Shows(slide.given, a, n, g)
  BY ShowsGrows DEF Shown, g
<1>5. Shows(ShownOn(slide), m, n, g)
  <2>1. Shows(ShownOn(slide), m, n, d)
    BY DEF Shown, m
  <2>. QED
    BY <1>3, <2>1, ShowsGrows DEF g
<1>. QED
  BY <1>2, <1>4, <1>5 DEF Shown, g

LEMMA SlicedGrows ==
    ASSUME NEW S, NEW d \in Seq(S), NEW l \in S, NEW slides, NEW b \in Seq(Nat), NEW e \in Nat,
           Sliced(slides, b, e, d)
    PROVE  Sliced(slides, b, e, Append(d, l))
<1>. DEFINE g == Append(d, l)
<1>1. Len(g) = Len(d) + 1 /\ Len(d) \in Nat /\ \A p \in 1 .. Len(d) : g[p] = d[p]
  OBVIOUS
<1>. SUFFICES ASSUME NEW k \in 1 .. Len(b)
              PROVE  /\ b[k] \in 1 .. Len(g) /\ g[b[k]].what = "break" /\ After(b, e, k) < b[k]
                     /\ Shown(slides[k], After(b, e, k), b[k] - 1, g)
  BY DEF Sliced
<1>2. b[k] \in 1 .. Len(d) /\ d[b[k]].what = "break" /\ After(b, e, k) < b[k]
      /\ Shown(slides[k], After(b, e, k), b[k] - 1, d)
  BY DEF Sliced
<1>. DEFINE m == After(b, e, k)
            n == b[k] - 1
            s == slides[k]
<1>3. m \in Nat
  BY DEF After
<1>4. n \in Nat /\ n <= Len(d) /\ m <= n
  BY <1>1, <1>2, <1>3
<1>5. Shown(s, m, n, d)
  BY <1>2
<1>. HIDE DEF m, n, s
<1>6. Shown(s, m, n, g)
  BY <1>3, <1>4, <1>5, ShownGrows
<1>7. b[k] \in 1 .. Len(g) /\ g[b[k]] = d[b[k]]
  BY <1>1, <1>2
<1>. HIDE DEF g
<1>. QED
  BY <1>2, <1>6, <1>7 DEF m, n, s

LEMMA SlicedNext ==
    ASSUME NEW slides \in Seq(Pieces), NEW b \in Seq(Nat), NEW e \in Nat, NEW d, Len(slides) = Len(b),
           Sliced(slides, b, e, d), NEW piece \in Pieces, NEW q \in 1 .. Len(d), Len(d) \in Nat,
           d[q].what = "break", LastCut(b, e) < q, Shown(piece, LastCut(b, e), q - 1, d)
    PROVE  /\ Sliced(Append(slides, piece), Append(b, q), e, d)
           /\ LastCut(Append(b, q), e) = q /\ Append(b, q) \in Seq(Nat)
           /\ Len(Append(slides, piece)) = Len(Append(b, q))
<1>. DEFINE c == Append(b, q)
            t == Append(slides, piece)
            n == Len(b)
<1>1. c \in Seq(Nat) /\ Len(c) = n + 1 /\ n \in Nat /\ c[n + 1] = q /\ \A k \in 1 .. n : c[k] = b[k]
  OBVIOUS
<1>2. t \in Seq(Pieces) /\ Len(t) = n + 1 /\ t[n + 1] = piece /\ \A k \in 1 .. n : t[k] = slides[k]
  OBVIOUS
<1>. HIDE DEF c, t
<1>3. ASSUME NEW k \in 1 .. n + 1
      PROVE  After(c, e, k) = After(b, e, k)
  <2>1. CASE k = 1
    BY <2>1 DEF After
  <2>2. CASE k # 1
    <3>. DEFINE j == k - 1
    <3>1. j \in 1 .. n
      BY <1>1, <2>2
    <3>2. c[j] = b[j]
      BY <1>1, <3>1
    <3>. QED
      BY <2>2, <3>2 DEF After
  <2>. QED
    BY <2>1, <2>2
<1>4. LastCut(c, e) = q
  BY <1>1 DEF LastCut, After
<1>5. ASSUME NEW k \in 1 .. n + 1
      PROVE  /\ c[k] \in 1 .. Len(d) /\ d[c[k]].what = "break" /\ After(c, e, k) < c[k]
             /\ Shown(t[k], After(c, e, k), c[k] - 1, d)
  <2>1. CASE k \in 1 .. n
    <3>1. b[k] \in 1 .. Len(d) /\ d[b[k]].what = "break" /\ After(b, e, k) < b[k]
          /\ Shown(slides[k], After(b, e, k), b[k] - 1, d)
      BY <2>1 DEF Sliced
    <3>2. c[k] = b[k] /\ t[k] = slides[k] /\ After(c, e, k) = After(b, e, k)
      BY <1>1, <1>2, <1>3, <2>1
    <3>. QED
      BY <3>1, <3>2
  <2>2. CASE k = n + 1
    <3>1. c[k] = q /\ t[k] = piece /\ After(c, e, k) = LastCut(b, e)
      BY <1>1, <1>2, <1>3, <2>2 DEF LastCut
    <3>. QED
      BY <3>1
  <2>. QED
    BY <1>1, <2>1, <2>2
<1>6. Sliced(t, c, e, d)
  BY <1>1, <1>5 DEF Sliced
<1>. QED
  BY <1>1, <1>2, <1>4, <1>6 DEF c, t

(* Lines of the slide that is not written yet, up to n.                      *)
Cut(slides, lines, b, e, d, n) ==
    /\ b \in Seq(Nat) /\ e \in Nat /\ n \in Nat
    /\ Sliced(slides, b, e, d) /\ Len(slides) = Len(b)
    /\ LastCut(b, e) <= n /\ lines = Span(LastCut(b, e), n)

(* And all slides written.                                                   *)
AllCut(slides, b, e, d) ==
    /\ b \in Seq(Nat) /\ e \in Nat
    /\ Sliced(slides, b, e, d) /\ Len(slides) = Len(b) + 1 /\ LastCut(b, e) <= Len(d)
    /\ Shown(slides[Len(b) + 1], LastCut(b, e), Len(d), d)

LEMMA LastCutType == \A b \in Seq(Nat), e \in Nat : LastCut(b, e) \in Nat
<1>. SUFFICES ASSUME NEW b \in Seq(Nat), NEW e \in Nat
              PROVE  LastCut(b, e) \in Nat
  OBVIOUS
<1>1. CASE Len(b) = 0
  BY <1>1 DEF LastCut, After
<1>2. CASE Len(b) # 0
  <2>1. Len(b) \in 1 .. Len(b) /\ Len(b) + 1 # 1 /\ (Len(b) + 1) - 1 = Len(b)
    BY <1>2
  <2>2. LastCut(b, e) = b[Len(b)]
    BY <2>1 DEF LastCut, After
  <2>. QED
    BY <2>1, <2>2
<1>. QED
  BY <1>1, <1>2

(* Before the first slide.                                                   *)
LEMMA CutNone ==
    \A e \in Nat : \A d : Cut(<<>>, <<>>, <<>>, e, d, e)
<1>. SUFFICES ASSUME NEW e \in Nat, NEW d
              PROVE  Cut(<<>>, <<>>, <<>>, e, d, e)
  OBVIOUS
<1>1. LastCut(<<>>, e) = e /\ Len(<<>>) = 0 /\ <<>> \in Seq(Nat)
  BY DEF LastCut, After
<1>2. Span(e, e) = <<>>
  BY DEF Span
<1>3. Sliced(<<>>, <<>>, e, d)
  BY DEF Sliced
<1>. QED
  BY <1>1, <1>2, <1>3 DEF Cut

LEMMA CutGrows ==
    ASSUME NEW S, NEW d \in Seq(S), NEW l \in S, NEW slides, NEW lines, NEW b, NEW e, NEW n,
           Cut(slides, lines, b, e, d, n)
    PROVE  Cut(slides, lines, b, e, Append(d, l), n)
<1>1. b \in Seq(Nat) /\ e \in Nat /\ Sliced(slides, b, e, d)
  BY DEF Cut
<1>2. Sliced(slides, b, e, Append(d, l))
  BY <1>1, SlicedGrows
<1>. QED
  BY <1>2 DEF Cut

LEMMA CutLine ==
    ASSUME NEW slides, NEW lines, NEW b, NEW e, NEW d, NEW n,
           Cut(slides, lines, b, e, d, n)
    PROVE  Cut(slides, Append(lines, n + 1), b, e, d, n + 1)
<1>1. LastCut(b, e) \in Nat /\ n \in Nat /\ LastCut(b, e) <= n /\ n + 1 \in Nat /\ LastCut(b, e) <= n + 1
  BY LastCutType DEF Cut
<1>2. Span(LastCut(b, e), n + 1) = Append(Span(LastCut(b, e), n), n + 1)
  BY <1>1, SpanNext
<1>. QED
  BY <1>1, <1>2 DEF Cut

LEMMA CutNext ==
    ASSUME NEW slides \in Seq(Pieces), NEW lines, NEW b, NEW e, NEW d, NEW n, NEW m \in Nat, NEW piece \in Pieces,
           Cut(slides, lines, b, e, d, n), Len(d) \in Nat, n + 1 <= m, n + 1 <= Len(d), d[n + 1].what = "break",
           Shown(piece, LastCut(b, e), n, d)
    PROVE  Cut(Append(slides, piece), Span(n + 1, m), Append(b, n + 1), e, d, m)
<1>. DEFINE q == n + 1
            c == Append(b, q)
            t == Append(slides, piece)
<1>1. b \in Seq(Nat) /\ e \in Nat /\ n \in Nat /\ Sliced(slides, b, e, d) /\ Len(slides) = Len(b) /\ LastCut(b, e) <= n
  BY DEF Cut
<1>2. q \in 1 .. Len(d) /\ q - 1 = n /\ LastCut(b, e) < q /\ q <= m
  <2>1. LastCut(b, e) \in Nat
    BY <1>1, LastCutType
  <2>. QED
    BY <1>1, <2>1
<1>3. d[q].what = "break"
  OBVIOUS
<1>. HIDE DEF q
<1>4. Shown(piece, LastCut(b, e), q - 1, d)
  BY <1>2
<1>5. Sliced(t, c, e, d) /\ LastCut(c, e) = q /\ c \in Seq(Nat) /\ Len(t) = Len(c)
  BY <1>1, <1>2, <1>3, <1>4, SlicedNext
<1>. HIDE DEF c, t
<1>6. Cut(t, Span(q, m), c, e, d, m)
  BY <1>1, <1>2, <1>5 DEF Cut
<1>. QED
  BY <1>6 DEF q, c, t

LEMMA CutAll ==
    ASSUME NEW slides \in Seq(Pieces), NEW lines, NEW b, NEW e, NEW d, NEW piece \in Pieces,
           Cut(slides, lines, b, e, d, Len(d)), Shown(piece, LastCut(b, e), Len(d), d)
    PROVE  AllCut(Append(slides, piece), b, e, d)
<1>. DEFINE t == Append(slides, piece)
            n == Len(b)
<1>1. b \in Seq(Nat) /\ e \in Nat /\ Sliced(slides, b, e, d) /\ Len(slides) = n /\ LastCut(b, e) <= Len(d) /\ n \in Nat
  BY DEF Cut
<1>2. Len(t) = n + 1 /\ t[n + 1] = piece /\ \A k \in 1 .. n : t[k] = slides[k]
  BY <1>1
<1>. HIDE DEF t
<1>3. Sliced(t, b, e, d)
  BY <1>1, <1>2 DEF Sliced
<1>. QED
  BY <1>1, <1>2, <1>3 DEF AllCut, t

-----------------------------------------------------------------------------
(* Front matter                                                              *)

KeyUpTo(d, n) == \E k \in 2 .. n : HasKey(d[k])
FitsAt(d, p) == CanBeMetadata(d[p]) \/ (CanContinue(d[p]) /\ KeyUpTo(d, p - 1))

(* The first n lines may be front matter that is not closed.                 *)
Opened(d, n) ==
    /\ 1 <= n /\ n <= Len(d) /\ IsFrontMatterFence(d[1])
    /\ \A p \in 2 .. n : ~IsFrontMatterFence(d[p]) /\ FitsAt(d, p)

(* It is known that the first e lines are front matter: 0 if there is none.  *)
NotOpened(d, e) == e = 0 /\ 1 <= Len(d) /\ ~IsFrontMatterFence(d[1])
InVain(d, e, m) ==
    /\ e = 0 /\ m + 1 <= Len(d) /\ Opened(d, m)
    /\ \/ IsFrontMatterFence(d[m + 1]) /\ ~KeyUpTo(d, m)
       \/ ~IsFrontMatterFence(d[m + 1]) /\ ~FitsAt(d, m + 1)
ClosedAt(d, e, m) ==
    e = m + 1 /\ m + 1 <= Len(d) /\ Opened(d, m) /\ IsFrontMatterFence(d[m + 1]) /\ KeyUpTo(d, m)
Settled(d, e) == NotOpened(d, e) \/ \E m \in Nat : InVain(d, e, m) \/ ClosedAt(d, e, m)
Whole(d, e) == Settled(d, e) \/ (e = 0 /\ (Len(d) = 0 \/ Opened(d, Len(d))))

LEMMA OpenedGrows ==
    ASSUME NEW S, NEW d \in Seq(S), NEW l \in S, NEW n \in Nat, Opened(d, n)
    PROVE  Opened(Append(d, l), n) /\ (KeyUpTo(Append(d, l), n) <=> KeyUpTo(d, n))
<1>. DEFINE g == Append(d, l)
<1>1. Len(g) = Len(d) + 1 /\ Len(d) \in Nat /\ \A p \in 1 .. Len(d) : g[p] = d[p]
  OBVIOUS
<1>. HIDE DEF g
<1>2. 1 <= n /\ n <= Len(d) /\ n <= Len(g) /\ \A p \in 1 .. n : g[p] = d[p]
  BY <1>1 DEF Opened
<1>3. \A p \in 1 .. n : KeyUpTo(g, p) <=> KeyUpTo(d, p)
  BY <1>2 DEF KeyUpTo
<1>4. \A p \in 2 .. n : KeyUpTo(g, p - 1) <=> KeyUpTo(d, p - 1)
  <2>1. \A p \in 2 .. n : p - 1 \in 1 .. n
    BY <1>2
  <2>. QED
    BY <1>3, <2>1
<1>5. \A p \in 2 .. n : FitsAt(g, p) <=> FitsAt(d, p)
  BY <1>2, <1>4 DEF FitsAt
<1>6. n \in 1 .. n /\ 1 \in 1 .. n
  BY <1>2
<1>. QED
  BY <1>2, <1>3, <1>5, <1>6 DEF Opened, g

LEMMA SettledGrows ==
    ASSUME NEW S, NEW d \in Seq(S), NEW l \in S, NEW e \in Nat, Settled(d, e)
    PROVE  Settled(Append(d, l), e)
<1>. DEFINE g == Append(d, l)
<1>1. Len(g) = Len(d) + 1 /\ Len(d) \in Nat /\ \A p \in 1 .. Len(d) : g[p] = d[p]
  OBVIOUS
<1>2. \A n \in Nat : Opened(d, n) => Opened(g, n) /\ (KeyUpTo(g, n) <=> KeyUpTo(d, n))
  BY OpenedGrows
<1>. HIDE DEF g
<1>3. CASE NotOpened(d, e)
  <2>1. 1 \in 1 .. Len(d)
    BY <1>1, <1>3 DEF NotOpened
  <2>2. NotOpened(g, e)
    BY <1>1, <1>3, <2>1 DEF NotOpened
  <2>. QED
    BY <2>2 DEF Settled, g
<1>4. CASE \E m \in Nat : InVain(d, e, m) \/ ClosedAt(d, e, m)
  <2>1. PICK m \in Nat : InVain(d, e, m) \/ ClosedAt(d, e, m)
    BY <1>4
  <2>2. m + 1 <= Len(d) /\ Opened(d, m)
    BY <2>1 DEF InVain, ClosedAt
  <2>3. /\ m + 1 <= Len(g) /\ Opened(g, m) /\ (KeyUpTo(g, m) <=> KeyUpTo(d, m))
        /\ g[m + 1] = d[m + 1] /\ (m + 1) - 1 = m
    BY <1>1, <1>2, <2>2
  <2>4. FitsAt(g, m + 1) <=> FitsAt(d, m + 1)
    BY <2>3 DEF FitsAt
  <2>5. InVain(g, e, m) \/ ClosedAt(g, e, m)
    BY <2>1, <2>3, <2>4 DEF InVain, ClosedAt
  <2>. QED
    BY <2>5 DEF Settled, g
<1>. QED
  BY <1>3, <1>4 DEF Settled

LEMMA OpenedNext ==
    ASSUME NEW d, NEW n \in Nat, Opened(d, n), n + 1 <= Len(d),
           ~IsFrontMatterFence(d[n + 1]), FitsAt(d, n + 1)
    PROVE  Opened(d, n + 1)
<1>1. 1 <= n + 1 /\ \A p \in 2 .. n + 1 : p \in 2 .. n \/ p = n + 1
  BY DEF Opened
<1>. QED
  BY <1>1 DEF Opened

LEMMA KeyNext ==
    \A d : \A n \in Nat \ {0} : KeyUpTo(d, n + 1) <=> KeyUpTo(d, n) \/ HasKey(d[n + 1])
<1>. SUFFICES ASSUME NEW d, NEW n \in Nat \ {0}
              PROVE  KeyUpTo(d, n + 1) <=> KeyUpTo(d, n) \/ HasKey(d[n + 1])
  OBVIOUS
<1>1. \A k \in 2 .. n + 1 : k \in 2 .. n \/ k = n + 1
  OBVIOUS
<1>2. n + 1 \in 2 .. n + 1 /\ \A k \in 2 .. n : k \in 2 .. n + 1
  OBVIOUS
<1>. QED
  BY <1>1, <1>2 DEF KeyUpTo

(* What is known of the front matter is what there is.                       *)
LEMMA FrontIs ==
    ASSUME NEW S, doc \in Seq(S), NEW e \in Nat, Whole(doc, e)
    PROVE  FrontMatter = 1 .. e
<1>. DEFINE end  == Min(Fences \ {1})
            keys == {p \in 2 .. end : HasKey(doc[p])}
            Fits(p) == CanBeMetadata(doc[p]) \/ (CanContinue(doc[p]) /\ \E k \in keys : k < p)
            closed == 1 \in Fences /\ Fences # {1} /\ keys # {} /\ \A p \in 2 .. end - 1 : Fits(p)
<1>1. FrontMatter = IF closed THEN 1 .. end ELSE {}
  BY DEF FrontMatter
<1>2. Len(doc) \in Nat /\ \A p : p \in Fences <=> p \in 1 .. Len(doc) /\ IsFrontMatterFence(doc[p])
  BY DEF Fences
<1>3. 1 .. 0 = {}
  OBVIOUS
<1>4. ASSUME NEW m \in Nat, Opened(doc, m), m + 1 <= Len(doc)
      PROVE  /\ 1 \in Fences /\ 1 <= m
             /\ IsFrontMatterFence(doc[m + 1]) => Fences # {1} /\ end = m + 1
             /\ ~IsFrontMatterFence(doc[m + 1]) /\ Fences # {1} => end \in Nat /\ end > m + 1
  <2>. DEFINE T == Fences \ {1}
  <2>1. 1 <= m /\ 1 \in Fences /\ \A p \in 2 .. m : p \notin Fences
    BY <1>2, <1>4 DEF Opened
  <2>2. T \in SUBSET Nat /\ \A p \in T : p >= m + 1
    BY <1>2, <2>1
  <2>3. ASSUME IsFrontMatterFence(doc[m + 1])
        PROVE  Fences # {1} /\ end = m + 1
    <3>1. m + 1 \in T
      BY <1>2, <1>4, <2>1, <2>3
    <3>. HIDE DEF T
    <3>2. Min(T) = m + 1
      BY <2>2, <3>1, MinIs
    <3>. QED
      BY <3>1, <3>2 DEF T
  <2>4. ASSUME ~IsFrontMatterFence(doc[m + 1]), Fences # {1}
        PROVE  end \in Nat /\ end > m + 1
    <3>1. m + 1 \notin T /\ T # {}
      BY <1>2, <2>1, <2>4
    <3>. HIDE DEF T
    <3>2. Min(T) \in T
      BY <2>2, <3>1, MinOf
    <3>3. Min(T) \in Nat /\ Min(T) >= m + 1 /\ Min(T) # m + 1
      BY <2>2, <3>1, <3>2
    <3>4. Min(T) > m + 1
      BY <1>4, <3>3
    <3>. QED
      BY <3>3, <3>4 DEF T
  <2>. QED
    BY <2>1, <2>3, <2>4
<1>. HIDE DEF end
<1>5. CASE NotOpened(doc, e) \/ (e = 0 /\ Len(doc) = 0)
  <2>1. 1 \notin Fences /\ e = 0
    BY <1>2, <1>5 DEF NotOpened
  <2>. QED
    BY <1>1, <1>3, <2>1
<1>6. CASE e = 0 /\ Opened(doc, Len(doc))
  <2>1. \A p \in 2 .. Len(doc) : p \notin Fences
    BY <1>2, <1>6 DEF Opened
  <2>2. Fences \subseteq {1}
    BY <1>2, <2>1
  <2>3. ~closed
    BY <2>2
  <2>. HIDE DEF closed
  <2>. QED
    BY <1>1, <1>3, <1>6, <2>3
<1>7. CASE \E m \in Nat : InVain(doc, e, m)
  <2>1. PICK m \in Nat : InVain(doc, e, m)
    BY <1>7
  <2>2. e = 0 /\ m + 1 <= Len(doc) /\ Opened(doc, m)
    BY <2>1 DEF InVain
  <2>3. CASE IsFrontMatterFence(doc[m + 1]) /\ ~KeyUpTo(doc, m)
    <3>1. end = m + 1 /\ 1 <= m
      BY <1>4, <2>2, <2>3
    <3>2. ~HasKey(doc[m + 1])
      BY <2>3, Zenon DEF IsFrontMatterFence, HasKey
    <3>3. ~KeyUpTo(doc, m + 1)
      BY <2>3, <3>1, <3>2, KeyNext
    <3>4. keys = {}
      BY <3>1, <3>3 DEF KeyUpTo
    <3>5. ~closed
      BY <3>4
    <3>. HIDE DEF closed
    <3>. QED
      BY <1>1, <1>3, <2>2, <3>5
  <2>4. CASE ~IsFrontMatterFence(doc[m + 1]) /\ ~FitsAt(doc, m + 1)
    <3>1. ASSUME closed
          PROVE  FALSE
      <4>1. Fences # {1}
        BY <3>1
      <4>2. end \in Nat /\ end > m + 1 /\ 1 <= m
        BY <1>4, <2>2, <2>4, <4>1
      <4>3. m + 1 \in 2 .. end - 1
        BY <4>2
      <4>4. Fits(m + 1)
        BY <3>1, <4>3
      <4>5. \A k \in keys : k < m + 1 => k \in 2 .. m /\ HasKey(doc[k])
        BY <4>2
      <4>6. (m + 1) - 1 = m
        OBVIOUS
      <4>7. FitsAt(doc, m + 1)
        BY <4>4, <4>5, <4>6 DEF FitsAt, KeyUpTo
      <4>. QED
        BY <2>4, <4>7
    <3>. HIDE DEF closed
    <3>. QED
      BY <1>1, <1>3, <2>2, <3>1
  <2>. QED
    BY <2>1, <2>3, <2>4 DEF InVain
<1>8. CASE \E m \in Nat : ClosedAt(doc, e, m)
  <2>1. PICK m \in Nat : ClosedAt(doc, e, m)
    BY <1>8
  <2>2. e = m + 1 /\ m + 1 <= Len(doc) /\ Opened(doc, m) /\ IsFrontMatterFence(doc[m + 1]) /\ KeyUpTo(doc, m)
    BY <2>1 DEF ClosedAt
  <2>3. 1 \in Fences /\ Fences # {1} /\ end = m + 1 /\ end = e /\ end - 1 = m
    BY <1>4, <2>2
  <2>4. keys # {}
    BY <2>2, <2>3 DEF KeyUpTo
  <2>5. ASSUME NEW p \in 2 .. m
        PROVE  Fits(p)
    <3>1. FitsAt(doc, p)
      BY <2>2 DEF Opened
    <3>2. \A k \in 2 .. p - 1 : k \in 2 .. end /\ k < p
      BY <2>3
    <3>. QED
      BY <3>1, <3>2 DEF FitsAt, KeyUpTo
  <2>6. closed
    BY <2>3, <2>4, <2>5
  <2>. HIDE DEF closed
  <2>. QED
    BY <1>1, <2>3, <2>6
<1>. QED
  BY <1>5, <1>6, <1>7, <1>8 DEF Whole, Settled

-----------------------------------------------------------------------------
(* A deck that is complete shows its document                                *)

(* Numbers that increase are as many as their positions.                     *)
LEMMA CountUp ==
    ASSUME NEW b \in Seq(Nat), NEW n \in Nat, n <= Len(b),
           \A i, j \in 1 .. Len(b) : i < j => b[i] < b[j]
    PROVE  IsFiniteSet({b[i] : i \in 1 .. n}) /\ Cardinality({b[i] : i \in 1 .. n}) = n
<1>. DEFINE T(k) == {b[i] : i \in 1 .. k}
            P == {k \in Nat : k <= Len(b) => IsFiniteSet(T(k)) /\ Cardinality(T(k)) = k}
<1>1. 0 \in P
  <2>1. T(0) = {}
    OBVIOUS
  <2>. HIDE DEF T
  <2>. QED
    BY <2>1, FS_EmptySet
<1>2. ASSUME NEW k \in P
      PROVE  k + 1 \in P
  <2>1. k \in Nat /\ k + 1 \in Nat
    OBVIOUS
  <2>2. ASSUME k + 1 <= Len(b)
        PROVE  IsFiniteSet(T(k + 1)) /\ Cardinality(T(k + 1)) = k + 1
    <3>1. k <= Len(b) /\ IsFiniteSet(T(k)) /\ Cardinality(T(k)) = k
      BY <2>1, <2>2
    <3>. DEFINE x == b[k + 1]
    <3>2. T(k + 1) = T(k) \cup {x}
      <4>1. \A i : i \in 1 .. k + 1 <=> i \in 1 .. k \/ i = k + 1
        BY <2>1
      <4>. QED
        BY <4>1
    <3>3. x \notin T(k)
      <4>1. \A i \in 1 .. k : i \in 1 .. Len(b) /\ i < k + 1 /\ k + 1 \in 1 .. Len(b) /\ b[i] \in Nat /\ x \in Nat
        BY <2>1, <2>2
      <4>2. \A i \in 1 .. k : b[i] < x
        BY <4>1
      <4>3. \A i \in 1 .. k : b[i] # x
        BY <4>1, <4>2
      <4>. QED
        BY <4>3
    <3>. HIDE DEF T, x
    <3>4. IsFiniteSet(T(k) \cup {x}) /\ Cardinality(T(k) \cup {x}) = Cardinality(T(k)) + 1
      BY <3>1, <3>3, FS_AddElement
    <3>. QED
      BY <3>1, <3>2, <3>4
  <2>. HIDE DEF T
  <2>. QED
    BY <2>1, <2>2
<1>3. P = Nat
  <2>. HIDE DEF P
  <2>1. P \in SUBSET Nat
    BY DEF P
  <2>. QED
    BY <1>1, <1>2, <2>1, NatInduct
<1>. HIDE DEF T
<1>4. IsFiniteSet(T(n)) /\ Cardinality(T(n)) = n
  BY <1>3
<1>. QED
  BY <1>4 DEF T

(* The breaks, and the position after the last line.                         *)
CutsUp(b, d) == Append(b, Len(d) + 1)

Ordered(c, b, e, n) ==
    /\ c \in Seq(Nat) /\ n \in Nat /\ Len(b) = n /\ Len(c) = n + 1
    /\ \A i \in 1 .. n : c[i] = b[i] /\ After(b, e, i + 1) = c[i]
    /\ \A k \in 1 .. n + 1 : After(b, e, k) \in Nat /\ e <= After(b, e, k) /\ After(b, e, k) < c[k]
    /\ \A i, j \in 1 .. n + 1 : i < j => c[i] < c[j] /\ c[i] <= After(b, e, j)
    /\ After(b, e, 1) = e

LEMMA CutsOrder ==
    ASSUME NEW S, NEW d \in Seq(S), NEW slides, NEW b, NEW e, AllCut(slides, b, e, d)
    PROVE  /\ Ordered(CutsUp(b, d), b, e, Len(b))
           /\ \A k \in 1 .. Len(b) + 1 :
                 Shown(slides[k], After(b, e, k), CutsUp(b, d)[k] - 1, d)
<1>. DEFINE c == CutsUp(b, d)
            n == Len(b)
            A(k) == After(b, e, k)
<1>1. /\ b \in Seq(Nat) /\ e \in Nat /\ n \in Nat /\ Len(d) \in Nat
      /\ Sliced(slides, b, e, d) /\ LastCut(b, e) <= Len(d)
      /\ Shown(slides[n + 1], LastCut(b, e), Len(d), d)
  BY DEF AllCut
<1>2. c \in Seq(Nat) /\ Len(c) = n + 1 /\ c[n + 1] = Len(d) + 1 /\ \A i \in 1 .. n : c[i] = b[i] /\ b[i] \in Nat
  BY <1>1 DEF CutsUp
<1>. HIDE DEF c
<1>3. A(1) = e /\ A(n + 1) = LastCut(b, e) /\ \A i \in 1 .. n : A(i + 1) = b[i]
  <2>1. \A i \in 1 .. n : i + 1 # 1 /\ (i + 1) - 1 = i
    BY <1>1
  <2>. QED
    BY <2>1 DEF After, LastCut
<1>4. \A k \in 1 .. n + 1 : A(k) \in Nat
  <2>. SUFFICES ASSUME NEW k \in 1 .. n + 1
                PROVE  A(k) \in Nat
    OBVIOUS
  <2>1. CASE k = 1
    BY <1>1, <1>3, <2>1
  <2>2. CASE k # 1
    <3>. DEFINE i == k - 1
    <3>1. i \in 1 .. n /\ i + 1 = k
      BY <1>1, <2>2
    <3>. HIDE DEF i
    <3>. QED
      BY <1>2, <1>3, <3>1
  <2>. QED
    BY <2>1, <2>2
<1>5. ASSUME NEW k \in 1 .. n + 1
      PROVE  A(k) < c[k] /\ Shown(slides[k], A(k), c[k] - 1, d)
  <2>1. CASE k \in 1 .. n
    BY <1>1, <1>2, <2>1 DEF Sliced
  <2>2. CASE k = n + 1
    <3>1. c[k] = Len(d) + 1 /\ c[k] - 1 = Len(d) /\ A(k) = LastCut(b, e) /\ A(k) \in Nat
      BY <1>1, <1>2, <1>3, <1>4, <2>2
    <3>2. A(k) < c[k]
      BY <1>1, <3>1
    <3>. QED
      BY <1>1, <2>2, <3>1, <3>2
  <2>. QED
    BY <1>1, <2>1, <2>2
<1>. HIDE DEF A
<1>6. \A k \in 1 .. n + 1 : c[k] \in Nat
  BY <1>2
<1>7. \A j \in Nat : j \in 1 .. n + 1 => e <= A(j) /\ \A i \in 1 .. n + 1 : i < j => c[i] < c[j] /\ c[i] <= A(j)
  <2>. DEFINE Q(j) == j \in 1 .. n + 1 => e <= A(j) /\ \A i \in 1 .. n + 1 : i < j => c[i] < c[j] /\ c[i] <= A(j)
              P == {j \in Nat : Q(j)}
  <2>1. 0 \in P
    BY <1>1
  <2>2. ASSUME NEW j \in P
        PROVE  j + 1 \in P
    <3>1. j \in Nat /\ j + 1 \in Nat /\ Q(j)
      OBVIOUS
    <3>2. CASE j = 0
      <4>1. e <= A(1)
        BY <1>1, <1>3
      <4>2. \A i \in 1 .. n + 1 : ~(i < 1)
        BY <1>1
      <4>. QED
        BY <3>2, <4>1, <4>2
    <3>3. CASE j # 0 /\ j + 1 \in 1 .. n + 1
      <4>1. j \in 1 .. n /\ j \in 1 .. n + 1
        BY <1>1, <3>1, <3>3
      <4>2. A(j + 1) = c[j] /\ A(j + 1) < c[j + 1] /\ A(j) < c[j]
        BY <1>2, <1>3, <1>5, <3>3, <4>1
      <4>3. c[j] \in Nat /\ c[j + 1] \in Nat /\ A(j) \in Nat
        BY <1>4, <1>6, <3>3, <4>1
      <4>4. e <= A(j) /\ \A i \in 1 .. n + 1 : i < j => c[i] < c[j]
        BY <3>1, <4>1
      <4>5. e <= A(j + 1)
        BY <1>1, <4>2, <4>3, <4>4
      <4>6. ASSUME NEW i \in 1 .. n + 1, i < j + 1
            PROVE  c[i] < c[j + 1] /\ c[i] <= A(j + 1)
        <5>1. c[i] \in Nat /\ c[i] <= c[j]
          <6>1. CASE i = j
            BY <4>3, <6>1
          <6>2. CASE i # j
            <7>1. i < j
              BY <3>1, <4>6, <6>2
            <7>. QED
              BY <1>6, <4>3, <4>4, <7>1
          <6>. QED
            BY <6>1, <6>2
        <5>. QED
          BY <4>2, <4>3, <5>1
      <4>7. Q(j + 1)
        BY <4>5, <4>6
      <4>. QED
        BY <3>1, <4>7
    <3>4. CASE j + 1 \notin 1 .. n + 1
      BY <3>1, <3>4
    <3>. QED
      BY <3>2, <3>3, <3>4
  <2>3. P = Nat
    <3>. HIDE DEF P
    <3>1. P \in SUBSET Nat
      BY DEF P
    <3>. QED
      BY <2>1, <2>2, <3>1, NatInduct
  <2>4. \A j \in Nat : Q(j)
    BY <2>3
  <2>. QED
    BY <2>4
<1>8. \A k \in 1 .. n + 1 : k \in Nat
  BY <1>1
<1>9. Ordered(c, b, e, n)
  <2>1. \A i \in 1 .. n : c[i] = b[i] /\ A(i + 1) = c[i]
    BY <1>2, <1>3
  <2>2. \A k \in 1 .. n + 1 : A(k) \in Nat /\ e <= A(k) /\ A(k) < c[k]
    BY <1>4, <1>5, <1>7, <1>8
  <2>3. \A i, j \in 1 .. n + 1 : i < j => c[i] < c[j] /\ c[i] <= A(j)
    BY <1>7, <1>8
  <2>. QED
    BY <1>1, <1>2, <1>3, <2>1, <2>2, <2>3 DEF Ordered, A
<1>. QED
  BY <1>5, <1>9 DEF c, A

(* The slides' lines are those between breaks, in order.                     *)
Between(c, b, e, d, n, p) == \E k \in 1 .. n : After(b, e, k) < p /\ p < c[k] /\ ~IsBlank(d[p])
AllShown(x, c, b, e, d, n) ==
    /\ x \in Seq(Nat)
    /\ \A i, j \in 1 .. Len(x) : i < j => x[i] < x[j]
    /\ \A p \in Nat : (\E i \in 1 .. Len(x) : x[i] = p) <=> Between(c, b, e, d, n, p)

LEMMA ShownNext ==
    ASSUME NEW c, NEW b, NEW e, NEW d, NEW n, Ordered(c, b, e, n), NEW k \in Nat, k <= n, NEW x, NEW t,
           AllShown(x, c, b, e, d, k), Shows(t, After(b, e, k + 1), c[k + 1] - 1, d)
    PROVE  AllShown(x \o t, c, b, e, d, k + 1)
<1>. DEFINE y == x \o t
            l == Len(x)
            m == Len(t)
            a == After(b, e, k + 1)
            z == c[k + 1]
<1>1. /\ x \in Seq(Nat) /\ (\A i, j \in 1 .. l : i < j => x[i] < x[j])
      /\ \A p \in Nat : (\E i \in 1 .. l : x[i] = p) <=> Between(c, b, e, d, k, p)
  BY DEF AllShown
<1>2. /\ t \in Seq(Nat) /\ (\A i, j \in 1 .. m : i < j => t[i] < t[j])
      /\ \A p \in Nat : (\E i \in 1 .. m : t[i] = p) <=> a < p /\ p <= z - 1 /\ ~IsBlank(d[p])
  BY DEF Shows
<1>3. /\ y \in Seq(Nat) /\ Len(y) = l + m /\ l \in Nat /\ m \in Nat
      /\ (\A i \in 1 .. l : y[i] = x[i]) /\ \A i \in 1 .. m : y[l + i] = t[i]
  BY <1>1, <1>2
<1>4. a \in Nat /\ z \in Nat /\ n \in Nat /\ (\A i \in 1 .. k : i \in 1 .. n + 1 /\ c[i] \in Nat /\ c[i] <= a)
  <2>1. k + 1 \in 1 .. n + 1 /\ \A i \in 1 .. k : i \in 1 .. n + 1 /\ i < k + 1
    BY DEF Ordered
  <2>2. c \in Seq(Nat) /\ n \in Nat /\ Len(c) = n + 1 /\ After(b, e, k + 1) \in Nat
    BY <2>1 DEF Ordered
  <2>3. \A i \in 1 .. n + 1 : c[i] \in Nat
    BY <2>2
  <2>4. \A i \in 1 .. n + 1 : i < k + 1 => c[i] <= After(b, e, k + 1)
    BY <2>1 DEF Ordered
  <2>. QED
    BY <2>1, <2>2, <2>3, <2>4
<1>. HIDE DEF y
<1>5. \A i \in 1 .. l : x[i] \in Nat /\ x[i] <= a
  <2>. SUFFICES ASSUME NEW i \in 1 .. l
                PROVE  x[i] \in Nat /\ x[i] <= a
    OBVIOUS
  <2>1. x[i] \in Nat /\ Between(c, b, e, d, k, x[i])
    BY <1>1
  <2>2. PICK j \in 1 .. k : x[i] < c[j]
    BY <2>1 DEF Between
  <2>. QED
    BY <1>4, <2>1, <2>2
<1>6. \A i \in 1 .. m : t[i] \in Nat /\ a < t[i]
  BY <1>2
<1>. HIDE DEF l, m, a, z
<1>7. ASSUME NEW i \in 1 .. l + m, NEW j \in 1 .. l + m, i < j
      PROVE  y[i] < y[j]
  <2>1. CASE j <= l
    <3>1. i \in 1 .. l /\ j \in 1 .. l
      BY <1>3, <1>7, <2>1
    <3>. QED
      BY <1>1, <1>3, <1>7, <3>1
  <2>2. CASE i > l
    <3>. DEFINE u == i - l
                v == j - l
    <3>1. u \in 1 .. m /\ v \in 1 .. m /\ l + u = i /\ l + v = j /\ u < v
      BY <1>3, <1>7, <2>2
    <3>. HIDE DEF u, v
    <3>2. y[l + u] = t[u] /\ y[l + v] = t[v] /\ t[u] < t[v]
      BY <1>2, <1>3, <3>1
    <3>. QED
      BY <3>1, <3>2
  <2>3. CASE i <= l /\ j > l
    <3>. DEFINE v == j - l
    <3>1. i \in 1 .. l /\ v \in 1 .. m /\ l + v = j
      BY <1>3, <1>7, <2>3
    <3>. HIDE DEF v
    <3>2. y[i] = x[i] /\ y[l + v] = t[v]
      BY <1>3, <3>1
    <3>3. x[i] \in Nat /\ x[i] <= a /\ t[v] \in Nat /\ a < t[v]
      BY <1>5, <1>6, <3>1
    <3>. QED
      BY <1>4, <3>1, <3>2, <3>3
  <2>. QED
    BY <1>3, <2>1, <2>2, <2>3
<1>8. ASSUME NEW p \in Nat
      PROVE  (\E i \in 1 .. l + m : y[i] = p) <=> Between(c, b, e, d, k + 1, p)
  <2>1. (\E i \in 1 .. l + m : y[i] = p) <=> (\E i \in 1 .. l : x[i] = p) \/ (\E i \in 1 .. m : t[i] = p)
    <3>1. ASSUME NEW i \in 1 .. l + m, y[i] = p
          PROVE  (\E h \in 1 .. l : x[h] = p) \/ (\E h \in 1 .. m : t[h] = p)
      <4>1. CASE i <= l
        BY <1>3, <3>1, <4>1
      <4>2. CASE i > l
        <5>1. i - l \in 1 .. m /\ l + (i - l) = i
          BY <1>3, <4>2
        <5>. QED
          BY <1>3, <3>1, <5>1
      <4>. QED
        BY <1>3, <4>1, <4>2
    <3>2. \A i \in 1 .. l : i \in 1 .. l + m
      BY <1>3
    <3>3. \A i \in 1 .. m : l + i \in 1 .. l + m
      BY <1>3
    <3>. QED
      BY <1>3, <3>1, <3>2, <3>3
  <2>2. p <= z - 1 <=> p < z
    BY <1>4
  <2>3. Between(c, b, e, d, k + 1, p) <=> Between(c, b, e, d, k, p) \/ (a < p /\ p < z /\ ~IsBlank(d[p]))
    <3>1. \A i : i \in 1 .. k + 1 <=> i \in 1 .. k \/ i = k + 1
      OBVIOUS
    <3>. QED
      BY <3>1 DEF Between, a, z
  <2>4. (\E i \in 1 .. l : x[i] = p) <=> Between(c, b, e, d, k, p)
    BY <1>1 DEF l
  <2>5. (\E i \in 1 .. m : t[i] = p) <=> a < p /\ p <= z - 1 /\ ~IsBlank(d[p])
    BY <1>2 DEF m
  <2>. QED
    BY <2>1, <2>2, <2>3, <2>4, <2>5
<1>9. AllShown(y, c, b, e, d, k + 1)
  BY <1>3, <1>7, <1>8 DEF AllShown
<1>. QED
  BY <1>9 DEF y

(* What the slides of a complete deck show.                                  *)
LEMMA ShownAll ==
    ASSUME NEW S, NEW d \in Seq(S), NEW slides, NEW b, NEW e, AllCut(slides, b, e, d)
    PROVE  LET x == FlattenSeq([k \in 1 .. Len(slides) |-> slides[k].given])
           IN  AllShown(x, CutsUp(b, d), b, e, d, Len(b) + 1)
<1>. DEFINE n == Len(b)
            c == CutsUp(b, d)
            pre(k) == [i \in 1 .. k |-> slides[i].given]
            Q(k) == AllShown(FlattenSeq(pre(k)), c, b, e, d, k)
            P == {k \in Nat : k <= n + 1 => Q(k)}
<1>1. Ordered(c, b, e, n) /\ \A k \in 1 .. n + 1 : Shows(slides[k].given, After(b, e, k), c[k] - 1, d)
  BY CutsOrder DEF Shown
<1>2. Len(slides) = n + 1 /\ n \in Nat
  BY DEF AllCut
<1>. HIDE DEF c, n
<1>3. \A k \in 1 .. n + 1 : slides[k].given \in Seq(Nat)
  BY <1>1 DEF Shows
<1>4. 0 \in P
  <2>1. pre(0) = <<>>
    OBVIOUS
  <2>. HIDE DEF pre
  <2>2. FlattenSeq(pre(0)) = <<>>
    BY <2>1, FlattenEmpty
  <2>3. AllShown(<<>>, c, b, e, d, 0)
    BY DEF AllShown, Between
  <2>4. Q(0)
    BY <2>2, <2>3
  <2>. HIDE DEF Q
  <2>. QED
    BY <2>4
<1>5. ASSUME NEW k \in P
      PROVE  k + 1 \in P
  <2>1. k \in Nat /\ k + 1 \in Nat
    OBVIOUS
  <2>2. ASSUME k + 1 <= n + 1
        PROVE  Q(k + 1)
    <3>. DEFINE t == slides[k + 1].given
                u == pre(k)
    <3>1. k <= n /\ k + 1 \in 1 .. n + 1 /\ k <= n + 1
      BY <1>2, <2>1, <2>2
    <3>2. Q(k)
      <4>. HIDE DEF Q
      <4>. QED
        BY <3>1
    <3>3. t \in Seq(Nat) /\ Shows(t, After(b, e, k + 1), c[k + 1] - 1, d)
      BY <1>1, <1>3, <3>1
    <3>4. u \in Seq(Seq(Nat)) /\ Len(u) = k
      <4>1. \A i \in 1 .. k : slides[i].given \in Seq(Nat)
        BY <1>2, <1>3, <3>1
      <4>. QED
        BY <2>1, <4>1, IsASeq
    <3>5. pre(k + 1) = Append(u, t)
      <4>. DEFINE v == Append(u, t)
                  w == pre(k + 1)
      <4>1. v \in Seq(Seq(Nat)) /\ Len(v) = k + 1 /\ v[k + 1] = t /\ \A i \in 1 .. k : v[i] = u[i]
        <5>. HIDE DEF u, t, P
        <5>. QED
          BY <2>1, <3>3, <3>4
      <4>2. w \in Seq(Seq(Nat)) /\ Len(w) = k + 1
        <5>1. \A i \in 1 .. k + 1 : slides[i].given \in Seq(Nat)
          BY <1>2, <1>3, <3>1
        <5>. QED
          BY <2>1, <5>1, IsASeq
      <4>3. w[k + 1] = t /\ \A i \in 1 .. k : w[i] = u[i]
        BY <2>1
      <4>. HIDE DEF v, w, u, t, P
      <4>4. \A i \in 1 .. k + 1 : v[i] = w[i]
        BY <2>1, <4>1, <4>3
      <4>5. v = w
        BY <4>1, <4>2, <4>4, SeqEqual
      <4>. QED
        BY <4>5 DEF v, w
    <3>. HIDE DEF t, u, pre
    <3>6. FlattenSeq(pre(k + 1)) = FlattenSeq(u) \o t
      BY <3>3, <3>4, <3>5, FlattenAppend
    <3>7. AllShown(FlattenSeq(u), c, b, e, d, k)
      BY <3>2 DEF u
    <3>. DEFINE x == FlattenSeq(u)
    <3>. HIDE DEF x
    <3>8. AllShown(x \o t, c, b, e, d, k + 1)
      <4>1. AllShown(x, c, b, e, d, k)
        BY <3>7 DEF x
      <4>. QED
        BY <1>1, <2>1, <3>1, <3>3, <4>1, ShownNext
    <3>. QED
      BY <3>6, <3>8 DEF x
  <2>. HIDE DEF Q
  <2>. QED
    BY <2>1, <2>2
<1>6. P = Nat
  <2>. HIDE DEF P
  <2>1. P \in SUBSET Nat
    BY DEF P
  <2>. QED
    BY <1>4, <1>5, <2>1, NatInduct
<1>7. Q(n + 1)
  <2>. HIDE DEF Q
  <2>1. n + 1 \in P
    BY <1>2, <1>6
  <2>. QED
    BY <1>2, <2>1
<1>8. AllShown(FlattenSeq([k \in 1 .. Len(slides) |-> slides[k].given]), c, b, e, d, n + 1)
  BY <1>2, <1>7
<1>. QED
  BY <1>8 DEF c, n

(* Every line is between two breaks, or one.                                 *)
Covered(c, b, e, d, n) ==
    \A p \in Nat : e < p /\ p < c[n + 1] /\ ~IsBlank(d[p]) =>
        Between(c, b, e, d, n + 1, p) \/ \E i \in 1 .. n : p = b[i]

LEMMA BetweenCuts ==
    ASSUME NEW c, NEW b, NEW e \in Nat, NEW d, NEW n, Ordered(c, b, e, n)
    PROVE  Covered(c, b, e, d, n)
<1>. SUFFICES ASSUME NEW p \in Nat, e < p, p < c[n + 1], ~IsBlank(d[p]), ~Between(c, b, e, d, n + 1, p)
              PROVE  \E i \in 1 .. n : p = b[i]
  BY DEF Covered
<1>1. n \in Nat /\ c \in Seq(Nat) /\ Len(c) = n + 1
  BY DEF Ordered
<1>2. \A k \in 1 .. n + 1 : c[k] \in Nat /\ After(b, e, k) \in Nat /\ ~(After(b, e, k) < p /\ p < c[k])
  <2>1. \A k \in 1 .. n + 1 : c[k] \in Nat /\ k \in 1 .. n + 1
    BY <1>1
  <2>2. \A k \in 1 .. n + 1 : After(b, e, k) \in Nat
    BY DEF Ordered
  <2>. QED
    BY <2>1, <2>2 DEF Between
<1>3. ASSUME \A i \in 1 .. n : p # b[i]
      PROVE  FALSE
  <2>. DEFINE Q(k) == k \in 1 .. n + 1 => After(b, e, k) < p
              P == {k \in Nat : Q(k)}
  <2>1. 0 \in P
    BY <1>1
  <2>2. ASSUME NEW k \in P
        PROVE  k + 1 \in P
    <3>1. k \in Nat /\ k + 1 \in Nat /\ Q(k)
      OBVIOUS
    <3>2. CASE k = 0
      <4>1. After(b, e, 1) = e
        BY DEF Ordered
      <4>. QED
        BY <3>2, <4>1
    <3>3. CASE k # 0 /\ k + 1 \in 1 .. n + 1
      <4>1. k \in 1 .. n /\ k \in 1 .. n + 1
        BY <1>1, <3>1, <3>3
      <4>2. c[k] = b[k] /\ After(b, e, k + 1) = c[k]
        BY <4>1 DEF Ordered
      <4>3. After(b, e, k) < p /\ c[k] \in Nat /\ c[k] # p /\ ~(p < c[k])
        BY <1>2, <1>3, <3>1, <4>1, <4>2
      <4>4. c[k] < p
        BY <4>3
      <4>. QED
        BY <3>1, <4>2, <4>4
    <3>4. CASE k + 1 \notin 1 .. n + 1
      BY <3>1, <3>4
    <3>. QED
      BY <3>2, <3>3, <3>4
  <2>3. P = Nat
    <3>. HIDE DEF P
    <3>1. P \in SUBSET Nat
      BY DEF P
    <3>. QED
      BY <2>1, <2>2, <3>1, NatInduct
  <2>4. n + 1 \in Nat /\ n + 1 \in 1 .. n + 1
    BY <1>1
  <2>5. After(b, e, n + 1) < p
    BY <2>3, <2>4
  <2>. QED
    BY <1>2, <2>4, <2>5
<1>. QED
  BY <1>3

(* What is shown, and the breaks that are not.                               *)
CutsKnown(b, e) ==
    /\ FrontMatter = 1 .. e
    /\ AllShown(GivenLines, CutsUp(b, doc), b, e, doc, Len(b) + 1)
    /\ \A p \in Nat : p \in ToSet(GivenLines) <=> Between(CutsUp(b, doc), b, e, doc, Len(b) + 1, p)
    /\ \A i \in 1 .. Len(b) : /\ i \in 1 .. Len(b) + 1 /\ b[i] \in Nat /\ e < b[i] /\ ~IsBlank(doc[b[i]])
                              /\ b[i] \in 1 .. Len(doc) /\ ~Between(CutsUp(b, doc), b, e, doc, Len(b) + 1, b[i])
    /\ Separators = {b[i] : i \in 1 .. Len(b)}

LEMMA SeparatorsAre ==
    ASSUME NEW S, doc \in Seq(S), deck_out \in Seq(Pieces), NEW b, NEW e,
           AllCut(SlidesIn(deck_out), b, e, doc), Whole(doc, e)
    PROVE  CutsKnown(b, e)
<1>. DEFINE n == Len(b)
            c == CutsUp(b, doc)
            A(k) == After(b, e, k)
            x == GivenLines
            slides == SlidesIn(deck_out)
<1>1. Slides = slides
  BY SlidesAre DEF Slides
<1>2. b \in Seq(Nat) /\ e \in Nat /\ n \in Nat /\ Len(slides) = n + 1 /\ Len(doc) \in Nat
      /\ \A i \in 1 .. n : b[i] \in 1 .. Len(doc) /\ doc[b[i]].what = "break"
  BY DEF AllCut, Sliced
<1>3. Ordered(c, b, e, n) /\ \A k \in 1 .. n + 1 : Shows(slides[k].given, A(k), c[k] - 1, doc)
  BY CutsOrder DEF Shown
<1>4. AllShown(x, c, b, e, doc, n + 1)
  <2>1. x = FlattenSeq([k \in 1 .. Len(slides) |-> slides[k].given])
    BY <1>1 DEF GivenLines
  <2>. HIDE DEF x
  <2>. QED
    BY <2>1, ShownAll
<1>5. FrontMatter = 1 .. e
  BY <1>2, FrontIs
<1>6. c[n + 1] = Len(doc) + 1
  BY <1>2 DEF CutsUp
<1>. HIDE DEF c
<1>7. /\ c \in Seq(Nat) /\ Len(c) = n + 1
      /\ \A i \in 1 .. n : c[i] = b[i] /\ A(i + 1) = c[i]
      /\ \A k \in 1 .. n + 1 : A(k) \in Nat /\ e <= A(k) /\ A(k) < c[k]
      /\ \A i, j \in 1 .. n + 1 : i < j => c[i] < c[j] /\ c[i] <= A(j)
  BY <1>3, Zenon DEF Ordered
<1>8. /\ x \in Seq(Nat)
      /\ \A i, j \in 1 .. Len(x) : i < j => x[i] < x[j]
      /\ \A p \in Nat : (\E i \in 1 .. Len(x) : x[i] = p) <=> Between(c, b, e, doc, n + 1, p)
  BY <1>4 DEF AllShown
<1>9. \A p \in Nat : Between(c, b, e, doc, n + 1, p)
                       <=> \E k \in 1 .. n + 1 : A(k) < p /\ p < c[k] /\ ~IsBlank(doc[p])
  BY DEF Between
<1>. HIDE DEF A, x
<1>10. \A p \in Nat : p \in ToSet(x) <=> Between(c, b, e, doc, n + 1, p)
  <2>1. DOMAIN x = 1 .. Len(x)
    BY <1>8
  <2>. QED
    BY <1>8, <2>1 DEF ToSet
<1>11. \A i \in 1 .. n : /\ i \in 1 .. n + 1 /\ b[i] \in Nat /\ e < b[i] /\ ~IsBlank(doc[b[i]])
                         /\ b[i] \in 1 .. Len(doc) /\ ~Between(c, b, e, doc, n + 1, b[i])
  <2>. SUFFICES ASSUME NEW i \in 1 .. n
                PROVE  /\ i \in 1 .. n + 1 /\ b[i] \in Nat /\ e < b[i] /\ ~IsBlank(doc[b[i]])
                       /\ b[i] \in 1 .. Len(doc) /\ ~Between(c, b, e, doc, n + 1, b[i])
    OBVIOUS
  <2>1. i \in 1 .. n + 1 /\ b[i] \in 1 .. Len(doc) /\ b[i] \in Nat /\ doc[b[i]].what = "break"
    BY <1>2
  <2>2. ~IsBlank(doc[b[i]])
    BY <2>1, Zenon DEF IsBlank
  <2>3. c[i] = b[i] /\ A(i) \in Nat /\ e <= A(i) /\ A(i) < c[i]
    BY <1>7, <2>1
  <2>4. e < b[i]
    BY <1>2, <2>1, <2>3
  <2>5. ASSUME NEW k \in 1 .. n + 1, A(k) < b[i], b[i] < c[k]
        PROVE  FALSE
    <3>1. c[k] \in Nat /\ A(k) \in Nat
      BY <1>7
    <3>2. CASE k = i
      BY <2>1, <2>3, <2>5, <3>2
    <3>3. CASE k < i
      <4>1. c[k] < c[i]
        BY <1>7, <2>1, <3>3
      <4>. QED
        BY <2>1, <2>3, <2>5, <3>1, <4>1
    <3>4. CASE k > i
      <4>1. c[i] <= A(k)
        BY <1>7, <2>1, <3>4
      <4>. QED
        BY <2>1, <2>3, <2>5, <3>1, <4>1
    <3>. QED
      BY <2>1, <3>2, <3>3, <3>4
  <2>6. ~Between(c, b, e, doc, n + 1, b[i])
    BY <1>9, <2>1, <2>5
  <2>. QED
    BY <2>1, <2>2, <2>4, <2>6
<1>12. Separators = {b[i] : i \in 1 .. n}
  <2>1. ASSUME NEW p \in Separators
        PROVE  p \in {b[i] : i \in 1 .. n}
    <3>1. p \in 1 .. Len(doc) /\ ~IsBlank(doc[p]) /\ p \notin ToSet(x) /\ p \notin FrontMatter
      BY DEF Separators, x
    <3>2. p \in Nat /\ e < p /\ p < c[n + 1] /\ ~Between(c, b, e, doc, n + 1, p)
      BY <1>2, <1>5, <1>6, <1>10, <3>1
    <3>3. \E i \in 1 .. n : p = b[i]
      <4>. HIDE DEF n
      <4>1. Covered(c, b, e, doc, n)
        BY <1>2, <1>3, BetweenCuts
      <4>. QED
        BY <3>1, <3>2, <4>1 DEF Covered
    <3>. QED
      BY <3>3
  <2>2. ASSUME NEW i \in 1 .. n
        PROVE  b[i] \in Separators
    <3>1. b[i] \in 1 .. Len(doc) /\ ~IsBlank(doc[b[i]]) /\ b[i] \in Nat /\ e < b[i] /\ ~Between(c, b, e, doc, n + 1, b[i])
      BY <1>11
    <3>2. b[i] \notin ToSet(x) /\ b[i] \notin FrontMatter
      BY <1>2, <1>5, <1>10, <3>1
    <3>. QED
      BY <3>1, <3>2 DEF Separators, x
  <2>. QED
    BY <2>1, <2>2
<1>. QED
  BY <1>4, <1>5, <1>10, <1>11, <1>12, Zenon DEF CutsKnown, c, x, n

(* Where the slides start and end.                                           *)
LEMMA SlideStartIs ==
    ASSUME NEW b, NEW e \in Nat, CutsKnown(b, e), NEW c, Ordered(c, b, e, Len(b)),
           NEW k \in 1 .. Len(b) + 1, NEW q \in Nat, After(b, e, k) < q, q <= c[k]
    PROVE  SlideStart(q) = After(b, e, k) + 1
<1>. DEFINE n == Len(b)
            a == After(b, e, k)
            T == {0} \cup FrontMatter \cup {s \in Separators : s < q}
<1>1. /\ n \in Nat /\ c \in Seq(Nat) /\ Len(c) = n + 1
      /\ \A i \in 1 .. n : c[i] = b[i] /\ After(b, e, i + 1) = c[i]
      /\ \A i \in 1 .. n + 1 : After(b, e, i) \in Nat /\ e <= After(b, e, i) /\ After(b, e, i) < c[i]
      /\ \A i, j \in 1 .. n + 1 : i < j => c[i] < c[j] /\ c[i] <= After(b, e, j)
      /\ After(b, e, 1) = e
  BY Zenon DEF Ordered
<1>2. FrontMatter = 1 .. e /\ Separators = {b[i] : i \in 1 .. n}
  BY Zenon DEF CutsKnown
<1>3. a \in Nat /\ e <= a /\ c[k] \in Nat
  BY <1>1
<1>4. ASSUME NEW s \in T
      PROVE  s \in Nat /\ s <= a
  <2>1. CASE s = 0
    BY <1>3, <2>1
  <2>2. CASE s \in FrontMatter
    BY <1>2, <1>3, <2>2
  <2>3. CASE s \in Separators /\ s < q
    <3>1. PICK i \in 1 .. n : s = b[i]
      BY <1>2, <2>3
    <3>2. i \in 1 .. n + 1 /\ c[i] = s /\ c[i] \in Nat
      BY <1>1, <3>1
    <3>3. CASE i < k
      BY <1>1, <3>2, <3>3
    <3>4. CASE i >= k
      <4>1. c[k] <= c[i]
        BY <1>1, <3>2, <3>4
      <4>. QED
        BY <1>3, <2>3, <3>2, <4>1
    <3>. QED
      BY <3>2, <3>3, <3>4
  <2>. QED
    BY <2>1, <2>2, <2>3
<1>5. a \in T
  <2>1. CASE k = 1
    <3>1. a = e
      BY <1>1, <2>1
    <3>2. e = 0 \/ e \in 1 .. e
      OBVIOUS
    <3>. QED
      BY <1>2, <3>1, <3>2
  <2>2. CASE k # 1
    <3>. DEFINE i == k - 1
    <3>1. i \in 1 .. n /\ i + 1 = k
      BY <1>1, <2>2
    <3>. HIDE DEF i
    <3>2. a = b[i]
      BY <1>1, <3>1
    <3>3. b[i] \in Separators
      BY <1>2, <3>1
    <3>. QED
      BY <3>2, <3>3
  <2>. QED
    BY <2>1, <2>2
<1>. HIDE DEF T
<1>6. Max(T) = a
  <2>1. T \in SUBSET (0 .. a) /\ T # {}
    BY <1>4, <1>5
  <2>. HIDE DEF a
  <2>2. Max(T) \in T /\ \A s \in T : Max(T) >= s
    BY <1>3, <2>1, MaxOf
  <2>3. Max(T) >= a /\ Max(T) \in 0 .. a
    BY <1>5, <2>1, <2>2
  <2>. QED
    BY <1>3, <2>3
<1>7. SlideStart(q) = Max(T) + 1
  BY Zenon DEF SlideStart, T
<1>. QED
  BY <1>6, <1>7

LEMMA SlideEndIs ==
    ASSUME NEW b, NEW e \in Nat, CutsKnown(b, e), NEW c, Ordered(c, b, e, Len(b)),
           Len(doc) \in Nat, c[Len(b) + 1] = Len(doc) + 1,
           NEW k \in 1 .. Len(b) + 1, NEW q \in Nat, After(b, e, k) < q, q <= c[k]
    PROVE  SlideEnd(q) = c[k]
<1>. DEFINE n == Len(b)
            T == {s \in Separators : s >= q} \cup {Len(doc) + 1}
<1>1. /\ n \in Nat /\ c \in Seq(Nat) /\ Len(c) = n + 1
      /\ \A i \in 1 .. n : c[i] = b[i] /\ After(b, e, i + 1) = c[i]
      /\ \A i, j \in 1 .. n + 1 : i < j => c[i] < c[j] /\ c[i] <= After(b, e, j)
  BY Zenon DEF Ordered
<1>2. Separators = {b[i] : i \in 1 .. n}
  BY Zenon DEF CutsKnown
<1>3. k \in 1 .. n + 1 /\ c[k] \in Nat /\ c[n + 1] = Len(doc) + 1 /\ \A i \in 1 .. n + 1 : c[i] \in Nat
  <2>1. \A i \in 1 .. Len(c) : c[i] \in Nat
    BY <1>1
  <2>. QED
    BY <1>1, <2>1
<1>8. After(b, e, k) \in Nat
  BY Zenon DEF Ordered
<1>4. T \in SUBSET Nat /\ \A s \in T : c[k] <= s
  <2>. SUFFICES ASSUME NEW s \in T
                PROVE  s \in Nat /\ c[k] <= s
    OBVIOUS
  <2>1. PICK i \in 1 .. n + 1 : s = c[i] /\ s >= q
    <3>1. CASE s = Len(doc) + 1
      <4>1. n + 1 \in 1 .. n + 1 /\ c[k] <= c[n + 1]
        BY <1>1, <1>3
      <4>. QED
        BY <1>3, <3>1, <4>1
    <3>2. CASE s \in Separators /\ s >= q
      <4>1. PICK i \in 1 .. n : s = b[i]
        BY <1>2, <3>2
      <4>. QED
        BY <1>1, <3>2, <4>1
    <3>. QED
      BY <3>1, <3>2
  <2>2. CASE i >= k
    BY <1>1, <1>3, <2>1, <2>2
  <2>3. CASE i < k
    <3>1. c[i] <= After(b, e, k)
      BY <1>1, <1>3, <2>1, <2>3
    <3>2. q \in Nat /\ s >= q /\ After(b, e, k) < q /\ s <= After(b, e, k) /\ s \in Nat
      BY <1>3, <2>1, <3>1
    <3>. QED
      BY <1>8, <3>2
  <2>. QED
    BY <1>3, <2>1, <2>2, <2>3
<1>5. c[k] \in T
  <2>1. CASE k = n + 1
    BY <1>3, <2>1
  <2>2. CASE k # n + 1
    <3>1. k \in 1 .. n
      BY <1>1, <1>3, <2>2
    <3>2. c[k] = b[k] /\ c[k] \in Separators
      BY <1>1, <1>2, <3>1
    <3>. QED
      BY <3>2
  <2>. QED
    BY <2>1, <2>2
<1>. HIDE DEF T
<1>6. Min(T) = c[k]
  BY <1>4, <1>5, MinIs
<1>. QED
  BY <1>6, Zenon DEF SlideEnd, T

(* A slide shows what it was given less front matter of its own.             *)
LEMMA SlideShows ==
    ASSUME NEW b, NEW e \in Nat, CutsKnown(b, e), NEW c, Ordered(c, b, e, Len(b)),
           Len(doc) \in Nat, c[Len(b) + 1] = Len(doc) + 1,
           NEW k \in 1 .. Len(b) + 1, NEW slide, Shown(slide, After(b, e, k), c[k] - 1, doc)
    PROVE  /\ Ascending(ShownOn(slide))
           /\ ToSet(ShownOn(slide)) =
                {p \in ToSet(slide.given) : p \notin OwnFrontMatter(SlideStart(p))}
<1>. DEFINE a == After(b, e, k)
            z == c[k] - 1
            m == FrontEnd(doc, a, z)
            s == ShownOn(slide)
            g == slide.given
<1>1. a \in Nat /\ c[k] \in Nat /\ z \in Nat /\ a <= z
  BY DEF Ordered
<1>2. /\ s \in Seq(Nat) /\ (\A i, j \in 1 .. Len(s) : i < j => s[i] < s[j])
      /\ \A p \in Nat : (\E i \in 1 .. Len(s) : s[i] = p) <=> m < p /\ p <= z /\ ~IsBlank(doc[p])
  BY DEF Shown, Shows
<1>3. /\ g \in Seq(Nat)
      /\ \A p \in Nat : (\E i \in 1 .. Len(g) : g[i] = p) <=> a < p /\ p <= z /\ ~IsBlank(doc[p])
  BY DEF Shown, Shows
<1>4. m \in a .. z
  BY <1>1, FrontEndIs
<1>5. SlideEnd(a + 1) = z + 1
  <2>1. a + 1 \in Nat /\ a < a + 1 /\ a + 1 <= c[k] /\ z + 1 = c[k]
    BY <1>1
  <2>. QED
    BY <2>1, SlideEndIs
<1>6. OwnFrontMatter(a + 1) = IF m = a THEN {} ELSE a + 1 .. m
  <2>. DEFINE C == {p \in a + 3 .. z : Delimiter(doc[p]) = Delimiter(doc[a + 1])}
  <2>1. (a + 1) + 2 = a + 3 /\ (a + 1) + 1 = a + 2 /\ SlideEnd(a + 1) - 1 = z
    BY <1>1, <1>5
  <2>. HIDE DEF a, z
  <2>2. OwnFrontMatter(a + 1) = IF C # {} /\ Delimiter(doc[a + 1]) # "" /\ MetadataLikely(doc[a + 2])
                                THEN a + 1 .. Min(C) ELSE {}
    BY <2>1 DEF OwnFrontMatter
  <2>3. m = IF C # {} /\ Delimiter(doc[a + 1]) # "" /\ MetadataLikely(doc[a + 2]) THEN Min(C) ELSE a
    BY DEF FrontEnd
  <2>4. C # {} => Min(C) # a
    <3>1. C \in SUBSET Nat /\ \A p \in C : p > a
      BY <1>1
    <3>. HIDE DEF C
    <3>2. C # {} => Min(C) \in C
      BY <3>1, MinOf
    <3>3. \A p \in C : p # a
      BY <1>1, <3>1
    <3>. QED
      BY <3>2, <3>3, Zenon
  <2>. HIDE DEF C, m
  <2>. QED
    BY <2>2, <2>3, <2>4
<1>. HIDE DEF m, s, g
<1>7. \A p \in ToSet(g) : SlideStart(p) = a + 1 /\ p \in Nat /\ a < p /\ p <= z
  <2>. SUFFICES ASSUME NEW p \in ToSet(g)
                PROVE  SlideStart(p) = a + 1 /\ p \in Nat /\ a < p /\ p <= z
    OBVIOUS
  <2>1. p \in Nat /\ a < p /\ p <= z
    <3>1. p \in Nat /\ \E i \in 1 .. Len(g) : g[i] = p
      BY <1>3 DEF ToSet
    <3>. QED
      BY <1>3, <3>1
  <2>2. p <= c[k]
    BY <1>1, <2>1
  <2>. QED
    BY <2>1, <2>2, SlideStartIs
<1>. HIDE DEF a, z
<1>8. \A p \in Nat :
          /\ p \in ToSet(s) <=> (m < p /\ p <= z /\ ~IsBlank(doc[p]))
          /\ p \in ToSet(g) <=> (a < p /\ p <= z /\ ~IsBlank(doc[p]))
  <2>1. DOMAIN s = 1 .. Len(s) /\ DOMAIN g = 1 .. Len(g)
    BY <1>2, <1>3
  <2>2. \A p : p \in ToSet(s) <=> \E i \in 1 .. Len(s) : s[i] = p
    BY <2>1, Zenon DEF ToSet
  <2>3. \A p : p \in ToSet(g) <=> \E i \in 1 .. Len(g) : g[i] = p
    BY <2>1, Zenon DEF ToSet
  <2>. QED
    BY <1>2, <1>3, <2>2, <2>3
<1>9. ToSet(s) \subseteq Nat /\ ToSet(g) \subseteq Nat
  BY <1>2, <1>3 DEF ToSet
<1>10. ToSet(s) = {p \in ToSet(g) : p \notin OwnFrontMatter(SlideStart(p))}
  <2>1. \A p \in ToSet(g) : p \notin OwnFrontMatter(SlideStart(p)) <=> m < p
    BY <1>1, <1>4, <1>6, <1>7
  <2>2. \A p \in ToSet(s) : p \in ToSet(g) /\ m < p
    BY <1>1, <1>4, <1>8, <1>9
  <2>3. \A p \in ToSet(g) : m < p => p \in ToSet(s)
    BY <1>8, <1>9
  <2>. QED
    BY <2>1, <2>2, <2>3
<1>11. Ascending(s)
  BY <1>2 DEF Ascending
<1>. QED
  BY <1>10, <1>11 DEF s, g

LEMMA KeptWhole ==
    ASSUME NEW S, doc \in Seq(S), deck_out \in Seq(Pieces), NEW b, NEW e,
           AllCut(SlidesIn(deck_out), b, e, doc), Whole(doc, e)
    PROVE  DeckLinesKept
<1>. DEFINE n == Len(b)
            c == CutsUp(b, doc)
            A(k) == After(b, e, k)
            x == GivenLines
            slides == SlidesIn(deck_out)
<1>1. Slides = slides
  BY SlidesAre DEF Slides
<1>2. b \in Seq(Nat) /\ e \in Nat /\ n \in Nat /\ Len(slides) = n + 1 /\ Len(doc) \in Nat
      /\ \A i \in 1 .. n : b[i] \in 1 .. Len(doc) /\ doc[b[i]].what = "break"
  BY DEF AllCut, Sliced
<1>3. Ordered(c, b, e, n) /\ \A k \in 1 .. n + 1 : Shown(slides[k], A(k), c[k] - 1, doc)
  BY CutsOrder
<1>4. CutsKnown(b, e) /\ c[n + 1] = Len(doc) + 1
  BY <1>2, SeparatorsAre DEF CutsUp
<1>5. FrontMatter = 1 .. e /\ AllShown(x, c, b, e, doc, n + 1)
  BY <1>4, Zenon DEF CutsKnown
<1>6. \A p \in Nat : p \in ToSet(x) <=> Between(c, b, e, doc, n + 1, p)
  BY <1>4, Zenon DEF CutsKnown
<1>. HIDE DEF c
<1>7. /\ c \in Seq(Nat) /\ Len(c) = n + 1
      /\ \A i \in 1 .. n : c[i] = b[i] /\ A(i + 1) = c[i]
      /\ \A k \in 1 .. n + 1 : A(k) \in Nat /\ e <= A(k) /\ A(k) < c[k]
      /\ \A i, j \in 1 .. n + 1 : i < j => c[i] < c[j] /\ c[i] <= A(j)
  BY <1>3, Zenon DEF Ordered
<1>8. /\ x \in Seq(Nat)
      /\ \A i, j \in 1 .. Len(x) : i < j => x[i] < x[j]
      /\ \A p \in Nat : (\E i \in 1 .. Len(x) : x[i] = p) <=> Between(c, b, e, doc, n + 1, p)
  BY <1>5 DEF AllShown
<1>9. \A p \in Nat : Between(c, b, e, doc, n + 1, p)
                       <=> \E k \in 1 .. n + 1 : A(k) < p /\ p < c[k] /\ ~IsBlank(doc[p])
  BY DEF Between
<1>. HIDE DEF A, x
<1>10. \A p \in Nat : p \in ToSet(x) <=> Between(c, b, e, doc, n + 1, p)
  BY <1>6 DEF x
<1>11. \A i \in 1 .. n : /\ i \in 1 .. n + 1 /\ b[i] \in Nat /\ e < b[i] /\ ~IsBlank(doc[b[i]])
                         /\ b[i] \in 1 .. Len(doc) /\ ~Between(c, b, e, doc, n + 1, b[i])
  BY <1>4, Zenon DEF CutsKnown, c
<1>12. Separators = {b[i] : i \in 1 .. n}
  BY <1>4, Zenon DEF CutsKnown
<1>13. \A i, j \in 1 .. Len(b) : i < j => b[i] < b[j]
  <2>1. \A i \in 1 .. n : i \in 1 .. n + 1
    BY <1>2
  <2>. QED
    BY <1>7, <2>1
<1>14. \A k \in Nat : k <= n => Cardinality({b[i] : i \in 1 .. k}) = k
  BY <1>2, <1>13, CountUp
<1>. HIDE DEF n, slides
<1>15. ToSet(x) \cap FrontMatter = {}
  <2>1. ASSUME NEW p \in ToSet(x), p \in FrontMatter
        PROVE  FALSE
    <3>1. p \in Nat /\ p <= e
      BY <1>2, <1>5, <2>1
    <3>2. PICK k \in 1 .. n + 1 : A(k) < p
      BY <1>9, <1>10, <2>1, <3>1
    <3>3. A(k) \in Nat /\ e <= A(k)
      BY <1>7
    <3>. QED
      BY <1>2, <3>1, <3>2, <3>3
  <2>. QED
    BY <2>1
<1>16. Cardinality(Separators) = Len(slides) - 1
  <2>1. Cardinality(Separators) = n
    BY <1>2, <1>12, <1>14
  <2>. QED
    BY <1>2, <2>1
<1>17. \A p \in Separators : doc[p].what = "break"
  BY <1>2, <1>12
<1>18. ASSUME NEW k \in 1 .. Len(slides), NEW p \in ToSet(slides[k].given)
       PROVE  Cardinality({q \in Separators : q < p}) = k - 1
  <2>. DEFINE s == slides[k].given
  <2>1. k \in 1 .. n + 1
    BY <1>2
  <2>2. Shows(s, A(k), c[k] - 1, doc)
    BY <1>3, <2>1 DEF A, Shown
  <2>. HIDE DEF s
  <2>3. p \in Nat /\ \E i \in 1 .. Len(s) : s[i] = p
    <3>1. s \in Seq(Nat)
      BY <2>2 DEF Shows
    <3>2. DOMAIN s = 1 .. Len(s) /\ \A i \in 1 .. Len(s) : s[i] \in Nat
      BY <3>1
    <3>3. p \in ToSet(s)
      BY DEF s
    <3>. QED
      BY <3>2, <3>3 DEF ToSet
  <2>4. A(k) < p /\ p <= c[k] - 1
    BY <2>2, <2>3 DEF Shows
  <2>5. A(k) \in Nat /\ c[k] \in Nat /\ p < c[k]
    BY <1>7, <2>1, <2>3, <2>4
  <2>6. ASSUME NEW i \in 1 .. n
        PROVE  b[i] < p <=> i \in 1 .. k - 1
    <3>1. i \in 1 .. n + 1 /\ c[i] = b[i] /\ b[i] \in Nat
      BY <1>7, <1>11
    <3>2. CASE i < k
      <4>1. c[i] <= A(k)
        BY <1>7, <2>1, <3>1, <3>2
      <4>. QED
        BY <2>1, <2>3, <2>4, <2>5, <3>1, <3>2, <4>1
    <3>3. CASE i = k
      BY <2>1, <2>3, <2>5, <3>1, <3>3
    <3>4. CASE i > k
      <4>1. c[k] < c[i]
        BY <1>7, <2>1, <3>1, <3>4
      <4>. QED
        BY <2>1, <2>3, <2>5, <3>1, <3>4, <4>1
    <3>. QED
      BY <2>1, <3>2, <3>3, <3>4
  <2>7. k - 1 \in Nat /\ k - 1 <= n /\ \A i \in 1 .. k - 1 : i \in 1 .. n
    BY <1>2, <2>1
  <2>8. {q \in Separators : q < p} = {b[i] : i \in 1 .. k - 1}
    BY <1>12, <2>6, <2>7
  <2>. QED
    BY <1>14, <2>7, <2>8
<1>19. ASSUME NEW k \in 1 .. Len(slides)
       PROVE  /\ Ascending(ShownOn(slides[k]))
              /\ ToSet(ShownOn(slides[k])) =
                   {p \in ToSet(slides[k].given) : p \notin OwnFrontMatter(SlideStart(p))}
  <2>1. k \in 1 .. n + 1
    BY <1>2
  <2>2. Shown(slides[k], A(k), c[k] - 1, doc)
    BY <1>3, <2>1 DEF A
  <2>. QED
    BY <1>2, <1>3, <1>4, <2>1, <2>2, SlideShows DEF A, n
<1>. QED
  BY <1>1, <1>8, <1>15, <1>16, <1>17, <1>18, <1>19, Zenon DEF DeckLinesKept, Ascending, x

-----------------------------------------------------------------------------
(* The fence before each line of a slide, the slide's lines those after a.   *)

FencesAre(d, a, n, F) ==
    /\ F[1] = NoFence
    /\ \A i \in 1 .. n : F[i + 1] = FenceAfter(F[i], d[a + i])
FenceAt(d, a, p) == (CHOOSE F : FencesAre(d, a, p - 1 - a, F))[p - a]
Fenced(d, a, p)  == FenceAt(d, a, p) # NoFence

LEMMA FencesExist ==
    ASSUME NEW d, NEW a \in Nat, NEW n \in Nat
    PROVE  \E F : FencesAre(d, a, n, F)
<1>. DEFINE P == {k \in Nat : \E F : FencesAre(d, a, k, F)}
<1>1. 0 \in P
  <2>. DEFINE F == [i \in 1 .. 1 |-> NoFence]
  <2>1. F[1] = NoFence /\ \A i \in 1 .. 0 : FALSE
    OBVIOUS
  <2>. HIDE DEF F
  <2>2. FencesAre(d, a, 0, F)
    BY <2>1, Zenon DEF FencesAre
  <2>. QED
    BY <2>2
<1>2. ASSUME NEW k \in P
      PROVE  k + 1 \in P
  <2>1. k \in Nat /\ k + 1 \in Nat
    OBVIOUS
  <2>2. PICK F : FencesAre(d, a, k, F)
    OBVIOUS
  <2>. DEFINE last == FenceAfter(F[k + 1], d[a + (k + 1)])
              G == [i \in 1 .. k + 2 |-> IF i = k + 2 THEN last ELSE F[i]]
  <2>3. G[k + 2] = last /\ \A i \in 1 .. k + 1 : G[i] = F[i]
    <3>. HIDE DEF last
    <3>. QED
      BY <2>1
  <2>. HIDE DEF G
  <2>4. G[1] = NoFence
    BY <2>1, <2>2, <2>3 DEF FencesAre
  <2>5. ASSUME NEW i \in 1 .. k + 1
        PROVE  G[i + 1] = FenceAfter(G[i], d[a + i])
    <3>1. CASE i = k + 1
      <4>1. i + 1 = k + 2 /\ G[i] = F[i]
        BY <2>1, <2>3, <3>1
      <4>. QED
        BY <2>3, <3>1, <4>1
    <3>2. CASE i # k + 1
      <4>1. i \in 1 .. k /\ i + 1 \in 1 .. k + 1
        BY <2>1, <3>2
      <4>2. G[i] = F[i] /\ G[i + 1] = F[i + 1]
        BY <2>3, <4>1
      <4>. QED
        BY <2>2, <4>1, <4>2 DEF FencesAre
    <3>. QED
      BY <3>1, <3>2
  <2>6. FencesAre(d, a, k + 1, G)
    BY <2>4, <2>5, Zenon DEF FencesAre
  <2>. QED
    BY <2>1, <2>6
<1>3. P = Nat
  <2>. HIDE DEF P
  <2>1. P \in SUBSET Nat
    BY DEF P
  <2>. QED
    BY <1>1, <1>2, <2>1, NatInduct
<1>. QED
  BY <1>3

(* Only one way, for lines that agree.                                       *)
Agree(d, g, a, n) == \A i \in 1 .. n : d[a + i] = g[a + i]
SameFences(F, G, n) == \A i \in 1 .. n + 1 : F[i] = G[i]

LEMMA FencesUnique ==
    ASSUME NEW d, NEW g, NEW a \in Nat, NEW n \in Nat, NEW m \in Nat, n <= m,
           Agree(d, g, a, n), NEW F, NEW G, FencesAre(d, a, n, F), FencesAre(g, a, m, G)
    PROVE  SameFences(F, G, n)
<1>. DEFINE P == {k \in Nat : k <= n => F[k + 1] = G[k + 1]}
<1>1. 0 \in P
  BY DEF FencesAre
<1>2. ASSUME NEW k \in P
      PROVE  k + 1 \in P
  <2>1. k \in Nat
    OBVIOUS
  <2>2. ASSUME k + 1 <= n
        PROVE  F[(k + 1) + 1] = G[(k + 1) + 1]
    <3>. DEFINE j == k + 1
    <3>1. F[j] = G[j] /\ j \in 1 .. n /\ j \in 1 .. m
      BY <2>1, <2>2
    <3>. HIDE DEF j
    <3>2. F[j + 1] = FenceAfter(F[j], d[a + j]) /\ G[j + 1] = FenceAfter(G[j], g[a + j])
      BY <3>1 DEF FencesAre
    <3>3. d[a + j] = g[a + j]
      BY <3>1 DEF Agree
    <3>4. F[j + 1] = G[j + 1]
      BY <3>1, <3>2, <3>3, Zenon
    <3>. QED
      BY <3>4 DEF j
  <2>. QED
    BY <2>1, <2>2
<1>3. P = Nat
  <2>. HIDE DEF P
  <2>1. P \in SUBSET Nat
    BY DEF P
  <2>. QED
    BY <1>1, <1>2, <2>1, NatInduct
<1>4. ASSUME NEW i \in 1 .. n + 1
      PROVE  F[i] = G[i]
  <2>. DEFINE k == i - 1
  <2>1. k \in Nat /\ k <= n /\ k + 1 = i
    OBVIOUS
  <2>. HIDE DEF k
  <2>2. k \in P
    BY <1>3, <2>1, Zenon
  <2>. QED
    BY <2>1, <2>2
<1>. QED
  BY <1>4 DEF SameFences

LEMMA FenceAtIs ==
    ASSUME NEW d, NEW a \in Nat, NEW p \in Nat, a < p, NEW m \in Nat, p <= a + m + 1,
           NEW F, FencesAre(d, a, m, F)
    PROVE  FenceAt(d, a, p) = F[p - a]
<1>. DEFINE n == p - 1 - a
            H == CHOOSE G : FencesAre(d, a, n, G)
<1>1. n \in Nat /\ n <= m /\ p - a \in 1 .. n + 1
  OBVIOUS
<1>. HIDE DEF n
<1>2. \E G : FencesAre(d, a, n, G)
  BY <1>1, FencesExist
<1>3. FencesAre(d, a, n, H)
  BY <1>2
<1>4. FenceAt(d, a, p) = H[p - a]
  BY DEF FenceAt, n
<1>. HIDE DEF H
<1>5. Agree(d, d, a, n)
  BY Zenon DEF Agree
<1>6. SameFences(H, F, n)
  BY <1>1, <1>3, <1>5, FencesUnique
<1>. QED
  BY <1>1, <1>4, <1>6 DEF SameFences

LEMMA FenceNext ==
    ASSUME NEW d, NEW a \in Nat
    PROVE  /\ FenceAt(d, a, a + 1) = NoFence
           /\ \A p \in Nat : a < p => FenceAt(d, a, p + 1) = FenceAfter(FenceAt(d, a, p), d[p])
<1>1. FenceAt(d, a, a + 1) = NoFence
  <2>1. PICK F : FencesAre(d, a, 0, F)
    BY FencesExist
  <2>. DEFINE p == a + 1
  <2>2. p \in Nat /\ a < p /\ p <= a + 0 + 1 /\ p - a = 1 /\ 0 \in Nat
    OBVIOUS
  <2>. HIDE DEF p
  <2>3. FenceAt(d, a, p) = F[p - a]
    BY <2>1, <2>2, FenceAtIs
  <2>. QED
    BY <2>1, <2>2, <2>3 DEF FencesAre, p
<1>2. ASSUME NEW p \in Nat, a < p
      PROVE  FenceAt(d, a, p + 1) = FenceAfter(FenceAt(d, a, p), d[p])
  <2>. DEFINE m == p - a
              q == p + 1
  <2>1. m \in Nat /\ p <= a + m + 1 /\ q <= a + m + 1 /\ q \in Nat /\ a < q /\ m \in 1 .. m /\ q - a = m + 1 /\ a + m = p
    BY <1>2
  <2>. HIDE DEF q
  <2>2. p - a = m
    OBVIOUS
  <2>. HIDE DEF m
  <2>3. PICK F : FencesAre(d, a, m, F)
    BY <2>1, FencesExist
  <2>4. FenceAt(d, a, p) = F[p - a]
    BY <1>2, <2>1, <2>3, FenceAtIs
  <2>5. FenceAt(d, a, q) = F[q - a]
    BY <2>1, <2>3, FenceAtIs
  <2>6. F[m + 1] = FenceAfter(F[m], d[a + m])
    BY <2>1, <2>3 DEF FencesAre
  <2>7. FenceAt(d, a, q) = FenceAfter(FenceAt(d, a, p), d[p])
    BY <2>1, <2>2, <2>4, <2>5, <2>6
  <2>. QED
    BY <2>7 DEF q
<1>. QED
  BY <1>1, <1>2

LEMMA FenceSame ==
    ASSUME NEW d, NEW g, NEW a \in Nat, NEW p \in Nat, a < p, \A q \in a + 1 .. p - 1 : d[q] = g[q]
    PROVE  FenceAt(d, a, p) = FenceAt(g, a, p)
<1>. DEFINE n == p - 1 - a
<1>1. n \in Nat /\ n <= n /\ p - a \in 1 .. n + 1 /\ p <= a + n + 1
  OBVIOUS
<1>2. \A i \in 1 .. n : a + i \in a + 1 .. p - 1
  OBVIOUS
<1>. HIDE DEF n
<1>3. Agree(d, g, a, n)
  BY <1>2 DEF Agree
<1>4. PICK F : FencesAre(d, a, n, F)
  BY <1>1, FencesExist
<1>5. PICK G : FencesAre(g, a, n, G)
  BY <1>1, FencesExist
<1>6. SameFences(F, G, n)
  BY <1>1, <1>3, <1>4, <1>5, FencesUnique
<1>7. FenceAt(d, a, p) = F[p - a]
  BY <1>1, <1>4, FenceAtIs
<1>8. FenceAt(g, a, p) = G[p - a]
  BY <1>1, <1>5, FenceAtIs
<1>. QED
  BY <1>1, <1>6, <1>7, <1>8 DEF SameFences

-----------------------------------------------------------------------------
(* Whether a quote is open after line n, and where the content of the item   *)
(* starts that is.                                                           *)

IsQuote(l)  == l.what = "quote"
Speaks(l)   == ~IsBlank(l) \/ l.lead > 0
Quotes(d, a, n, q) ==
    IsQuote(d[q]) /\ ~Fenced(d, a, q) /\ \A c \in q .. n : ~IsBlank(d[c]) \/ Fenced(d, a, c)
QuoteAt(d, a, n) == \E q \in a + 1 .. n : Quotes(d, a, n, q)

Items(d, a, n) == {q \in a + 1 .. n : OpensItem(d[q]) /\ ~Fenced(d, a, q)}
LastItem(d, a, n, r) == r \in Items(d, a, n) /\ \A q \in Items(d, a, n) : q <= r
Leaves(d, a, q, r) == ~Fenced(d, a, q) /\ Speaks(d[q]) /\ d[q].lead < ItemIndent(d[r])
Left(d, a, n, r) == \E q \in r + 1 .. n : Leaves(d, a, q, r)
IndentIs(d, a, n, indent) ==
    \/ Items(d, a, n) = {} /\ indent = 0
    \/ \E r \in Nat : LastItem(d, a, n, r) /\ indent = IF Left(d, a, n, r) THEN 0 ELSE ItemIndent(d[r])
ItemAt(d, a, n, l) ==
    \E r \in Nat : LastItem(d, a, n, r) /\ l.lead >= ItemIndent(d[r]) /\ ~Left(d, a, n, r)

(* What the splitter tells apart in a line.                                  *)
Plain(l) ==
    /\ l.lead \in Nat /\ ItemIndent(l) \in Nat /\ ItemIndent(l) > 0
    /\ OpensFence(l) => ~OpensItem(l)
    /\ IsQuote(l) => ~IsBlank(l)

LEMMA LinePlain ==
    ASSUME NEW S \in DeckLines, NEW l \in S
    PROVE  Plain(l)
<1>1. l.lead \in Nat /\ l.run \in Nat
  BY DeckLinesAssumption, Zenon
<1>2. ItemIndent(l) \in Nat /\ ItemIndent(l) > 0
  <2>1. CASE l.what = "item"
    <3>1. ItemIndent(l) = l.lead + l.run + 1
      BY <2>1, Zenon DEF ItemIndent
    <3>. QED
      BY <1>1, <3>1
  <2>2. CASE l.what # "item"
    <3>1. ItemIndent(l) = l.lead + 1 + 1
      BY <2>2, Zenon DEF ItemIndent
    <3>. QED
      BY <1>1, <3>1
  <2>. QED
    BY <2>1, <2>2
<1>3. OpensFence(l) => ~OpensItem(l)
  <2>1. OpensFence(l) => l.what = "fence"
    BY Zenon DEF OpensFence
  <2>2. OpensItem(l) => l.what = "item" \/ l.what = "break"
    BY Zenon DEF OpensItem, IsSpacedBreak
  <2>. QED
    BY <2>1, <2>2, Zenon
<1>4. IsQuote(l) => ~IsBlank(l)
  BY Zenon DEF IsQuote, IsBlank
<1>. QED
  BY <1>1, <1>2, <1>3, <1>4, Zenon DEF Plain

LEMMA QuoteNext ==
    ASSUME NEW d, NEW a \in Nat, NEW n \in Nat, a <= n, Plain(d[n + 1])
    PROVE  QuoteAt(d, a, n + 1) <=> \/ IsQuote(d[n + 1]) /\ ~Fenced(d, a, n + 1)
                                    \/ QuoteAt(d, a, n) /\ (~IsBlank(d[n + 1]) \/ Fenced(d, a, n + 1))
<1>. DEFINE m == n + 1
<1>1. m \in Nat /\ m \in a + 1 .. m /\ \A q \in a + 1 .. n : q \in a + 1 .. m /\ m \in q .. m
  OBVIOUS
<1>2. \A q \in a + 1 .. m : q = m \/ q \in a + 1 .. n
  OBVIOUS
<1>3. \A q \in a + 1 .. n : \A c \in q .. m : c = m \/ c \in q .. n
  OBVIOUS
<1>4. \A q \in a + 1 .. n : \A c \in q .. n : c \in q .. m
  OBVIOUS
<1>5. \A c \in m .. m : c = m
  OBVIOUS
<1>. HIDE DEF m
<1>6. Plain(d[m])
  BY DEF m
<1>7. IsQuote(d[m]) /\ ~Fenced(d, a, m) => Quotes(d, a, m, m)
  BY <1>5, <1>6 DEF Quotes, Plain
<1>8. Quotes(d, a, m, m) => IsQuote(d[m]) /\ ~Fenced(d, a, m)
  BY DEF Quotes
<1>9. ASSUME NEW q \in a + 1 .. n
      PROVE  Quotes(d, a, m, q) <=> Quotes(d, a, n, q) /\ (~IsBlank(d[m]) \/ Fenced(d, a, m))
  <2>1. m \in q .. m
    BY <1>1
  <2>. QED
    BY <1>3, <1>4, <2>1, Zenon DEF Quotes
<1>10. QuoteAt(d, a, m) <=> \/ IsQuote(d[m]) /\ ~Fenced(d, a, m)
                            \/ QuoteAt(d, a, n) /\ (~IsBlank(d[m]) \/ Fenced(d, a, m))
  BY <1>1, <1>2, <1>7, <1>8, <1>9, Zenon DEF QuoteAt
<1>. QED
  BY <1>10 DEF m

LEMMA ItemsNext ==
    ASSUME NEW d, NEW a \in Nat, NEW n \in Nat, a <= n
    PROVE  Items(d, a, n + 1) = Items(d, a, n) \cup
               (IF OpensItem(d[n + 1]) /\ ~Fenced(d, a, n + 1) THEN {n + 1} ELSE {})
<1>1. \A q : q \in a + 1 .. n + 1 <=> q = n + 1 \/ q \in a + 1 .. n
  OBVIOUS
<1>. QED
  BY <1>1, Zenon DEF Items

(* A line that opens no item may be left of the item that is open.           *)
LEMMA IndentLine ==
    ASSUME NEW d, NEW a \in Nat, NEW n \in Nat, a <= n, Plain(d[n + 1]), \A q \in a + 1 .. n : Plain(d[q]),
           NEW x, IndentIs(d, a, n, x), ~(OpensItem(d[n + 1]) /\ ~Fenced(d, a, n + 1))
    PROVE  /\ Fenced(d, a, n + 1) => IndentIs(d, a, n + 1, x)
           /\ ~Fenced(d, a, n + 1) =>
                 IndentIs(d, a, n + 1, IF Speaks(d[n + 1]) /\ d[n + 1].lead < x THEN 0 ELSE x)
<1>. DEFINE m == n + 1
            y == IF ~Fenced(d, a, m) /\ Speaks(d[m]) /\ d[m].lead < x THEN 0 ELSE x
<1>1. Items(d, a, m) = Items(d, a, n)
  <2>1. Items(d, a, m) = Items(d, a, n) \cup (IF OpensItem(d[m]) /\ ~Fenced(d, a, m) THEN {m} ELSE {})
    BY ItemsNext
  <2>2. (IF OpensItem(d[m]) /\ ~Fenced(d, a, m) THEN {m} ELSE {}) = {}
    BY Zenon
  <2>. QED
    BY <2>1, <2>2, Zenon
<1>2. m \in Nat /\ d[m].lead \in Nat
  BY DEF Plain
<1>3. \A r \in a + 1 .. n : \A q : q \in r + 1 .. m <=> q = m \/ q \in r + 1 .. n
  OBVIOUS
<1>. HIDE DEF m
<1>4. CASE Items(d, a, n) = {} /\ x = 0
  <2>1. y = 0
    BY <1>4
  <2>. HIDE DEF y
  <2>. QED
    BY <1>1, <1>4, <2>1 DEF IndentIs, y, m
<1>5. CASE \E r \in Nat : LastItem(d, a, n, r) /\ x = IF Left(d, a, n, r) THEN 0 ELSE ItemIndent(d[r])
  <2>1. PICK r \in Nat : LastItem(d, a, n, r) /\ x = IF Left(d, a, n, r) THEN 0 ELSE ItemIndent(d[r])
    BY <1>5
  <2>2. r \in a + 1 .. n /\ LastItem(d, a, m, r)
    BY <1>1, <2>1 DEF LastItem, Items
  <2>3. ItemIndent(d[r]) \in Nat /\ ItemIndent(d[r]) > 0
    BY <2>2 DEF Plain
  <2>4. Left(d, a, m, r) <=> Left(d, a, n, r) \/ Leaves(d, a, m, r)
    BY <1>3, <2>2, Zenon DEF Left
  <2>5. y = IF Left(d, a, m, r) THEN 0 ELSE ItemIndent(d[r])
    <3>1. CASE Left(d, a, n, r)
      BY <2>1, <2>4, <3>1
    <3>2. CASE ~Left(d, a, n, r)
      <4>1. x = ItemIndent(d[r])
        BY <2>1, <3>2
      <4>2. Leaves(d, a, m, r) <=> ~Fenced(d, a, m) /\ Speaks(d[m]) /\ d[m].lead < x
        BY <4>1 DEF Leaves
      <4>. QED
        BY <2>4, <3>2, <4>1, <4>2
    <3>. QED
      BY <3>1, <3>2
  <2>. HIDE DEF y
  <2>6. IndentIs(d, a, m, y)
    BY <2>2, <2>5, Zenon DEF IndentIs
  <2>. QED
    BY <2>6 DEF y, m
<1>. QED
  BY <1>4, <1>5 DEF IndentIs

LEMMA IndentItem ==
    ASSUME NEW d, NEW a \in Nat, NEW n \in Nat, a <= n, OpensItem(d[n + 1]), ~Fenced(d, a, n + 1)
    PROVE  IndentIs(d, a, n + 1, ItemIndent(d[n + 1]))
<1>. DEFINE m == n + 1
<1>1. Items(d, a, m) = Items(d, a, n) \cup {m}
  BY ItemsNext
<1>2. \A q \in Items(d, a, n) : q <= m
  BY DEF Items
<1>3. m \in Nat /\ m + 1 .. m = {}
  OBVIOUS
<1>. HIDE DEF m
<1>4. LastItem(d, a, m, m)
  <2>1. m <= m
    BY <1>3
  <2>. QED
    BY <1>1, <1>2, <2>1 DEF LastItem
<1>5. ~Left(d, a, m, m)
  BY <1>3, Zenon DEF Left
<1>6. IndentIs(d, a, m, ItemIndent(d[m]))
  BY <1>3, <1>4, <1>5, Zenon DEF IndentIs
<1>. QED
  BY <1>6 DEF m

(* A line is in the item if it is not to the left of its content.            *)
LEMMA ItemIs ==
    ASSUME NEW d, NEW a \in Nat, NEW n \in Nat, a <= n, \A q \in a + 1 .. n : Plain(d[q]),
           NEW x, IndentIs(d, a, n, x), NEW l, Plain(l)
    PROVE  x \in Nat /\ (ItemAt(d, a, n, l) <=> x > 0 /\ l.lead >= x)
<1>1. l.lead \in Nat
  BY DEF Plain
<1>2. CASE Items(d, a, n) = {} /\ x = 0
  BY <1>2 DEF ItemAt, LastItem
<1>3. CASE \E r \in Nat : LastItem(d, a, n, r) /\ x = IF Left(d, a, n, r) THEN 0 ELSE ItemIndent(d[r])
  <2>1. PICK r \in Nat : LastItem(d, a, n, r) /\ x = IF Left(d, a, n, r) THEN 0 ELSE ItemIndent(d[r])
    BY <1>3
  <2>2. r \in a + 1 .. n
    BY <2>1 DEF LastItem, Items
  <2>3. ItemIndent(d[r]) \in Nat /\ ItemIndent(d[r]) > 0
    BY <2>2 DEF Plain
  <2>4. \A s \in Nat : LastItem(d, a, n, s) => s = r
    BY <2>1 DEF LastItem
  <2>. QED
    BY <1>1, <2>1, <2>3, <2>4 DEF ItemAt
<1>. QED
  BY <1>2, <1>3 DEF IndentIs

-----------------------------------------------------------------------------
(* The context of the line after n, and which lines are breaks.              *)

SlideContext(d, a, n, f, x, lazy) ==
    f = FenceAt(d, a, n + 1) /\ (lazy <=> QuoteAt(d, a, n)) /\ IndentIs(d, a, n, x)
BreakAt(d, a, p) ==
    d[p].lead < 4 /\ ~Fenced(d, a, p) /\ ~QuoteAt(d, a, p - 1) /\ ~ItemAt(d, a, p - 1, d[p])

SameContext(d, g, a, n) ==
    /\ FenceAt(d, a, n + 1) = FenceAt(g, a, n + 1)
    /\ QuoteAt(d, a, n) <=> QuoteAt(g, a, n)
    /\ \A x : IndentIs(d, a, n, x) <=> IndentIs(g, a, n, x)
    /\ \A l : ItemAt(d, a, n, l) <=> ItemAt(g, a, n, l)

LEMMA ContextSame ==
    ASSUME NEW d, NEW g, NEW a \in Nat, NEW n \in Nat, a <= n, \A q \in a + 1 .. n : d[q] = g[q]
    PROVE  SameContext(d, g, a, n)
<1>1. ASSUME NEW p \in a + 1 .. n + 1
      PROVE  FenceAt(d, a, p) = FenceAt(g, a, p)
  <2>1. p \in Nat /\ a < p /\ \A q \in a + 1 .. p - 1 : d[q] = g[q]
    OBVIOUS
  <2>. QED
    BY <2>1, FenceSame
<1>2. \A p \in a + 1 .. n : Fenced(d, a, p) <=> Fenced(g, a, p)
  <2>1. \A p \in a + 1 .. n : p \in a + 1 .. n + 1
    OBVIOUS
  <2>. QED
    BY <1>1, <2>1, Zenon DEF Fenced
<1>3. FenceAt(d, a, n + 1) = FenceAt(g, a, n + 1)
  <2>1. n + 1 \in a + 1 .. n + 1
    OBVIOUS
  <2>. QED
    BY <1>1, <2>1
<1>4. QuoteAt(d, a, n) <=> QuoteAt(g, a, n)
  <2>1. \A q \in a + 1 .. n : \A c \in q .. n : c \in a + 1 .. n
    OBVIOUS
  <2>2. ASSUME NEW q \in a + 1 .. n
        PROVE  Quotes(d, a, n, q) <=> Quotes(g, a, n, q)
    <3>1. d[q] = g[q] /\ (Fenced(d, a, q) <=> Fenced(g, a, q))
      BY <1>2
    <3>2. \A c \in q .. n : d[c] = g[c] /\ (Fenced(d, a, c) <=> Fenced(g, a, c))
      BY <1>2, <2>1
    <3>. QED
      BY <3>1, <3>2, Zenon DEF Quotes
  <2>. QED
    BY <2>2, Zenon DEF QuoteAt
<1>5. Items(d, a, n) = Items(g, a, n)
  <2>1. \A q \in a + 1 .. n : (OpensItem(d[q]) /\ ~Fenced(d, a, q)) <=> (OpensItem(g[q]) /\ ~Fenced(g, a, q))
    BY <1>2, Zenon
  <2>. QED
    BY <2>1, Zenon DEF Items
<1>6. ASSUME NEW r, LastItem(d, a, n, r)
      PROVE  d[r] = g[r] /\ (Left(d, a, n, r) <=> Left(g, a, n, r))
  <2>1. r \in a + 1 .. n
    BY <1>6 DEF LastItem, Items
  <2>2. \A q \in r + 1 .. n : q \in a + 1 .. n
    BY <2>1
  <2>3. d[r] = g[r]
    BY <2>1
  <2>4. \A q \in r + 1 .. n : Leaves(d, a, q, r) <=> Leaves(g, a, q, r)
    <3>1. \A q \in r + 1 .. n : d[q] = g[q] /\ (Fenced(d, a, q) <=> Fenced(g, a, q))
      BY <1>2, <2>2
    <3>. QED
      BY <2>3, <3>1, Zenon DEF Leaves
  <2>. QED
    BY <2>3, <2>4, Zenon DEF Left
<1>7. \A r : LastItem(d, a, n, r) <=> LastItem(g, a, n, r)
  BY <1>5, Zenon DEF LastItem
<1>8. \A x : IndentIs(d, a, n, x) <=> IndentIs(g, a, n, x)
  BY <1>5, <1>6, <1>7, Zenon DEF IndentIs
<1>9. \A l : ItemAt(d, a, n, l) <=> ItemAt(g, a, n, l)
  BY <1>6, <1>7, Zenon DEF ItemAt
<1>. QED
  BY <1>3, <1>4, <1>8, <1>9, Zenon DEF SameContext

LEMMA SlideContextSame ==
    ASSUME NEW d, NEW g, NEW a \in Nat, NEW n \in Nat, a <= n, \A q \in a + 1 .. n : d[q] = g[q],
           NEW f, NEW x, NEW lazy, SlideContext(d, a, n, f, x, lazy)
    PROVE  SlideContext(g, a, n, f, x, lazy)
<1>1. SameContext(d, g, a, n)
  BY ContextSame
<1>. QED
  BY <1>1, Zenon DEF SlideContext, SameContext

LEMMA BreakSame ==
    ASSUME NEW d, NEW g, NEW a \in Nat, NEW p \in Nat, a < p, \A q \in a + 1 .. p : d[q] = g[q]
    PROVE  BreakAt(d, a, p) <=> BreakAt(g, a, p)
<1>. DEFINE n == p - 1
<1>1. n \in Nat /\ a <= n /\ n + 1 = p /\ (\A q \in a + 1 .. n : d[q] = g[q]) /\ d[p] = g[p]
  OBVIOUS
<1>. HIDE DEF n
<1>2. SameContext(d, g, a, n)
  BY <1>1, ContextSame
<1>3. FenceAt(d, a, p) = FenceAt(g, a, p)
  BY <1>1, <1>2 DEF SameContext
<1>. QED
  BY <1>1, <1>2, <1>3, Zenon DEF BreakAt, SameContext, Fenced, n

(* A slide starts outside of everything.                                     *)
LEMMA ContextStart ==
    ASSUME NEW d, NEW a \in Nat
    PROVE  SlideContext(d, a, a, NoFence, 0, FALSE)
<1>1. a + 1 .. a = {}
  OBVIOUS
<1>2. FenceAt(d, a, a + 1) = NoFence
  BY FenceNext
<1>3. ~QuoteAt(d, a, a)
  BY <1>1, Zenon DEF QuoteAt
<1>4. Items(d, a, a) = {}
  BY <1>1, Zenon DEF Items
<1>. QED
  BY <1>2, <1>3, <1>4, Zenon DEF SlideContext, IndentIs

LEMMA ContextFence ==
    ASSUME NEW d, NEW a \in Nat, NEW n \in Nat, a <= n, NEW f, NEW x, NEW lazy,
           SlideContext(d, a, n, f, x, lazy)
    PROVE  /\ FenceAt(d, a, (n + 1) + 1) = FenceAfter(f, d[n + 1])
           /\ Fenced(d, a, n + 1) <=> f # NoFence
<1>1. f = FenceAt(d, a, n + 1)
  BY DEF SlideContext
<1>. DEFINE m == n + 1
<1>2. m \in Nat /\ a < m
  OBVIOUS
<1>. HIDE DEF m
<1>3. FenceAt(d, a, m + 1) = FenceAfter(FenceAt(d, a, m), d[m])
  BY <1>2, FenceNext
<1>. QED
  BY <1>1, <1>3, Zenon DEF Fenced, m

(* A line in a fence.                                                        *)
LEMMA ContextFenced ==
    ASSUME NEW d, NEW a \in Nat, NEW n \in Nat, a <= n, NEW f, NEW x, NEW lazy,
           SlideContext(d, a, n, f, x, lazy), f # NoFence,
           Plain(d[n + 1]), \A q \in a + 1 .. n : Plain(d[q])
    PROVE  /\ SlideContext(d, a, n + 1, IF ClosesFence(d[n + 1], f) THEN NoFence ELSE f, x, lazy)
           /\ ~BreakAt(d, a, n + 1)
<1>1. FenceAt(d, a, (n + 1) + 1) = FenceAfter(f, d[n + 1]) /\ Fenced(d, a, n + 1)
  BY ContextFence
<1>2. FenceAfter(f, d[n + 1]) = IF ClosesFence(d[n + 1], f) THEN NoFence ELSE f
  BY Zenon DEF FenceAfter
<1>3. (lazy <=> QuoteAt(d, a, n)) /\ IndentIs(d, a, n, x)
  BY DEF SlideContext
<1>4. QuoteAt(d, a, n + 1) <=> QuoteAt(d, a, n)
  BY <1>1, QuoteNext, Zenon
<1>5. IndentIs(d, a, n + 1, x)
  BY <1>1, <1>3, IndentLine
<1>6. SlideContext(d, a, n + 1, IF ClosesFence(d[n + 1], f) THEN NoFence ELSE f, x, lazy)
  BY <1>1, <1>2, <1>3, <1>4, <1>5, Zenon DEF SlideContext
<1>. QED
  BY <1>1, <1>6, Zenon DEF BreakAt

(* Any other.                                                                *)
Before(l, x) == IF Speaks(l) /\ l.lead < x /\ ~OpensItem(l) THEN 0 ELSE x
Parts(l, x, lazy) == ~OpensFence(l) /\ ~(lazy /\ ~IsBlank(l)) /\ IsSeparator(l, Before(l, x))

LEMMA ContextBody ==
    ASSUME NEW d, NEW a \in Nat, NEW n \in Nat, a <= n, NEW x, NEW lazy,
           SlideContext(d, a, n, NoFence, x, lazy),
           Plain(d[n + 1]), \A q \in a + 1 .. n : Plain(d[q])
    PROVE  LET l == d[n + 1]
           IN  SlideContext(d, a, n + 1, FenceAfter(NoFence, l),
                            IF OpensItem(l) /\ ~OpensFence(l) THEN ItemIndent(l) ELSE Before(l, x),
                            (lazy /\ ~IsBlank(l)) \/ IsQuote(l))
<1>. DEFINE m == n + 1
            l == d[m]
            y == IF OpensItem(l) /\ ~OpensFence(l) THEN ItemIndent(l) ELSE Before(l, x)
<1>1. FenceAt(d, a, m + 1) = FenceAfter(NoFence, l) /\ ~Fenced(d, a, m)
  BY ContextFence
<1>2. (lazy <=> QuoteAt(d, a, n)) /\ IndentIs(d, a, n, x)
  BY DEF SlideContext
<1>3. QuoteAt(d, a, m) <=> (lazy /\ ~IsBlank(l)) \/ IsQuote(l)
  <2>1. QuoteAt(d, a, n + 1) <=> \/ IsQuote(d[n + 1]) /\ ~Fenced(d, a, n + 1)
                                 \/ QuoteAt(d, a, n) /\ (~IsBlank(d[n + 1]) \/ Fenced(d, a, n + 1))
    BY QuoteNext
  <2>. QED
    BY <1>1, <1>2, <2>1, Zenon
<1>4. IndentIs(d, a, m, y)
  <2>1. CASE OpensItem(l)
    <3>1. ~OpensFence(l)
      BY <2>1 DEF Plain
    <3>2. IndentIs(d, a, n + 1, ItemIndent(d[n + 1]))
      BY <1>1, <2>1, IndentItem
    <3>3. y = ItemIndent(l)
      BY <2>1, <3>1, Zenon
    <3>. HIDE DEF y
    <3>. QED
      BY <3>2, <3>3
  <2>2. CASE ~OpensItem(l)
    <3>. DEFINE z == IF Speaks(d[n + 1]) /\ d[n + 1].lead < x THEN 0 ELSE x
    <3>1. IndentIs(d, a, n + 1, z)
      BY <1>1, <1>2, <2>2, IndentLine
    <3>2. y = z
      BY <2>2, Zenon DEF Before
    <3>. HIDE DEF y, z
    <3>. QED
      BY <3>1, <3>2
  <2>. QED
    BY <2>1, <2>2
<1>. HIDE DEF y
<1>5. SlideContext(d, a, m, FenceAfter(NoFence, l), y, (lazy /\ ~IsBlank(l)) \/ IsQuote(l))
  BY <1>1, <1>3, <1>4, Zenon DEF SlideContext
<1>. QED
  BY <1>5 DEF y

LEMMA BreakIs ==
    ASSUME NEW d, NEW a \in Nat, NEW n \in Nat, a <= n, NEW x, NEW lazy,
           SlideContext(d, a, n, NoFence, x, lazy),
           Plain(d[n + 1]), \A q \in a + 1 .. n : Plain(d[q]), d[n + 1].what = "break"
    PROVE  BreakAt(d, a, n + 1) <=> Parts(d[n + 1], x, lazy)
<1>. DEFINE m == n + 1
            l == d[m]
<1>1. ~Fenced(d, a, m)
  BY ContextFence
<1>2. (lazy <=> QuoteAt(d, a, n)) /\ IndentIs(d, a, n, x)
  BY DEF SlideContext
<1>3. m - 1 = n /\ m \in Nat
  OBVIOUS
<1>4. Plain(l)
  OBVIOUS
<1>5. l.what = "break"
  OBVIOUS
<1>. HIDE DEF m, l
<1>6. x \in Nat /\ (ItemAt(d, a, n, l) <=> x > 0 /\ l.lead >= x)
  BY <1>2, <1>4, ItemIs
<1>7. ~OpensFence(l) /\ ~IsBlank(l)
  BY <1>5, Zenon DEF OpensFence, IsBlank
<1>8. l.lead \in Nat
  BY <1>4 DEF Plain
<1>. DEFINE u == Before(l, x)
<1>9. u > 0 /\ l.lead >= u <=> x > 0 /\ l.lead >= x
  BY <1>6, <1>8 DEF Before
<1>. HIDE DEF u
<1>10. Parts(l, x, lazy) <=> ~lazy /\ l.lead < 4 /\ ~(u > 0 /\ l.lead >= u)
  BY <1>5, <1>7, Zenon DEF Parts, IsSeparator, u
<1>11. BreakAt(d, a, m) <=> l.lead < 4 /\ ~lazy /\ ~ItemAt(d, a, n, l)
  BY <1>1, <1>2, <1>3, Zenon DEF BreakAt, l
<1>. QED
  BY <1>6, <1>9, <1>10, <1>11, Zenon DEF l, m

-----------------------------------------------------------------------------
(* Where slides end.  Of lines that were held in vain nothing is known.      *)

Unsplit(d, e, a)   == e = 0 /\ 1 <= Len(d) /\ IsFrontMatterFence(d[1]) /\ a <= 1
Unbroken(d, a, n)  == \A p \in a + 1 .. n : d[p].what = "break" => ~BreakAt(d, a, p)
EndsAt(d, a, p)    == Unbroken(d, a, p - 1) /\ BreakAt(d, a, p)
Split(b, e, d)     == \A k \in 1 .. Len(b) : Unsplit(d, e, After(b, e, k)) \/ EndsAt(d, After(b, e, k), b[k])
AtBreaks(b, e, d, n) ==
    Split(b, e, d) /\ (Unsplit(d, e, LastCut(b, e)) \/ Unbroken(d, LastCut(b, e), n))
InContext(b, e, d, n, f, x, lazy) ==
    Unsplit(d, e, LastCut(b, e)) \/ SlideContext(d, LastCut(b, e), n, f, x, lazy)

LEMMA DocPlain ==
    ASSUME NEW d \in Seq(UNION DeckLines)
    PROVE  \A q \in 1 .. Len(d) : Plain(d[q])
<1>. SUFFICES ASSUME NEW q \in 1 .. Len(d)
              PROVE  Plain(d[q])
  OBVIOUS
<1>. DEFINE l == d[q]
<1>1. l \in UNION DeckLines
  OBVIOUS
<1>. HIDE DEF l
<1>2. PICK S \in DeckLines : l \in S
  BY <1>1
<1>3. Plain(l)
  BY <1>2, LinePlain
<1>. QED
  BY <1>3 DEF l

LEMMA UnbrokenGrows ==
    ASSUME NEW S, NEW d \in Seq(S), NEW l \in S, NEW a \in Nat, NEW n \in Nat, n <= Len(d), Unbroken(d, a, n)
    PROVE  Unbroken(Append(d, l), a, n)
<1>. DEFINE g == Append(d, l)
<1>1. \A p \in 1 .. Len(d) : g[p] = d[p]
  OBVIOUS
<1>. HIDE DEF g
<1>. SUFFICES ASSUME NEW p \in a + 1 .. n, g[p].what = "break"
              PROVE  ~BreakAt(g, a, p)
  BY Zenon DEF Unbroken, g
<1>2. p \in Nat /\ a < p /\ p \in 1 .. Len(d) /\ \A q \in a + 1 .. p : q \in 1 .. Len(d)
  OBVIOUS
<1>3. \A q \in a + 1 .. p : d[q] = g[q]
  BY <1>1, <1>2
<1>4. BreakAt(d, a, p) <=> BreakAt(g, a, p)
  BY <1>2, <1>3, BreakSame
<1>5. d[p] = g[p]
  BY <1>1, <1>2
<1>. QED
  BY <1>4, <1>5, Zenon DEF Unbroken

LEMMA BreaksGrow ==
    ASSUME NEW S, NEW d \in Seq(S), NEW l \in S, NEW slides, NEW b \in Seq(Nat), NEW e \in Nat, NEW n \in Nat,
           n <= Len(d), 1 <= Len(d), Sliced(slides, b, e, d), LastCut(b, e) <= n, AtBreaks(b, e, d, n)
    PROVE  /\ AtBreaks(b, e, Append(d, l), n)
           /\ \A f, x, lazy : InContext(b, e, d, n, f, x, lazy) => InContext(b, e, Append(d, l), n, f, x, lazy)
<1>. DEFINE g == Append(d, l)
            z == LastCut(b, e)
<1>1. \A p \in 1 .. Len(d) : g[p] = d[p]
  OBVIOUS
<1>2. Len(g) = Len(d) + 1 /\ Len(d) \in Nat
  OBVIOUS
<1>3. z \in Nat
  BY LastCutType
<1>4. ASSUME NEW a
      PROVE  Unsplit(d, e, a) <=> Unsplit(g, e, a)
  <2>1. g[1] = d[1] /\ 1 <= Len(g)
    BY <1>1, <1>2
  <2>. QED
    BY <2>1, Zenon DEF Unsplit
<1>. HIDE DEF z
<1>5. ASSUME NEW k \in 1 .. Len(b)
      PROVE  Unsplit(g, e, After(b, e, k)) \/ EndsAt(g, After(b, e, k), b[k])
  <2>. DEFINE a == After(b, e, k)
              p == b[k]
              m == p - 1
  <2>1. p \in 1 .. Len(d) /\ a < p
    BY DEF Sliced
  <2>2. a \in Nat
    BY DEF After
  <2>3. Unsplit(d, e, a) \/ EndsAt(d, a, p)
    BY DEF AtBreaks, Split
  <2>4. CASE EndsAt(d, a, p)
    <3>. HIDE DEF a, p
    <3>1. m \in Nat /\ m <= Len(d) /\ Unbroken(d, a, m) /\ p \in Nat
      BY <2>1, <2>4 DEF EndsAt
    <3>. HIDE DEF m, g
    <3>2. Unbroken(g, a, m)
      BY <2>2, <3>1, UnbrokenGrows DEF g
    <3>3. \A q \in a + 1 .. p : d[q] = g[q]
      BY <1>1, <2>1, <2>2
    <3>4. BreakAt(d, a, p) <=> BreakAt(g, a, p)
      BY <2>1, <2>2, <3>1, <3>3, BreakSame
    <3>5. EndsAt(g, a, p)
      BY <2>4, <3>2, <3>4 DEF EndsAt, m
    <3>. QED
      BY <3>5 DEF a, p
  <2>. QED
    BY <1>4, <2>3, <2>4
<1>6. Unsplit(g, e, z) \/ Unbroken(g, z, n)
  <2>1. Unsplit(d, e, z) \/ Unbroken(d, z, n)
    BY DEF AtBreaks, z
  <2>2. Unbroken(d, z, n) => Unbroken(g, z, n)
    BY <1>3, UnbrokenGrows
  <2>. QED
    BY <1>4, <2>1, <2>2
<1>7. ASSUME NEW f, NEW x, NEW lazy, InContext(b, e, d, n, f, x, lazy)
      PROVE  InContext(b, e, g, n, f, x, lazy)
  <2>1. Unsplit(d, e, z) \/ SlideContext(d, z, n, f, x, lazy)
    BY <1>7 DEF InContext, z
  <2>2. ASSUME SlideContext(d, z, n, f, x, lazy)
        PROVE  SlideContext(g, z, n, f, x, lazy)
    <3>1. z <= n
      BY DEF z
    <3>2. \A q \in z + 1 .. n : d[q] = g[q]
      BY <1>1, <1>3
    <3>. HIDE DEF g
    <3>. QED
      BY <1>3, <2>2, <3>1, <3>2, SlideContextSame
  <2>. QED
    BY <1>4, <2>1, <2>2 DEF InContext, z
<1>. HIDE DEF g
<1>8. AtBreaks(b, e, g, n)
  BY <1>5, <1>6 DEF AtBreaks, Split, z
<1>. QED
  BY <1>7, <1>8 DEF g

(* Before the first slide, and when lines were held in vain.                 *)
LEMMA BreaksStart ==
    \A e \in Nat : \A d : AtBreaks(<<>>, e, d, e) /\ InContext(<<>>, e, d, e, NoFence, 0, FALSE)
<1>. SUFFICES ASSUME NEW e \in Nat, NEW d
              PROVE  AtBreaks(<<>>, e, d, e) /\ InContext(<<>>, e, d, e, NoFence, 0, FALSE)
  OBVIOUS
<1>. DEFINE b == <<>>
<1>1. LastCut(b, e) = e /\ 1 .. Len(b) = {} /\ e + 1 .. e = {}
  BY DEF LastCut, After
<1>. HIDE DEF b
<1>2. Split(b, e, d) /\ Unbroken(d, e, e)
  BY <1>1, Zenon DEF Split, Unbroken
<1>3. SlideContext(d, e, e, NoFence, 0, FALSE)
  BY ContextStart
<1>4. AtBreaks(b, e, d, e) /\ InContext(b, e, d, e, NoFence, 0, FALSE)
  BY <1>1, <1>2, <1>3, Zenon DEF AtBreaks, InContext
<1>. QED
  BY <1>4 DEF b

LEMMA BreaksVain ==
    ASSUME NEW d, 1 <= Len(d), IsFrontMatterFence(d[1]), NEW b, b = <<>> \/ b = << 1 >>, NEW n
    PROVE  AtBreaks(b, 0, d, n) /\ \A f, x, lazy : InContext(b, 0, d, n, f, x, lazy)
<1>1. LastCut(b, 0) <= 1 /\ \A k \in 1 .. Len(b) : After(b, 0, k) <= 1
  <2>1. CASE b = <<>>
    BY <2>1 DEF LastCut, After
  <2>2. CASE b = <<1>>
    BY <2>2 DEF LastCut, After
  <2>. QED
    BY <2>1, <2>2
<1>2. Unsplit(d, 0, LastCut(b, 0)) /\ \A k \in 1 .. Len(b) : Unsplit(d, 0, After(b, 0, k))
  BY <1>1, Zenon DEF Unsplit
<1>. QED
  BY <1>2, Zenon DEF AtBreaks, InContext, Split

(* A line that is no break between slides.                                   *)
LEMMA BreaksLine ==
    ASSUME NEW b, NEW e, NEW d, NEW n \in Nat, AtBreaks(b, e, d, n), LastCut(b, e) \in Nat, LastCut(b, e) <= n,
           d[n + 1].what = "break" => Unsplit(d, e, LastCut(b, e)) \/ ~BreakAt(d, LastCut(b, e), n + 1)
    PROVE  AtBreaks(b, e, d, n + 1)
<1>. DEFINE z == LastCut(b, e)
            m == n + 1
<1>1. \A p \in z + 1 .. m : p = m \/ p \in z + 1 .. n
  OBVIOUS
<1>2. d[m].what = "break" => Unsplit(d, e, z) \/ ~BreakAt(d, z, m)
  OBVIOUS
<1>. HIDE DEF z, m
<1>3. Split(b, e, d) /\ (Unsplit(d, e, z) \/ Unbroken(d, z, n))
  BY DEF AtBreaks, z
<1>4. Unsplit(d, e, z) \/ Unbroken(d, z, m)
  BY <1>1, <1>2, <1>3, Zenon DEF Unbroken
<1>. QED
  BY <1>3, <1>4 DEF AtBreaks, z, m

(* And a break.                                                              *)
LEMMA BreaksNext ==
    ASSUME NEW b \in Seq(Nat), NEW e \in Nat, NEW d, NEW n \in Nat, AtBreaks(b, e, d, n),
           Unsplit(d, e, LastCut(b, e)) \/ BreakAt(d, LastCut(b, e), n + 1)
    PROVE  /\ AtBreaks(Append(b, n + 1), e, d, n + 1)
           /\ InContext(Append(b, n + 1), e, d, n + 1, NoFence, 0, FALSE)
<1>. DEFINE m == n + 1
            c == Append(b, m)
            z == LastCut(b, e)
            l == Len(b)
<1>1. m \in Nat /\ m - 1 = n /\ m + 1 .. m = {}
  OBVIOUS
<1>2. Unsplit(d, e, z) \/ BreakAt(d, z, m)
  OBVIOUS
<1>. HIDE DEF m
<1>3. c \in Seq(Nat) /\ Len(c) = l + 1 /\ l \in Nat /\ c[l + 1] = m /\ \A k \in 1 .. l : c[k] = b[k]
  BY <1>1
<1>. HIDE DEF c
<1>4. ASSUME NEW k \in 1 .. l + 1
      PROVE  After(c, e, k) = After(b, e, k)
  <2>1. CASE k = 1
    BY <2>1 DEF After
  <2>2. CASE k # 1
    <3>1. k - 1 \in 1 .. l
      BY <1>3, <2>2
    <3>2. c[k - 1] = b[k - 1]
      BY <1>3, <3>1
    <3>. QED
      BY <2>2, <3>2 DEF After
  <2>. QED
    BY <2>1, <2>2
<1>5. LastCut(c, e) = m
  BY <1>3 DEF LastCut, After
<1>6. Split(b, e, d) /\ (Unsplit(d, e, z) \/ Unbroken(d, z, n))
  BY DEF AtBreaks
<1>7. Unsplit(d, e, z) \/ EndsAt(d, z, m)
  BY <1>1, <1>2, <1>6, Zenon DEF EndsAt
<1>8. ASSUME NEW k \in 1 .. Len(c)
      PROVE  Unsplit(d, e, After(c, e, k)) \/ EndsAt(d, After(c, e, k), c[k])
  <2>1. CASE k = l + 1
    <3>1. After(c, e, k) = z /\ c[k] = m
      BY <1>3, <1>4, <2>1 DEF LastCut
    <3>. QED
      BY <1>7, <3>1
  <2>2. CASE k # l + 1
    <3>1. k \in 1 .. l
      BY <1>3, <2>2
    <3>2. After(c, e, k) = After(b, e, k) /\ c[k] = b[k]
      BY <1>3, <1>4, <3>1
    <3>. QED
      BY <1>6, <3>1, <3>2 DEF Split
  <2>. QED
    BY <2>1, <2>2
<1>9. Split(c, e, d)
  BY <1>8, Zenon DEF Split
<1>10. Unbroken(d, m, m)
  BY <1>1, Zenon DEF Unbroken
<1>11. SlideContext(d, m, m, NoFence, 0, FALSE)
  BY <1>1, ContextStart
<1>12. AtBreaks(c, e, d, m) /\ InContext(c, e, d, m, NoFence, 0, FALSE)
  BY <1>5, <1>9, <1>10, <1>11, Zenon DEF AtBreaks, InContext
<1>. QED
  BY <1>12 DEF c, m

LEMMA BreaksFenced ==
    ASSUME NEW b, NEW e, NEW d, NEW n \in Nat, LastCut(b, e) \in Nat, LastCut(b, e) <= n,
           AtBreaks(b, e, d, n), \A q \in 1 .. n + 1 : Plain(d[q]),
           NEW f, NEW x, NEW lazy, InContext(b, e, d, n, f, x, lazy), f # NoFence
    PROVE  /\ AtBreaks(b, e, d, n + 1)
           /\ InContext(b, e, d, n + 1, IF ClosesFence(d[n + 1], f) THEN NoFence ELSE f, x, lazy)
<1>. DEFINE z == LastCut(b, e)
<1>1. z \in Nat /\ z <= n /\ Plain(d[n + 1]) /\ \A q \in z + 1 .. n : Plain(d[q])
  OBVIOUS
<1>. HIDE DEF z
<1>2. ASSUME SlideContext(d, z, n, f, x, lazy)
      PROVE  /\ SlideContext(d, z, n + 1, IF ClosesFence(d[n + 1], f) THEN NoFence ELSE f, x, lazy)
             /\ ~BreakAt(d, z, n + 1)
  BY <1>1, <1>2, ContextFenced
<1>3. Unsplit(d, e, z) \/ SlideContext(d, z, n, f, x, lazy)
  BY DEF InContext, z
<1>4. AtBreaks(b, e, d, n + 1)
  <2>1. Unsplit(d, e, LastCut(b, e)) \/ ~BreakAt(d, LastCut(b, e), n + 1)
    BY <1>2, <1>3 DEF z
  <2>. QED
    BY <2>1, BreaksLine
<1>. QED
  BY <1>2, <1>3, <1>4, Zenon DEF InContext, z

LEMMA BreaksBody ==
    ASSUME NEW b, NEW e, NEW d, NEW n \in Nat, LastCut(b, e) \in Nat, LastCut(b, e) <= n,
           AtBreaks(b, e, d, n), \A q \in 1 .. n + 1 : Plain(d[q]),
           NEW x, NEW lazy, InContext(b, e, d, n, NoFence, x, lazy)
    PROVE  LET l == d[n + 1]
           IN  /\ l.what = "break" /\ Parts(l, x, lazy) =>
                     Unsplit(d, e, LastCut(b, e)) \/ BreakAt(d, LastCut(b, e), n + 1)
               /\ ~Parts(l, x, lazy) =>
                     /\ AtBreaks(b, e, d, n + 1)
                     /\ InContext(b, e, d, n + 1, FenceAfter(NoFence, l),
                                  IF OpensItem(l) /\ ~OpensFence(l) THEN ItemIndent(l) ELSE Before(l, x),
                                  (lazy /\ ~IsBlank(l)) \/ IsQuote(l))
<1>. DEFINE z == LastCut(b, e)
            l == d[n + 1]
            y == IF OpensItem(l) /\ ~OpensFence(l) THEN ItemIndent(l) ELSE Before(l, x)
            after == (lazy /\ ~IsBlank(l)) \/ IsQuote(l)
<1>1. z \in Nat /\ z <= n /\ Plain(d[n + 1]) /\ \A q \in z + 1 .. n : Plain(d[q])
  OBVIOUS
<1>. HIDE DEF z
<1>2. ASSUME SlideContext(d, z, n, NoFence, x, lazy)
      PROVE  SlideContext(d, z, n + 1, FenceAfter(NoFence, l), y, after)
  BY <1>1, <1>2, ContextBody
<1>3. ASSUME SlideContext(d, z, n, NoFence, x, lazy), l.what = "break"
      PROVE  BreakAt(d, z, n + 1) <=> Parts(l, x, lazy)
  BY <1>1, <1>3, BreakIs
<1>4. Unsplit(d, e, z) \/ SlideContext(d, z, n, NoFence, x, lazy)
  BY DEF InContext, z
<1>5. ASSUME ~Parts(l, x, lazy)
      PROVE  AtBreaks(b, e, d, n + 1)
  <2>1. d[n + 1].what = "break" => Unsplit(d, e, LastCut(b, e)) \/ ~BreakAt(d, LastCut(b, e), n + 1)
    BY <1>3, <1>4, <1>5, Zenon DEF z
  <2>. QED
    BY <2>1, BreaksLine
<1>6. InContext(b, e, d, n + 1, FenceAfter(NoFence, l), y, after)
  BY <1>2, <1>4, Zenon DEF InContext, z
<1>7. l.what = "break" /\ Parts(l, x, lazy) => Unsplit(d, e, z) \/ BreakAt(d, z, n + 1)
  BY <1>3, <1>4, Zenon
<1>. QED
  BY <1>5, <1>6, <1>7, Zenon DEF y, after, z

-----------------------------------------------------------------------------
(* What the document says of its breaks is what the splitter knew of them.   *)

LEMMA InFenceIs ==
    ASSUME NEW a \in Nat, NEW q \in Nat, a < q, SlideStart(q) = a + 1
    PROVE  InFence(q) <=> Fenced(doc, a, q)
<1>. DEFINE m == q - (a + 1)
            lines == [i \in 1 .. m |-> (a + 1) + i - 1]
            Is(F) == F = [i \in 1 .. Len(lines) + 1 |->
                             IF i = 1 THEN NoFence ELSE FenceAfter(F[i - 1], doc[lines[i - 1]])]
            G == FenceBefore(lines)
<1>1. m \in Nat /\ q <= a + m + 1 /\ q - a = m + 1
  OBVIOUS
<1>. HIDE DEF m
<1>2. lines \in Seq(Nat) /\ Len(lines) = m /\ \A i \in 1 .. m : lines[i] = a + i
  <2>1. \A i \in 1 .. m : (a + 1) + i - 1 = a + i /\ a + i \in Nat
    BY <1>1
  <2>2. \A i \in 1 .. m : lines[i] = a + i
    BY <2>1
  <2>3. lines \in Seq(Nat) /\ Len(lines) = m
    BY <1>1, <2>1, IsASeq
  <2>. QED
    BY <2>2, <2>3
<1>. HIDE DEF lines
<1>3. \E F : Is(F)
  <2>1. PICK H : FencesAre(doc, a, m, H)
    BY <1>1, FencesExist
  <2>. DEFINE F == [i \in 1 .. m + 1 |-> H[i]]
  <2>2. ASSUME NEW i \in 1 .. m + 1
        PROVE  F[i] = IF i = 1 THEN NoFence ELSE FenceAfter(F[i - 1], doc[lines[i - 1]])
    <3>1. F[i] = H[i]
      OBVIOUS
    <3>2. CASE i = 1
      BY <2>1, <3>1, <3>2 DEF FencesAre
    <3>3. CASE i # 1
      <4>. DEFINE j == i - 1
      <4>1. j \in 1 .. m /\ i = j + 1 /\ j \in 1 .. m + 1
        BY <1>1, <3>3
      <4>. HIDE DEF j
      <4>2. H[j + 1] = FenceAfter(H[j], doc[a + j])
        BY <2>1, <4>1 DEF FencesAre
      <4>3. F[j] = H[j] /\ lines[j] = a + j
        BY <1>2, <4>1
      <4>. HIDE DEF F
      <4>4. F[i] = FenceAfter(F[j], doc[lines[j]])
        BY <3>1, <4>1, <4>2, <4>3
      <4>. QED
        BY <3>3, <4>4 DEF j
    <3>. QED
      BY <3>2, <3>3
  <2>3. F = [i \in 1 .. m + 1 |-> F[i]]
    OBVIOUS
  <2>. HIDE DEF F
  <2>4. [i \in 1 .. m + 1 |-> F[i]] =
        [i \in 1 .. m + 1 |-> IF i = 1 THEN NoFence ELSE FenceAfter(F[i - 1], doc[lines[i - 1]])]
    BY <2>2, Zenon
  <2>5. Is(F)
    BY <1>2, <2>3, <2>4, Zenon
  <2>. QED
    BY <2>5
<1>4. G = CHOOSE F : Is(F)
  BY Zenon DEF FenceBefore
<1>5. Is(G)
  <2>. HIDE DEF Is, G
  <2>. QED
    BY <1>3, <1>4
<1>. HIDE DEF G
<1>6. FencesAre(doc, a, m, G)
  <2>1. \A i \in 1 .. m + 1 : G[i] = IF i = 1 THEN NoFence ELSE FenceAfter(G[i - 1], doc[lines[i - 1]])
    BY <1>2, <1>5, Zenon
  <2>2. 1 \in 1 .. m + 1 /\ \A i \in 1 .. m : i + 1 \in 1 .. m + 1 /\ i + 1 # 1 /\ (i + 1) - 1 = i
    BY <1>1
  <2>3. G[1] = NoFence
    BY <2>1, <2>2, Zenon
  <2>4. ASSUME NEW i \in 1 .. m
        PROVE  G[i + 1] = FenceAfter(G[i], doc[a + i])
    <3>. DEFINE j == i + 1
    <3>1. j \in 1 .. m + 1 /\ j # 1 /\ j - 1 = i
      BY <2>2
    <3>. HIDE DEF j
    <3>2. G[j] = FenceAfter(G[i], doc[lines[i]])
      BY <2>1, <3>1
    <3>3. lines[i] = a + i
      BY <1>2
    <3>. QED
      BY <3>2, <3>3 DEF j
  <2>. QED
    BY <2>3, <2>4, Zenon DEF FencesAre
<1>7. FenceAt(doc, a, q) = G[q - a]
  BY <1>1, <1>6, FenceAtIs
<1>8. InFence(q) <=> G[m + 1] # NoFence
  BY Zenon DEF InFence, G, lines, m
<1>. QED
  BY <1>1, <1>7, <1>8, Zenon DEF Fenced

LEMMA InQuoteIs ==
    ASSUME NEW a \in Nat, NEW p \in Nat, a < p, ~IsBlank(doc[p]),
           \A q \in a + 1 .. p : SlideStart(q) = a + 1 /\ (InFence(q) <=> Fenced(doc, a, q))
    PROVE  InQuote(p) <=> QuoteAt(doc, a, p - 1)
<1>. DEFINE n == p - 1
<1>1. n \in Nat /\ p \in a + 1 .. p /\ \A q \in a + 1 .. n : q \in a + 1 .. p /\ q \in Nat
  OBVIOUS
<1>2. \A q \in a + 1 .. n : \A c \in q .. p : c \in a + 1 .. p /\ (c = p \/ c \in q .. n)
  OBVIOUS
<1>3. \A q \in a + 1 .. n : \A c \in q .. n : c \in q .. p
  OBVIOUS
<1>. HIDE DEF n
<1>4. SlideStart(p) = a + 1
  BY <1>1
<1>5. ASSUME NEW q \in a + 1 .. n
      PROVE  (doc[q].what = "quote" /\ ~InFence(q) /\ \A c \in q .. p : ~IsBlank(doc[c]) \/ InFence(c))
             <=> Quotes(doc, a, n, q)
  <2>1. InFence(q) <=> Fenced(doc, a, q)
    BY <1>1
  <2>2. \A c \in q .. p : InFence(c) <=> Fenced(doc, a, c)
    BY <1>2
  <2>3. (\A c \in q .. p : ~IsBlank(doc[c]) \/ InFence(c))
        <=> \A c \in q .. n : ~IsBlank(doc[c]) \/ Fenced(doc, a, c)
    BY <1>2, <1>3, <2>2, Zenon
  <2>. QED
    BY <2>1, <2>3, Zenon DEF Quotes, IsQuote
<1>6. InQuote(p) <=> \E q \in a + 1 .. n :
                        doc[q].what = "quote" /\ ~InFence(q) /\ \A c \in q .. p : ~IsBlank(doc[c]) \/ InFence(c)
  BY <1>4, Zenon DEF InQuote, n
<1>. QED
  BY <1>5, <1>6, Zenon DEF QuoteAt, n

LEMMA InItemIs ==
    ASSUME NEW a \in Nat, NEW p \in Nat, a < p,
           \A q \in a + 1 .. p : SlideStart(q) = a + 1 /\ (InFence(q) <=> Fenced(doc, a, q))
    PROVE  InItem(p) <=> ItemAt(doc, a, p - 1, doc[p])
<1>. DEFINE n == p - 1
            items == {q \in SlideStart(p) .. p - 1 : OpensItem(doc[q]) /\ ~InFence(q)}
            last == Max(items)
            OutAt(q) == ~InFence(q) /\ (~IsBlank(doc[q]) \/ doc[q].lead > 0) /\ doc[q].lead < ItemIndent(doc[last])
<1>1. n \in Nat /\ p \in a + 1 .. p /\ \A q \in a + 1 .. n : q \in a + 1 .. p /\ q \in Nat
  OBVIOUS
<1>. HIDE DEF n
<1>2. SlideStart(p) = a + 1
  BY <1>1
<1>3. items = Items(doc, a, n)
  <2>1. items = {q \in a + 1 .. n : OpensItem(doc[q]) /\ ~InFence(q)}
    BY <1>2, Zenon DEF n
  <2>2. \A q \in a + 1 .. n : OpensItem(doc[q]) /\ ~InFence(q) <=> OpensItem(doc[q]) /\ ~Fenced(doc, a, q)
    BY <1>1
  <2>. HIDE DEF items
  <2>. QED
    BY <2>1, <2>2, Zenon DEF Items
<1>4. InItem(p) <=> items # {} /\ doc[p].lead >= ItemIndent(doc[last]) /\ \A q \in last + 1 .. p - 1 : ~OutAt(q)
  BY Zenon DEF InItem
<1>. HIDE DEF items
<1>5. CASE items = {}
  <2>1. ~ItemAt(doc, a, n, doc[p])
    BY <1>3, <1>5, Zenon DEF ItemAt, LastItem
  <2>. QED
    BY <1>4, <1>5, <2>1 DEF n
<1>6. CASE items # {}
  <2>1. items \in SUBSET (0 .. n)
    BY <1>1, <1>3 DEF Items
  <2>2. last \in items /\ \A q \in items : last >= q
    BY <1>1, <1>6, <2>1, MaxOf
  <2>. HIDE DEF last
  <2>3. last \in Nat /\ last \in a + 1 .. n
    BY <1>1, <1>3, <2>2 DEF Items
  <2>4. \A q \in items : q \in Nat /\ q <= last
    BY <2>1, <2>2, <2>3
  <2>5. LastItem(doc, a, n, last)
    BY <1>3, <2>2, <2>4 DEF LastItem
  <2>6. \A r \in Nat : LastItem(doc, a, n, r) => r = last
    <3>. SUFFICES ASSUME NEW r \in Nat, LastItem(doc, a, n, r)
                  PROVE  r = last
      OBVIOUS
    <3>1. r <= last /\ last <= r
      BY <1>3, <2>2, <2>4 DEF LastItem
    <3>. QED
      BY <2>3, <3>1
  <2>7. \A q \in last + 1 .. n : OutAt(q) <=> Leaves(doc, a, q, last)
    <3>1. \A q \in last + 1 .. n : q \in a + 1 .. n
      BY <2>3
    <3>2. \A q \in last + 1 .. n : InFence(q) <=> Fenced(doc, a, q)
      BY <1>1, <3>1
    <3>. QED
      BY <3>2, Zenon DEF Leaves, Speaks
  <2>. HIDE DEF OutAt
  <2>8. (\A q \in last + 1 .. n : ~OutAt(q)) <=> ~Left(doc, a, n, last)
    BY <2>7, Zenon DEF Left
  <2>9. ItemAt(doc, a, n, doc[p]) <=> doc[p].lead >= ItemIndent(doc[last]) /\ ~Left(doc, a, n, last)
    BY <2>3, <2>5, <2>6, Zenon DEF ItemAt
  <2>10. (\A q \in last + 1 .. p - 1 : ~OutAt(q)) <=> \A q \in last + 1 .. n : ~OutAt(q)
    BY DEF n
  <2>. QED
    BY <1>4, <1>6, <2>8, <2>9, <2>10, Zenon DEF n
<1>. QED
  BY <1>5, <1>6

LEMMA SlidesEnd ==
    ASSUME doc \in Seq(UNION DeckLines), deck_out \in Seq(Pieces), NEW b, NEW e,
           AllCut(SlidesIn(deck_out), b, e, doc), Whole(doc, e), AtBreaks(b, e, doc, Len(doc))
    PROVE  SlidesEndAtBreaks
<1>. DEFINE n == Len(b)
            c == CutsUp(b, doc)
            A(k) == After(b, e, k)
<1>1. b \in Seq(Nat) /\ e \in Nat /\ n \in Nat /\ Len(doc) \in Nat
  BY DEF AllCut
<1>2. Ordered(c, b, e, n)
  BY CutsOrder
<1>3. CutsKnown(b, e)
  BY SeparatorsAre
<1>4. c[n + 1] = Len(doc) + 1
  BY <1>1 DEF CutsUp
<1>. HIDE DEF c
<1>5. /\ c \in Seq(Nat) /\ Len(c) = n + 1
      /\ \A i \in 1 .. n : c[i] = b[i]
      /\ \A k \in 1 .. n + 1 : A(k) \in Nat /\ e <= A(k) /\ A(k) < c[k]
  BY <1>2, Zenon DEF Ordered
<1>6. ASSUME NEW k \in 1 .. n + 1, NEW p \in 1 .. Len(doc), A(k) < p, p <= c[k], doc[p].what = "break"
      PROVE  /\ Held(p) <=> Unsplit(doc, e, A(k))
             /\ BreakAt(doc, A(k), p) <=> doc[p].lead < 4 /\ ~InFence(p) /\ ~InQuote(p) /\ ~InItem(p)
  <2>. DEFINE a == A(k)
  <2>1. a \in Nat /\ c[k] \in Nat /\ p \in Nat /\ a < p /\ p \in a + 1 .. p
    <3>1. A(k) \in Nat /\ c[k] \in Nat
      BY <1>5
    <3>2. p \in Nat /\ a < p
      BY <1>1, <1>6
    <3>. HIDE DEF a
    <3>3. p \in a + 1 .. p
      BY <3>1, <3>2 DEF a
    <3>. QED
      BY <3>1, <3>2, <3>3 DEF a
  <2>. HIDE DEF a
  <2>2. ASSUME NEW q \in a + 1 .. p
        PROVE  SlideStart(q) = a + 1 /\ (InFence(q) <=> Fenced(doc, a, q))
    <3>1. q \in Nat /\ a < q /\ q <= c[k]
      BY <1>6, <2>1
    <3>2. SlideStart(q) = a + 1
      BY <1>1, <1>2, <1>3, <3>1, SlideStartIs DEF a
    <3>. QED
      BY <2>1, <3>1, <3>2, InFenceIs
  <2>3. ~IsBlank(doc[p])
    BY <1>6, Zenon DEF IsBlank
  <2>4. InQuote(p) <=> QuoteAt(doc, a, p - 1)
    BY <2>1, <2>2, <2>3, InQuoteIs
  <2>5. InItem(p) <=> ItemAt(doc, a, p - 1, doc[p])
    BY <2>1, <2>2, InItemIs
  <2>6. InFence(p) <=> Fenced(doc, a, p)
    BY <2>1, <2>2
  <2>7. BreakAt(doc, a, p) <=> doc[p].lead < 4 /\ ~InFence(p) /\ ~InQuote(p) /\ ~InItem(p)
    BY <2>4, <2>5, <2>6, Zenon DEF BreakAt
  <2>8. Held(p) <=> Unsplit(doc, e, a)
    <3>1. SlideStart(p) = a + 1 /\ (SlideStart(p) <= 2 <=> a <= 1)
      BY <2>1, <2>2
    <3>2. FrontMatter = {} <=> e = 0
      <4>1. FrontMatter = 1 .. e
        BY <1>3, Zenon DEF CutsKnown
      <4>2. 1 .. e = {} <=> e = 0
        BY <1>1
      <4>. QED
        BY <4>1, <4>2
    <3>3. 1 \in Fences <=> 1 <= Len(doc) /\ IsFrontMatterFence(doc[1])
      BY <1>1 DEF Fences
    <3>. QED
      BY <3>1, <3>2, <3>3, Zenon DEF Held, Unsplit
  <2>. QED
    BY <2>7, <2>8 DEF a
<1>7. Split(b, e, doc) /\ (Unsplit(doc, e, A(n + 1)) \/ Unbroken(doc, A(n + 1), Len(doc)))
  BY DEF AtBreaks, LastCut
<1>8. FrontMatter = 1 .. e /\ Separators = {b[i] : i \in 1 .. n}
  BY <1>3, Zenon DEF CutsKnown
<1>9. \A i \in 1 .. n : ~Between(c, b, e, doc, n + 1, b[i])
  BY <1>3, Zenon DEF CutsKnown, c
<1>10. Covered(c, b, e, doc, n)
  BY <1>1, <1>2, BetweenCuts
<1>. SUFFICES ASSUME NEW p \in 1 .. Len(doc) \ FrontMatter, doc[p].what = "break", ~Held(p)
              PROVE  p \in Separators <=> doc[p].lead < 4 /\ ~InFence(p) /\ ~InQuote(p) /\ ~InItem(p)
  BY Zenon DEF SlidesEndAtBreaks
<1>11. p \in 1 .. Len(doc) /\ p \in Nat /\ e < p /\ p < c[n + 1]
  BY <1>1, <1>4, <1>8
<1>12. ~IsBlank(doc[p])
  BY Zenon DEF IsBlank
<1>13. CASE \E i \in 1 .. n : p = b[i]
  <2>1. PICK i \in 1 .. n : p = b[i]
    BY <1>13
  <2>2. i \in 1 .. n + 1 /\ c[i] = p /\ A(i) < p /\ p <= c[i]
    <3>1. i \in 1 .. n + 1
      BY <1>1
    <3>. QED
      BY <1>5, <1>11, <2>1, <3>1
  <2>3. p \in Separators
    BY <1>8, <2>1
  <2>4. ~Unsplit(doc, e, A(i)) /\ (BreakAt(doc, A(i), p) <=> doc[p].lead < 4 /\ ~InFence(p) /\ ~InQuote(p) /\ ~InItem(p))
    BY <1>6, <1>11, <2>2
  <2>5. BreakAt(doc, A(i), p)
    BY <1>7, <2>1, <2>4, Zenon DEF Split, EndsAt
  <2>. QED
    BY <2>3, <2>4, <2>5
<1>14. CASE Between(c, b, e, doc, n + 1, p)
  <2>1. PICK k \in 1 .. n + 1 : A(k) < p /\ p < c[k]
    BY <1>14 DEF Between
  <2>2. p \notin Separators
    BY <1>8, <1>9, <1>14
  <2>3. c[k] \in Nat /\ A(k) \in Nat
    BY <1>5
  <2>4. p <= c[k]
    BY <1>11, <2>1, <2>3
  <2>5. ~Unsplit(doc, e, A(k)) /\ (BreakAt(doc, A(k), p) <=> doc[p].lead < 4 /\ ~InFence(p) /\ ~InQuote(p) /\ ~InItem(p))
    BY <1>6, <1>11, <2>1, <2>4
  <2>6. Unbroken(doc, A(k), c[k] - 1)
    <3>1. CASE k = n + 1
      <4>1. c[k] - 1 = Len(doc)
        BY <1>1, <1>4, <3>1
      <4>. QED
        BY <1>7, <2>5, <3>1, <4>1
    <3>2. CASE k # n + 1
      <4>1. k \in 1 .. n
        BY <1>1, <3>2
      <4>2. EndsAt(doc, A(k), b[k])
        BY <1>7, <2>5, <4>1, Zenon DEF Split
      <4>3. c[k] = b[k]
        BY <1>5, <4>1
      <4>. QED
        BY <4>2, <4>3 DEF EndsAt
    <3>. QED
      BY <3>1, <3>2
  <2>7. p \in A(k) + 1 .. c[k] - 1
    BY <1>11, <2>1, <2>3
  <2>8. ~BreakAt(doc, A(k), p)
    BY <2>6, <2>7, Zenon DEF Unbroken
  <2>. QED
    BY <2>2, <2>5, <2>8
<1>. QED
  BY <1>10, <1>11, <1>12, <1>13, <1>14, Zenon DEF Covered

-----------------------------------------------------------------------------
(* The invariant: where the document was cut so far, and what is known of    *)
(* its front matter, at each point between two steps.                        *)

CutAt(d, n, slides, lines, f, x, lazy) ==
    \E b \in Seq(Nat), e \in Nat :
        /\ Cut(slides, lines, b, e, d, n) /\ Settled(d, e)
        /\ AtBreaks(b, e, d, n) /\ InContext(b, e, d, n, f, x, lazy)
CutToEnd(d, slides, lines) ==
    \E b \in Seq(Nat), e \in Nat :
        Cut(slides, lines, b, e, d, Len(d)) /\ Whole(d, e) /\ AtBreaks(b, e, d, Len(d))
AllWritten(d, slides) ==
    \E b \in Seq(Nat), e \in Nat :
        AllCut(slides, b, e, d) /\ Whole(d, e) /\ AtBreaks(b, e, d, Len(d))
HeldTo(d, n, lines, key) ==
    n \in Nat /\ Opened(d, n) /\ lines = Span(0, n) /\ (key <=> KeyUpTo(d, n))

Clear == in_front_matter = FALSE /\ front_matter_has_key = FALSE /\ front_matter = <<>>
Outside == fence = NoFence /\ list_indent = 0 /\ blockquote_lazy_active = FALSE
Fresh == SlidesIn(deck_out) = <<>> /\ slide_markdown = <<>> /\ Outside
CutHere(n) ==
    CutAt(doc, n, SlidesIn(deck_out), slide_markdown, fence, list_indent, blockquote_lazy_active)

NoneRead == todo = "" /\ doc = <<>> /\ Clear /\ Fresh
Opening  == todo = "front" /\ Len(doc) = 1 /\ IsFrontMatterFence(doc[1]) /\ Clear /\ Fresh
Holding  == todo = "" /\ in_front_matter /\ Fresh /\ HeldTo(doc, Len(doc), front_matter, front_matter_has_key)
Judging  == todo = "front" /\ in_front_matter /\ Fresh
            /\ HeldTo(doc, Len(doc) - 1, front_matter, front_matter_has_key)
Reading  == todo = "" /\ Clear /\ CutHere(Len(doc))
Placing  == todo = "body" /\ Clear /\ CutHere(Len(doc) - 1)
Ending   == todo = "end" /\ CutToEnd(doc, SlidesIn(deck_out), slide_markdown)
Complete == todo = "shell" /\ AllWritten(doc, SlidesIn(deck_out))

DeckTypes ==
    /\ kinds \in DeckLines /\ doc \in Seq(UNION DeckLines) /\ deck_out \in Seq(Pieces)
    /\ in_front_matter \in BOOLEAN /\ front_matter_has_key \in BOOLEAN
DeckPhase ==
    NoneRead \/ Opening \/ Holding \/ Judging \/ Reading \/ Placing \/ Ending \/ Complete
DeckInv ==
    /\ deck_status = "running" => DeckTypes /\ DeckPhase
    /\ deck_status = "OK" => DeckTypes /\ Complete

LEMMA FailedKeeps ==
    ASSUME deck_status' \in {"IO", "NOMEM"}
    PROVE  DeckInv'
<1>1. deck_status' # "running" /\ deck_status' # "OK"
  BY Zenon
<1>. QED
  BY <1>1, Zenon DEF DeckInv

LEMMA SlideFailsKeeps ==
    ASSUME SlideFails
    PROVE  DeckInv'
<1>1. deck_status' = "IO" \/ deck_status' = "NOMEM"
  BY Zenon DEF SlideFails, End
<1>2. deck_status' \in {"IO", "NOMEM"}
  BY <1>1, Zenon
<1>. QED
  BY <1>2, FailedKeeps

(* A slide that is written shows the lines it was made of.                   *)
Adds(out, slides, a, n, d) ==
    \E piece \in Pieces :
        /\ out \in Seq(Pieces) /\ SlidesIn(out) = Append(slides, piece)
        /\ Shown(piece, a, n, d)

LEMMA SlideWritten ==
    ASSUME deck_out \in Seq(Pieces), NEW more, WriteSlide(more),
           NEW a \in Nat, NEW n \in Nat, a <= n, slide_markdown = Span(a, n)
    PROVE  /\ deck_status' = deck_status /\ slide_markdown' = more
           /\ SlidesIn(deck_out) \in Seq(Pieces)
           /\ Adds(deck_out', SlidesIn(deck_out), a, n, doc)
<1>. DEFINE piece == SlidePiece(Span(a, n), Len(Slides) + 1)
            mid == deck_out \o Shell
<1>1. piece \in Pieces /\ piece.what = "slide" /\ Shown(piece, a, n, doc)
  BY PieceText
<1>2. deck_out' = mid \o <<piece>> /\ deck_status' = deck_status /\ slide_markdown' = more
  BY Zenon DEF WriteSlide
<1>3. mid \in Seq(Pieces) /\ SlidesIn(mid) = SlidesIn(deck_out)
  <2>1. CASE deck_out = <<>>
    <3>. DEFINE shell == DeckPiece("shell")
    <3>1. shell \in Pieces
      <4>1. <<>> \in Seq(Tokens)
        OBVIOUS
      <4>2. Nothing \in Sections
        BY <4>1 DEF Nothing, Sections
      <4>. QED
        BY <4>2 DEF DeckPiece, Pieces
    <3>2. shell.what # "slide"
      BY DEF DeckPiece
    <3>. HIDE DEF shell
    <3>3. Shell = <<shell>>
      BY <2>1, Zenon DEF Shell, When, shell
    <3>4. mid = Append(<<>>, shell) /\ <<>> \in Seq(Pieces)
      BY <2>1, <3>1, <3>3
    <3>5. mid \in Seq(Pieces)
      BY <3>1, <3>4
    <3>6. SlidesIn(Append(<<>>, shell)) = SlidesIn(<<>>)
      BY <3>1, <3>2, <3>4, SlidesRules
    <3>. QED
      BY <2>1, <3>4, <3>5, <3>6
  <2>2. CASE deck_out # <<>>
    <3>1. Shell = <<>>
      BY <2>2, Zenon DEF Shell, When
    <3>2. mid = deck_out
      BY <3>1
    <3>. QED
      BY <3>2
  <2>. QED
    BY <2>1, <2>2
<1>. HIDE DEF mid, piece
<1>4. mid \o <<piece>> = Append(mid, piece) /\ Append(mid, piece) \in Seq(Pieces)
  BY <1>1, <1>3
<1>5. SlidesIn(Append(mid, piece)) = Append(SlidesIn(mid), piece)
  BY <1>1, <1>3, SlidesRules
<1>6. SlidesIn(deck_out') = Append(SlidesIn(deck_out), piece) /\ deck_out' \in Seq(Pieces)
  BY <1>2, <1>3, <1>4, <1>5
<1>7. Adds(deck_out', SlidesIn(deck_out), a, n, doc)
  BY <1>1, <1>6 DEF Adds
<1>8. SlidesIn(deck_out) \in Seq(Pieces)
  BY SlidesRules
<1>. QED
  BY <1>2, <1>7, <1>8

-----------------------------------------------------------------------------
(* Every step keeps it.                                                      *)

LEMMA InvNow ==
    ASSUME DeckInv, DeckRunning
    PROVE  DeckTypes /\ DeckPhase
  BY Zenon DEF DeckInv, DeckRunning

LEMMA InvNext ==
    ASSUME deck_status' = "running", DeckTypes', DeckPhase'
    PROVE  DeckInv'
<1>1. deck_status' # "OK"
  BY Zenon
<1>. QED
  BY <1>1, Zenon DEF DeckInv

LEMMA SettledLong == \A d : Len(d) \in Nat => \A e : Settled(d, e) => Len(d) >= 1
  BY DEF Settled, NotOpened, InVain, ClosedAt

LEMMA ReadLineKeeps ==
    ASSUME DeckInv, NEW l \in kinds, ReadLine(l)
    PROVE  DeckInv'
<1>. DEFINE D == UNION DeckLines
            slides == SlidesIn(deck_out)
            g == Append(doc, l)
<1>1. DeckTypes /\ DeckPhase /\ todo = "" /\ deck_status = "running"
  <2>1. DeckRunning /\ todo = ""
    BY Zenon DEF ReadLine
  <2>. QED
    BY <2>1, InvNow, Zenon DEF DeckRunning
<1>2. NoneRead \/ Holding \/ Reading
  BY <1>1, Zenon DEF DeckPhase, Opening, Judging, Placing, Ending, Complete
<1>3. /\ doc' = g /\ kinds' = kinds /\ front_matter' = front_matter
      /\ in_front_matter' = in_front_matter /\ front_matter_has_key' = front_matter_has_key
      /\ slide_markdown' = slide_markdown /\ deck_out' = deck_out /\ deck_status' = deck_status
      /\ fence' = fence /\ list_indent' = list_indent /\ blockquote_lazy_active' = blockquote_lazy_active
  BY Zenon DEF ReadLine, probe, written, splitter
<1>4. todo' = IF in_front_matter \/ (doc = <<>> /\ IsFrontMatterFence(l)) THEN "front" ELSE "body"
  BY Zenon DEF ReadLine
<1>5. doc \in Seq(D) /\ l \in D /\ kinds \in DeckLines /\ deck_out \in Seq(Pieces)
      /\ in_front_matter \in BOOLEAN /\ front_matter_has_key \in BOOLEAN
  BY <1>1 DEF DeckTypes
<1>6. g \in Seq(D) /\ Len(g) = Len(doc) + 1 /\ Len(doc) \in Nat /\ Len(g) - 1 = Len(doc)
      /\ g[Len(doc) + 1] = l
  <2>. HIDE DEF D
  <2>. QED
    BY <1>5
<1>7. DeckTypes'
  BY <1>3, <1>5, <1>6 DEF DeckTypes
<1>8. ASSUME NoneRead
      PROVE  DeckPhase'
  <2>1. doc = <<>> /\ Clear /\ Fresh
    BY <1>8, Zenon DEF NoneRead
  <2>2. ~in_front_matter
    BY <2>1, Zenon DEF Clear
  <2>3. Len(doc) = 0
    BY <2>1
  <2>4. doc = <<>> /\ ~in_front_matter /\ Clear /\ Fresh /\ Len(doc) = 0 /\ g[1] = l /\ Len(g) = 1
    <3>1. Len(g) = 1 /\ g[1] = l
      <4>. HIDE DEF g
      <4>. QED
        BY <1>6, <2>3
    <3>. QED
      BY <2>1, <2>2, <2>3, <3>1, Zenon
  <2>5. Clear' /\ Fresh'
    BY <1>3, <2>4, Zenon DEF Clear, Fresh, Outside
  <2>6. CASE IsFrontMatterFence(l)
    <3>1. todo' = "front"
      BY <1>4, <2>4, <2>6, Zenon
    <3>2. Opening'
      BY <1>3, <2>4, <2>5, <2>6, <3>1, Zenon DEF Opening
    <3>. QED
      BY <3>2, Zenon DEF DeckPhase
  <2>7. CASE ~IsFrontMatterFence(l)
    <3>1. todo' = "body"
      BY <1>4, <2>4, <2>7, Zenon
    <3>2. Settled(g, 0)
      BY <2>4, <2>7 DEF Settled, NotOpened
    <3>3. Cut(<<>>, <<>>, <<>>, 0, g, 0)
      BY CutNone
    <3>4. CutAt(g, 0, <<>>, <<>>, NoFence, 0, FALSE)
      <4>1. <<>> \in Seq(Nat) /\ 0 \in Nat
        OBVIOUS
      <4>2. AtBreaks(<<>>, 0, g, 0) /\ InContext(<<>>, 0, g, 0, NoFence, 0, FALSE)
        BY <4>1, BreaksStart
      <4>. QED
        BY <3>2, <3>3, <4>1, <4>2, Zenon DEF CutAt
    <3>5. CutHere(Len(doc) - 1)'
      <4>1. Len(doc') - 1 = 0
        BY <1>3, <1>6, <2>4
      <4>2. /\ SlidesIn(deck_out') = <<>> /\ slide_markdown' = <<>>
            /\ fence' = NoFence /\ list_indent' = 0 /\ blockquote_lazy_active' = FALSE
        BY <1>3, <2>4, Zenon DEF Fresh, Outside
      <4>. QED
        BY <1>3, <3>4, <4>1, <4>2, Zenon DEF CutHere
    <3>6. Placing'
      BY <2>5, <3>1, <3>5, Zenon DEF Placing
    <3>. QED
      BY <3>6, Zenon DEF DeckPhase
  <2>. QED
    BY <2>6, <2>7
<1>9. ASSUME Holding
      PROVE  DeckPhase'
  <2>1. in_front_matter /\ Fresh /\ HeldTo(doc, Len(doc), front_matter, front_matter_has_key)
    BY <1>9, Zenon DEF Holding
  <2>2. todo' = "front" /\ in_front_matter'
    BY <1>3, <1>4, <2>1, Zenon
  <2>3. HeldTo(g, Len(doc), front_matter, front_matter_has_key)
    <3>1. Opened(doc, Len(doc))
      BY <2>1 DEF HeldTo
    <3>. HIDE DEF D
    <3>2. Opened(g, Len(doc)) /\ (KeyUpTo(g, Len(doc)) <=> KeyUpTo(doc, Len(doc)))
      BY <1>5, <1>6, <3>1, OpenedGrows
    <3>. QED
      BY <2>1, <3>2, Zenon DEF HeldTo
  <2>4. HeldTo(doc', Len(doc') - 1, front_matter', front_matter_has_key')
    <3>1. Len(doc') - 1 = Len(doc)
      BY <1>3, <1>6
    <3>. QED
      BY <1>3, <2>3, <3>1, Zenon
  <2>5. Fresh'
    BY <1>3, <2>1, Zenon DEF Fresh, Outside
  <2>6. Judging'
    BY <2>2, <2>4, <2>5, Zenon DEF Judging
  <2>. QED
    BY <2>6, Zenon DEF DeckPhase
<1>10. ASSUME Reading
      PROVE  DeckPhase'
  <2>1. Clear /\ CutAt(doc, Len(doc), slides, slide_markdown, fence, list_indent, blockquote_lazy_active)
    BY <1>10, Zenon DEF Reading, CutHere
  <2>2. PICK b \in Seq(Nat), e \in Nat :
           /\ Cut(slides, slide_markdown, b, e, doc, Len(doc)) /\ Settled(doc, e)
           /\ AtBreaks(b, e, doc, Len(doc))
           /\ InContext(b, e, doc, Len(doc), fence, list_indent, blockquote_lazy_active)
    BY <2>1 DEF CutAt
  <2>3. doc # <<>>
    BY <1>6, <2>2, SettledLong
  <2>4. todo' = "body"
    BY <1>4, <2>1, <2>3, Zenon DEF Clear
  <2>5. Cut(slides, slide_markdown, b, e, g, Len(doc)) /\ Settled(g, e)
    <3>. HIDE DEF D, slides
    <3>. QED
      BY <1>5, <2>2, CutGrows, SettledGrows
  <2>6. /\ AtBreaks(b, e, g, Len(doc))
        /\ InContext(b, e, g, Len(doc), fence, list_indent, blockquote_lazy_active)
    <3>1. 1 <= Len(doc) /\ Len(doc) <= Len(doc) /\ Len(doc) \in Nat
      BY <1>6, <2>2, SettledLong
    <3>2. Sliced(slides, b, e, doc) /\ LastCut(b, e) <= Len(doc)
      BY <2>2 DEF Cut
    <3>. HIDE DEF D, slides
    <3>. QED
      BY <1>5, <2>2, <3>1, <3>2, BreaksGrow
  <2>7. CutAt(g, Len(doc), slides, slide_markdown, fence, list_indent, blockquote_lazy_active)
    BY <2>5, <2>6, Zenon DEF CutAt
  <2>8. CutHere(Len(doc) - 1)'
    <3>1. Len(doc') - 1 = Len(doc)
      BY <1>3, <1>6
    <3>. QED
      BY <1>3, <2>7, <3>1, Zenon DEF CutHere
  <2>9. Placing'
    BY <1>3, <2>1, <2>4, <2>8, Zenon DEF Placing, Clear
  <2>. QED
    BY <2>9, Zenon DEF DeckPhase
<1>11. DeckPhase'
  BY <1>2, <1>8, <1>9, <1>10
<1>12. deck_status' = "running"
  BY <1>1, <1>3, Zenon
<1>. QED
  BY <1>7, <1>11, <1>12, InvNext

LEMMA ReadFailsKeeps ==
    ASSUME ReadFails
    PROVE  DeckInv'
<1>1. deck_status' = "IO" \/ deck_status' = "NOMEM"
  BY Zenon DEF ReadFails, End
<1>2. deck_status' \in {"IO", "NOMEM"}
  BY <1>1, Zenon
<1>. QED
  BY <1>2, FailedKeeps

LEMMA OpeningFirst ==
    \A d : Len(d) = 1 /\ IsFrontMatterFence(d[1]) => Opened(d, 1) /\ ~KeyUpTo(d, 1) /\ ~HasKey(d[1])
<1>. SUFFICES ASSUME NEW d, Len(d) = 1, IsFrontMatterFence(d[1])
              PROVE  Opened(d, 1) /\ ~KeyUpTo(d, 1) /\ ~HasKey(d[1])
  OBVIOUS
<1>1. ~HasKey(d[1])
  BY Zenon DEF IsFrontMatterFence, HasKey
<1>2. Opened(d, 1) /\ ~KeyUpTo(d, 1)
  <2>1. \A p \in 2 .. 1 : FALSE
    OBVIOUS
  <2>. QED
    BY <2>1 DEF Opened, KeyUpTo
<1>. QED
  BY <1>1, <1>2

LEMMA HoldFrontMatterKeeps ==
    ASSUME DeckInv, HoldFrontMatter
    PROVE  DeckInv'
<1>. DEFINE D == UNION DeckLines
            n == Len(doc) - 1
<1>1. DeckTypes /\ DeckPhase /\ todo = "front" /\ deck_status = "running"
  <2>1. DeckRunning /\ todo = "front"
    BY Zenon DEF HoldFrontMatter
  <2>. QED
    BY <2>1, InvNow, Zenon DEF DeckRunning
<1>2. Opening \/ Judging
  BY <1>1, Zenon DEF DeckPhase, NoneRead, Holding, Reading, Placing, Ending, Complete
<1>3. /\ doc' = doc /\ kinds' = kinds /\ front_matter' = Append(front_matter, Here)
      /\ in_front_matter' = TRUE /\ front_matter_has_key' = (front_matter_has_key \/ HasKey(Line))
      /\ slide_markdown' = slide_markdown /\ deck_out' = deck_out /\ deck_status' = deck_status /\ todo' = ""
      /\ fence' = fence /\ list_indent' = list_indent /\ blockquote_lazy_active' = blockquote_lazy_active
  BY Zenon DEF HoldFrontMatter, written, splitter
<1>4. \/ ~in_front_matter
      \/ ~IsFrontMatterFence(Line) /\ (CanBeMetadata(Line) \/ (front_matter_has_key /\ CanContinue(Line)))
  BY Zenon DEF HoldFrontMatter
<1>5. doc \in Seq(D) /\ kinds \in DeckLines /\ deck_out \in Seq(Pieces)
      /\ in_front_matter \in BOOLEAN /\ front_matter_has_key \in BOOLEAN /\ Len(doc) \in Nat
  BY <1>1 DEF DeckTypes
<1>6. DeckTypes'
  <2>1. front_matter_has_key' \in BOOLEAN /\ in_front_matter' \in BOOLEAN
    BY <1>3
  <2>. QED
    BY <1>3, <1>5, <2>1, Zenon DEF DeckTypes
<1>7. ASSUME Opening
      PROVE  Fresh /\ HeldTo(doc, Len(doc), Append(front_matter, Len(doc)), front_matter_has_key \/ HasKey(doc[Len(doc)]))
  <2>1. Len(doc) = 1 /\ IsFrontMatterFence(doc[1]) /\ Clear /\ Fresh
    BY <1>7, Zenon DEF Opening
  <2>2. Opened(doc, 1) /\ ~KeyUpTo(doc, 1) /\ ~HasKey(doc[1])
    BY <2>1, OpeningFirst
  <2>3. ~front_matter_has_key /\ front_matter = <<>>
    BY <2>1, Zenon DEF Clear
  <2>4. Span(0, 1) = <<1>>
    BY DEF Span
  <2>5. Append(front_matter, Len(doc)) = Span(0, 1)
    BY <2>1, <2>3, <2>4
  <2>6. HeldTo(doc, 1, Span(0, 1), front_matter_has_key \/ HasKey(doc[1]))
    BY <2>2, <2>3 DEF HeldTo
  <2>. QED
    BY <2>1, <2>5, <2>6
<1>8. ASSUME Judging
      PROVE  Fresh /\ HeldTo(doc, Len(doc), Append(front_matter, Len(doc)), front_matter_has_key \/ HasKey(doc[Len(doc)]))
  <2>1. in_front_matter /\ Fresh /\ HeldTo(doc, n, front_matter, front_matter_has_key)
    BY <1>8, Zenon DEF Judging
  <2>2. n \in Nat /\ Opened(doc, n) /\ front_matter = Span(0, n) /\ (front_matter_has_key <=> KeyUpTo(doc, n))
    BY <2>1, Zenon DEF HeldTo
  <2>3. n + 1 = Len(doc) /\ n + 1 <= Len(doc) /\ (n + 1) - 1 = n /\ n \in Nat \ {0} /\ 0 <= n
    BY <1>5, <2>2 DEF Opened
  <2>. DEFINE l == doc[Len(doc)]
  <2>4. ~IsFrontMatterFence(l) /\ (CanBeMetadata(l) \/ (front_matter_has_key /\ CanContinue(l)))
    BY <1>4, <2>1, Zenon DEF Line
  <2>. HIDE DEF n, l
  <2>5. l = doc[n + 1]
    BY <2>3 DEF l
  <2>6. FitsAt(doc, n + 1)
    BY <2>2, <2>3, <2>4, <2>5, Zenon DEF FitsAt
  <2>7. Opened(doc, n + 1)
    BY <2>2, <2>3, <2>4, <2>5, <2>6, OpenedNext
  <2>8. KeyUpTo(doc, n + 1) <=> KeyUpTo(doc, n) \/ HasKey(doc[n + 1])
    BY <2>3, KeyNext
  <2>9. Span(0, n + 1) = Append(Span(0, n), n + 1)
    BY <2>2, <2>3, SpanNext
  <2>10. n + 1 \in Nat
    BY <2>2
  <2>11. HeldTo(doc, n + 1, Append(front_matter, n + 1), front_matter_has_key \/ HasKey(doc[n + 1]))
    BY <2>2, <2>7, <2>8, <2>9, <2>10, Zenon DEF HeldTo
  <2>. QED
    BY <2>1, <2>3, <2>11 DEF l
<1>9. Fresh /\ HeldTo(doc, Len(doc), Append(front_matter, Len(doc)), front_matter_has_key \/ HasKey(doc[Len(doc)]))
  BY <1>2, <1>7, <1>8, Zenon
<1>10. HeldTo(doc', Len(doc'), front_matter', front_matter_has_key')
  BY <1>3, <1>9, Zenon DEF Here, Line
<1>11. Holding'
  <2>1. Fresh'
    BY <1>3, <1>9, Zenon DEF Fresh, Outside
  <2>. QED
    BY <1>3, <1>10, <2>1, Zenon DEF Holding
<1>12. DeckPhase'
  BY <1>11, Zenon DEF DeckPhase
<1>13. deck_status' = "running"
  BY <1>1, <1>3, Zenon
<1>. QED
  BY <1>6, <1>12, <1>13, InvNext

LEMMA CloseFrontMatterKeeps ==
    ASSUME DeckInv, CloseFrontMatter
    PROVE  DeckInv'
<1>. DEFINE D == UNION DeckLines
            n == Len(doc) - 1
<1>1. DeckTypes /\ DeckPhase /\ todo = "front" /\ deck_status = "running" /\ in_front_matter /\ IsFrontMatterFence(Line)
  <2>1. DeckRunning /\ todo = "front" /\ in_front_matter /\ IsFrontMatterFence(Line)
    BY Zenon DEF CloseFrontMatter
  <2>. QED
    BY <2>1, InvNow, Zenon DEF DeckRunning
<1>2. Judging
  BY <1>1, Zenon DEF DeckPhase, Opening, Clear, NoneRead, Holding, Reading, Placing, Ending, Complete
<1>3. /\ doc' = doc /\ kinds' = kinds /\ Clear'
      /\ deck_out' = deck_out /\ deck_status' = deck_status /\ todo' = ""
      /\ slide_markdown' = IF front_matter_has_key THEN slide_markdown
                           ELSE slide_markdown \o Append(front_matter, Here)
      /\ fence' = fence /\ list_indent' = list_indent /\ blockquote_lazy_active' = blockquote_lazy_active
  BY Zenon DEF CloseFrontMatter, EndFrontMatter, Clear, splitter
<1>5. doc \in Seq(D) /\ kinds \in DeckLines /\ deck_out \in Seq(Pieces)
      /\ in_front_matter \in BOOLEAN /\ front_matter_has_key \in BOOLEAN /\ Len(doc) \in Nat
  BY <1>1 DEF DeckTypes
<1>6. DeckTypes'
  <2>1. front_matter_has_key' \in BOOLEAN /\ in_front_matter' \in BOOLEAN
    BY <1>3 DEF Clear
  <2>. QED
    BY <1>3, <1>5, <2>1, Zenon DEF DeckTypes
<1>7. Fresh /\ HeldTo(doc, n, front_matter, front_matter_has_key)
  BY <1>2, Zenon DEF Judging
<1>8. n \in Nat /\ Opened(doc, n) /\ front_matter = Span(0, n) /\ (front_matter_has_key <=> KeyUpTo(doc, n))
  BY <1>7, Zenon DEF HeldTo
<1>9. n + 1 = Len(doc) /\ n + 1 <= Len(doc) /\ 0 <= n /\ n + 1 \in Nat
  BY <1>5, <1>8
<1>10. IsFrontMatterFence(doc[n + 1])
  BY <1>1, <1>9 DEF Line
<1>. HIDE DEF n, D
<1>11. ASSUME front_matter_has_key
       PROVE  CutAt(doc, Len(doc), <<>>, slide_markdown', NoFence, 0, FALSE)
  <2>1. ClosedAt(doc, n + 1, n)
    BY <1>8, <1>9, <1>10, <1>11 DEF ClosedAt
  <2>2. Settled(doc, n + 1)
    BY <1>8, <2>1, Zenon DEF Settled
  <2>3. slide_markdown' = <<>>
    BY <1>3, <1>7, <1>11, Zenon DEF Fresh
  <2>4. Cut(<<>>, <<>>, <<>>, n + 1, doc, n + 1) /\ <<>> \in Seq(Nat)
    BY <1>9, CutNone
  <2>5. AtBreaks(<<>>, n + 1, doc, n + 1) /\ InContext(<<>>, n + 1, doc, n + 1, NoFence, 0, FALSE)
    BY <1>9, BreaksStart
  <2>6. CutAt(doc, n + 1, <<>>, <<>>, NoFence, 0, FALSE)
    BY <1>9, <2>2, <2>4, <2>5, Zenon DEF CutAt
  <2>. QED
    BY <1>9, <2>3, <2>6
<1>12. ASSUME ~front_matter_has_key
       PROVE  CutAt(doc, Len(doc), <<>>, slide_markdown', NoFence, 0, FALSE)
  <2>1. InVain(doc, 0, n)
    BY <1>8, <1>9, <1>10, <1>12 DEF InVain
  <2>2. Settled(doc, 0)
    BY <1>8, <2>1, Zenon DEF Settled
  <2>3. slide_markdown' = <<>> \o Append(Span(0, n), n + 1)
    <3>1. slide_markdown' = slide_markdown \o Append(front_matter, Len(doc))
      BY <1>3, <1>12, Zenon DEF Here
    <3>2. slide_markdown = <<>>
      BY <1>7, Zenon DEF Fresh
    <3>. QED
      BY <1>8, <1>9, <3>1, <3>2
  <2>4. Span(0, n + 1) = Append(Span(0, n), n + 1) /\ Span(0, n) \in Seq(Nat)
    BY <1>8, <1>9, SpanNext
  <2>5. slide_markdown' = Span(0, n + 1)
    <3>. DEFINE u == Append(Span(0, n), n + 1)
    <3>1. u \in Seq(Nat)
      BY <1>9, <2>4
    <3>. HIDE DEF u
    <3>2. <<>> \o u = u
      BY <3>1
    <3>. QED
      BY <2>3, <2>4, <3>2 DEF u
  <2>6. Cut(<<>>, <<>>, <<>>, 0, doc, 0) /\ <<>> \in Seq(Nat) /\ 0 \in Nat
    BY CutNone
  <2>7. Cut(<<>>, Span(0, n + 1), <<>>, 0, doc, n + 1)
    BY <1>9, <2>6 DEF Cut, LastCut, After
  <2>8. AtBreaks(<<>>, 0, doc, n + 1) /\ InContext(<<>>, 0, doc, n + 1, NoFence, 0, FALSE)
    <3>1. 1 <= Len(doc) /\ IsFrontMatterFence(doc[1])
      BY <1>8, <1>9 DEF Opened
    <3>. QED
      BY <3>1, BreaksVain
  <2>9. CutAt(doc, n + 1, <<>>, Span(0, n + 1), NoFence, 0, FALSE)
    BY <2>2, <2>6, <2>7, <2>8, Zenon DEF CutAt
  <2>. QED
    BY <1>9, <2>5, <2>9
<1>13. CutHere(Len(doc))'
  <2>1. /\ SlidesIn(deck_out') = <<>>
        /\ fence' = NoFence /\ list_indent' = 0 /\ blockquote_lazy_active' = FALSE
    BY <1>3, <1>7, Zenon DEF Fresh, Outside
  <2>. QED
    BY <1>3, <1>11, <1>12, <2>1, Zenon DEF CutHere
<1>14. Reading'
  BY <1>3, <1>13, Zenon DEF Reading
<1>15. DeckPhase'
  BY <1>14, Zenon DEF DeckPhase
<1>16. deck_status' = "running"
  BY <1>1, <1>3, Zenon
<1>. QED
  BY <1>6, <1>15, <1>16, InvNext

LEMMA TailSpan ==
    \A n \in Nat \ {0} : Tail(Span(0, n)) = Span(1, n)
<1>. SUFFICES ASSUME NEW n \in Nat \ {0}
              PROVE  Tail(Span(0, n)) = Span(1, n)
  OBVIOUS
<1>. DEFINE s == Span(0, n)
            t == Tail(s)
            u == Span(1, n)
<1>1. s \in Seq(Nat) /\ Len(s) = n /\ \A i \in 1 .. n : s[i] = i
  <2>1. n \in Nat /\ 0 <= n /\ n - 0 = n
    OBVIOUS
  <2>2. s \in Seq(Nat) /\ Len(s) = n - 0 /\ \A i \in 1 .. n - 0 : s[i] = 0 + i
    BY <2>1, SpanType
  <2>. HIDE DEF s
  <2>. QED
    BY <2>1, <2>2
<1>2. u \in Seq(Nat) /\ Len(u) = n - 1 /\ \A i \in 1 .. n - 1 : u[i] = 1 + i
  BY SpanType
<1>. HIDE DEF s, u
<1>3. t \in Seq(Nat) /\ Len(t) = n - 1 /\ \A i \in 1 .. n - 1 : t[i] = s[i + 1]
  BY <1>1
<1>. HIDE DEF t
<1>4. \A i \in 1 .. n - 1 : t[i] = u[i]
  BY <1>1, <1>2, <1>3
<1>5. t = u
  BY <1>2, <1>3, <1>4, SeqEqual
<1>. QED
  BY <1>5 DEF s, t, u

(* Lines that were held in vain: the first was a break.                      *)
LEMMA NoFrontMatterCut ==
    ASSUME deck_out \in Seq(Pieces), doc \in Seq(UNION DeckLines), Fresh, NEW n,
           HeldTo(doc, n, front_matter, front_matter_has_key), NoFrontMatter
    PROVE  /\ Clear' /\ deck_out' \in Seq(Pieces) /\ deck_status' = deck_status
           /\ n \in Nat /\ Opened(doc, n)
           /\ Cut(SlidesIn(deck_out'), slide_markdown', <<1>>, 0, doc, n)
           /\ AtBreaks(<<1>>, 0, doc, n)
           /\ \A f, x, lazy : InContext(<<1>>, 0, doc, n, f, x, lazy)
<1>1. n \in Nat /\ Opened(doc, n) /\ front_matter = Span(0, n)
  BY Zenon DEF HeldTo
<1>2. 1 <= n /\ n <= Len(doc) /\ IsFrontMatterFence(doc[1]) /\ Len(doc) \in Nat /\ n \in Nat \ {0}
  BY <1>1 DEF Opened
<1>3. Clear' /\ WriteSlide(Tail(front_matter))
  BY Zenon DEF NoFrontMatter, EndFrontMatter, Clear
<1>4. SlidesIn(deck_out) = <<>> /\ slide_markdown = <<>>
  BY Zenon DEF Fresh
<1>5. slide_markdown = Span(0, 0)
  BY <1>4 DEF Span
<1>. DEFINE more == Tail(front_matter)
<1>6. /\ deck_status' = deck_status /\ slide_markdown' = more
      /\ Adds(deck_out', SlidesIn(deck_out), 0, 0, doc)
  <2>1. WriteSlide(more)
    BY <1>3
  <2>. HIDE DEF more
  <2>2. 0 \in Nat /\ 0 <= 0
    OBVIOUS
  <2>. QED
    BY <1>5, <2>1, <2>2, SlideWritten
<1>7. slide_markdown' = Span(1, n)
  BY <1>1, <1>2, <1>6, TailSpan
<1>8. PICK piece \in Pieces : /\ deck_out' \in Seq(Pieces) /\ SlidesIn(deck_out') = Append(<<>>, piece)
                              /\ Shown(piece, 0, 0, doc)
  BY <1>4, <1>6 DEF Adds
<1>9. Cut(<<>>, <<>>, <<>>, 0, doc, 0)
  BY CutNone
<1>10. doc[1].what = "break"
  BY <1>2, Zenon DEF IsFrontMatterFence
<1>. DEFINE z == 0
            o == 1
<1>11. z + 1 = o /\ LastCut(<<>>, z) = z /\ <<>> \in Seq(Pieces) /\ z \in Nat
  BY DEF LastCut, After
<1>12. Cut(<<>>, <<>>, <<>>, z, doc, z) /\ Shown(piece, LastCut(<<>>, z), z, doc)
  BY <1>8, <1>9, <1>11
<1>13. z + 1 <= n /\ z + 1 <= Len(doc) /\ doc[z + 1].what = "break"
  BY <1>2, <1>10
<1>. HIDE DEF z, o
<1>14. Cut(Append(<<>>, piece), Span(z + 1, n), Append(<<>>, z + 1), z, doc, n)
  BY <1>1, <1>2, <1>11, <1>12, <1>13, CutNext
<1>15. Append(<<>>, o) = <<o>>
  BY DEF o
<1>16. Cut(Append(<<>>, piece), Span(o, n), <<o>>, z, doc, n)
  BY <1>11, <1>14, <1>15
<1>17. Cut(SlidesIn(deck_out'), slide_markdown', <<1>>, 0, doc, n)
  BY <1>7, <1>8, <1>16 DEF z, o
<1>18. AtBreaks(<<1>>, 0, doc, n) /\ \A f, x, lazy : InContext(<<1>>, 0, doc, n, f, x, lazy)
  <2>1. 1 <= Len(doc)
    BY <1>2
  <2>. QED
    BY <1>2, <2>1, BreaksVain
<1>. QED
  BY <1>1, <1>3, <1>6, <1>8, <1>17, <1>18

LEMMA RejectFrontMatterKeeps ==
    ASSUME DeckInv, RejectFrontMatter
    PROVE  DeckInv'
<1>. DEFINE D == UNION DeckLines
            n == Len(doc) - 1
<1>1. /\ DeckTypes /\ DeckPhase /\ todo = "front" /\ deck_status = "running" /\ in_front_matter
      /\ ~IsFrontMatterFence(Line) /\ ~CanBeMetadata(Line) /\ ~(front_matter_has_key /\ CanContinue(Line))
  <2>1. /\ DeckRunning /\ todo = "front" /\ in_front_matter
        /\ ~IsFrontMatterFence(Line) /\ ~CanBeMetadata(Line) /\ ~(front_matter_has_key /\ CanContinue(Line))
    BY Zenon DEF RejectFrontMatter
  <2>. QED
    BY <2>1, InvNow, Zenon DEF DeckRunning
<1>2. Judging
  BY <1>1, Zenon DEF DeckPhase, Opening, Clear, NoneRead, Holding, Reading, Placing, Ending, Complete
<1>3. doc' = doc /\ kinds' = kinds
  BY Zenon DEF RejectFrontMatter
<1>4. CASE SlideFails
  BY <1>4, SlideFailsKeeps
<1>5. CASE NoFrontMatter /\ todo' = "body"
  <2>1. doc \in Seq(D) /\ kinds \in DeckLines /\ deck_out \in Seq(Pieces) /\ Len(doc) \in Nat
    BY <1>1 DEF DeckTypes
  <2>2. Fresh /\ HeldTo(doc, n, front_matter, front_matter_has_key)
    BY <1>2, Zenon DEF Judging
  <2>. HIDE DEF n
  <2>3. /\ Clear' /\ deck_out' \in Seq(Pieces) /\ deck_status' = deck_status
        /\ n \in Nat /\ Opened(doc, n)
        /\ Cut(SlidesIn(deck_out'), slide_markdown', <<1>>, 0, doc, n) /\ AtBreaks(<<1>>, 0, doc, n)
        /\ \A f, x, lazy : InContext(<<1>>, 0, doc, n, f, x, lazy)
    BY <1>5, <2>1, <2>2, NoFrontMatterCut
  <2>4. front_matter_has_key <=> KeyUpTo(doc, n)
    BY <2>2, Zenon DEF HeldTo
  <2>5. n + 1 = Len(doc) /\ n + 1 <= Len(doc) /\ (n + 1) - 1 = n /\ Len(doc) - 1 = n
    BY <2>1 DEF n
  <2>6. ~IsFrontMatterFence(doc[n + 1]) /\ ~FitsAt(doc, n + 1)
    BY <1>1, <2>4, <2>5 DEF Line, FitsAt
  <2>7. InVain(doc, 0, n)
    BY <2>3, <2>5, <2>6 DEF InVain
  <2>8. Settled(doc, 0)
    BY <2>3, <2>7, Zenon DEF Settled
  <2>9. <<1>> \in Seq(Nat) /\ 0 \in Nat
    OBVIOUS
  <2>10. CutAt(doc, n, SlidesIn(deck_out'), slide_markdown', fence', list_indent', blockquote_lazy_active')
    BY <2>3, <2>8, <2>9, Zenon DEF CutAt
  <2>11. CutHere(Len(doc) - 1)'
    <3>1. Len(doc') - 1 = n
      BY <1>3, <2>5
    <3>. QED
      BY <1>3, <2>10, <3>1, Zenon DEF CutHere
  <2>12. Placing'
    BY <1>5, <2>3, <2>11, Zenon DEF Placing
  <2>13. DeckPhase'
    BY <2>12, Zenon DEF DeckPhase
  <2>14. DeckTypes'
    <3>1. front_matter_has_key' \in BOOLEAN /\ in_front_matter' \in BOOLEAN
      BY <2>3 DEF Clear
    <3>. QED
      BY <1>3, <2>1, <2>3, <3>1, Zenon DEF DeckTypes
  <2>15. deck_status' = "running"
    BY <1>1, <2>3, Zenon
  <2>. QED
    BY <2>13, <2>14, <2>15, InvNext
<1>. QED
  BY <1>4, <1>5, Zenon DEF RejectFrontMatter

LEMMA RejectAtEndKeeps ==
    ASSUME DeckInv, RejectAtEnd
    PROVE  DeckInv'
<1>. DEFINE D == UNION DeckLines
            n == Len(doc)
<1>1. DeckTypes /\ DeckPhase /\ todo = "" /\ deck_status = "running" /\ in_front_matter
  <2>1. DeckRunning /\ todo = "" /\ in_front_matter
    BY Zenon DEF RejectAtEnd
  <2>. QED
    BY <2>1, InvNow, Zenon DEF DeckRunning
<1>2. Holding
  BY <1>1, Zenon DEF DeckPhase, Opening, Clear, NoneRead, Judging, Reading, Placing, Ending, Complete
<1>3. doc' = doc /\ kinds' = kinds /\ todo' = "end"
  BY Zenon DEF RejectAtEnd
<1>4. CASE SlideFails
  BY <1>4, SlideFailsKeeps
<1>5. CASE NoFrontMatter
  <2>1. doc \in Seq(D) /\ kinds \in DeckLines /\ deck_out \in Seq(Pieces)
    BY <1>1 DEF DeckTypes
  <2>2. Fresh /\ HeldTo(doc, n, front_matter, front_matter_has_key)
    BY <1>2, Zenon DEF Holding
  <2>3. /\ Clear' /\ deck_out' \in Seq(Pieces) /\ deck_status' = deck_status
        /\ Opened(doc, n) /\ Cut(SlidesIn(deck_out'), slide_markdown', <<1>>, 0, doc, n)
        /\ AtBreaks(<<1>>, 0, doc, n)
    <3>. HIDE DEF n
    <3>. QED
      BY <1>5, <2>1, <2>2, NoFrontMatterCut
  <2>4. Whole(doc, 0)
    BY <2>3, Zenon DEF Whole
  <2>5. <<1>> \in Seq(Nat) /\ 0 \in Nat
    OBVIOUS
  <2>6. CutToEnd(doc, SlidesIn(deck_out'), slide_markdown')
    BY <2>3, <2>4, <2>5, Zenon DEF CutToEnd
  <2>7. Ending'
    BY <1>3, <2>6, Zenon DEF Ending
  <2>8. DeckPhase'
    BY <2>7, Zenon DEF DeckPhase
  <2>9. DeckTypes'
    <3>1. front_matter_has_key' \in BOOLEAN /\ in_front_matter' \in BOOLEAN
      BY <2>3 DEF Clear
    <3>. QED
      BY <1>3, <2>1, <2>3, <3>1, Zenon DEF DeckTypes
  <2>10. deck_status' = "running"
    BY <1>1, <2>3, Zenon
  <2>. QED
    BY <2>8, <2>9, <2>10, InvNext
<1>. QED
  BY <1>4, <1>5, Zenon DEF RejectAtEnd

(* A line of the slide, in a fence or not.                                   *)
InTheFence ==
    /\ fence # NoFence
    /\ fence' = IF ClosesFence(Line, fence) THEN NoFence ELSE fence
    /\ list_indent' = list_indent /\ blockquote_lazy_active' = blockquote_lazy_active
InTheBody ==
    /\ fence = NoFence /\ ~Separates
    /\ fence' = FenceAfter(fence, Line)
    /\ list_indent' = IF OpensItem(Line) /\ ~OpensFence(Line) THEN ItemIndent(Line) ELSE IndentBefore
    /\ blockquote_lazy_active' = (LazyBefore \/ Line.what = "quote")
Placed ==
    /\ DeckRunning /\ todo = "body" /\ doc' = doc /\ kinds' = kinds
    /\ deck_out' = deck_out /\ deck_status' = deck_status /\ front_matter' = front_matter
    /\ in_front_matter' = in_front_matter /\ front_matter_has_key' = front_matter_has_key
    /\ slide_markdown' = Append(slide_markdown, Here) /\ todo' = ""
    /\ InTheFence \/ InTheBody

LEMMA PlacedKeeps ==
    ASSUME DeckInv, Placed
    PROVE  DeckInv'
<1>. DEFINE n == Len(doc) - 1
            slides == SlidesIn(deck_out)
<1>1. DeckTypes /\ DeckPhase /\ deck_status = "running" /\ todo = "body"
  BY InvNow, Zenon DEF DeckRunning, Placed
<1>2. /\ deck_out' = deck_out /\ deck_status' = deck_status /\ front_matter' = front_matter
      /\ in_front_matter' = in_front_matter /\ front_matter_has_key' = front_matter_has_key
      /\ doc' = doc /\ kinds' = kinds /\ slide_markdown' = Append(slide_markdown, Here) /\ todo' = ""
      /\ InTheFence \/ InTheBody
  BY Zenon DEF Placed
<1>3. Placing
  BY <1>1, Zenon DEF DeckPhase, Opening, NoneRead, Holding, Judging, Reading, Ending, Complete
<1>4. DeckTypes'
  BY <1>1, <1>2, Zenon DEF DeckTypes
<1>5. Clear /\ CutAt(doc, n, slides, slide_markdown, fence, list_indent, blockquote_lazy_active)
  BY <1>3, Zenon DEF Placing, CutHere
<1>6. Len(doc) \in Nat /\ doc \in Seq(UNION DeckLines)
  BY <1>1 DEF DeckTypes
<1>7. PICK b \in Seq(Nat), e \in Nat :
         /\ Cut(slides, slide_markdown, b, e, doc, n) /\ Settled(doc, e) /\ AtBreaks(b, e, doc, n)
         /\ InContext(b, e, doc, n, fence, list_indent, blockquote_lazy_active)
  BY <1>5 DEF CutAt
<1>8. n + 1 = Len(doc)
  BY <1>6
<1>9. LastCut(b, e) \in Nat /\ n \in Nat /\ LastCut(b, e) <= n
  BY <1>7, LastCutType DEF Cut
<1>10. \A q \in 1 .. n + 1 : Plain(doc[q])
  BY <1>6, <1>8, DocPlain
<1>. HIDE DEF n, slides
<1>11. Cut(slides, Append(slide_markdown, n + 1), b, e, doc, n + 1)
  BY <1>7, CutLine
<1>12. AtBreaks(b, e, doc, n + 1) /\ InContext(b, e, doc, n + 1, fence', list_indent', blockquote_lazy_active')
  <2>1. CASE InTheFence
    <3>1. Line = doc[n + 1]
      BY <1>8, Zenon DEF Line
    <3>2. /\ fence # NoFence /\ fence' = IF ClosesFence(doc[n + 1], fence) THEN NoFence ELSE fence
          /\ list_indent' = list_indent /\ blockquote_lazy_active' = blockquote_lazy_active
      BY <2>1, <3>1, Zenon DEF InTheFence
    <3>3. /\ AtBreaks(b, e, doc, n + 1)
          /\ InContext(b, e, doc, n + 1, IF ClosesFence(doc[n + 1], fence) THEN NoFence ELSE fence,
                       list_indent, blockquote_lazy_active)
      BY <1>7, <1>9, <1>10, <3>2, BreaksFenced
    <3>. QED
      BY <3>2, <3>3, Zenon
  <2>2. CASE InTheBody
    <3>. DEFINE l == doc[n + 1]
                x == list_indent
                lazy == blockquote_lazy_active
                y == IF OpensItem(l) /\ ~OpensFence(l) THEN ItemIndent(l) ELSE Before(l, x)
                after == (lazy /\ ~IsBlank(l)) \/ IsQuote(l)
    <3>1. Line = l
      BY <1>8, Zenon DEF Line
    <3>2. fence = NoFence /\ ~Separates /\ fence' = FenceAfter(NoFence, l)
      BY <2>2, <3>1, Zenon DEF InTheBody
    <3>4. IndentBefore = Before(l, x)
      BY <3>1, Zenon DEF IndentBefore, Before, Speaks
    <3>5. list_indent' = y
      BY <2>2, <3>1, <3>4, Zenon DEF InTheBody
    <3>6. blockquote_lazy_active' = after
      BY <2>2, <3>1, Zenon DEF InTheBody, LazyBefore, IsQuote
    <3>7. Separates <=> Parts(l, x, lazy)
      BY <3>1, <3>4, Zenon DEF Separates, LazyBefore, Parts
    <3>8. InContext(b, e, doc, n, NoFence, x, lazy)
      BY <1>7, <3>2
    <3>9. ~Parts(l, x, lazy)
      BY <3>2, <3>7, Zenon
    <3>10. /\ AtBreaks(b, e, doc, n + 1)
           /\ InContext(b, e, doc, n + 1, FenceAfter(NoFence, l), y, after)
      BY <1>7, <1>9, <1>10, <3>8, <3>9, BreaksBody
    <3>. QED
      BY <3>2, <3>5, <3>6, <3>10, Zenon
  <2>. QED
    BY <1>2, <2>1, <2>2
<1>13. CutAt(doc, Len(doc), slides, Append(slide_markdown, Len(doc)), fence', list_indent', blockquote_lazy_active')
  BY <1>7, <1>8, <1>11, <1>12, Zenon DEF CutAt
<1>14. CutHere(Len(doc))'
  BY <1>2, <1>13, Zenon DEF Here, slides, CutHere
<1>15. Clear'
  BY <1>2, <1>5, Zenon DEF Clear
<1>16. Reading'
  BY <1>2, <1>14, <1>15, Zenon DEF Reading
<1>17. DeckPhase'
  BY <1>16, Zenon DEF DeckPhase
<1>18. deck_status' = "running"
  BY <1>1, <1>2, Zenon
<1>. QED
  BY <1>4, <1>17, <1>18, InvNext

LEMMA NextSlideKeeps ==
    ASSUME DeckInv, NextSlide
    PROVE  DeckInv'
<1>. DEFINE n == Len(doc) - 1
            slides == SlidesIn(deck_out)
<1>1. DeckTypes /\ DeckPhase /\ deck_status = "running" /\ todo = "body" /\ fence = NoFence /\ Separates
  <2>1. DeckRunning /\ todo = "body" /\ fence = NoFence /\ Separates
    BY Zenon DEF NextSlide
  <2>. QED
    BY <2>1, InvNow, Zenon DEF DeckRunning
<1>2. Placing
  BY <1>1, Zenon DEF DeckPhase, Opening, NoneRead, Holding, Judging, Reading, Ending, Complete
<1>3. /\ doc' = doc /\ kinds' = kinds /\ front_matter' = front_matter
      /\ in_front_matter' = in_front_matter /\ front_matter_has_key' = front_matter_has_key
      /\ fence' = fence /\ blockquote_lazy_active' = LazyBefore
  BY Zenon DEF NextSlide, probe
<1>4. CASE SlideFails
  BY <1>4, SlideFailsKeeps
<1>5. CASE WriteSlide(<<>>) /\ list_indent' = 0 /\ todo' = ""
  <2>1. Clear /\ CutAt(doc, n, slides, slide_markdown, fence, list_indent, blockquote_lazy_active)
    BY <1>2, Zenon DEF Placing, CutHere
  <2>2. Len(doc) \in Nat /\ deck_out \in Seq(Pieces)
    BY <1>1 DEF DeckTypes
  <2>3. PICK b \in Seq(Nat), e \in Nat :
           /\ Cut(slides, slide_markdown, b, e, doc, n) /\ Settled(doc, e) /\ AtBreaks(b, e, doc, n)
           /\ InContext(b, e, doc, n, fence, list_indent, blockquote_lazy_active)
    BY <2>1 DEF CutAt
  <2>4. n + 1 = Len(doc) /\ n + 1 <= Len(doc)
    BY <2>2
  <2>5. doc[n + 1].what = "break"
    <3>1. Line.what = "break"
      BY <1>1, Zenon DEF Separates, IsSeparator
    <3>. QED
      BY <2>4, <3>1 DEF Line
  <2>. HIDE DEF n
  <2>. DEFINE a == LastCut(b, e)
  <2>6. a \in Nat /\ n \in Nat /\ a <= n /\ slide_markdown = Span(a, n)
    BY <2>3, LastCutType DEF Cut
  <2>. HIDE DEF a
  <2>. DEFINE none == <<>>
  <2>. HIDE DEF none
  <2>7. /\ deck_status' = deck_status /\ slide_markdown' = none /\ slides \in Seq(Pieces)
        /\ Adds(deck_out', slides, a, n, doc)
    <3>1. WriteSlide(none)
      BY <1>5 DEF none
    <3>. QED
      BY <2>2, <2>6, <3>1, SlideWritten
  <2>8. PICK piece \in Pieces : /\ deck_out' \in Seq(Pieces) /\ SlidesIn(deck_out') = Append(slides, piece)
                                /\ Shown(piece, a, n, doc)
    BY <2>7 DEF Adds
  <2>. DEFINE m == n + 1
  <2>9. m \in Nat /\ n + 1 <= m /\ n + 1 <= Len(doc) /\ Shown(piece, LastCut(b, e), n, doc)
    BY <2>4, <2>6, <2>8 DEF a
  <2>. HIDE DEF m, slides
  <2>10. Cut(Append(slides, piece), Span(n + 1, m), Append(b, n + 1), e, doc, m)
    BY <2>2, <2>3, <2>5, <2>7, <2>9, CutNext
  <2>11. Span(n + 1, m) = none
    BY <2>6 DEF m, none, Span
  <2>12. Append(b, n + 1) \in Seq(Nat)
    BY <2>6
  <2>13. \A q \in 1 .. n + 1 : Plain(doc[q])
    <3>1. doc \in Seq(UNION DeckLines)
      BY <1>1 DEF DeckTypes
    <3>2. \A q \in 1 .. n + 1 : q \in 1 .. Len(doc)
      BY <2>4
    <3>. QED
      BY <3>1, <3>2, DocPlain
  <2>14. Parts(doc[n + 1], list_indent, blockquote_lazy_active)
    BY <1>1, <2>4, Zenon DEF Separates, LazyBefore, IndentBefore, Line, Parts, Before, Speaks
  <2>15. Unsplit(doc, e, LastCut(b, e)) \/ BreakAt(doc, LastCut(b, e), n + 1)
    <3>1. LastCut(b, e) \in Nat /\ LastCut(b, e) <= n
      BY <2>6 DEF a
    <3>2. InContext(b, e, doc, n, NoFence, list_indent, blockquote_lazy_active)
      BY <1>1, <2>3
    <3>. QED
      BY <2>3, <2>5, <2>6, <2>13, <2>14, <3>1, <3>2, BreaksBody
  <2>16. /\ AtBreaks(Append(b, n + 1), e, doc, n + 1)
        /\ InContext(Append(b, n + 1), e, doc, n + 1, NoFence, 0, FALSE)
    BY <2>3, <2>6, <2>15, BreaksNext
  <2>17. CutAt(doc, m, Append(slides, piece), none, NoFence, 0, FALSE)
    BY <2>3, <2>10, <2>11, <2>12, <2>16, Zenon DEF CutAt, m
  <2>18. CutHere(Len(doc))'
    <3>1. m = Len(doc)
      BY <2>4 DEF m
    <3>2. blockquote_lazy_active' = FALSE
      BY <1>1, <1>3, Zenon DEF Separates, LazyBefore
    <3>. QED
      BY <1>1, <1>3, <1>5, <2>7, <2>8, <2>17, <3>1, <3>2, Zenon DEF CutHere
  <2>19. Clear'
    BY <1>3, <2>1, Zenon DEF Clear
  <2>20. Reading'
    BY <1>5, <2>18, <2>19, Zenon DEF Reading
  <2>21. DeckPhase'
    BY <2>20, Zenon DEF DeckPhase
  <2>22. DeckTypes'
    BY <1>1, <1>3, <2>8, Zenon DEF DeckTypes
  <2>23. deck_status' = "running"
    BY <1>1, <2>7, Zenon
  <2>. QED
    BY <2>21, <2>22, <2>23, InvNext
<1>. QED
  BY <1>4, <1>5, Zenon DEF NextSlide

LEMMA LastSlideKeeps ==
    ASSUME DeckInv, LastSlide
    PROVE  DeckInv'
<1>. DEFINE n == Len(doc)
            slides == SlidesIn(deck_out)
<1>1. DeckTypes /\ DeckPhase /\ deck_status = "running" /\ (todo = "end" \/ (todo = "" /\ ~in_front_matter))
  <2>1. DeckRunning /\ (todo = "end" \/ (todo = "" /\ ~in_front_matter))
    BY Zenon DEF LastSlide
  <2>. QED
    BY <2>1, InvNow, Zenon DEF DeckRunning
<1>2. NoneRead \/ Reading \/ Ending
  BY <1>1, Zenon DEF DeckPhase, Opening, Holding, Judging, Placing, Complete
<1>3. /\ doc' = doc /\ kinds' = kinds /\ front_matter' = front_matter /\ todo' = "shell"
      /\ in_front_matter' = in_front_matter /\ front_matter_has_key' = front_matter_has_key
  BY Zenon DEF LastSlide, probe
<1>4. CutToEnd(doc, slides, slide_markdown)
  <2>1. CASE NoneRead
    <3>1. doc = <<>> /\ slides = <<>> /\ slide_markdown = <<>>
      BY <2>1, Zenon DEF NoneRead, Fresh
    <3>2. Cut(<<>>, <<>>, <<>>, 0, doc, 0) /\ <<>> \in Seq(Nat) /\ 0 \in Nat
      BY CutNone
    <3>3. Len(doc) = 0
      BY <3>1
    <3>4. Whole(doc, 0)
      BY <3>3, Zenon DEF Whole
    <3>6. AtBreaks(<<>>, 0, doc, 0)
      BY <3>2, BreaksStart
    <3>. HIDE DEF slides
    <3>5. Cut(slides, slide_markdown, <<>>, 0, doc, Len(doc))
      BY <3>1, <3>2, <3>3, Zenon
    <3>. QED
      BY <3>2, <3>3, <3>4, <3>5, <3>6, Zenon DEF CutToEnd
  <2>2. CASE Reading
    <3>1. CutAt(doc, Len(doc), slides, slide_markdown, fence, list_indent, blockquote_lazy_active)
      BY <2>2, Zenon DEF Reading, CutHere
    <3>. QED
      BY <3>1, Zenon DEF CutAt, CutToEnd, Whole
  <2>3. CASE Ending
    BY <2>3, Zenon DEF Ending
  <2>. QED
    BY <1>2, <2>1, <2>2, <2>3, Zenon
<1>5. CASE SlideFails
  BY <1>5, SlideFailsKeeps
<1>6. CASE WriteSlide(<<>>)
  <2>1. PICK b \in Seq(Nat), e \in Nat :
           Cut(slides, slide_markdown, b, e, doc, Len(doc)) /\ Whole(doc, e) /\ AtBreaks(b, e, doc, Len(doc))
    BY <1>4 DEF CutToEnd
  <2>2. deck_out \in Seq(Pieces)
    BY <1>1 DEF DeckTypes
  <2>. DEFINE a == LastCut(b, e)
  <2>3. a \in Nat /\ n \in Nat /\ a <= n /\ slide_markdown = Span(a, n)
    BY <2>1, LastCutType DEF Cut
  <2>. HIDE DEF a, n
  <2>. DEFINE none == <<>>
  <2>. HIDE DEF none
  <2>4. /\ deck_status' = deck_status /\ slides \in Seq(Pieces) /\ Adds(deck_out', slides, a, n, doc)
    <3>1. WriteSlide(none)
      BY <1>6 DEF none
    <3>. QED
      BY <2>2, <2>3, <3>1, SlideWritten
  <2>5. PICK piece \in Pieces : /\ deck_out' \in Seq(Pieces) /\ SlidesIn(deck_out') = Append(slides, piece)
                                /\ Shown(piece, a, n, doc)
    BY <2>4 DEF Adds
  <2>. HIDE DEF slides
  <2>6. Shown(piece, LastCut(b, e), Len(doc), doc)
    BY <2>5 DEF a, n
  <2>7. AllCut(Append(slides, piece), b, e, doc)
    BY <2>1, <2>4, <2>6, CutAll
  <2>8. AllWritten(doc', SlidesIn(deck_out'))
    <3>1. AllWritten(doc, Append(slides, piece))
      BY <2>1, <2>7, Zenon DEF AllWritten
    <3>. QED
      BY <1>3, <2>5, <3>1, Zenon
  <2>9. Complete'
    BY <1>3, <2>8, Zenon DEF Complete
  <2>10. DeckPhase'
    BY <2>9, Zenon DEF DeckPhase
  <2>11. DeckTypes'
    BY <1>1, <1>3, <2>5, Zenon DEF DeckTypes
  <2>12. deck_status' = "running"
    BY <1>1, <2>4, Zenon
  <2>. QED
    BY <2>10, <2>11, <2>12, InvNext
<1>. QED
  BY <1>5, <1>6, Zenon DEF LastSlide

LEMMA CloseShellKeeps ==
    ASSUME DeckInv, CloseShell
    PROVE  DeckInv'
<1>1. DeckTypes /\ DeckPhase /\ deck_status = "running" /\ todo = "shell"
  <2>1. DeckRunning /\ todo = "shell"
    BY Zenon DEF CloseShell
  <2>. QED
    BY <2>1, InvNow, Zenon DEF DeckRunning
<1>2. Complete
  BY <1>1, Zenon DEF DeckPhase, NoneRead, Opening, Holding, Judging, Reading, Placing, Ending
<1>3. /\ doc' = doc /\ kinds' = kinds /\ todo' = todo
      /\ in_front_matter' = in_front_matter /\ front_matter_has_key' = front_matter_has_key
  BY Zenon DEF CloseShell, probe
<1>4. CASE deck_status' = "IO"
  <2>1. deck_status' \in {"IO", "NOMEM"}
    BY <1>4, Zenon
  <2>. QED
    BY <2>1, FailedKeeps
<1>5. CASE End("OK", <<DeckPiece("end")>>)
  <2>. DEFINE x == DeckPiece("end")
  <2>1. x \in Pieces
    <3>1. <<>> \in Seq(Tokens)
      OBVIOUS
    <3>2. Nothing \in Sections
      BY <3>1 DEF Nothing, Sections
    <3>. QED
      BY <3>2 DEF DeckPiece, Pieces
  <2>2. x.what # "slide"
    BY DEF DeckPiece
  <2>3. deck_out' = deck_out \o <<x>> /\ deck_status' = "OK"
    BY <1>5, Zenon DEF End
  <2>. HIDE DEF x
  <2>4. deck_out \in Seq(Pieces)
    BY <1>1 DEF DeckTypes
  <2>5. deck_out' = Append(deck_out, x) /\ deck_out' \in Seq(Pieces)
    BY <2>1, <2>3, <2>4
  <2>6. SlidesIn(deck_out') = SlidesIn(deck_out)
    BY <2>1, <2>2, <2>4, <2>5, SlidesRules
  <2>7. AllWritten(doc', SlidesIn(deck_out'))
    BY <1>2, <1>3, <2>6, Zenon DEF Complete
  <2>8. Complete'
    BY <1>1, <1>3, <2>7, Zenon DEF Complete
  <2>9. DeckTypes'
    BY <1>1, <1>3, <2>5, Zenon DEF DeckTypes
  <2>10. deck_status' # "running"
    BY <2>3, Zenon
  <2>. QED
    BY <2>8, <2>9, <2>10, Zenon DEF DeckInv
<1>6. End("OK", <<DeckPiece("end")>>) \/ deck_status' = "IO"
  BY Zenon DEF CloseShell, End
<1>. QED
  BY <1>4, <1>5, <1>6

-----------------------------------------------------------------------------
LEMMA DeckInvInit ==
    ASSUME DeckInit
    PROVE  DeckInv
<1>1. /\ kinds \in DeckLines /\ doc = <<>> /\ todo = "" /\ Clear /\ slide_markdown = <<>>
      /\ deck_out = <<>> /\ deck_status = "running" /\ Outside
  BY Zenon DEF DeckInit, Clear, Outside
<1>2. DeckTypes
  <2>1. <<>> \in Seq(UNION DeckLines) /\ <<>> \in Seq(Pieces)
    OBVIOUS
  <2>2. in_front_matter \in BOOLEAN /\ front_matter_has_key \in BOOLEAN
    BY <1>1 DEF Clear
  <2>. QED
    BY <1>1, <2>1, <2>2, Zenon DEF DeckTypes
<1>3. SlidesIn(deck_out) = <<>>
  BY <1>1, SlidesRules, Zenon
<1>4. NoneRead
  BY <1>1, <1>3, Zenon DEF NoneRead, Fresh
<1>5. deck_status # "OK"
  BY <1>1, Zenon
<1>. QED
  BY <1>2, <1>4, <1>5, Zenon DEF DeckInv, DeckPhase

LEMMA DeckInvStep ==
    ASSUME DeckInv, [DeckNext]_deckVars
    PROVE  DeckInv'
<1>1. CASE UNCHANGED deckVars
  <2>1. /\ kinds' = kinds /\ doc' = doc /\ todo' = todo /\ front_matter' = front_matter
        /\ in_front_matter' = in_front_matter /\ front_matter_has_key' = front_matter_has_key
        /\ slide_markdown' = slide_markdown /\ deck_out' = deck_out /\ deck_status' = deck_status
        /\ fence' = fence /\ list_indent' = list_indent /\ blockquote_lazy_active' = blockquote_lazy_active
    BY <1>1, Zenon DEF deckVars, probe, written, splitter
  <2>2. DeckTypes => DeckTypes'
    BY <2>1, Zenon DEF DeckTypes
  <2>3. DeckPhase => DeckPhase'
    BY <2>1, Zenon DEF DeckPhase, NoneRead, Opening, Holding, Judging, Reading, Placing, Ending, Complete,
                          Clear, Fresh, Outside, CutHere
  <2>4. Complete => Complete'
    BY <2>1, Zenon DEF Complete
  <2>. QED
    BY <2>1, <2>2, <2>3, <2>4, Zenon DEF DeckInv
<1>2. CASE \E l \in kinds : ReadLine(l)
  BY <1>2, ReadLineKeeps
<1>3. CASE FencedLine
  <2>1. Placed
    BY <1>3, Zenon DEF FencedLine, Placed, InTheFence, probe, written
  <2>. QED
    BY <2>1, PlacedKeeps
<1>4. CASE BodyLine
  <2>1. Placed
    BY <1>4, Zenon DEF BodyLine, Placed, InTheBody, probe, written
  <2>. QED
    BY <2>1, PlacedKeeps
<1>. QED
  BY <1>1, <1>2, <1>3, <1>4, ReadFailsKeeps, HoldFrontMatterKeeps, CloseFrontMatterKeeps,
     RejectFrontMatterKeeps, NextSlideKeeps, RejectAtEndKeeps, LastSlideKeeps, CloseShellKeeps, Zenon
     DEF DeckNext

LEMMA DeckInvKept ==
    ASSUME DeckInv
    PROVE  DeckLinesKept /\ SlidesEndAtBreaks
<1>1. CASE deck_status # "OK"
  BY <1>1, Zenon DEF DeckLinesKept, SlidesEndAtBreaks
<1>2. CASE deck_status = "OK"
  <2>1. DeckTypes /\ Complete
    BY <1>2, Zenon DEF DeckInv
  <2>2. doc \in Seq(UNION DeckLines) /\ deck_out \in Seq(Pieces)
    BY <2>1, Zenon DEF DeckTypes
  <2>3. PICK b \in Seq(Nat), e \in Nat :
           AllCut(SlidesIn(deck_out), b, e, doc) /\ Whole(doc, e) /\ AtBreaks(b, e, doc, Len(doc))
    BY <2>1, Zenon DEF Complete, AllWritten
  <2>4. DeckLinesKept
    BY <2>2, <2>3, KeptWhole
  <2>5. SlidesEndAtBreaks
    BY <2>2, <2>3, SlidesEnd
  <2>. QED
    BY <2>4, <2>5
<1>. QED
  BY <1>1, <1>2

(* The deck renderer keeps the invariant: what was written, what the slide   *)
(* holds and what is held as front matter are the lines read so far, each of *)
(* them once and in order, cut at the breaks that are not in a fence, in a   *)
(* quote or in an item; the splitter's state says in which of these it is    *)
(* (deck_render).                                                            *)
THEOREM DeckInvariance == DeckSpec => []DeckInv
<1>1. DeckInit => DeckInv
  BY DeckInvInit
<1>2. DeckInv /\ [DeckNext]_deckVars => DeckInv'
  BY DeckInvStep
<1>. QED
  BY <1>1, <1>2, PTL DEF DeckSpec

(* A deck shows its document, of any length and any lines: each line is on   *)
(* its slide once and in order, but for front matter and for one break       *)
(* between any two slides (deck_render, deck_render_write_slide).            *)
THEOREM DeckKept == DeckSpec => []DeckLinesKept
<1>1. DeckInv => DeckLinesKept
  BY DeckInvKept
<1>. QED
  BY <1>1, DeckInvariance, PTL

(* A deck is cut where its document says: slides end at thematic breaks, and *)
(* at all of them but those in fenced code, in a quote or in an item, except *)
(* among lines that were held as front matter in vain (deck_render).         *)
THEOREM DeckCut == DeckSpec => []SlidesEndAtBreaks
<1>1. DeckInv => SlidesEndAtBreaks
  BY DeckInvKept
<1>. QED
  BY <1>1, DeckInvariance, PTL

=============================================================================
