----------------------------- MODULE HtmlProofs -----------------------------
(***************************************************************************)
(* The HTML bridge closes what it opens: every tag of the page ends what   *)
(* was opened last, for any options and any document of any length.        *)
(* HtmlTextProofs goes on with the text between the tags.                  *)
(***************************************************************************)
EXTENDS HtmlBridge, SequenceLemmas

(* The strings; those the provers have to know of are named.                 *)
Strings == STRING \cup {"", "\n", " ", ">", "a", "span", "heading", "line", "block", "prefix",
                        "content", "chart", "table", "e1"}
Opened == [of : Strings, at : Strings]
Glyph  == [c : Strings, style : Strings, link : Strings, within : SUBSET Strings]
Page   == [stack : Seq(Opened), text : Seq(Glyph), nested : BOOLEAN]
Tag    == [tag : {"open", "close", "text", "added"}, of : Strings, at : Strings]

-----------------------------------------------------------------------------
(* What is open. *)

LEMMA MaxOf ==
    ASSUME NEW n \in Nat, NEW S \in SUBSET (0 .. n), S # {}
    PROVE  Max(S) \in S /\ \A m \in S : m <= Max(S)
<1>. DEFINE D == {d \in Nat : d <= n /\ n - d \in S}
<1>1. D # {}
  <2>1. PICK m \in S : TRUE
    OBVIOUS
  <2>2. n - m \in Nat /\ n - m <= n /\ n - (n - m) = m
    BY <2>1
  <2>. QED
    BY <2>1, <2>2
<1>2. D \in SUBSET Nat
  OBVIOUS
<1>3. PICK d \in D : \A e \in D : d <= e
  <2>. HIDE DEF D
  <2>. QED
    BY <1>1, <1>2, LeastOf
<1>4. n - d \in S
  BY <1>3
<1>5. \A m \in S : n - d >= m
  <2>. TAKE m \in S
  <2>1. n - m \in Nat /\ n - m <= n /\ n - (n - m) = m
    OBVIOUS
  <2>2. d <= n - m
    BY <1>3, <2>1
  <2>. QED
    BY <2>1, <2>2, <1>3
<1>6. Max(S) \in S /\ \A m \in S : Max(S) >= m
  BY <1>4, <1>5 DEF Max
<1>. QED
  BY <1>6

LEMMA MaxIs ==
    ASSUME NEW S \in SUBSET Int, NEW n \in S, \A m \in S : m <= n
    PROVE  Max(S) = n
<1>1. \A m \in S : n >= m
  OBVIOUS
<1>2. \A x \in S : (\A m \in S : x >= m) => x = n
  OBVIOUS
<1>. QED
  BY <1>1, <1>2 DEF Max

Top(e, x) == [of |-> e, at |-> x]

LEMMA LastlyTop ==
    ASSUME NEW st \in Seq(Opened), NEW e \in Strings, NEW x \in Strings
    PROVE  /\ Lastly(Append(st, Top(e, x)), e) = Len(st) + 1
           /\ Innermost(Append(st, Top(e, x)), e) = x
           /\ RemoveAt(Append(st, Top(e, x)), Len(st) + 1) = st
           /\ Last(Append(st, Top(e, x))) = Top(e, x)
<1>. DEFINE more == Append(st, Top(e, x))
            S == {0} \cup {i \in DOMAIN more : more[i].of = e}
<1>1. Len(more) = Len(st) + 1 /\ more[Len(st) + 1] = Top(e, x) /\ DOMAIN more = 1 .. Len(st) + 1
  BY DEF Top
<1>2. Len(st) + 1 \in S /\ S \in SUBSET Int /\ \A m \in S : m <= Len(st) + 1
  BY <1>1 DEF Top
<1>3. Max(S) = Len(st) + 1
  <2>. HIDE DEF S
  <2>. QED
    BY <1>2, MaxIs
<1>4. Lastly(more, e) = Len(st) + 1
  BY <1>3 DEF Lastly
<1>5. Innermost(more, e) = x
  <2>1. Len(st) + 1 # 0
    OBVIOUS
  <2>. HIDE DEF more
  <2>. QED
    BY <1>1, <1>4, <2>1 DEF Innermost, Top
<1>6. RemoveAt(more, Len(st) + 1) = st
  <2>. DEFINE n == Len(st)
              t == Top(e, x)
  <2>1. t \in Opened /\ n \in Nat
    BY DEF Top, Opened
  <2>. HIDE DEF t
  <2>2. SubSeq(Append(st, t), 1, (n + 1) - 1) = st
    BY <2>1
  <2>3. SubSeq(Append(st, t), (n + 1) + 1, Len(Append(st, t))) = <<>>
    BY <2>1
  <2>4. st \o <<>> = st
    OBVIOUS
  <2>. QED
    BY <2>2, <2>3, <2>4 DEF RemoveAt, t
<1>7. Last(more) = Top(e, x)
  BY <1>1 DEF Last
<1>. QED
  BY <1>4, <1>5, <1>6, <1>7

LEMMA LastlyBelow ==
    ASSUME NEW st \in Seq(Opened), NEW e \in Strings, NEW o \in Strings, o # e, NEW x \in Strings
    PROVE  /\ Lastly(Append(st, Top(o, x)), e) = Lastly(st, e)
           /\ Innermost(Append(st, Top(o, x)), e) = Innermost(st, e)
           /\ Lastly(st, e) \in 0 .. Len(st)
<1>. DEFINE more == Append(st, Top(o, x))
            S == {0} \cup {i \in DOMAIN more : more[i].of = e}
            T == {0} \cup {i \in DOMAIN st : st[i].of = e}
<1>1. S = T
  BY DEF Top
<1>2. Lastly(more, e) = Lastly(st, e)
  BY <1>1 DEF Lastly
<1>3. Lastly(st, e) \in 0 .. Len(st)
  <2>1. T \in SUBSET (0 .. Len(st)) /\ T # {} /\ Len(st) \in Nat
    OBVIOUS
  <2>. HIDE DEF T
  <2>2. Max(T) \in T
    BY <2>1, MaxOf
  <2>. QED
    BY <2>1, <2>2 DEF Lastly, T
<1>4. \A i \in 1 .. Len(st) : more[i] = st[i]
  OBVIOUS
<1>5. Innermost(more, e) = Innermost(st, e)
  <2>. DEFINE at == Lastly(st, e)
  <2>1. at = 0 \/ more[at] = st[at]
    <3>1. Len(st) \in Nat
      OBVIOUS
    <3>. HIDE DEF at, more
    <3>2. at \in 0 .. Len(st)
      BY <1>3 DEF at
    <3>. QED
      BY <1>4, <3>1, <3>2
  <2>. HIDE DEF more
  <2>. QED
    BY <1>2, <2>1 DEF Innermost
<1>. QED
  BY <1>2, <1>3, <1>5

LEMMA InnermostNone == \A e \in Strings : Innermost(<<>>, e) = ""
<1>. TAKE e \in Strings
<1>. DEFINE T == {0} \cup {i \in DOMAIN <<>> : <<>>[i].of = e}
<1>1. T = {0}
  OBVIOUS
<1>2. Max(T) = 0
  BY <1>1, MaxIs
<1>. QED
  BY <1>2 DEF Lastly, Innermost

LEMMA InnermostType ==
    ASSUME NEW st \in Seq(Opened), NEW e \in Strings
    PROVE  Lastly(st, e) \in 0 .. Len(st) /\ Innermost(st, e) \in Strings
<1>. DEFINE T == {0} \cup {i \in DOMAIN st : st[i].of = e}
            at == Lastly(st, e)
<1>1. T \in SUBSET (0 .. Len(st)) /\ T # {} /\ Len(st) \in Nat
  OBVIOUS
<1>2. at \in 0 .. Len(st)
  <2>. HIDE DEF T
  <2>1. Max(T) \in T
    BY <1>1, MaxOf
  <2>. QED
    BY <1>1, <2>1 DEF Lastly, T
<1>3. \A i \in 1 .. Len(st) : st[i].at \in Strings
  <2>1. \A i \in 1 .. Len(st) : st[i] \in Opened
    OBVIOUS
  <2>. QED
    BY <2>1 DEF Opened
<1>. HIDE DEF at
<1>4. at = 0 \/ st[at].at \in Strings
  BY <1>1, <1>2, <1>3
<1>5. Innermost(st, e) = IF at = 0 THEN "" ELSE st[at].at
  BY DEF Innermost, at
<1>. QED
  BY <1>2, <1>4, <1>5 DEF at, Strings

LEMMA ShownType ==
    ASSUME NEW st \in Seq(Opened), NEW c \in Strings
    PROVE  Shown(c, st) \in Glyph
<1>1. Innermost(st, "span") \in Strings /\ Innermost(st, "a") \in Strings
  BY InnermostType DEF Strings
<1>2. {st[i].of : i \in DOMAIN st} \in SUBSET Strings
  <2>1. \A i \in DOMAIN st : st[i] \in Opened
    OBVIOUS
  <2>. QED
    BY <2>1 DEF Opened
<1>. QED
  BY <1>1, <1>2 DEF Shown, Glyph

-----------------------------------------------------------------------------
(* Tags are read one by one. *)

LEMMA BrowseType ==
    ASSUME NEW page \in Page, NEW tag \in Tag
    PROVE  Browse(page, tag) \in Page
<1>1. /\ page.stack \in Seq(Opened) /\ page.text \in Seq(Glyph) /\ page.nested \in BOOLEAN
      /\ tag.of \in Strings /\ tag.at \in Strings /\ tag.tag \in {"open", "close", "text", "added"}
  BY DEF Page, Tag
<1>2. CASE tag.tag = "open"
  <2>1. [of |-> tag.of, at |-> tag.at] \in Opened
    BY <1>1 DEF Opened
  <2>2. Append(page.stack, [of |-> tag.of, at |-> tag.at]) \in Seq(Opened)
    BY <1>1, <2>1
  <2>3. Browse(page, tag) = [page EXCEPT !.stack = Append(@, [of |-> tag.of, at |-> tag.at])]
    BY <1>2 DEF Browse
  <2>. QED
    BY <2>2, <2>3 DEF Page
<1>3. CASE tag.tag = "text"
  <2>1. Append(page.text, Shown(tag.of, page.stack)) \in Seq(Glyph)
    BY <1>1, ShownType
  <2>2. Browse(page, tag) = [page EXCEPT !.text = Append(@, Shown(tag.of, page.stack))]
    BY <1>3 DEF Browse
  <2>. QED
    BY <2>1, <2>2 DEF Page
<1>4. CASE tag.tag = "added"
  BY <1>4 DEF Browse
<1>5. CASE tag.tag = "close"
  <2>. DEFINE at == Lastly(page.stack, tag.of)
              new == When(tag.of = "block", <<Shown(Newline, page.stack)>>)
              nests == LET top == Last(page.stack).of
                       IN  top = tag.of \/ (tag.of = "a" /\ top = "content")
  <2>1. at \in 0 .. Len(page.stack)
    BY <1>1, InnermostType
  <2>2. RemoveAt(page.stack, at) \in Seq(Opened)
    <3>. HIDE DEF at
    <3>1. SubSeq(page.stack, 1, at - 1) \in Seq(Opened) /\ SubSeq(page.stack, at + 1, Len(page.stack)) \in Seq(Opened)
      BY <1>1, <2>1
    <3>. QED
      BY <3>1 DEF RemoveAt
  <2>3. new \in Seq(Glyph)
    <3>1. Shown(Newline, page.stack) \in Glyph
      BY <1>1, ShownType DEF Newline, Strings
    <3>. QED
      BY <3>1 DEF When
  <2>4. page.text \o new \in Seq(Glyph)
    <3>. HIDE DEF new
    <3>. QED
      BY <1>1, <2>3
  <2>5. (page.nested /\ nests) \in BOOLEAN
    OBVIOUS
  <2>6. Browse(page, tag) = [stack  |-> RemoveAt(page.stack, at), text |-> page.text \o new,
                             nested |-> page.nested /\ nests]
    BY <1>5 DEF Browse
  <2>. HIDE DEF at, new, nests
  <2>. QED
    BY <2>2, <2>4, <2>5, <2>6 DEF Page
<1>. QED
  BY <1>1, <1>2, <1>3, <1>4, <1>5

LEMMA ReadOneByOne ==
    ASSUME NEW page \in Page, NEW tags \in Seq(Tag)
    PROVE  \E f \in [0 .. Len(tags) -> Page] :
               /\ f[0] = page
               /\ \A n \in 1 .. Len(tags) : f[n] = Browse(f[n - 1], tags[n])
               /\ PageAfter(page, tags) = f[Len(tags)]
<1>. DEFINE op == [x \in Page \X Tag |-> Browse(x[1], x[2])]
            read == CHOOSE f : f = [n \in 0 .. Len(tags) |->
                                      IF n = 0 THEN page ELSE Browse(f[n - 1], tags[n])]
<1>1. op \in [Page \X Tag -> Page]
  BY BrowseType
<1>2. PICK f \in [0 .. Len(tags) -> Page] : Steps(op, page, tags, f)
  <2>. HIDE DEF op
  <2>. QED
    BY <1>1, StepsExist
<1>3. Len(tags) \in Nat
  OBVIOUS
<1>4. f[0] = page /\ \A n \in 1 .. Len(tags) : f[n] = op[<<f[n - 1], tags[n]>>]
  <2>. HIDE DEF op
  <2>. QED
    BY <1>2, <1>3, StepsAre
<1>5. \A n \in 1 .. Len(tags) : f[n] = Browse(f[n - 1], tags[n])
  <2>. TAKE n \in 1 .. Len(tags)
  <2>1. f[n - 1] \in Page /\ tags[n] \in Tag
    BY <1>3
  <2>2. <<f[n - 1], tags[n]>> \in Page \X Tag
    BY <2>1
  <2>3. op[<<f[n - 1], tags[n]>>] = Browse(f[n - 1], tags[n])
    BY <2>2
  <2>. QED
    BY <1>4, <2>3
<1>6. f = [n \in 0 .. Len(tags) |-> IF n = 0 THEN page ELSE Browse(f[n - 1], tags[n])]
  <2>1. f = [n \in 0 .. Len(tags) |-> f[n]]
    OBVIOUS
  <2>2. \A n \in 0 .. Len(tags) : f[n] = IF n = 0 THEN page ELSE Browse(f[n - 1], tags[n])
    <3>1. \A n \in 0 .. Len(tags) : n # 0 => n \in 1 .. Len(tags)
      OBVIOUS
    <3>. HIDE DEF op
    <3>. QED
      BY <1>4, <1>5, <3>1, Zenon
  <2>3. [n \in 0 .. Len(tags) |-> f[n]]
          = [n \in 0 .. Len(tags) |-> IF n = 0 THEN page ELSE Browse(f[n - 1], tags[n])]
    BY <2>2, Zenon
  <2>. QED
    BY <2>1, <2>3, Zenon
<1>7. read = [n \in 0 .. Len(tags) |-> IF n = 0 THEN page ELSE Browse(read[n - 1], tags[n])]
  BY <1>6, Zenon
<1>8. \A g : g = [n \in 0 .. Len(tags) |-> IF n = 0 THEN page ELSE Browse(g[n - 1], tags[n])]
               => /\ g = [n \in 0 .. Len(tags) |-> g[n]]
                  /\ \A n \in 0 .. Len(tags) : g[n] = IF n = 0 THEN page ELSE Browse(g[n - 1], tags[n])
  BY Zenon
<1>9. \A n \in 0 .. Len(tags) : read[n] = f[n]
  <2>. DEFINE P == {n \in Nat : n <= Len(tags) => read[n] = f[n]}
  <2>0. /\ \A n \in 0 .. Len(tags) : read[n] = IF n = 0 THEN page ELSE Browse(read[n - 1], tags[n])
        /\ \A n \in 0 .. Len(tags) : f[n] = IF n = 0 THEN page ELSE Browse(f[n - 1], tags[n])
    <3>. HIDE DEF read
    <3>. QED
      BY <1>6, <1>7, <1>8, Zenon
  <2>. HIDE DEF read, op
  <2>1. 0 \in P
    <3>1. 0 \in 0 .. Len(tags)
      OBVIOUS
    <3>2. read[0] = page /\ f[0] = page
      BY <2>0, <3>1, Zenon
    <3>. QED
      BY <3>2
  <2>2. ASSUME NEW n \in P
        PROVE  n + 1 \in P
    <3>1. n \in Nat
      OBVIOUS
    <3>2. ASSUME n + 1 <= Len(tags)
          PROVE  read[n + 1] = f[n + 1]
      <4>1. read[n] = f[n] /\ n + 1 \in 0 .. Len(tags) /\ n + 1 # 0 /\ (n + 1) - 1 = n
        BY <3>1, <3>2
      <4>. QED
        BY <2>0, <4>1
    <3>. QED
      BY <3>1, <3>2
  <2>3. P = Nat
    <3>. HIDE DEF P
    <3>1. P \in SUBSET Nat
      BY DEF P
    <3>. QED
      BY <2>1, <2>2, <3>1, NatInduct
  <2>. QED
    BY <2>3
<1>10. PageAfter(page, tags) = read[Len(tags)]
  BY Zenon DEF PageAfter
<1>. HIDE DEF read, op
<1>. QED
  BY <1>3, <1>4, <1>5, <1>9, <1>10

LEMMA AfterType ==
    ASSUME NEW page \in Page, NEW tags \in Seq(Tag)
    PROVE  PageAfter(page, tags) \in Page
<1>1. PICK f \in [0 .. Len(tags) -> Page] : PageAfter(page, tags) = f[Len(tags)]
  BY ReadOneByOne
<1>2. Len(tags) \in 0 .. Len(tags)
  OBVIOUS
<1>. QED
  BY <1>1, <1>2

LEMMA AfterNone == \A page \in Page : PageAfter(page, <<>>) = page
<1>. TAKE page \in Page
<1>1. ASSUME NEW tags \in Seq(Tag), tags = <<>>
      PROVE  PageAfter(page, tags) = page
  <2>1. PICK f \in [0 .. Len(tags) -> Page] : f[0] = page /\ PageAfter(page, tags) = f[Len(tags)]
    BY ReadOneByOne
  <2>2. Len(tags) = 0
    BY <1>1
  <2>. QED
    BY <2>1, <2>2
<1>2. <<>> \in Seq(Tag)
  OBVIOUS
<1>. QED
  BY <1>1, <1>2, Zenon

LEMMA AfterAppend ==
    ASSUME NEW page \in Page, NEW tags \in Seq(Tag), NEW tag \in Tag
    PROVE  PageAfter(page, Append(tags, tag)) = Browse(PageAfter(page, tags), tag)
<1>. DEFINE more == Append(tags, tag)
            n == Len(tags)
<1>1. more \in Seq(Tag) /\ Len(more) = n + 1 /\ n \in Nat /\ more[n + 1] = tag
      /\ \A i \in 1 .. n : more[i] = tags[i]
  OBVIOUS
<1>. HIDE DEF more
<1>2. PICK f : /\ f[0] = page
               /\ \A i \in 1 .. n : f[i] = Browse(f[i - 1], tags[i])
               /\ PageAfter(page, tags) = f[n]
  BY ReadOneByOne
<1>3. PICK g : /\ g[0] = page
               /\ \A i \in 1 .. Len(more) : g[i] = Browse(g[i - 1], more[i])
               /\ PageAfter(page, more) = g[Len(more)]
  BY <1>1, ReadOneByOne
<1>. DEFINE P == {i \in Nat : i <= n => f[i] = g[i]}
<1>4. 0 \in P
  BY <1>2, <1>3
<1>5. ASSUME NEW i \in P
      PROVE  i + 1 \in P
  <2>1. i \in Nat
    OBVIOUS
  <2>2. ASSUME i + 1 <= n
        PROVE  f[i + 1] = g[i + 1]
    <3>1. /\ f[i] = g[i] /\ (i + 1) - 1 = i
          /\ i + 1 \in 1 .. n /\ i + 1 \in 1 .. Len(more)
      BY <1>1, <2>1, <2>2
    <3>2. more[i + 1] = tags[i + 1]
      BY <1>1, <3>1
    <3>. QED
      BY <1>2, <1>3, <3>1, <3>2
  <2>. QED
    BY <2>1, <2>2
<1>6. P = Nat
  <2>. HIDE DEF P
  <2>1. P \in SUBSET Nat
    BY DEF P
  <2>. QED
    BY <1>4, <1>5, <2>1, NatInduct
<1>7. f[n] = g[n]
  BY <1>1, <1>6
<1>8. n + 1 \in 1 .. Len(more) /\ (n + 1) - 1 = n
  BY <1>1
<1>9. g[n + 1] = Browse(g[n], tag)
  BY <1>1, <1>3, <1>8
<1>. QED
  BY <1>1, <1>2, <1>3, <1>7, <1>9 DEF more

LEMMA AfterOne ==
    ASSUME NEW page \in Page, NEW tag \in Tag
    PROVE  PageAfter(page, <<tag>>) = Browse(page, tag)
<1>1. Append(<<>>, tag) = <<tag>> /\ <<>> \in Seq(Tag)
  OBVIOUS
<1>. QED
  BY <1>1, AfterAppend, AfterNone

LEMMA AfterConcat ==
    ASSUME NEW page \in Page, NEW s \in Seq(Tag), NEW tags \in Seq(Tag)
    PROVE  PageAfter(page, s \o tags) = PageAfter(PageAfter(page, s), tags)
<1>. DEFINE Has(t) == PageAfter(page, s \o t) = PageAfter(PageAfter(page, s), t)
            P == {n \in Nat : \A t \in Seq(Tag) : Len(t) = n => Has(t)}
<1>0. PageAfter(page, s) \in Page
  BY AfterType
<1>1. 0 \in P
  <2>1. ASSUME NEW t \in Seq(Tag), Len(t) = 0
        PROVE  Has(t)
    <3>1. t = <<>> /\ s \o <<>> = s
      BY <2>1
    <3>. QED
      BY <1>0, <3>1, AfterNone
  <2>. HIDE DEF Has
  <2>. QED
    BY <2>1
<1>2. ASSUME NEW n \in P
      PROVE  n + 1 \in P
  <2>1. n \in Nat /\ \A t \in Seq(Tag) : Len(t) = n => Has(t)
    OBVIOUS
  <2>2. ASSUME NEW t \in Seq(Tag), Len(t) = n + 1
        PROVE  Has(t)
    <3>1. PICK u \in Seq(Tag), e \in Tag : t = Append(u, e) /\ Len(t) = Len(u) + 1
      <4>1. t # <<>>
        BY <2>1, <2>2
      <4>. QED
        BY <4>1, FrontAndLast
    <3>2. Len(u) = n
      BY <2>1, <2>2, <3>1
    <3>3. PageAfter(page, s \o u) = PageAfter(PageAfter(page, s), u)
      BY <2>1, <3>2
    <3>4. s \o u \in Seq(Tag) /\ s \o Append(u, e) = Append(s \o u, e)
      BY ConcatAppend
    <3>5. PageAfter(page, s \o t) = Browse(PageAfter(page, s \o u), e)
      <4>1. s \o t = Append(s \o u, e)
        BY <3>1, <3>4
      <4>2. PageAfter(page, Append(s \o u, e)) = Browse(PageAfter(page, s \o u), e)
        BY <3>4, AfterAppend
      <4>. QED
        BY <4>1, <4>2
    <3>6. PageAfter(PageAfter(page, s), t) = Browse(PageAfter(PageAfter(page, s), u), e)
      BY <1>0, <3>1, AfterAppend
    <3>. QED
      BY <3>3, <3>5, <3>6
  <2>. HIDE DEF Has
  <2>. QED
    BY <2>1, <2>2
<1>3. P = Nat
  <2>. HIDE DEF P
  <2>1. P \in SUBSET Nat
    BY DEF P
  <2>. QED
    BY <1>1, <1>2, <2>1, NatInduct
<1>4. Len(tags) \in Nat
  OBVIOUS
<1>5. Has(tags)
  <2>. HIDE DEF Has
  <2>. QED
    BY <1>3, <1>4
<1>. QED
  BY <1>5

-----------------------------------------------------------------------------
(* What tags do to a page: read while st is open, they add these characters *)
(* and leave st2 open, and all that they close was innermost.               *)
PageOf(st, text, nested) == [stack |-> st, text |-> text, nested |-> nested]

Writes(st, tags, new, st2) ==
    /\ st \in Seq(Opened) /\ tags \in Seq(Tag) /\ new \in Seq(Glyph) /\ st2 \in Seq(Opened)
    /\ \A text \in Seq(Glyph), nested \in BOOLEAN :
         PageAfter(PageOf(st, text, nested), tags) = PageOf(st2, text \o new, nested)

LEMMA PageIs ==
    /\ \A page \in Page : page = PageOf(page.stack, page.text, page.nested)
    /\ \A st \in Seq(Opened), text \in Seq(Glyph), nested \in BOOLEAN : PageOf(st, text, nested) \in Page
<1>1. ASSUME NEW page \in Page
      PROVE  page = PageOf(page.stack, page.text, page.nested)
  BY DEF Page, PageOf
<1>2. ASSUME NEW st \in Seq(Opened), NEW text \in Seq(Glyph), NEW nested \in BOOLEAN
      PROVE  PageOf(st, text, nested) \in Page
  BY DEF Page, PageOf
<1>. QED
  BY <1>1, <1>2

LEMMA WritesNone == \A st \in Seq(Opened) : Writes(st, <<>>, <<>>, st)
<1>. TAKE st \in Seq(Opened)
<1>1. <<>> \in Seq(Tag) /\ <<>> \in Seq(Glyph)
  OBVIOUS
<1>2. ASSUME NEW text \in Seq(Glyph), NEW nested \in BOOLEAN
      PROVE  PageAfter(PageOf(st, text, nested), <<>>) = PageOf(st, text \o <<>>, nested)
  <2>1. text \o <<>> = text
    OBVIOUS
  <2>2. PageOf(st, text, nested) \in Page
    BY PageIs
  <2>. QED
    BY <2>1, <2>2, AfterNone
<1>. QED
  BY <1>1, <1>2 DEF Writes

LEMMA GlyphsAssociate ==
    \A a, b, c \in Seq(Glyph) : (a \o b) \o c = a \o (b \o c)
  BY ConcatAssociative

LEMMA GlyphsJoin ==
    \A u \in Seq(Glyph), v \in Seq(Glyph) :
        /\ u \o v \in Seq(Glyph) /\ Len(u \o v) = Len(u) + Len(v)
        /\ Len(u) \in Nat /\ Len(v) \in Nat
        /\ \A i \in 1 .. Len(u) : (u \o v)[i] = u[i]
        /\ \A i \in 1 .. Len(v) : (u \o v)[Len(u) + i] = v[i]
  OBVIOUS

LEMMA WritesConcat ==
    ASSUME NEW st1, NEW s, NEW x, NEW st2, NEW t, NEW y, NEW st3,
           Writes(st1, s, x, st2), Writes(st2, t, y, st3)
    PROVE  Writes(st1, s \o t, x \o y, st3)
<1>1. /\ st1 \in Seq(Opened) /\ s \in Seq(Tag) /\ x \in Seq(Glyph)
      /\ st2 \in Seq(Opened) /\ t \in Seq(Tag) /\ y \in Seq(Glyph) /\ st3 \in Seq(Opened)
  BY DEF Writes
<1>2. s \o t \in Seq(Tag) /\ x \o y \in Seq(Glyph)
  BY <1>1
<1>3. ASSUME NEW text \in Seq(Glyph), NEW nested \in BOOLEAN
      PROVE  PageAfter(PageOf(st1, text, nested), s \o t) = PageOf(st3, text \o (x \o y), nested)
  <2>1. PageOf(st1, text, nested) \in Page
    BY <1>1, PageIs
  <2>2. PageAfter(PageOf(st1, text, nested), s) = PageOf(st2, text \o x, nested)
    BY DEF Writes
  <2>3. text \o x \in Seq(Glyph)
    BY <1>1
  <2>4. PageAfter(PageOf(st2, text \o x, nested), t) = PageOf(st3, (text \o x) \o y, nested)
    BY <2>3 DEF Writes
  <2>5. (text \o x) \o y = text \o (x \o y)
    BY <1>1, GlyphsAssociate
  <2>6. PageAfter(PageOf(st1, text, nested), s \o t)
          = PageAfter(PageAfter(PageOf(st1, text, nested), s), t)
    BY <1>1, <2>1, AfterConcat
  <2>. QED
    BY <2>2, <2>4, <2>5, <2>6
<1>. QED
  BY <1>1, <1>2, <1>3 DEF Writes

(* One tag is enough to look at. *)
LEMMA WritesOne ==
    ASSUME NEW st \in Seq(Opened), NEW tag \in Tag, NEW new \in Seq(Glyph), NEW st2 \in Seq(Opened),
           \A text \in Seq(Glyph), nested \in BOOLEAN :
               Browse(PageOf(st, text, nested), tag) = PageOf(st2, text \o new, nested)
    PROVE  Writes(st, <<tag>>, new, st2)
<1>1. <<tag>> \in Seq(Tag)
  OBVIOUS
<1>2. ASSUME NEW text \in Seq(Glyph), NEW nested \in BOOLEAN
      PROVE  PageAfter(PageOf(st, text, nested), <<tag>>) = PageOf(st2, text \o new, nested)
  <2>1. PageOf(st, text, nested) \in Page
    BY PageIs
  <2>2. PageAfter(PageOf(st, text, nested), <<tag>>) = Browse(PageOf(st, text, nested), tag)
    BY <2>1, AfterOne
  <2>. QED
    BY <2>2
<1>. QED
  BY <1>1, <1>2 DEF Writes

LEMMA WritesOpen ==
    ASSUME NEW st \in Seq(Opened), NEW e \in Strings, NEW x \in Strings
    PROVE  Writes(st, <<Open(e, x)>>, <<>>, Append(st, Top(e, x)))
<1>1. Open(e, x) \in Tag /\ Top(e, x) \in Opened /\ <<>> \in Seq(Glyph)
  BY DEF Open, Top, Tag, Opened
<1>2. Append(st, Top(e, x)) \in Seq(Opened)
  BY <1>1
<1>3. ASSUME NEW text \in Seq(Glyph), NEW nested \in BOOLEAN
      PROVE  Browse(PageOf(st, text, nested), Open(e, x))
               = PageOf(Append(st, Top(e, x)), text \o <<>>, nested)
  <2>1. text \o <<>> = text
    OBVIOUS
  <2>2. Browse(PageOf(st, text, nested), Open(e, x)) = PageOf(Append(st, Top(e, x)), text, nested)
    BY DEF Browse, Open, PageOf, Top
  <2>. QED
    BY <2>1, <2>2
<1>. QED
  BY <1>1, <1>2, <1>3, WritesOne

(* A row of a tile chart ends a line. *)
ClosedText(st, e) == When(e = "block", <<Shown(Newline, st)>>)

LEMMA WritesClose ==
    ASSUME NEW st \in Seq(Opened), NEW e \in Strings, NEW x \in Strings
    PROVE  LET open == Append(st, Top(e, x))
           IN  Writes(open, <<Close(e)>>, ClosedText(open, e), st)
<1>. DEFINE open == Append(st, Top(e, x))
            new  == ClosedText(open, e)
<1>1. Close(e) \in Tag /\ Top(e, x) \in Opened
  BY DEF Close, Top, Tag, Opened, Strings
<1>2. open \in Seq(Opened)
  BY <1>1
<1>3. new \in Seq(Glyph)
  <2>1. Shown(Newline, open) \in Glyph
    BY <1>2, ShownType DEF Newline, Strings
  <2>. HIDE DEF open
  <2>. QED
    BY <2>1 DEF ClosedText, When
<1>4. ASSUME NEW text \in Seq(Glyph), NEW nested \in BOOLEAN
      PROVE  Browse(PageOf(open, text, nested), Close(e)) = PageOf(st, text \o new, nested)
  <2>1. Lastly(open, e) = Len(st) + 1 /\ RemoveAt(open, Len(st) + 1) = st /\ Last(open).of = e
    BY LastlyTop DEF Top
  <2>. HIDE DEF open
  <2>2. Browse(PageOf(open, text, nested), Close(e))
          = [stack |-> st, text |-> text \o new, nested |-> nested]
    BY <2>1 DEF Browse, Close, PageOf, ClosedText
  <2>. QED
    BY <2>2 DEF PageOf
<1>. HIDE DEF open, new
<1>. QED
  BY <1>1, <1>2, <1>3, <1>4, WritesOne DEF open, new

LEMMA Named ==
    /\ "" \in Strings /\ Newline \in Strings /\ " " \in Strings /\ ">" \in Strings
    /\ "a" \in Strings /\ "span" \in Strings /\ "heading" \in Strings /\ "line" \in Strings
    /\ "block" \in Strings /\ "prefix" \in Strings /\ "content" \in Strings
    /\ "chart" \in Strings /\ "table" \in Strings /\ "e1" \in Strings
  BY DEF Strings, Newline

Glyphs(seq, st) == [i \in DOMAIN seq |-> Shown(seq[i], st)]
Told(kind, c)   == [tag |-> kind, of |-> c, at |-> ""]

LEMMA TextAppend ==
    ASSUME NEW s \in Seq(Strings), NEW c \in Strings, NEW st \in Seq(Opened)
    PROVE  /\ Text(s) \in Seq(Tag) /\ Added(s) \in Seq(Tag) /\ Glyphs(s, st) \in Seq(Glyph)
           /\ Text(Append(s, c)) = Append(Text(s), Told("text", c))
           /\ Added(Append(s, c)) = Append(Added(s), Told("added", c))
           /\ Glyphs(Append(s, c), st) = Append(Glyphs(s, st), Shown(c, st))
<1>1. \A d \in Strings : /\ Told("text", d) \in Tag /\ Told("added", d) \in Tag
                         /\ Shown(d, st) \in Glyph
  <2>1. "" \in Strings
    BY Named
  <2>. QED
    BY <2>1, ShownType DEF Tag, Told
<1>. DEFINE T == [d \in Strings |-> Told("text", d)]
            A == [d \in Strings |-> Told("added", d)]
            G == [d \in Strings |-> Shown(d, st)]
<1>2. T \in [Strings -> Tag] /\ A \in [Strings -> Tag] /\ G \in [Strings -> Glyph]
  BY <1>1
<1>3. T[c] = Told("text", c) /\ A[c] = Told("added", c) /\ G[c] = Shown(c, st)
  OBVIOUS
<1>4. \A t \in Seq(Strings) : Text(t) = Mapped(T, t) /\ Added(t) = Mapped(A, t)
                              /\ Glyphs(t, st) = Mapped(G, t)
  <2>. TAKE t \in Seq(Strings)
  <2>1. \A i \in DOMAIN t : t[i] \in Strings
    OBVIOUS
  <2>. QED
    BY <2>1, Zenon DEF Text, Added, Glyphs, Told, Mapped
<1>5. Append(s, c) \in Seq(Strings)
  OBVIOUS
<1>. HIDE DEF T, A, G
<1>a. \A F : Mapped(F, Append(s, c)) = Append(Mapped(F, s), F[c])
  BY MapAppend
<1>b. /\ Mapped(T, s) \in Seq(Tag) /\ Mapped(A, s) \in Seq(Tag) /\ Mapped(G, s) \in Seq(Glyph)
  <2>1. ASSUME NEW R, NEW F \in [Strings -> R]
        PROVE  Mapped(F, s) \in Seq(R)
    BY DEF Mapped
  <2>. QED
    BY <1>2, <2>1
<1>6. Text(s) \in Seq(Tag) /\ Text(Append(s, c)) = Append(Text(s), Told("text", c))
  <2>1. Mapped(T, s) \in Seq(Tag) /\ Mapped(T, Append(s, c)) = Append(Mapped(T, s), T[c])
    BY <1>b, <1>a
  <2>. QED
    BY <1>3, <1>4, <1>5, <2>1
<1>7. Added(s) \in Seq(Tag) /\ Added(Append(s, c)) = Append(Added(s), Told("added", c))
  <2>1. Mapped(A, s) \in Seq(Tag) /\ Mapped(A, Append(s, c)) = Append(Mapped(A, s), A[c])
    BY <1>b, <1>a
  <2>. QED
    BY <1>3, <1>4, <1>5, <2>1
<1>8. Glyphs(s, st) \in Seq(Glyph) /\ Glyphs(Append(s, c), st) = Append(Glyphs(s, st), Shown(c, st))
  <2>1. Mapped(G, s) \in Seq(Glyph) /\ Mapped(G, Append(s, c)) = Append(Mapped(G, s), G[c])
    BY <1>b, <1>a
  <2>. QED
    BY <1>3, <1>4, <1>5, <2>1
<1>. QED
  BY <1>6, <1>7, <1>8

LEMMA WritesText ==
    ASSUME NEW st \in Seq(Opened), NEW s \in Seq(Strings)
    PROVE  Writes(st, Text(s), Glyphs(s, st), st) /\ Writes(st, Added(s), <<>>, st)
<1>. DEFINE Has(t) == Writes(st, Text(t), Glyphs(t, st), st) /\ Writes(st, Added(t), <<>>, st)
            P == {t \in Seq(Strings) : Has(t)}
<1>1. <<>> \in P
  <2>1. Text(<<>>) = <<>> /\ Added(<<>>) = <<>> /\ Glyphs(<<>>, st) = <<>>
    BY DEF Text, Added, Glyphs
  <2>2. <<>> \in Seq(Strings)
    OBVIOUS
  <2>3. Writes(st, <<>>, <<>>, st)
    BY WritesNone
  <2>4. Has(<<>>)
    BY <2>1, <2>3, Zenon
  <2>. HIDE DEF Has
  <2>. QED
    BY <2>2, <2>4
<1>2. ASSUME NEW u \in P, NEW c \in Strings
      PROVE  Append(u, c) \in P
  <2>1. u \in Seq(Strings) /\ Has(u) /\ Append(u, c) \in Seq(Strings)
    <3>. HIDE DEF Has
    <3>. QED
      OBVIOUS
  <2>2. Told("text", c) \in Tag /\ Told("added", c) \in Tag /\ <<Shown(c, st)>> \in Seq(Glyph)
        /\ <<>> \in Seq(Glyph)
    <3>1. "" \in Strings
      BY Named
    <3>2. Told("text", c) \in Tag /\ Told("added", c) \in Tag
      BY <3>1 DEF Tag, Told
    <3>3. Shown(c, st) \in Glyph
      BY ShownType
    <3>. QED
      BY <3>2, <3>3
  <2>3. Writes(st, <<Told("text", c)>>, <<Shown(c, st)>>, st)
    <3>1. ASSUME NEW text \in Seq(Glyph), NEW nested \in BOOLEAN
          PROVE  Browse(PageOf(st, text, nested), Told("text", c))
                   = PageOf(st, text \o <<Shown(c, st)>>, nested)
      <4>1. Append(text, Shown(c, st)) = text \o <<Shown(c, st)>>
        BY ShownType
      <4>2. Browse(PageOf(st, text, nested), Told("text", c))
              = PageOf(st, Append(text, Shown(c, st)), nested)
        BY DEF Browse, PageOf, Told
      <4>. QED
        BY <4>1, <4>2
    <3>. QED
      BY <2>2, <3>1, WritesOne
  <2>4. Writes(st, <<Told("added", c)>>, <<>>, st)
    <3>1. ASSUME NEW text \in Seq(Glyph), NEW nested \in BOOLEAN
          PROVE  Browse(PageOf(st, text, nested), Told("added", c)) = PageOf(st, text \o <<>>, nested)
      <4>1. text \o <<>> = text
        OBVIOUS
      <4>2. Browse(PageOf(st, text, nested), Told("added", c)) = PageOf(st, text, nested)
        BY DEF Browse, PageOf, Told
      <4>. QED
        BY <4>1, <4>2
    <3>. QED
      BY <2>2, <3>1, WritesOne
  <2>5. /\ Text(Append(u, c)) = Text(u) \o <<Told("text", c)>>
        /\ Added(Append(u, c)) = Added(u) \o <<Told("added", c)>>
        /\ Glyphs(Append(u, c), st) = Glyphs(u, st) \o <<Shown(c, st)>>
    <3>1. \A S : \A t \in Seq(S), e \in S : Append(t, e) = t \o <<e>>
      OBVIOUS
    <3>2. Shown(c, st) \in Glyph
      BY ShownType
    <3>. QED
      BY <2>1, <2>2, <3>1, <3>2, TextAppend
  <2>6. Writes(st, Text(u) \o <<Told("text", c)>>, Glyphs(u, st) \o <<Shown(c, st)>>, st)
    BY <2>1, <2>3, WritesConcat
  <2>7. Writes(st, Added(u) \o <<Told("added", c)>>, <<>> \o <<>>, st)
    BY <2>1, <2>4, WritesConcat
  <2>8. <<>> \o <<>> = <<>>
    OBVIOUS
  <2>9. Has(Append(u, c))
    BY <2>5, <2>6, <2>7, <2>8
  <2>. HIDE DEF Has
  <2>. QED
    BY <2>1, <2>9
<1>3. P = Seq(Strings)
  <2>. HIDE DEF P
  <2>1. P \in SUBSET Seq(Strings)
    BY DEF P
  <2>. QED
    BY <1>1, <1>2, <2>1, SeqInduct
<1>. QED
  BY <1>3

LEMMA TagTypes ==
    \A e \in Strings, x \in Strings :
        Open(e, x) \in Tag /\ Close(e) \in Tag /\ Top(e, x) \in Opened
<1>. TAKE e \in Strings, x \in Strings
<1>1. "" \in Strings
  BY Named
<1>. QED
  BY <1>1 DEF Open, Close, Tag, Top, Opened

(* The link of a line that is all one link ends before the line does. *)
LineIn(st) == Append(Append(st, Top("line", "")), Top("content", ""))

LEMMA WritesCloseLink ==
    ASSUME NEW st \in Seq(Opened), NEW x \in Strings
    PROVE  Writes(LineIn(Append(st, Top("a", x))), <<Close("a")>>, <<>>, LineIn(st))
<1>. DEFINE a == Top("a", x)
            l == Top("line", "")
            d == Top("content", "")
            open == Append(Append(Append(st, a), l), d)
            left == Append(Append(st, l), d)
<1>1. a \in Opened /\ l \in Opened /\ d \in Opened /\ Close("a") \in Tag /\ <<>> \in Seq(Glyph)
  <2>1. "a" \in Strings /\ "line" \in Strings /\ "content" \in Strings /\ "" \in Strings
    BY Named
  <2>2. <<>> \in Seq(Glyph)
    OBVIOUS
  <2>3. a \in Opened /\ l \in Opened /\ d \in Opened /\ Close("a") \in Tag
    BY <2>1, TagTypes
  <2>. QED
    BY <2>2, <2>3
<1>2. Append(st, a) \in Seq(Opened) /\ Append(Append(st, a), l) \in Seq(Opened)
      /\ open \in Seq(Opened) /\ left \in Seq(Opened) /\ Len(st) \in Nat
  <2>. HIDE DEF a, l, d
  <2>. QED
    BY <1>1
<1>3. Lastly(open, "a") = Len(st) + 1
  <2>0. "a" \in Strings /\ "line" \in Strings /\ "content" \in Strings /\ "" \in Strings
    BY Named
  <2>1. Lastly(Append(st, a), "a") = Len(st) + 1
    BY <2>0, LastlyTop
  <2>2. Lastly(Append(Append(st, a), l), "a") = Lastly(Append(st, a), "a")
    <3>1. "line" # "a"
      OBVIOUS
    <3>. DEFINE one == Append(st, a)
    <3>2. one \in Seq(Opened)
      BY <1>2
    <3>. HIDE DEF a, one
    <3>3. Lastly(Append(one, Top("line", "")), "a") = Lastly(one, "a")
      BY <2>0, <3>1, <3>2, LastlyBelow
    <3>. QED
      BY <3>3 DEF one
  <2>. DEFINE two == Append(Append(st, a), l)
  <2>3. Lastly(Append(two, d), "a") = Lastly(two, "a")
    <3>1. two \in Seq(Opened)
      BY <1>2
    <3>. HIDE DEF two
    <3>. QED
      BY <1>1, <2>0, <3>1, LastlyBelow
  <2>. QED
    BY <2>1, <2>2, <2>3
<1>4. RemoveAt(open, Len(st) + 1) = left
  <2>. DEFINE n == Len(st)
  <2>. HIDE DEF a, l, d
  <2>1. SubSeq(open, 1, (n + 1) - 1) = st
    BY <1>1, <1>2
  <2>2. SubSeq(open, (n + 1) + 1, Len(open)) = <<l, d>>
    <3>1. n \in Nat /\ Len(open) = n + 3 /\ open[n + 2] = l /\ open[n + 3] = d
      BY <1>1, <1>2
    <3>2. open \in Seq(Opened)
      BY <1>2
    <3>. HIDE DEF n, open
    <3>3. Len(SubSeq(open, (n + 1) + 1, Len(open))) = 2
      BY <3>1, <3>2
    <3>4. /\ SubSeq(open, (n + 1) + 1, Len(open))[1] = l
          /\ SubSeq(open, (n + 1) + 1, Len(open))[2] = d
          /\ SubSeq(open, (n + 1) + 1, Len(open)) \in Seq(Opened)
      BY <3>1, <3>2
    <3>. DEFINE top  == SubSeq(open, (n + 1) + 1, Len(open))
                pair == <<l, d>>
    <3>5. pair \in Seq(Opened) /\ Len(pair) = 2 /\ pair[1] = l /\ pair[2] = d
      BY <1>1
    <3>6. top \in Seq(Opened) /\ Len(top) = 2 /\ top[1] = l /\ top[2] = d
      BY <3>3, <3>4
    <3>. HIDE DEF top, pair
    <3>7. \A i \in 1 .. Len(top) : top[i] = pair[i]
      BY <3>5, <3>6
    <3>8. top = pair
      BY <3>5, <3>6, <3>7, SeqEqual
    <3>. QED
      BY <3>8 DEF top, pair
  <2>3. st \o <<l, d>> = left
    BY <1>1, <1>2
  <2>. QED
    BY <2>1, <2>2, <2>3 DEF RemoveAt
<1>5. Last(open).of = "content"
  <2>1. Last(open) = d
    <3>. HIDE DEF a, l, d
    <3>. QED
      BY <1>1, <1>2 DEF Last
  <2>2. d.of = "content"
    BY DEF Top
  <2>. HIDE DEF open, d
  <2>. QED
    BY <2>1, <2>2
<1>6. ASSUME NEW text \in Seq(Glyph), NEW nested \in BOOLEAN
      PROVE  Browse(PageOf(open, text, nested), Close("a")) = PageOf(left, text \o <<>>, nested)
  <2>. HIDE DEF open, left
  <2>2. Browse(PageOf(open, text, nested), Close("a"))
          = [stack |-> left, text |-> text \o <<>>, nested |-> nested]
    BY <1>3, <1>4, <1>5 DEF Browse, Close, PageOf, When
  <2>. QED
    BY <2>2 DEF PageOf
<1>. HIDE DEF open, left
<1>7. Writes(open, <<Close("a")>>, <<>>, left)
  BY <1>1, <1>2, <1>6, WritesOne
<1>. QED
  BY <1>7 DEF open, left, LineIn

-----------------------------------------------------------------------------
(* The slices of a line. *)

LEMMA WritesThen ==
    ASSUME NEW st1, NEW s, NEW st2, NEW t, NEW y, NEW st3,
           Writes(st1, s, <<>>, st2), Writes(st2, t, y, st3)
    PROVE  Writes(st1, s \o t, y, st3)
<1>1. Writes(st1, s \o t, <<>> \o y, st3)
  BY WritesConcat
<1>2. y \in Seq(Glyph)
  BY DEF Writes
<1>3. <<>> \o y = y
  BY <1>2
<1>. QED
  BY <1>1, <1>3

LEMMA WritesThenNone ==
    ASSUME NEW st1, NEW s, NEW x, NEW st2, NEW t, NEW st3,
           Writes(st1, s, x, st2), Writes(st2, t, <<>>, st3)
    PROVE  Writes(st1, s \o t, x, st3)
<1>1. Writes(st1, s \o t, x \o <<>>, st3)
  BY WritesConcat
<1>2. x \in Seq(Glyph)
  BY DEF Writes
<1>3. x \o <<>> = x
  BY <1>2
<1>. QED
  BY <1>1, <1>3

LEMMA WritesMute ==
    ASSUME NEW st \in Seq(Opened), NEW e \in Strings, e # "block", NEW x \in Strings
    PROVE  Writes(Append(st, Top(e, x)), <<Close(e)>>, <<>>, st)
<1>. DEFINE open == Append(st, Top(e, x))
<1>1. Writes(open, <<Close(e)>>, ClosedText(open, e), st)
  BY WritesClose
<1>2. ClosedText(open, e) = <<>>
  BY DEF ClosedText, When
<1>. HIDE DEF open
<1>3. Writes(open, <<Close(e)>>, <<>>, st)
  BY <1>1, <1>2
<1>. QED
  BY <1>3 DEF open

(* What a character is written in. *)
Linked(st, link, linked) == IF linked /\ link # NoLink THEN Append(st, Top("a", link)) ELSE st
Dressing(st, seg, linked) == Append(Linked(st, seg.link, linked), Top("span", seg.style))

LEMMA EscapeStrings == \A e \in Styles \cup Links \cup {NoLink} : e \in Strings
  BY EscapeAssumption DEF Escapes, Strings

LEMMA WritesLink ==
    ASSUME NEW st \in Seq(Opened), NEW link \in Links \cup {NoLink}, NEW linked \in BOOLEAN
    PROVE  LET a == linked /\ link # NoLink
           IN  /\ Linked(st, link, linked) \in Seq(Opened)
               /\ Writes(st, When(a, <<Open("a", link)>>), <<>>, Linked(st, link, linked))
               /\ Writes(Linked(st, link, linked), When(a, <<Close("a")>>), <<>>, st)
<1>1. link \in Strings /\ "a" \in Strings /\ "a" # "block"
  BY EscapeStrings, Named
<1>2. Writes(st, <<>>, <<>>, st)
  BY WritesNone
<1>3. Writes(st, <<Open("a", link)>>, <<>>, Append(st, Top("a", link)))
  BY <1>1, WritesOpen
<1>4. Writes(Append(st, Top("a", link)), <<Close("a")>>, <<>>, st)
  BY <1>1, WritesMute
<1>5. Append(st, Top("a", link)) \in Seq(Opened)
  BY <1>3 DEF Writes
<1>6. CASE linked /\ link # NoLink
  BY <1>3, <1>4, <1>5, <1>6 DEF When, Linked
<1>7. CASE ~(linked /\ link # NoLink)
  BY <1>2, <1>7 DEF When, Linked
<1>. QED
  BY <1>6, <1>7

Segment == [text : Seq(Strings), style : Styles, link : Links \cup {NoLink}]

LEMMA WritesDress ==
    ASSUME NEW st \in Seq(Opened), NEW style \in Styles, NEW link \in Links \cup {NoLink},
           NEW seg, seg.style = style, seg.link = link, NEW text \in Seq(Strings), NEW linked \in BOOLEAN
    PROVE  /\ Writes(st, Dress(seg, text, linked), Glyphs(text, Dressing(st, seg, linked)), st)
           /\ Dressing(st, seg, linked) \in Seq(Opened)
<1>. DEFINE a   == linked /\ link # NoLink
            in  == Linked(st, link, linked)
            all == Append(in, Top("span", style))
<1>1. style \in Strings /\ "span" \in Strings /\ "span" # "block"
  BY EscapeStrings, Named
<1>2. /\ in \in Seq(Opened)
      /\ Writes(st, When(a, <<Open("a", link)>>), <<>>, in)
      /\ Writes(in, When(a, <<Close("a")>>), <<>>, st)
  BY WritesLink
<1>. HIDE DEF in
<1>3. Writes(in, <<Open("span", style)>>, <<>>, all) /\ Writes(all, <<Close("span")>>, <<>>, in)
  BY <1>1, <1>2, WritesOpen, WritesMute
<1>4. all \in Seq(Opened)
  BY <1>3 DEF Writes
<1>. HIDE DEF all
<1>5. Writes(all, Text(text), Glyphs(text, all), all)
  BY <1>4, WritesText
<1>. DEFINE t1 == When(a, <<Open("a", link)>>) \o <<Open("span", style)>>
            t2 == t1 \o Text(text)
            t3 == t2 \o <<Close("span")>>
            t4 == t3 \o When(a, <<Close("a")>>)
<1>6. Writes(st, t1, <<>>, all)
  BY <1>2, <1>3, WritesThen
<1>7. Writes(st, t2, Glyphs(text, all), all)
  <2>. HIDE DEF t1
  <2>. QED
    BY <1>5, <1>6, WritesThen
<1>8. Writes(st, t3, Glyphs(text, all), in)
  <2>. HIDE DEF t2
  <2>. QED
    BY <1>3, <1>7, WritesThenNone
<1>9. Writes(st, t4, Glyphs(text, all), st)
  <2>. HIDE DEF t3, a
  <2>. QED
    BY <1>2, <1>8, WritesThenNone
<1>10. Dress(seg, text, linked) = t4
  BY DEF Dress
<1>11. Dressing(st, seg, linked) = all
  BY DEF Dressing, all, in
<1>. HIDE DEF t4
<1>. QED
  BY <1>4, <1>9, <1>10, <1>11

Char == [c : Strings, style : Styles, link : Links \cup {NoLink}]

(* The characters of segments, with the style and the link of each, *)
HeldIn(seg)  == [j \in DOMAIN seg.text |-> [c |-> seg.text[j], style |-> seg.style, link |-> seg.link]]
Held(segs)   == FlattenSeq([i \in DOMAIN segs |-> HeldIn(segs[i])])
TextOf(segs) == FlattenSeq([i \in DOMAIN segs |-> segs[i].text])
(* and what a browser makes of them. *)
ShownAs(st, item, linked)   == Shown(item.c, Dressing(st, item, linked))
ShownAll(st, items, linked) == [k \in DOMAIN items |-> ShownAs(st, items[k], linked)]

LEMMA HeldInIs ==
    ASSUME NEW seg \in Segment
    PROVE  /\ seg.text \in Seq(Strings) /\ seg.style \in Styles /\ seg.link \in Links \cup {NoLink}
           /\ HeldIn(seg) \in Seq(Char) /\ Len(HeldIn(seg)) = Len(seg.text)
           /\ \A j \in 1 .. Len(seg.text) : /\ HeldIn(seg)[j].c = seg.text[j]
                                            /\ HeldIn(seg)[j].style = seg.style
                                            /\ HeldIn(seg)[j].link = seg.link
<1>1. seg.text \in Seq(Strings) /\ seg.style \in Styles /\ seg.link \in Links \cup {NoLink}
  BY DEF Segment
<1>2. \A j \in 1 .. Len(seg.text) :
         [c |-> seg.text[j], style |-> seg.style, link |-> seg.link] \in Char
  BY <1>1 DEF Char
<1>3. HeldIn(seg) \in Seq(Char) /\ Len(HeldIn(seg)) = Len(seg.text)
  BY <1>1, <1>2 DEF HeldIn
<1>4. \A j \in 1 .. Len(seg.text) :
         HeldIn(seg)[j] = [c |-> seg.text[j], style |-> seg.style, link |-> seg.link]
  BY <1>1 DEF HeldIn
<1>5. ASSUME NEW j \in 1 .. Len(seg.text)
      PROVE  /\ HeldIn(seg)[j].c = seg.text[j] /\ HeldIn(seg)[j].style = seg.style
             /\ HeldIn(seg)[j].link = seg.link
  BY <1>1 DEF HeldIn
<1>. QED
  BY <1>1, <1>3, <1>5

LEMMA TextOfAppend ==
    /\ TextOf(<<>>) = <<>> /\ Held(<<>>) = <<>>
    /\ \A segs \in Seq(Segment), seg \in Segment :
         /\ TextOf(segs) \in Seq(Strings) /\ Held(segs) \in Seq(Char)
         /\ TextOf(Append(segs, seg)) = TextOf(segs) \o seg.text
         /\ Held(Append(segs, seg)) = Held(segs) \o HeldIn(seg)
<1>. DEFINE T == [s \in Segment |-> s.text]
            H == [s \in Segment |-> HeldIn(s)]
<1>1. T \in [Segment -> Seq(Strings)] /\ H \in [Segment -> Seq(Char)]
  BY HeldInIs
<1>2. \A segs \in Seq(Segment) : TextOf(segs) = FlattenSeq(Mapped(T, segs))
                                 /\ Held(segs) = FlattenSeq(Mapped(H, segs))
  <2>. TAKE segs \in Seq(Segment)
  <2>1. \A i \in DOMAIN segs : segs[i] \in Segment
    OBVIOUS
  <2>. QED
    BY <2>1, Zenon DEF TextOf, Held, Mapped
<1>3. \A seg \in Segment : T[seg] = seg.text /\ H[seg] = HeldIn(seg)
  OBVIOUS
<1>4. TextOf(<<>>) = <<>> /\ Held(<<>>) = <<>>
  <2>1. [i \in DOMAIN <<>> |-> <<>>[i].text] = <<>> /\ [i \in DOMAIN <<>> |-> HeldIn(<<>>[i])] = <<>>
    OBVIOUS
  <2>. QED
    BY <2>1, FlattenEmpty DEF TextOf, Held
<1>. HIDE DEF T, H
<1>5. ASSUME NEW segs \in Seq(Segment), NEW seg \in Segment
      PROVE  /\ TextOf(segs) \in Seq(Strings) /\ Held(segs) \in Seq(Char)
             /\ TextOf(Append(segs, seg)) = TextOf(segs) \o seg.text
             /\ Held(Append(segs, seg)) = Held(segs) \o HeldIn(seg)
  <2>1. FlatMaps(Segment, Strings, T)
    BY <1>1, FlatMapAppend
  <2>2. FlatMaps(Segment, Char, H)
    BY <1>1, FlatMapAppend
  <2>3. Append(segs, seg) \in Seq(Segment)
    OBVIOUS
  <2>. QED
    BY <1>2, <1>3, <2>1, <2>2, <2>3 DEF FlatMaps
<1>. QED
  BY <1>4, <1>5

LEMMA MaxMinOfTwo ==
    \A a \in Int, b \in Int : Max({a, b}) = Greater(a, b) /\ Min({a, b}) = Lesser(a, b)
<1>. TAKE a \in Int, b \in Int
<1>1. Greater(a, b) \in {a, b} /\ \A m \in {a, b} : m <= Greater(a, b)
  BY DEF Greater
<1>2. Max({a, b}) = Greater(a, b)
  <2>. DEFINE S == {a, b}
  <2>1. S \in SUBSET Int
    OBVIOUS
  <2>. HIDE DEF S
  <2>. QED
    BY <1>1, <2>1, MaxIs DEF S
<1>3. Lesser(a, b) \in {a, b} /\ \A m \in {a, b} : Lesser(a, b) <= m
  BY DEF Lesser
<1>4. \A x \in {a, b} : (\A m \in {a, b} : x <= m) => x = Lesser(a, b)
  BY DEF Lesser
<1>5. Min({a, b}) = Lesser(a, b)
  BY <1>3, <1>4 DEF Min
<1>. QED
  BY <1>2, <1>5

Before(segs, i) == Len(FlattenSeq([j \in 1..(i - 1) |-> segs[j].text]))
SliceText(segs, i, from, to) ==
    SubSeq(segs[i].text, Max({from - Before(segs, i), 0}) + 1,
           Min({to - Before(segs, i), Len(segs[i].text)}))
SliceOf(segs, i, from, to, linked) ==
    When(SliceText(segs, i, from, to) # <<>>, Dress(segs[i], SliceText(segs, i, from, to), linked))

LEMMA SlicesAre ==
    \A h, from, to, linked :
        Slices(h, from, to, linked)
          = FlattenSeq([i \in DOMAIN h.segments |-> SliceOf(h.segments, i, from, to, linked)])
  BY DEF Slices, SliceOf, SliceText, Before

LEMMA BeforeAppend ==
    ASSUME NEW segs \in Seq(Segment), NEW seg \in Segment
    PROVE  /\ \A i \in 1 .. Len(segs) : Before(Append(segs, seg), i) = Before(segs, i)
           /\ Before(Append(segs, seg), Len(segs) + 1) = Len(TextOf(segs))
<1>. DEFINE more == Append(segs, seg)
            n == Len(segs)
<1>1. n \in Nat /\ \A i \in 1 .. n : more[i] = segs[i]
  OBVIOUS
<1>. HIDE DEF more
<1>2. ASSUME NEW i \in 1 .. n
      PROVE  Before(more, i) = Before(segs, i)
  <2>1. \A j \in 1 .. (i - 1) : more[j] = segs[j]
    BY <1>1
  <2>2. [j \in 1 .. (i - 1) |-> more[j].text] = [j \in 1 .. (i - 1) |-> segs[j].text]
    BY <2>1, Zenon
  <2>. QED
    BY <2>2, Zenon DEF Before
<1>3. Before(more, n + 1) = Len(TextOf(segs))
  <2>1. (n + 1) - 1 = n /\ DOMAIN segs = 1 .. n
    BY <1>1
  <2>2. [j \in 1 .. n |-> more[j].text] = [j \in DOMAIN segs |-> segs[j].text]
    BY <1>1, <2>1, Zenon
  <2>. QED
    BY <2>1, <2>2, Zenon DEF Before, TextOf
<1>. QED
  BY <1>2, <1>3 DEF more

PieceOf(segs, seg, from, to) ==
    SubSeq(seg.text, Greater(from - Len(TextOf(segs)), 0) + 1,
           Lesser(to - Len(TextOf(segs)), Len(seg.text)))

LEMMA PieceType ==
    ASSUME NEW segs \in Seq(Segment), NEW seg \in Segment, NEW from \in Nat, NEW to \in Nat
    PROVE  /\ PieceOf(segs, seg, from, to) \in Seq(Strings)
           /\ Len(TextOf(segs)) \in Nat /\ Len(seg.text) \in Nat
           /\ Greater(from - Len(TextOf(segs)), 0) + 1 \in Nat \ {0}
           /\ Lesser(to - Len(TextOf(segs)), Len(seg.text)) \in Int
           /\ Lesser(to - Len(TextOf(segs)), Len(seg.text)) <= Len(seg.text)
<1>1. TextOf(segs) \in Seq(Strings) /\ seg.text \in Seq(Strings)
  BY TextOfAppend, HeldInIs
<1>. DEFINE m == Greater(from - Len(TextOf(segs)), 0) + 1
            n == Lesser(to - Len(TextOf(segs)), Len(seg.text))
<1>2. Len(TextOf(segs)) \in Nat /\ Len(seg.text) \in Nat
  BY <1>1
<1>3. m \in Nat \ {0} /\ n \in Int /\ n <= Len(seg.text)
  BY <1>2 DEF Greater, Lesser
<1>. HIDE DEF m, n
<1>4. SubSeq(seg.text, m, n) \in Seq(Strings)
  BY <1>1, <1>3, PartOf
<1>. QED
  BY <1>2, <1>3, <1>4 DEF PieceOf, m, n

LEMMA SlicesStep ==
    ASSUME NEW segs \in Seq(Segment), NEW seg \in Segment, NEW from \in Nat, NEW to \in Nat,
           NEW linked \in BOOLEAN,
           \A i \in 1 .. Len(segs) : SliceOf(segs, i, from, to, linked) \in Seq(Tag)
    PROVE  LET more  == Append(segs, seg)
               piece == PieceOf(segs, seg, from, to)
               last  == When(piece # <<>>, Dress(seg, piece, linked))
           IN  /\ last \in Seq(Tag)
               /\ \A i \in 1 .. Len(more) : SliceOf(more, i, from, to, linked) \in Seq(Tag)
               /\ \A h, g : h.segments = more /\ g.segments = segs
                    => Slices(h, from, to, linked) = Slices(g, from, to, linked) \o last
<1>. DEFINE more  == Append(segs, seg)
            n     == Len(segs)
            piece == PieceOf(segs, seg, from, to)
            last  == When(piece # <<>>, Dress(seg, piece, linked))
            Of(s, i) == SliceOf(s, i, from, to, linked)
            All(s)   == [i \in DOMAIN s |-> Of(s, i)]
<1>1. /\ n \in Nat /\ Len(more) = n + 1 /\ DOMAIN more = 1 .. n + 1 /\ DOMAIN segs = 1 .. n
      /\ \A i \in 1 .. n : more[i] = segs[i]
      /\ more[n + 1] = seg
  OBVIOUS
<1>2. last \in Seq(Tag)
  <2>1. piece \in Seq(Strings)
    BY PieceType
  <2>2. seg.style \in Styles /\ seg.link \in Links \cup {NoLink} /\ <<>> \in Seq(Opened)
    BY HeldInIs
  <2>. HIDE DEF piece
  <2>3. Writes(<<>>, Dress(seg, piece, linked), Glyphs(piece, Dressing(<<>>, seg, linked)), <<>>)
    BY <2>1, <2>2, WritesDress
  <2>4. Dress(seg, piece, linked) \in Seq(Tag)
    BY <2>3 DEF Writes
  <2>. QED
    BY <2>4 DEF When
<1>3. ASSUME NEW i \in 1 .. n
      PROVE  Of(more, i) = Of(segs, i)
  <2>1. more[i] = segs[i] /\ Before(more, i) = Before(segs, i)
    BY <1>1, BeforeAppend
  <2>. HIDE DEF more
  <2>. QED
    BY <2>1, Zenon DEF SliceOf, SliceText
<1>4. Of(more, n + 1) = last
  <2>1. more[n + 1] = seg /\ Before(more, n + 1) = Len(TextOf(segs))
    BY <1>1, BeforeAppend
  <2>2. Len(TextOf(segs)) \in Nat /\ Len(seg.text) \in Nat
    BY PieceType
  <2>3. /\ Max({from - Len(TextOf(segs)), 0}) = Greater(from - Len(TextOf(segs)), 0)
        /\ Min({to - Len(TextOf(segs)), Len(seg.text)}) = Lesser(to - Len(TextOf(segs)), Len(seg.text))
    <3>1. /\ from - Len(TextOf(segs)) \in Int /\ to - Len(TextOf(segs)) \in Int
          /\ Len(seg.text) \in Int /\ 0 \in Int
      BY <2>2
    <3>. QED
      BY <3>1, MaxMinOfTwo, Zenon
  <2>. HIDE DEF more
  <2>4. SliceText(more, n + 1, from, to) = piece
    BY <2>1, <2>3, Zenon DEF SliceText, PieceOf
  <2>. HIDE DEF piece
  <2>. QED
    BY <2>1, <2>4, Zenon DEF SliceOf
<1>. HIDE DEF Of, more, last
<1>5. \A i \in 1 .. n + 1 : Of(more, i) \in Seq(Tag)
  <2>1. \A i \in 1 .. n : Of(more, i) \in Seq(Tag)
    BY <1>3 DEF Of
  <2>2. \A i \in 1 .. n + 1 : i \in 1 .. n \/ i = n + 1
    BY <1>1
  <2>. QED
    BY <1>2, <1>4, <2>1, <2>2
<1>6. All(more) = Append(All(segs), last)
  <2>. DEFINE R == Seq(Tag)
              x == All(segs)
              y == All(more)
  <2>1. last \in R
    BY <1>2
  <2>2. \A i \in 1 .. n : Of(segs, i) \in R
    BY DEF Of
  <2>3. \A i \in 1 .. n + 1 : Of(more, i) \in R
    BY <1>5
  <2>. HIDE DEF R
  <2>4. x \in Seq(R) /\ Len(x) = n /\ \A i \in 1 .. n : x[i] = Of(segs, i)
    BY <1>1, <2>2
  <2>5. y \in Seq(R) /\ Len(y) = n + 1 /\ \A i \in 1 .. n + 1 : y[i] = Of(more, i)
    BY <1>1, <2>3
  <2>. HIDE DEF x, y
  <2>6. Append(x, last) \in Seq(R) /\ Len(Append(x, last)) = n + 1
    BY <2>1, <2>4
  <2>7. \A i \in 1 .. n + 1 : y[i] = Append(x, last)[i]
    <3>. TAKE i \in 1 .. n + 1
    <3>1. CASE i \in 1 .. n
      <4>1. Append(x, last)[i] = x[i]
        BY <1>1, <2>1, <2>4, <3>1
      <4>. QED
        BY <1>3, <2>4, <2>5, <3>1, <4>1
    <3>2. CASE i = n + 1
      <4>1. Append(x, last)[i] = last
        BY <1>1, <2>1, <2>4, <3>2
      <4>. QED
        BY <1>4, <2>5, <3>2, <4>1
    <3>3. i \in 1 .. n \/ i = n + 1
      BY <1>1
    <3>. QED
      BY <3>1, <3>2, <3>3
  <2>8. y = Append(x, last)
    BY <2>5, <2>6, <2>7, SeqEqual
  <2>. QED
    BY <2>8 DEF x, y
<1>7. ASSUME NEW h, NEW g, h.segments = more, g.segments = segs
      PROVE  Slices(h, from, to, linked) = Slices(g, from, to, linked) \o last
  <2>1. Slices(h, from, to, linked) = FlattenSeq(All(more))
    BY <1>7, SlicesAre, Zenon DEF Of
  <2>2. Slices(g, from, to, linked) = FlattenSeq(All(segs))
    BY <1>7, SlicesAre, Zenon DEF Of
  <2>3. All(segs) \in Seq(Seq(Tag))
    <3>1. \A i \in 1 .. n : Of(segs, i) \in Seq(Tag)
      BY DEF Of
    <3>. DEFINE R == Seq(Tag)
    <3>2. \A i \in 1 .. n : Of(segs, i) \in R
      BY <3>1
    <3>. HIDE DEF R
    <3>3. All(segs) \in Seq(R)
      BY <1>1, <3>2
    <3>. QED
      BY <3>3 DEF R
  <2>. HIDE DEF All
  <2>4. FlattenSeq(Append(All(segs), last)) = FlattenSeq(All(segs)) \o last
    BY <1>2, <2>3, FlattenAppend
  <2>. QED
    BY <1>6, <2>1, <2>2, <2>4
<1>. QED
  BY <1>1, <1>2, <1>5, <1>7 DEF Of, more, last

LEMMA ShownAllIs ==
    ASSUME NEW st \in Seq(Opened), NEW linked \in BOOLEAN, NEW x \in Seq(Char)
    PROVE  /\ ShownAll(st, x, linked) \in Seq(Glyph) /\ Len(ShownAll(st, x, linked)) = Len(x)
           /\ \A k \in 1 .. Len(x) : /\ Dressing(st, x[k], linked) \in Seq(Opened)
                                     /\ ShownAll(st, x, linked)[k] = ShownAs(st, x[k], linked)
<1>1. ASSUME NEW item \in Char
      PROVE  Dressing(st, item, linked) \in Seq(Opened) /\ ShownAs(st, item, linked) \in Glyph
  <2>1. item.c \in Strings /\ item.style \in Styles /\ item.link \in Links \cup {NoLink} /\ <<>> \in Seq(Strings)
    BY DEF Char
  <2>2. Dressing(st, item, linked) \in Seq(Opened)
    BY <2>1, WritesDress
  <2>. QED
    BY <2>1, <2>2, ShownType DEF ShownAs
<1>2. \A k \in 1 .. Len(x) : x[k] \in Char
  OBVIOUS
<1>3. \A k \in 1 .. Len(x) : ShownAs(st, x[k], linked) \in Glyph /\ Dressing(st, x[k], linked) \in Seq(Opened)
  BY <1>1, <1>2
<1>. QED
  BY <1>3 DEF ShownAll

LEMMA ShownAllConcat ==
    ASSUME NEW st \in Seq(Opened), NEW linked \in BOOLEAN, NEW x \in Seq(Char), NEW y \in Seq(Char)
    PROVE  ShownAll(st, x \o y, linked) = ShownAll(st, x, linked) \o ShownAll(st, y, linked)
<1>. DEFINE z == x \o y
            X == ShownAll(st, x, linked)
            Y == ShownAll(st, y, linked)
            Z == ShownAll(st, z, linked)
<1>1. /\ Len(x) \in Nat /\ Len(y) \in Nat /\ z \in Seq(Char) /\ Len(z) = Len(x) + Len(y)
      /\ \A i \in 1 .. Len(x) : z[i] = x[i]
      /\ \A i \in 1 .. Len(y) : z[Len(x) + i] = y[i]
  OBVIOUS
<1>. HIDE DEF z
<1>2. X \in Seq(Glyph) /\ Len(X) = Len(x) /\ \A k \in 1 .. Len(x) : X[k] = ShownAs(st, x[k], linked)
  BY ShownAllIs
<1>3. Y \in Seq(Glyph) /\ Len(Y) = Len(y) /\ \A k \in 1 .. Len(y) : Y[k] = ShownAs(st, y[k], linked)
  BY ShownAllIs
<1>4. Z \in Seq(Glyph) /\ Len(Z) = Len(z) /\ \A k \in 1 .. Len(z) : Z[k] = ShownAs(st, z[k], linked)
  BY <1>1, ShownAllIs
<1>. HIDE DEF X, Y, Z
<1>5. /\ X \o Y \in Seq(Glyph) /\ Len(X \o Y) = Len(z)
      /\ \A k \in 1 .. Len(x) : (X \o Y)[k] = X[k]
      /\ \A k \in 1 .. Len(y) : (X \o Y)[Len(x) + k] = Y[k]
  BY <1>1, <1>2, <1>3
<1>6. ASSUME NEW k \in 1 .. Len(z)
      PROVE  Z[k] = (X \o Y)[k]
  <2>1. CASE k <= Len(x)
    <3>1. k \in 1 .. Len(x)
      BY <1>1, <2>1
    <3>. QED
      BY <1>1, <1>2, <1>4, <1>5, <3>1
  <2>2. CASE k > Len(x)
    <3>. DEFINE j == k - Len(x)
    <3>1. j \in 1 .. Len(y) /\ k = Len(x) + j
      BY <1>1, <2>2
    <3>. HIDE DEF j
    <3>2. z[Len(x) + j] = y[j] /\ (X \o Y)[Len(x) + j] = Y[j] /\ Y[j] = ShownAs(st, y[j], linked)
      BY <1>1, <1>3, <1>5, <3>1
    <3>. QED
      BY <1>4, <3>1, <3>2
  <2>3. k <= Len(x) \/ k > Len(x)
    BY <1>1
  <2>. QED
    BY <2>1, <2>2, <2>3
<1>7. Z = X \o Y
  BY <1>4, <1>5, <1>6, SeqEqual
<1>. QED
  BY <1>7 DEF X, Y, Z, z

LEMMA GlyphsOfPart ==
    ASSUME NEW st \in Seq(Opened), NEW linked \in BOOLEAN, NEW seg \in Segment,
           NEW m \in Nat \ {0}, NEW n \in Int, n <= Len(seg.text)
    PROVE  Glyphs(SubSeq(seg.text, m, n), Dressing(st, seg, linked))
             = ShownAll(st, SubSeq(HeldIn(seg), m, n), linked)
<1>. DEFINE t == SubSeq(seg.text, m, n)
            x == SubSeq(HeldIn(seg), m, n)
            D == Dressing(st, seg, linked)
<1>1. /\ seg.text \in Seq(Strings) /\ HeldIn(seg) \in Seq(Char) /\ Len(HeldIn(seg)) = Len(seg.text)
      /\ \A j \in 1 .. Len(seg.text) : /\ HeldIn(seg)[j].c = seg.text[j]
                                       /\ HeldIn(seg)[j].style = seg.style
                                       /\ HeldIn(seg)[j].link = seg.link
  BY HeldInIs
<1>2. /\ t \in Seq(Strings) /\ (n < m => Len(t) = 0) /\ (n >= m => Len(t) = n - m + 1)
      /\ \A i \in 1 .. (n - m + 1) : t[i] = seg.text[m + i - 1]
  BY <1>1, PartOf
<1>3. /\ x \in Seq(Char) /\ (n < m => Len(x) = 0) /\ (n >= m => Len(x) = n - m + 1)
      /\ \A i \in 1 .. (n - m + 1) : x[i] = HeldIn(seg)[m + i - 1]
  BY <1>1, PartOf
<1>. HIDE DEF t, x
<1>4. Len(t) = Len(x) /\ DOMAIN t = 1 .. Len(t) /\ DOMAIN x = 1 .. Len(x)
  BY <1>2, <1>3
<1>5. ASSUME NEW i \in 1 .. Len(x)
      PROVE  Shown(t[i], D) = ShownAs(st, x[i], linked)
  <2>1. i \in 1 .. (n - m + 1) /\ m + i - 1 \in 1 .. Len(seg.text)
    BY <1>1, <1>3
  <2>2. t[i] = seg.text[m + i - 1] /\ x[i] = HeldIn(seg)[m + i - 1]
    BY <1>2, <1>3, <2>1
  <2>3. x[i].c = t[i] /\ x[i].style = seg.style /\ x[i].link = seg.link
    BY <1>1, <2>1, <2>2
  <2>4. Dressing(st, x[i], linked) = D
    BY <2>3 DEF Dressing
  <2>. HIDE DEF D
  <2>. QED
    BY <2>3, <2>4 DEF ShownAs
<1>. HIDE DEF D
<1>6. [i \in DOMAIN t |-> Shown(t[i], D)] = [i \in DOMAIN x |-> ShownAs(st, x[i], linked)]
  BY <1>4, <1>5, Zenon
<1>. QED
  BY <1>6 DEF Glyphs, ShownAll, t, x, D

Part(s, from, to) == SubSeq(s, from + 1, Lesser(to, Len(s)))

LEMMA HeldLength ==
    ASSUME NEW segs \in Seq(Segment)
    PROVE  /\ Len(Held(segs)) = Len(TextOf(segs))
           /\ \A i \in 1 .. Len(TextOf(segs)) : Held(segs)[i].c = TextOf(segs)[i]
<1>. DEFINE Has(s) == /\ Len(Held(s)) = Len(TextOf(s))
                      /\ \A i \in 1 .. Len(TextOf(s)) : Held(s)[i].c = TextOf(s)[i]
            P == {s \in Seq(Segment) : Has(s)}
<1>1. <<>> \in P
  <2>1. <<>> \in Seq(Segment) /\ Has(<<>>)
    BY TextOfAppend
  <2>. HIDE DEF Has
  <2>. QED
    BY <2>1
<1>2. ASSUME NEW s \in P, NEW seg \in Segment
      PROVE  Append(s, seg) \in P
  <2>1. s \in Seq(Segment) /\ Has(s) /\ Append(s, seg) \in Seq(Segment)
    <3>. HIDE DEF Has
    <3>. QED
      OBVIOUS
  <2>. DEFINE a == TextOf(s)
              A == Held(s)
              b == seg.text
              B == HeldIn(seg)
  <2>2. a \in Seq(Strings) /\ A \in Seq(Char) /\ b \in Seq(Strings) /\ B \in Seq(Char)
        /\ Len(A) = Len(a) /\ Len(B) = Len(b)
    BY <2>1, TextOfAppend, HeldInIs
  <2>3. (\A i \in 1 .. Len(a) : A[i].c = a[i]) /\ (\A i \in 1 .. Len(b) : B[i].c = b[i])
    BY <2>1, HeldInIs
  <2>4. TextOf(Append(s, seg)) = a \o b /\ Held(Append(s, seg)) = A \o B
    BY <2>1, TextOfAppend
  <2>. HIDE DEF a, A, b, B
  <2>5. /\ Len(a) \in Nat /\ Len(b) \in Nat /\ Len(a \o b) = Len(a) + Len(b) /\ Len(A \o B) = Len(a) + Len(b)
        /\ \A i \in 1 .. Len(a) : (a \o b)[i] = a[i] /\ (A \o B)[i] = A[i]
        /\ \A i \in 1 .. Len(b) : (a \o b)[Len(a) + i] = b[i] /\ (A \o B)[Len(a) + i] = B[i]
    <3>1. /\ Len(a) \in Nat /\ Len(b) \in Nat /\ Len(a \o b) = Len(a) + Len(b)
          /\ \A i \in 1 .. Len(a) : (a \o b)[i] = a[i]
          /\ \A i \in 1 .. Len(b) : (a \o b)[Len(a) + i] = b[i]
      BY <2>2
    <3>2. /\ Len(A \o B) = Len(A) + Len(B)
          /\ \A i \in 1 .. Len(A) : (A \o B)[i] = A[i]
          /\ \A i \in 1 .. Len(B) : (A \o B)[Len(A) + i] = B[i]
      <4>1. \A u \in Seq(Char), v \in Seq(Char) :
              /\ Len(u \o v) = Len(u) + Len(v)
              /\ \A i \in 1 .. Len(u) : (u \o v)[i] = u[i]
              /\ \A i \in 1 .. Len(v) : (u \o v)[Len(u) + i] = v[i]
        OBVIOUS
      <4>. QED
        BY <2>2, <4>1, Zenon
    <3>. QED
      BY <2>2, <3>1, <3>2
  <2>6. ASSUME NEW i \in 1 .. Len(a) + Len(b)
        PROVE  (A \o B)[i].c = (a \o b)[i]
    <3>1. CASE i <= Len(a)
      <4>1. i \in 1 .. Len(a)
        BY <2>5, <3>1
      <4>. QED
        BY <2>3, <2>5, <4>1
    <3>2. CASE i > Len(a)
      <4>. DEFINE j == i - Len(a)
      <4>1. j \in 1 .. Len(b) /\ i = Len(a) + j
        BY <2>5, <3>2
      <4>. HIDE DEF j
      <4>2. (a \o b)[Len(a) + j] = b[j] /\ (A \o B)[Len(a) + j] = B[j] /\ B[j].c = b[j]
        BY <2>3, <2>5, <4>1
      <4>. QED
        BY <4>1, <4>2
    <3>3. i <= Len(a) \/ i > Len(a)
      BY <2>5
    <3>. QED
      BY <3>1, <3>2, <3>3
  <2>7. Has(Append(s, seg))
    BY <2>4, <2>5, <2>6
  <2>. HIDE DEF Has
  <2>. QED
    BY <2>1, <2>7
<1>3. P = Seq(Segment)
  <2>. HIDE DEF P
  <2>1. P \in SUBSET Seq(Segment)
    BY DEF P
  <2>. QED
    BY <1>1, <1>2, <2>1, SeqInduct
<1>. QED
  BY <1>3

LEMMA WritesSlices ==
    ASSUME NEW st \in Seq(Opened), NEW linked \in BOOLEAN, NEW from \in Nat, NEW to \in Nat,
           NEW h, h.segments \in Seq(Segment)
    PROVE  Writes(st, Slices(h, from, to, linked),
                  ShownAll(st, Part(Held(h.segments), from, to), linked), st)
<1>. DEFINE New(s) == ShownAll(st, Part(Held(s), from, to), linked)
            Has(s) == /\ \A i \in 1 .. Len(s) : SliceOf(s, i, from, to, linked) \in Seq(Tag)
                      /\ \A g : g.segments = s => Writes(st, Slices(g, from, to, linked), New(s), st)
            P == {s \in Seq(Segment) : Has(s)}
<1>1. <<>> \in P
  <2>1. ASSUME NEW g, g.segments = <<>>
        PROVE  Writes(st, Slices(g, from, to, linked), New(<<>>), st)
    <3>1. Slices(g, from, to, linked) = <<>>
      <4>1. [i \in DOMAIN <<>> |-> SliceOf(<<>>, i, from, to, linked)] = <<>>
        OBVIOUS
      <4>. QED
        BY <2>1, <4>1, SlicesAre, FlattenEmpty
    <3>2. New(<<>>) = <<>>
      <4>0. <<>> \in Seq(Char) /\ Held(<<>>) = <<>> /\ from + 1 > 0 /\ Len(<<>>) = 0
        BY TextOfAppend
      <4>1. Lesser(to, 0) = 0
        BY DEF Lesser
      <4>2. Part(Held(<<>>), from, to) = <<>>
        BY <4>0, <4>1 DEF Part
      <4>3. ShownAll(st, <<>>, linked) = <<>>
        BY DEF ShownAll
      <4>. QED
        BY <4>2, <4>3
    <3>. QED
      BY <3>1, <3>2, WritesNone
  <2>2. \A i \in 1 .. Len(<<>>) : SliceOf(<<>>, i, from, to, linked) \in Seq(Tag)
    OBVIOUS
  <2>3. Has(<<>>) /\ <<>> \in Seq(Segment)
    BY <2>1, <2>2
  <2>. HIDE DEF Has
  <2>. QED
    BY <2>3
<1>2. ASSUME NEW s \in P, NEW seg \in Segment
      PROVE  Append(s, seg) \in P
  <2>1. s \in Seq(Segment) /\ Has(s) /\ Append(s, seg) \in Seq(Segment)
    <3>. HIDE DEF Has
    <3>. QED
      OBVIOUS
  <2>. DEFINE piece == PieceOf(s, seg, from, to)
              last  == When(piece # <<>>, Dress(seg, piece, linked))
  <2>2. /\ \A i \in 1 .. Len(Append(s, seg)) : SliceOf(Append(s, seg), i, from, to, linked) \in Seq(Tag)
        /\ \A k, g : k.segments = Append(s, seg) /\ g.segments = s
              => Slices(k, from, to, linked) = Slices(g, from, to, linked) \o last
    <3>1. \A i \in 1 .. Len(s) : SliceOf(s, i, from, to, linked) \in Seq(Tag)
      BY <2>1
    <3>. QED
      BY <2>1, <3>1, SlicesStep
  <2>. DEFINE m == Greater(from - Len(TextOf(s)), 0) + 1
              n == Lesser(to - Len(TextOf(s)), Len(seg.text))
              y == ShownAll(st, SubSeq(HeldIn(seg), m, n), linked)
  <2>3. /\ piece \in Seq(Strings) /\ m \in Nat \ {0} /\ n \in Int /\ n <= Len(seg.text)
        /\ piece = SubSeq(seg.text, m, n)
    BY <2>1, PieceType DEF PieceOf
  <2>4. seg.style \in Styles /\ seg.link \in Links \cup {NoLink} /\ HeldIn(seg) \in Seq(Char)
        /\ Len(HeldIn(seg)) = Len(seg.text)
    BY HeldInIs
  <2>5. Held(s) \in Seq(Char) /\ Held(Append(s, seg)) = Held(s) \o HeldIn(seg)
        /\ Len(Held(s)) = Len(TextOf(s)) /\ Len(TextOf(s)) \in Nat
    BY <2>1, TextOfAppend, HeldLength, PieceType
  <2>6. Glyphs(piece, Dressing(st, seg, linked)) = y
    <3>. HIDE DEF m, n, piece
    <3>. QED
      BY <2>3, GlyphsOfPart
  <2>7. Writes(st, last, y, st)
    <3>. HIDE DEF piece, y
    <3>1. Writes(st, Dress(seg, piece, linked), y, st)
      BY <2>3, <2>4, <2>6, WritesDress
    <3>2. CASE piece # <<>>
      BY <3>1, <3>2 DEF When
    <3>3. CASE piece = <<>>
      <4>1. y = <<>>
        BY <2>6, <3>3 DEF Glyphs
      <4>. QED
        BY <3>3, <4>1, WritesNone DEF When
    <3>. QED
      BY <3>2, <3>3
  <2>8. New(Append(s, seg)) = New(s) \o y
    <3>. DEFINE A == Held(s)
                B == HeldIn(seg)
    <3>1. SubSeq(A \o B, from + 1, Lesser(to, Len(A \o B)))
            = SubSeq(A, from + 1, Lesser(to, Len(A)))
                \o SubSeq(B, Greater(from - Len(A), 0) + 1, Lesser(to - Len(A), Len(B)))
      <4>1. \A u \in Seq(Char), v \in Seq(Char) :
              SubSeq(u \o v, from + 1, Lesser(to, Len(u \o v)))
                = SubSeq(u, from + 1, Lesser(to, Len(u)))
                    \o SubSeq(v, Greater(from - Len(u), 0) + 1, Lesser(to - Len(u), Len(v)))
        BY PartOfConcat
      <4>2. A \in Seq(Char) /\ B \in Seq(Char)
        BY <2>4, <2>5
      <4>. QED
        BY <4>1, <4>2, Zenon
    <3>2. Part(A \o B, from, to) = Part(A, from, to) \o SubSeq(B, m, n)
      BY <2>4, <2>5, <3>1, Zenon DEF Part
    <3>3. Part(A, from, to) \in Seq(Char)
      <4>1. from + 1 \in Nat \ {0} /\ Lesser(to, Len(A)) \in Int /\ Lesser(to, Len(A)) <= Len(A)
        BY <2>5 DEF Lesser
      <4>. QED
        BY <2>5, <4>1, PartOf DEF Part
    <3>4. SubSeq(B, m, n) \in Seq(Char)
      <4>. HIDE DEF m, n
      <4>. QED
        BY <2>3, <2>4, PartOf
    <3>. HIDE DEF m, n, A, B
    <3>5. ShownAll(st, Part(A, from, to) \o SubSeq(B, m, n), linked)
            = ShownAll(st, Part(A, from, to), linked) \o ShownAll(st, SubSeq(B, m, n), linked)
      BY <3>3, <3>4, ShownAllConcat
    <3>6. Held(Append(s, seg)) = A \o B
      BY <2>5 DEF A, B
    <3>. QED
      BY <3>2, <3>5, <3>6 DEF A, B
  <2>. HIDE DEF last, y, New
  <2>9. ASSUME NEW g, g.segments = Append(s, seg)
        PROVE  Writes(st, Slices(g, from, to, linked), New(Append(s, seg)), st)
    <3>. DEFINE k == [segments |-> s]
    <3>1. k.segments = s
      OBVIOUS
    <3>. HIDE DEF k
    <3>2. Writes(st, Slices(k, from, to, linked), New(s), st)
      BY <2>1, <3>1
    <3>3. Slices(g, from, to, linked) = Slices(k, from, to, linked) \o last
      BY <2>2, <2>9, <3>1
    <3>4. Writes(st, Slices(k, from, to, linked) \o last, New(s) \o y, st)
      BY <2>7, <3>2, WritesConcat
    <3>. QED
      BY <2>8, <3>3, <3>4
  <2>10. Has(Append(s, seg))
    BY <2>2, <2>9
  <2>. HIDE DEF Has
  <2>. QED
    BY <2>1, <2>10
<1>3. P = Seq(Segment)
  <2>. HIDE DEF P
  <2>1. P \in SUBSET Seq(Segment)
    BY DEF P
  <2>. QED
    BY <1>1, <1>2, <2>1, SeqInduct
<1>4. h.segments \in P
  BY <1>3
<1>5. Has(h.segments)
  <2>. HIDE DEF Has
  <2>. QED
    BY <1>4
<1>. QED
  BY <1>5

-----------------------------------------------------------------------------
(* What is in the page fits what was written: the same character, in the    *)
(* chart's box or not, in its style and with its link, but for line breaks, *)
(* headings and markers.                                                    *)

LinkShown(link) == IF link = NoLink THEN "" ELSE link
Within(st)      == {st[i].of : i \in DOMAIN st}

FitsItem(glyph, item, box) ==
    /\ glyph.c = item.c
    /\ "chart" \in glyph.within <=> box
    /\ \/ item.c = Newline \/ "heading" \in glyph.within
       \/ /\ glyph.style = item.style
          /\ \/ glyph.link = LinkShown(item.link)
             \/ "prefix" \in glyph.within /\ item.link = NoLink

Fits(glyphs, items, box) ==
    /\ glyphs \in Seq(Glyph) /\ items \in Seq(Char) /\ Len(glyphs) = Len(items)
    /\ \A i \in 1 .. Len(items) : FitsItem(glyphs[i], items[i], box)

LEMMA WithinAppend ==
    ASSUME NEW st \in Seq(Opened), NEW e \in Strings, NEW x \in Strings
    PROVE  Within(Append(st, Top(e, x))) = Within(st) \cup {e}
<1>. DEFINE more == Append(st, Top(e, x))
            n    == Len(st)
<1>1. /\ n \in Nat /\ DOMAIN more = 1 .. n + 1 /\ DOMAIN st = 1 .. n /\ more[n + 1].of = e
      /\ \A i \in 1 .. n : more[i] = st[i]
  BY DEF Top
<1>. HIDE DEF more
<1>2. {more[i].of : i \in 1 .. n + 1} = {st[i].of : i \in 1 .. n} \cup {e}
  BY <1>1
<1>. QED
  BY <1>1, <1>2 DEF Within, more

LEMMA FitsConcat ==
    ASSUME NEW x, NEW a, NEW y, NEW b, NEW box, Fits(x, a, box), Fits(y, b, box)
    PROVE  Fits(x \o y, a \o b, box)
<1>1. /\ x \in Seq(Glyph) /\ a \in Seq(Char) /\ Len(x) = Len(a)
      /\ \A i \in 1 .. Len(a) : FitsItem(x[i], a[i], box)
  BY DEF Fits
<1>2. /\ y \in Seq(Glyph) /\ b \in Seq(Char) /\ Len(y) = Len(b)
      /\ \A i \in 1 .. Len(b) : FitsItem(y[i], b[i], box)
  BY DEF Fits
<1>3. /\ a \o b \in Seq(Char) /\ Len(a \o b) = Len(a) + Len(b) /\ Len(a) \in Nat /\ Len(b) \in Nat
      /\ \A i \in 1 .. Len(a) : (a \o b)[i] = a[i]
      /\ \A i \in 1 .. Len(b) : (a \o b)[Len(a) + i] = b[i]
  BY <1>1, <1>2
<1>4. /\ x \o y \in Seq(Glyph) /\ Len(x \o y) = Len(x) + Len(y)
      /\ \A i \in 1 .. Len(x) : (x \o y)[i] = x[i]
      /\ \A i \in 1 .. Len(y) : (x \o y)[Len(x) + i] = y[i]
  BY <1>1, <1>2, GlyphsJoin, Zenon
<1>5. ASSUME NEW i \in 1 .. Len(a) + Len(b)
      PROVE  FitsItem((x \o y)[i], (a \o b)[i], box)
  <2>1. CASE i <= Len(a)
    <3>1. i \in 1 .. Len(a)
      BY <1>3, <2>1
    <3>2. (x \o y)[i] = x[i] /\ (a \o b)[i] = a[i]
      BY <1>1, <1>3, <1>4, <3>1
    <3>. QED
      BY <1>1, <3>1, <3>2
  <2>2. CASE i > Len(a)
    <3>. DEFINE j == i - Len(a)
    <3>1. j \in 1 .. Len(b) /\ i = Len(a) + j
      BY <1>3, <2>2
    <3>. HIDE DEF j
    <3>2. (x \o y)[i] = y[j] /\ (a \o b)[i] = b[j]
      BY <1>1, <1>2, <1>3, <1>4, <3>1
    <3>. QED
      BY <1>2, <3>1, <3>2
  <2>3. i <= Len(a) \/ i > Len(a)
    BY <1>3
  <2>. QED
    BY <2>1, <2>2, <2>3
<1>. QED
  BY <1>1, <1>2, <1>3, <1>4, <1>5 DEF Fits

LEMMA FitsNone == \A box : Fits(<<>>, <<>>, box)
  BY DEF Fits

LEMMA DressingIs ==
    ASSUME NEW st \in Seq(Opened), NEW linked \in BOOLEAN, NEW item \in Char
    PROVE  LET glyph == ShownAs(st, item, linked)
           IN  /\ glyph.c = item.c /\ glyph.style = item.style
               /\ glyph.link = IF linked /\ item.link # NoLink THEN item.link ELSE Innermost(st, "a")
               /\ \A e \in {"chart", "prefix", "heading"} : e \in glyph.within <=> e \in Within(st)
<1>. DEFINE in == Linked(st, item.link, linked)
            D  == Append(in, Top("span", item.style))
<1>1. item.c \in Strings /\ item.style \in Styles /\ item.link \in Links \cup {NoLink}
  BY DEF Char
<1>2. item.style \in Strings /\ item.link \in Strings /\ "span" \in Strings /\ "a" \in Strings
      /\ "a" # "span"
  BY <1>1, EscapeStrings, Named
<1>3. in \in Seq(Opened)
  BY <1>1, WritesLink
<1>4. /\ Innermost(in, "a") = IF linked /\ item.link # NoLink THEN item.link ELSE Innermost(st, "a")
      /\ \A e \in {"chart", "prefix", "heading"} : e \in Within(in) <=> e \in Within(st)
  <2>1. CASE linked /\ item.link # NoLink
    <3>1. in = Append(st, Top("a", item.link))
      BY <2>1 DEF Linked
    <3>2. Innermost(in, "a") = item.link
      BY <1>2, <3>1, LastlyTop
    <3>3. Within(in) = Within(st) \cup {"a"}
      BY <1>2, <3>1, WithinAppend
    <3>. HIDE DEF in
    <3>. QED
      BY <2>1, <3>2, <3>3
  <2>2. CASE ~(linked /\ item.link # NoLink)
    <3>1. in = st
      BY <2>2 DEF Linked
    <3>. HIDE DEF in
    <3>. QED
      BY <2>2, <3>1
  <2>. QED
    BY <2>1, <2>2
<1>5. Dressing(st, item, linked) = D
  BY DEF Dressing
<1>. HIDE DEF in
<1>6. Innermost(D, "span") = item.style /\ Innermost(D, "a") = Innermost(in, "a")
      /\ Within(D) = Within(in) \cup {"span"}
  BY <1>2, <1>3, LastlyTop, LastlyBelow, WithinAppend
<1>. HIDE DEF D
<1>7. ShownAs(st, item, linked)
        = [c |-> item.c, style |-> Innermost(D, "span"), link |-> Innermost(D, "a"), within |-> Within(D)]
  BY <1>5 DEF ShownAs, Shown, Within
<1>8. \A e \in {"chart", "prefix", "heading"} : e \in Within(D) <=> e \in Within(st)
  BY <1>4, <1>6
<1>. DEFINE glyph == ShownAs(st, item, linked)
<1>9. glyph.c = item.c /\ glyph.style = Innermost(D, "span") /\ glyph.link = Innermost(D, "a")
      /\ glyph.within = Within(D)
  BY <1>7
<1>. HIDE DEF glyph
<1>10. /\ glyph.c = item.c /\ glyph.style = item.style
       /\ glyph.link = IF linked /\ item.link # NoLink THEN item.link ELSE Innermost(st, "a")
  BY <1>4, <1>6, <1>9, Zenon
<1>11. \A e \in {"chart", "prefix", "heading"} : e \in glyph.within <=> e \in Within(st)
  BY <1>8, <1>9, Zenon
<1>. QED
  BY <1>10, <1>11, Zenon DEF glyph

LEMMA ShownFits ==
    ASSUME NEW st \in Seq(Opened), NEW linked \in BOOLEAN, NEW items \in Seq(Char), NEW box,
           "chart" \in Within(st) <=> box,
           \A i \in 1 .. Len(items) :
               \/ linked /\ items[i].link # NoLink
               \/ Innermost(st, "a") = LinkShown(items[i].link)
               \/ "prefix" \in Within(st) /\ items[i].link = NoLink
    PROVE  Fits(ShownAll(st, items, linked), items, box)
<1>. DEFINE G == ShownAll(st, items, linked)
<1>1. G \in Seq(Glyph) /\ Len(G) = Len(items)
      /\ \A k \in 1 .. Len(items) : G[k] = ShownAs(st, items[k], linked)
  BY ShownAllIs
<1>2. ASSUME NEW i \in 1 .. Len(items)
      PROVE  FitsItem(ShownAs(st, items[i], linked), items[i], box)
  <2>1. items[i] \in Char
    OBVIOUS
  <2>. DEFINE item  == items[i]
              glyph == ShownAs(st, item, linked)
  <2>2. \/ linked /\ item.link # NoLink
        \/ Innermost(st, "a") = LinkShown(item.link)
        \/ "prefix" \in Within(st) /\ item.link = NoLink
    OBVIOUS
  <2>. HIDE DEF item
  <2>3. /\ glyph.c = item.c /\ glyph.style = item.style
        /\ glyph.link = IF linked /\ item.link # NoLink THEN item.link ELSE Innermost(st, "a")
        /\ \A e \in {"chart", "prefix", "heading"} : e \in glyph.within <=> e \in Within(st)
    BY <2>1, DressingIs DEF item
  <2>4. ("chart" \in glyph.within <=> "chart" \in Within(st))
        /\ ("prefix" \in glyph.within <=> "prefix" \in Within(st))
    BY <2>3
  <2>. HIDE DEF glyph
  <2>. SUFFICES FitsItem(glyph, item, box)
    BY DEF glyph, item
  <2>5. CASE linked /\ item.link # NoLink
    <3>1. glyph.link = LinkShown(item.link)
      BY <2>3, <2>5 DEF LinkShown
    <3>. QED
      BY <2>3, <2>4, <3>1 DEF FitsItem
  <2>6. CASE ~(linked /\ item.link # NoLink)
    <3>1. glyph.link = Innermost(st, "a")
      BY <2>3, <2>6
    <3>2. CASE Innermost(st, "a") = LinkShown(item.link)
      BY <2>3, <2>4, <3>1, <3>2 DEF FitsItem
    <3>3. CASE "prefix" \in Within(st) /\ item.link = NoLink
      BY <2>3, <2>4, <3>3 DEF FitsItem
    <3>. QED
      BY <2>2, <2>6, <3>2, <3>3
  <2>. QED
    BY <2>5, <2>6
<1>. HIDE DEF G
<1>3. \A i \in 1 .. Len(items) : FitsItem(G[i], items[i], box)
  BY <1>1, <1>2
<1>. QED
  BY <1>1, <1>3 DEF Fits, G

LEMMA GlyphsAre ==
    ASSUME NEW st \in Seq(Opened), NEW s \in Seq(Strings)
    PROVE  /\ Glyphs(s, st) \in Seq(Glyph) /\ Len(Glyphs(s, st)) = Len(s)
           /\ \A i \in 1 .. Len(s) : Glyphs(s, st)[i] = Shown(s[i], st)
<1>1. \A i \in 1 .. Len(s) : Shown(s[i], st) \in Glyph
  <2>1. \A i \in 1 .. Len(s) : s[i] \in Strings
    OBVIOUS
  <2>. QED
    BY <2>1, ShownType
<1>. QED
  BY <1>1 DEF Glyphs

(* Within a heading, and for line breaks, only the character counts. *)
LEMMA GlyphsFit ==
    ASSUME NEW st \in Seq(Opened), NEW s \in Seq(Strings), NEW items \in Seq(Char), NEW box,
           Len(items) = Len(s), \A i \in 1 .. Len(s) : items[i].c = s[i],
           "chart" \in Within(st) <=> box,
           "heading" \in Within(st) \/ \A i \in 1 .. Len(s) : s[i] = Newline
    PROVE  Fits(Glyphs(s, st), items, box)
<1>. DEFINE G == Glyphs(s, st)
<1>1. G \in Seq(Glyph) /\ Len(G) = Len(s) /\ \A i \in 1 .. Len(s) : G[i] = Shown(s[i], st)
  BY GlyphsAre
<1>. HIDE DEF G
<1>2. \A i \in 1 .. Len(s) : G[i].c = s[i] /\ G[i].within = Within(st)
  <2>1. \A c : Shown(c, st).c = c /\ Shown(c, st).within = Within(st)
    BY DEF Shown, Within
  <2>. QED
    BY <1>1, <2>1
<1>3. \A i \in 1 .. Len(items) : FitsItem(G[i], items[i], box)
  BY <1>2 DEF FitsItem
<1>. QED
  BY <1>1, <1>3 DEF Fits, G

LineBreak == [c |-> Newline, style |-> Plain, link |-> NoLink]

LEMMA LineBreakFits ==
    ASSUME NEW st \in Seq(Opened), NEW box, "chart" \in Within(st) <=> box
    PROVE  /\ Writes(st, Text(<<Newline>>), Glyphs(<<Newline>>, st), st)
           /\ Fits(Glyphs(<<Newline>>, st), <<LineBreak>>, box)
           /\ LineBreak \in Char /\ <<LineBreak>> \in Seq(Char)
<1>1. Newline \in Strings
  BY Named
<1>2. <<Newline>> \in Seq(Strings) /\ Len(<<Newline>>) = 1 /\ <<Newline>>[1] = Newline
  BY <1>1
<1>3. LineBreak \in Char
  BY <1>1, StyleAssumption DEF LineBreak, Char
<1>. DEFINE x == <<LineBreak>>
            y == <<Newline>>
<1>4. x \in Seq(Char) /\ Len(x) = 1 /\ x[1] = LineBreak
  BY <1>3
<1>5. LineBreak.c = Newline
  BY DEF LineBreak
<1>. HIDE DEF x, y
<1>6. Fits(Glyphs(y, st), x, box)
  <2>1. \A i \in 1 .. Len(y) : i = 1
    BY <1>2 DEF y
  <2>2. \A i \in 1 .. Len(y) : x[i].c = y[i] /\ y[i] = Newline
    BY <1>2, <1>4, <1>5, <2>1 DEF y
  <2>. QED
    BY <1>2, <1>4, <2>2, GlyphsFit DEF y
<1>7. Writes(st, Text(y), Glyphs(y, st), st)
  BY <1>2, WritesText DEF y
<1>. QED
  BY <1>3, <1>4, <1>6, <1>7 DEF x, y

-----------------------------------------------------------------------------
(* Where the prefix of a line ends. *)

LEMMA MinOf ==
    ASSUME NEW S \in SUBSET Nat, S # {}
    PROVE  Min(S) \in S /\ \A m \in S : Min(S) <= m
<1>1. PICK n \in S : \A m \in S : n <= m
  BY LeastOf
<1>. QED
  BY <1>1 DEF Min

LEMMA SkipIs ==
    ASSUME NEW s \in Seq(Strings), NEW i \in 0 .. Len(s)
    PROVE  /\ SkipBlanks(s, i) \in i .. Len(s)
           /\ \A k \in 1 .. Len(s) : i < k /\ k <= SkipBlanks(s, i) => s[k] = " "
<1>. DEFINE S == {k \in i .. Len(s) : k = Len(s) \/ s[k + 1] # " "}
<1>1. Len(s) \in S /\ S \in SUBSET Nat /\ i \in Nat /\ Len(s) \in Nat
  <2>. DEFINE n == Len(s)
  <2>1. n \in Nat /\ i \in Nat /\ n \in i .. n
    OBVIOUS
  <2>2. i .. n \in SUBSET Nat
    BY <2>1
  <2>. HIDE DEF n
  <2>3. n \in {k \in i .. n : k = n \/ s[k + 1] # " "}
    BY <2>1
  <2>4. {k \in i .. n : k = n \/ s[k + 1] # " "} \in SUBSET Nat
    BY <2>2
  <2>. QED
    BY <2>1, <2>3, <2>4 DEF n
<1>2. Min(S) \in S /\ \A m \in S : Min(S) <= m
  <2>. HIDE DEF S
  <2>. QED
    BY <1>1, MinOf
<1>3. SkipBlanks(s, i) = Min(S)
  BY DEF SkipBlanks
<1>. DEFINE t == SkipBlanks(s, i)
<1>4. t \in i .. Len(s) /\ \A m \in S : t <= m
  BY <1>2, <1>3
<1>5. ASSUME NEW k \in 1 .. Len(s), i < k, k <= t
      PROVE  s[k] = " "
  <2>1. k - 1 \notin S /\ k - 1 \in i .. Len(s) /\ k - 1 # Len(s) /\ (k - 1) + 1 = k
    <3>. HIDE DEF S, t
    <3>. QED
      BY <1>1, <1>4, <1>5
  <2>. QED
    BY <2>1
<1>. QED
  BY <1>4, <1>5

NoText == ""

LEMMA AtIs ==
    ASSUME NEW s \in Seq(Strings), NEW i \in Nat, At(s, i + 1) # NoText
    PROVE  i + 1 <= Len(s) /\ At(s, i + 1) = s[i + 1]
<1>0. DOMAIN s = 1 .. Len(s) /\ Len(s) \in Nat
  OBVIOUS
<1>1. CASE i + 1 \in DOMAIN s
  <2>1. i + 1 <= Len(s)
    BY <1>0, <1>1
  <2>2. At(s, i + 1) = s[i + 1]
    BY <1>1, Zenon DEF At
  <2>. QED
    BY <2>1, <2>2
<1>2. CASE i + 1 \notin DOMAIN s
  <2>1. At(s, i + 1) = NoText
    BY <1>2, Zenon DEF At, NoText
  <2>. QED
    BY <2>1
<1>. QED
  BY <1>1, <1>2

(* The end of the quote markers from each place on: there is such a function. *)
EndAt(s, f, i) == IF QuoteAt(s, SkipBlanks(s, i)) THEN f[SkipBlanks(s, i) + 2] ELSE i

LEMMA EndStep ==
    ASSUME NEW s \in Seq(Strings), NEW i \in 0 .. Len(s), QuoteAt(s, SkipBlanks(s, i))
    PROVE  SkipBlanks(s, i) + 2 \in (i + 2) .. Len(s)
<1>. DEFINE t == SkipBlanks(s, i)
<1>1. t \in i .. Len(s) /\ Len(s) \in Nat /\ i \in Nat
  <2>1. t \in i .. Len(s)
    BY SkipIs
  <2>. HIDE DEF t
  <2>. QED
    BY <2>1
<1>2. At(s, t + 2) = " "
  BY DEF QuoteAt
<1>. HIDE DEF t
<1>3. t + 2 = (t + 1) + 1 /\ t + 1 \in Nat
  BY <1>1
<1>4. (t + 1) + 1 <= Len(s)
  <2>1. " " # NoText
    BY Zenon DEF NoText
  <2>. QED
    BY <1>2, <1>3, <2>1, AtIs
<1>. QED
  BY <1>1, <1>3, <1>4 DEF t

LEMMA EndsExist ==
    ASSUME NEW s \in Seq(Strings)
    PROVE  \E f \in [0 .. Len(s) -> 0 .. Len(s)] :
               /\ \A i \in 0 .. Len(s) : f[i] = EndAt(s, f, i)
               /\ QuotesEnd(s) = f[0]
<1>. DEFINE N == Len(s)
            Ends(f, n) == \A i \in (N - n) .. N : f[i] = EndAt(s, f, i)
            P == {n \in Nat : n <= N => \E f \in [0 .. N -> 0 .. N] : Ends(f, n)}
<1>0. N \in Nat
  OBVIOUS
<1>a. \A i \in 0 .. N : /\ SkipBlanks(s, i) \in i .. N
                        /\ QuoteAt(s, SkipBlanks(s, i)) => SkipBlanks(s, i) + 2 \in (i + 2) .. N
  BY SkipIs, EndStep
<1>. HIDE DEF N
<1>1. ASSUME NEW n \in Nat, n <= N, NEW f \in [0 .. N -> 0 .. N],
             \A i \in (N - n + 1) .. N : f[i] = EndAt(s, f, i)
      PROVE  \E g \in [0 .. N -> 0 .. N] : Ends(g, n)
  <2>. DEFINE p == N - n
              g == [i \in 0 .. N |-> IF i = p THEN EndAt(s, f, p) ELSE f[i]]
  <2>1. p \in 0 .. N
    BY <1>0, <1>1
  <2>2. EndAt(s, f, p) \in 0 .. N
    <3>1. QuoteAt(s, SkipBlanks(s, p)) => SkipBlanks(s, p) + 2 \in 0 .. N
      BY <1>0, <1>a, <2>1
    <3>. HIDE DEF p
    <3>. QED
      BY <2>1, <3>1 DEF EndAt
  <2>. HIDE DEF p
  <2>3. g \in [0 .. N -> 0 .. N] /\ g[p] = EndAt(s, f, p) /\ \A i \in 0 .. N : i # p => g[i] = f[i]
    BY <2>1, <2>2
  <2>. HIDE DEF g
  <2>4. ASSUME NEW i \in p .. N
        PROVE  g[i] = EndAt(s, g, i)
    <3>1. i \in 0 .. N /\ p \in Nat
      BY <1>0, <2>1
    <3>. DEFINE t == SkipBlanks(s, i)
    <3>2. QuoteAt(s, t) => t + 2 \in 0 .. N /\ t + 2 # p
      <4>1. QuoteAt(s, t) => t + 2 \in (i + 2) .. N
        BY <1>a, <3>1
      <4>2. t \in i .. N /\ i >= p /\ i \in Nat
        BY <1>a, <3>1
      <4>. HIDE DEF t
      <4>3. t + 2 > p /\ t \in Nat
        BY <1>0, <2>1, <3>1, <4>2
      <4>. QED
        BY <1>0, <2>1, <3>1, <4>1, <4>3
    <3>3. EndAt(s, g, i) = EndAt(s, f, i)
      <4>1. QuoteAt(s, t) => g[t + 2] = f[t + 2]
        BY <2>3, <3>2
      <4>. QED
        BY <4>1, Zenon DEF EndAt
    <3>4. CASE i = p
      BY <2>3, <3>3, <3>4
    <3>5. CASE i # p
      <4>1. i \in (N - n + 1) .. N
        BY <1>0, <2>1, <3>5 DEF p
      <4>. QED
        BY <1>1, <2>3, <3>1, <3>3, <3>5, <4>1
    <3>. QED
      BY <3>4, <3>5
  <2>. QED
    BY <2>3, <2>4 DEF p
<1>2. 0 \in P
  <2>. DEFINE f == [i \in 0 .. N |-> 0]
  <2>1. f \in [0 .. N -> 0 .. N]
    BY <1>0
  <2>2. \A i \in (N - 0 + 1) .. N : f[i] = EndAt(s, f, i)
    BY <1>0
  <2>. HIDE DEF f
  <2>3. 0 \in Nat /\ 0 <= N
    BY <1>0
  <2>. HIDE DEF Ends
  <2>. QED
    BY <1>1, <2>1, <2>2, <2>3
<1>3. ASSUME NEW n \in P
      PROVE  n + 1 \in P
  <2>1. n \in Nat
    OBVIOUS
  <2>2. ASSUME n + 1 <= N
        PROVE  \E g \in [0 .. N -> 0 .. N] : Ends(g, n + 1)
    <3>1. n <= N /\ N - (n + 1) + 1 = N - n
      BY <1>0, <2>1, <2>2
    <3>2. PICK f \in [0 .. N -> 0 .. N] : Ends(f, n)
      BY <3>1
    <3>3. \A i \in (N - (n + 1) + 1) .. N : f[i] = EndAt(s, f, i)
      BY <3>1, <3>2
    <3>4. n + 1 \in Nat
      BY <2>1
    <3>. HIDE DEF Ends
    <3>. QED
      BY <1>1, <2>2, <3>3, <3>4
  <2>. HIDE DEF Ends
  <2>. QED
    BY <2>1, <2>2
<1>4. P = Nat
  <2>. HIDE DEF P
  <2>1. P \in SUBSET Nat
    BY DEF P
  <2>. QED
    BY <1>2, <1>3, <2>1, NatInduct
<1>5. PICK f \in [0 .. N -> 0 .. N] : \A i \in 0 .. N : f[i] = EndAt(s, f, i)
  <2>0. N \in P
    <3>. HIDE DEF P
    <3>. QED
      BY <1>0, <1>4
  <2>a. N <= N => \E f \in [0 .. N -> 0 .. N] : Ends(f, N)
    <3>. HIDE DEF Ends
    <3>. QED
      BY <2>0, Zenon
  <2>1. (\E f \in [0 .. N -> 0 .. N] : Ends(f, N)) /\ N - N = 0
    <3>1. N <= N /\ N - N = 0
      BY <1>0
    <3>. HIDE DEF Ends
    <3>. QED
      BY <2>a, <3>1
  <2>2. PICK f \in [0 .. N -> 0 .. N] : Ends(f, N)
    BY <2>1
  <2>. QED
    BY <2>1, <2>2
<1>. DEFINE Rule(e) == [i \in 0 .. N |-> EndAt(s, e, i)]
            end == CHOOSE e : e = Rule(e)
<1>6. f = Rule(f)
  <2>1. f = [i \in 0 .. N |-> f[i]]
    OBVIOUS
  <2>2. [i \in 0 .. N |-> f[i]] = [i \in 0 .. N |-> EndAt(s, f, i)]
    BY <1>5, Zenon
  <2>. QED
    BY <2>1, <2>2, Zenon
<1>7. end = Rule(end)
  <2>. HIDE DEF Rule
  <2>. QED
    BY <1>6, Zenon
<1>8. \A i \in 0 .. N : end[i] = EndAt(s, end, i)
  <2>. HIDE DEF end
  <2>1. \A e : e = Rule(e) => \A i \in 0 .. N : e[i] = EndAt(s, e, i)
    BY Zenon
  <2>. QED
    BY <1>7, <2>1, Zenon
<1>9. QuotesEnd(s) = end[0]
  BY Zenon DEF QuotesEnd, EndAt, N
<1>. HIDE DEF end, Rule
<1>. DEFINE Q == {n \in Nat : n <= N => \A i \in (N - n) .. N : end[i] = f[i]}
<1>10. ASSUME NEW n \in Nat, n <= N, \A i \in (N - n + 1) .. N : end[i] = f[i]
       PROVE  \A i \in (N - n) .. N : end[i] = f[i]
  <2>. DEFINE p == N - n
              t == SkipBlanks(s, p)
  <2>1. p \in 0 .. N
    BY <1>0, <1>10
  <2>2. QuoteAt(s, t) => t + 2 \in (p + 1) .. N
    <3>1. QuoteAt(s, t) => t + 2 \in (p + 2) .. N
      BY <1>a, <2>1
    <3>. HIDE DEF t
    <3>. QED
      BY <1>0, <2>1, <3>1
  <2>3. EndAt(s, end, p) = EndAt(s, f, p)
    <3>1. QuoteAt(s, t) => end[t + 2] = f[t + 2]
      BY <1>0, <1>10, <2>2
    <3>. QED
      BY <3>1, Zenon DEF EndAt
  <2>4. end[p] = f[p]
    <3>. HIDE DEF p
    <3>. QED
      BY <1>5, <1>8, <2>1, <2>3
  <2>5. \A i \in p .. N : i = p \/ i \in (N - n + 1) .. N
    BY <1>0, <1>10
  <2>. QED
    BY <1>10, <2>4, <2>5
<1>11. 0 \in Q
  <2>1. \A i \in (N - 0 + 1) .. N : end[i] = f[i]
    BY <1>0
  <2>2. 0 \in Nat /\ 0 <= N
    BY <1>0
  <2>. QED
    BY <1>10, <2>1, <2>2
<1>12. ASSUME NEW n \in Q
       PROVE  n + 1 \in Q
  <2>1. n \in Nat /\ n + 1 \in Nat
    OBVIOUS
  <2>2. ASSUME n + 1 <= N
        PROVE  \A i \in (N - (n + 1)) .. N : end[i] = f[i]
    <3>1. n <= N /\ N - (n + 1) + 1 = N - n
      BY <1>0, <2>1, <2>2
    <3>2. \A i \in (N - (n + 1) + 1) .. N : end[i] = f[i]
      BY <3>1
    <3>. QED
      BY <1>10, <2>1, <2>2, <3>2
  <2>. QED
    BY <2>1, <2>2
<1>13. Q = Nat
  <2>. HIDE DEF Q
  <2>1. Q \in SUBSET Nat
    BY DEF Q
  <2>. QED
    BY <1>11, <1>12, <2>1, NatInduct
<1>14. end[0] = f[0]
  <2>0. N \in Q
    <3>. HIDE DEF Q
    <3>. QED
      BY <1>0, <1>13
  <2>1. N <= N /\ 0 \in (N - N) .. N /\ (N <= N => \A i \in (N - N) .. N : end[i] = f[i])
    BY <1>0, <2>0
  <2>. QED
    BY <2>1
<1>. QED
  BY <1>5, <1>9, <1>14 DEF N

LEMMA AtBlank ==
    ASSUME NEW s \in Seq(Strings), NEW i \in Nat, At(s, i + 1) \in {" ", ">", "-", "[", "]", "."}
    PROVE  i + 1 <= Len(s) /\ s[i + 1] = At(s, i + 1)
<1>1. At(s, i + 1) # NoText
  BY Zenon DEF NoText
<1>. QED
  BY <1>1, AtIs

LEMMA MarkerIs ==
    ASSUME NEW s \in Seq(Strings), NEW i \in 0 .. Len(s)
    PROVE  MarkerLength(s, i) \in Nat /\ i + MarkerLength(s, i) <= Len(s)
<1>. DEFINE S == {n \in 0..(Len(s) - i) : \A k \in 1..n : s[i + k] \in Digit}
            digits == Max(S)
<1>1. i \in Nat /\ Len(s) \in Nat /\ i <= Len(s)
  OBVIOUS
<1>2. digits \in 0 .. (Len(s) - i)
  <2>1. Len(s) - i \in Nat /\ S \in SUBSET (0 .. (Len(s) - i)) /\ 0 \in S
    BY <1>1
  <2>. HIDE DEF S
  <2>2. Max(S) \in S
    BY <2>1, MaxOf
  <2>. QED
    BY <2>1, <2>2
<1>. HIDE DEF digits
<1>3. CASE At(s, i + 1) = "-" /\ At(s, i + 2) = " "
  <2>1. (i + 1) + 1 = i + 2 /\ i + 1 \in Nat
    BY <1>1
  <2>2. (i + 1) + 1 <= Len(s)
    BY <1>3, <2>1, AtBlank
  <2>3. MarkerLength(s, i) = 2
    BY <1>3 DEF MarkerLength
  <2>. QED
    BY <2>1, <2>2, <2>3
<1>4. CASE /\ ~(At(s, i + 1) = "-" /\ At(s, i + 2) = " ")
           /\ digits > 0 /\ At(s, i + digits + 1) = "." /\ At(s, i + digits + 2) = " "
  <2>1. (i + digits + 1) + 1 = i + digits + 2 /\ i + digits + 1 \in Nat
    BY <1>1, <1>2
  <2>2. (i + digits + 1) + 1 <= Len(s)
    BY <1>4, <2>1, AtBlank
  <2>3. MarkerLength(s, i) = digits + 2
    BY <1>4 DEF MarkerLength, digits
  <2>. QED
    BY <1>1, <1>2, <2>1, <2>2, <2>3
<1>5. CASE /\ ~(At(s, i + 1) = "-" /\ At(s, i + 2) = " ")
           /\ ~(digits > 0 /\ At(s, i + digits + 1) = "." /\ At(s, i + digits + 2) = " ")
  <2>1. MarkerLength(s, i) = 0
    BY <1>5 DEF MarkerLength, digits
  <2>. QED
    BY <1>1, <2>1
<1>. QED
  BY <1>3, <1>4, <1>5

LEMMA TaskIs ==
    ASSUME NEW s \in Seq(Strings), NEW i \in 0 .. Len(s)
    PROVE  TaskLength(s, i) \in Nat /\ i + TaskLength(s, i) <= Len(s)
<1>1. CASE At(s, i + 4) = " "
  <2>1. (i + 3) + 1 = i + 4 /\ i + 3 \in Nat
    OBVIOUS
  <2>2. (i + 3) + 1 <= Len(s)
    BY <1>1, <2>1, AtBlank
  <2>3. TaskLength(s, i) \in {0, 4}
    BY DEF TaskLength
  <2>. QED
    BY <2>1, <2>2, <2>3
<1>2. CASE At(s, i + 4) # " "
  <2>1. TaskLength(s, i) = 0
    BY <1>2 DEF TaskLength
  <2>. QED
    BY <2>1
<1>. QED
  BY <1>1, <1>2

LEMMA QuotesEndIs ==
    ASSUME NEW s \in Seq(Strings)
    PROVE  QuotesEnd(s) \in 0 .. Len(s)
<1>1. PICK f \in [0 .. Len(s) -> 0 .. Len(s)] : QuotesEnd(s) = f[0]
  BY EndsExist
<1>2. 0 \in 0 .. Len(s)
  OBVIOUS
<1>. QED
  BY <1>1, <1>2

LEMMA PrefixIs ==
    ASSUME NEW s \in Seq(Strings), NEW chart
    PROVE  /\ Prefix(s, chart) \in 0 .. Len(s) /\ Prefix(s, chart) \in Nat
           /\ SkipBlanks(s, Prefix(s, chart)) \in Prefix(s, chart) .. Len(s)
<1>. DEFINE start  == SkipBlanks(s, QuotesEnd(s))
            marked == start + MarkerLength(s, start)
<1>1. QuotesEnd(s) \in 0 .. Len(s) /\ Len(s) \in Nat
  BY QuotesEndIs
<1>2. start \in 0 .. Len(s)
  <2>1. start \in QuotesEnd(s) .. Len(s)
    BY <1>1, SkipIs
  <2>. HIDE DEF start
  <2>. QED
    BY <1>1, <2>1
<1>. HIDE DEF start
<1>3. marked \in 0 .. Len(s) /\ marked \in Nat
  BY <1>1, <1>2, MarkerIs
<1>. HIDE DEF marked
<1>4. marked + TaskLength(s, marked) \in 0 .. Len(s)
  BY <1>1, <1>3, TaskIs
<1>5. PrefixLength(s) \in {marked + TaskLength(s, marked), 0, start}
  BY DEF PrefixLength, marked, start
<1>6. Prefix(s, chart) \in {QuotesEnd(s), marked + TaskLength(s, marked), 0, start}
  BY <1>5 DEF Prefix
<1>7. Prefix(s, chart) \in 0 .. Len(s)
  BY <1>1, <1>2, <1>4, <1>6
<1>8. SkipBlanks(s, Prefix(s, chart)) \in Prefix(s, chart) .. Len(s)
  BY <1>7, SkipIs
<1>. QED
  BY <1>1, <1>7, <1>8

LEMMA HeadingIs ==
    ASSUME NEW s \in Seq(Strings), IsHeading(s)
    PROVE  s # <<>> /\ s[1] = "#" /\ Hashes(s) \in 1 .. Len(s)
<1>. DEFINE S == {n \in 0..Min({6, Len(s)}) : \A k \in 1..n : s[k] = "#"}
            m == Min({6, Len(s)})
<1>1. Len(s) \in Nat
  OBVIOUS
<1>2. m \in 0 .. Len(s)
  <2>1. 6 \in Int /\ Len(s) \in Int
    BY <1>1
  <2>2. m = Lesser(6, Len(s))
    BY <2>1, MaxMinOfTwo
  <2>. HIDE DEF m
  <2>. QED
    BY <1>1, <2>2 DEF Lesser
<1>3. Hashes(s) \in S
  <2>1. S \in SUBSET (0 .. m) /\ 0 \in S
    <3>. HIDE DEF m
    <3>1. 0 \in 0 .. m
      BY <1>2
    <3>. QED
      BY <3>1 DEF m
  <2>. HIDE DEF S, m
  <2>2. m \in Nat
    BY <1>1, <1>2
  <2>3. Max(S) \in S
    BY <2>1, <2>2, MaxOf
  <2>. QED
    BY <2>3 DEF Hashes, S
<1>4. Hashes(s) \in 0 .. m /\ \A k \in 1 .. Hashes(s) : s[k] = "#"
  BY <1>3 DEF m
<1>. HIDE DEF m
<1>5. Hashes(s) > 0
  BY DEF IsHeading
<1>6. Hashes(s) \in 1 .. Len(s)
  BY <1>1, <1>2, <1>4, <1>5
<1>7. 1 \in 1 .. Hashes(s) /\ Len(s) # 0
  BY <1>1, <1>6
<1>8. s # <<>>
  BY <1>7
<1>. QED
  BY <1>4, <1>6, <1>7, <1>8

(* The segment that the character after the first p is in. *)
Holds(segs, i, p) == Before(segs, i + 1) > p /\ Before(segs, i) <= p

LEMMA HoldsAppend ==
    ASSUME NEW s \in Seq(Segment), NEW seg \in Segment
    PROVE  /\ \A i \in 1 .. Len(s) + 1 : Before(Append(s, seg), i) = Before(s, i)
           /\ Before(Append(s, seg), Len(s) + 2) = Len(TextOf(s)) + Len(seg.text)
           /\ Before(s, Len(s) + 1) = Len(TextOf(s))
           /\ Len(TextOf(s)) \in Nat /\ Len(seg.text) \in Nat
           /\ Len(TextOf(Append(s, seg))) = Len(TextOf(s)) + Len(seg.text)
<1>. DEFINE more == Append(s, seg)
            n    == Len(s)
<1>1. TextOf(s) \in Seq(Strings) /\ seg.text \in Seq(Strings) /\ TextOf(more) = TextOf(s) \o seg.text
      /\ more \in Seq(Segment) /\ Len(more) = n + 1 /\ n \in Nat
  BY TextOfAppend, HeldInIs
<1>2. Len(TextOf(s)) \in Nat /\ Len(seg.text) \in Nat /\ Len(TextOf(more)) = Len(TextOf(s)) + Len(seg.text)
  BY <1>1
<1>3. ASSUME NEW r \in Seq(Segment)
      PROVE  Before(r, Len(r) + 1) = Len(TextOf(r))
  <2>1. (Len(r) + 1) - 1 = Len(r) /\ DOMAIN r = 1 .. Len(r)
    OBVIOUS
  <2>. QED
    BY <2>1, Zenon DEF Before, TextOf
<1>4. Before(s, n + 1) = Len(TextOf(s)) /\ Before(more, n + 2) = Len(TextOf(more))
  <2>1. (n + 1) + 1 = n + 2
    BY <1>1
  <2>. HIDE DEF more
  <2>. QED
    BY <1>1, <1>3, <2>1
<1>5. /\ \A i \in 1 .. n : Before(more, i) = Before(s, i)
      /\ Before(more, n + 1) = Before(s, n + 1)
  BY <1>4, BeforeAppend
<1>6. \A i \in 1 .. n + 1 : i \in 1 .. n \/ i = n + 1
  BY <1>1
<1>. HIDE DEF more
<1>7. \A i \in 1 .. n + 1 : Before(more, i) = Before(s, i)
  BY <1>5, <1>6
<1>. QED
  BY <1>2, <1>4, <1>7 DEF more

LEMMA ContentIs ==
    ASSUME NEW segs \in Seq(Segment)
    PROVE  /\ \A i \in 1 .. Len(segs) + 1 : Before(segs, i) \in Nat /\ Before(segs, i) <= Len(TextOf(segs))
           /\ \A p \in Nat : p < Len(TextOf(segs)) => \E i \in 1 .. Len(segs) : Holds(segs, i, p)
           /\ \A p \in Nat, i \in 1 .. Len(segs) :
                p < Len(TextOf(segs)) /\ Holds(segs, i, p) =>
                  Held(segs)[p + 1].style = segs[i].style /\ Held(segs)[p + 1].link = segs[i].link
<1>. DEFINE Bounded(s) == \A i \in 1 .. Len(s) + 1 : Before(s, i) \in Nat /\ Before(s, i) <= Len(TextOf(s))
            Found(s)   == \A p \in Nat : p < Len(TextOf(s)) => \E i \in 1 .. Len(s) : Holds(s, i, p)
            Styled(s)  == \A p \in Nat, i \in 1 .. Len(s) :
                            p < Len(TextOf(s)) /\ Holds(s, i, p) =>
                              Held(s)[p + 1].style = s[i].style /\ Held(s)[p + 1].link = s[i].link
            Has(s) == Bounded(s) /\ Found(s) /\ Styled(s)
            P == {s \in Seq(Segment) : Has(s)}
<1>1. <<>> \in P
  <2>1. TextOf(<<>>) = <<>> /\ Len(<<>>) = 0 /\ <<>> \in Seq(Segment)
    BY TextOfAppend
  <2>2. Before(<<>>, 1) = 0
    <3>1. 1 - 1 = 0 /\ [j \in 1 .. 0 |-> <<>>[j].text] = <<>>
      OBVIOUS
    <3>2. [j \in 1 .. (1 - 1) |-> <<>>[j].text] = <<>>
      BY <3>1
    <3>. QED
      BY <3>2, <2>1, FlattenEmpty DEF Before
  <2>3. Bounded(<<>>)
    <3>1. \A i \in 1 .. Len(<<>>) + 1 : i = 1
      BY <2>1
    <3>. QED
      BY <2>1, <2>2, <3>1
  <2>4. Found(<<>>) /\ Styled(<<>>)
    BY <2>1
  <2>. HIDE DEF Bounded, Found, Styled
  <2>. QED
    BY <2>1, <2>3, <2>4
<1>2. ASSUME NEW s \in P, NEW seg \in Segment
      PROVE  Append(s, seg) \in P
  <2>1. s \in Seq(Segment) /\ Bounded(s) /\ Found(s) /\ Styled(s) /\ Append(s, seg) \in Seq(Segment)
    <3>. HIDE DEF Bounded, Found, Styled
    <3>. QED
      OBVIOUS
  <2>. DEFINE more == Append(s, seg)
              n == Len(s)
              N == Len(TextOf(s))
              L == Len(seg.text)
  <2>2. /\ \A i \in 1 .. n + 1 : Before(more, i) = Before(s, i)
        /\ Before(more, n + 2) = N + L /\ Before(s, n + 1) = N /\ N \in Nat /\ L \in Nat
        /\ Len(TextOf(more)) = N + L
    BY <2>1, HoldsAppend
  <2>3. /\ n \in Nat /\ Len(more) = n + 1 /\ \A i \in 1 .. n : more[i] = s[i]
        /\ more[n + 1] = seg
    BY <2>1
  <2>4. /\ Len(Held(s)) = N /\ Len(HeldIn(seg)) = L /\ Held(more) = Held(s) \o HeldIn(seg)
        /\ Held(s) \in Seq(Char) /\ HeldIn(seg) \in Seq(Char)
        /\ \A j \in 1 .. L : HeldIn(seg)[j].style = seg.style /\ HeldIn(seg)[j].link = seg.link
    BY <2>1, HeldLength, TextOfAppend, HeldInIs
  <2>5. /\ \A i \in 1 .. N : Held(more)[i] = Held(s)[i]
        /\ \A i \in 1 .. L : Held(more)[N + i] = HeldIn(seg)[i]
    <3>1. \A u \in Seq(Char), v \in Seq(Char) :
            /\ \A i \in 1 .. Len(u) : (u \o v)[i] = u[i]
            /\ \A i \in 1 .. Len(v) : (u \o v)[Len(u) + i] = v[i]
      OBVIOUS
    <3>. HIDE DEF more, N, L
    <3>. QED
      BY <2>4, <3>1
  <2>. HIDE DEF more, n, N, L
  <2>6. \A i \in 1 .. n + 1 : Before(s, i) \in Nat /\ Before(s, i) <= N
    BY <2>1 DEF n, N
  <2>7. Bounded(more)
    <3>1. \A i \in 1 .. Len(more) + 1 : i \in 1 .. n + 1 \/ i = n + 2
      BY <2>3
    <3>2. N + L \in Nat /\ N <= N + L
      BY <2>2
    <3>3. ASSUME NEW i \in 1 .. n + 1
          PROVE  Before(more, i) \in Nat /\ Before(more, i) <= N + L
      BY <2>2, <2>6
    <3>. QED
      BY <2>2, <3>1, <3>2, <3>3
  <2>8. /\ \A i \in 1 .. n, p \in Nat : Holds(more, i, p) <=> Holds(s, i, p)
        /\ \A p \in Nat : Holds(more, n + 1, p) <=> N <= p /\ p < N + L
    <3>1. ASSUME NEW i \in 1 .. n, NEW p \in Nat
          PROVE  Holds(more, i, p) <=> Holds(s, i, p)
      <4>1. i \in 1 .. n + 1 /\ i + 1 \in 1 .. n + 1
        BY <2>3
      <4>. QED
        BY <2>2, <4>1 DEF Holds
    <3>2. ASSUME NEW p \in Nat
          PROVE  Holds(more, n + 1, p) <=> N <= p /\ p < N + L
      <4>1. (n + 1) + 1 = n + 2 /\ n + 1 \in 1 .. n + 1
        BY <2>3
      <4>2. Before(more, (n + 1) + 1) = N + L /\ Before(more, n + 1) = N
        BY <2>2, <4>1
      <4>. QED
        BY <2>2, <4>2 DEF Holds
    <3>. QED
      BY <3>1, <3>2
  <2>9. Found(more)
    <3>1. ASSUME NEW p \in Nat, p < N + L
          PROVE  \E i \in 1 .. n + 1 : Holds(more, i, p)
      <4>1. CASE p < N
        <5>1. PICK i \in 1 .. n : Holds(s, i, p)
          BY <2>1, <4>1 DEF n, N
        <5>2. i \in 1 .. n + 1
          BY <2>3
        <5>. QED
          BY <2>8, <5>1, <5>2
      <4>2. CASE N <= p
        <5>1. n + 1 \in 1 .. n + 1 /\ Holds(more, n + 1, p)
          BY <2>3, <2>8, <3>1, <4>2
        <5>. QED
          BY <5>1
      <4>3. p < N \/ N <= p
        BY <2>2
      <4>. QED
        BY <4>1, <4>2, <4>3
    <3>. QED
      BY <2>2, <2>3, <3>1
  <2>10. Styled(more)
    <3>1. ASSUME NEW p \in Nat, NEW i \in 1 .. n + 1, p < N + L, Holds(more, i, p)
          PROVE  Held(more)[p + 1].style = more[i].style /\ Held(more)[p + 1].link = more[i].link
      <4>1. CASE i \in 1 .. n
        <5>1. Holds(s, i, p) /\ i + 1 \in 1 .. n + 1
          BY <2>3, <2>8, <3>1, <4>1
        <5>2. p < N
          <6>1. Before(s, i + 1) \in Nat /\ Before(s, i + 1) <= N /\ Before(s, i + 1) > p
            BY <2>6, <5>1 DEF Holds
          <6>. QED
            BY <2>2, <6>1
        <5>3. Held(s)[p + 1].style = s[i].style /\ Held(s)[p + 1].link = s[i].link
          BY <2>1, <4>1, <5>1, <5>2 DEF n, N
        <5>4. p + 1 \in 1 .. N
          BY <2>2, <5>2
        <5>. QED
          BY <2>3, <2>5, <4>1, <5>3, <5>4
      <4>2. CASE i = n + 1
        <5>. DEFINE j == p + 1 - N
        <5>1. N <= p /\ p < N + L
          BY <2>8, <3>1, <4>2
        <5>2. j \in 1 .. L /\ p + 1 = N + j
          BY <2>2, <5>1
        <5>. HIDE DEF j
        <5>3. Held(more)[N + j] = HeldIn(seg)[j] /\ HeldIn(seg)[j].style = seg.style
              /\ HeldIn(seg)[j].link = seg.link
          BY <2>4, <2>5, <5>2 DEF L
        <5>. QED
          BY <2>3, <4>2, <5>2, <5>3
      <4>3. i \in 1 .. n \/ i = n + 1
        BY <2>3
      <4>. QED
        BY <4>1, <4>2, <4>3
    <3>. QED
      BY <2>2, <2>3, <3>1
  <2>. HIDE DEF Bounded, Found, Styled
  <2>. QED
    BY <2>1, <2>7, <2>9, <2>10 DEF more
<1>3. P = Seq(Segment)
  <2>. HIDE DEF P
  <2>1. P \in SUBSET Seq(Segment)
    BY DEF P
  <2>. QED
    BY <1>1, <1>2, <2>1, SeqInduct
<1>4. Has(segs)
  <2>. HIDE DEF Has
  <2>. QED
    BY <1>3
<1>. QED
  BY <1>4

-----------------------------------------------------------------------------
(* What tags put on the page: characters that fit these.                     *)
Puts(st, tags, items, box, st2) == \E new : Writes(st, tags, new, st2) /\ Fits(new, items, box)

LEMMA PutsConcat ==
    ASSUME NEW st1, NEW s, NEW a, NEW box, NEW st2, NEW t, NEW b, NEW st3,
           Puts(st1, s, a, box, st2), Puts(st2, t, b, box, st3)
    PROVE  Puts(st1, s \o t, a \o b, box, st3)
<1>1. PICK x : Writes(st1, s, x, st2) /\ Fits(x, a, box)
  BY DEF Puts
<1>2. PICK y : Writes(st2, t, y, st3) /\ Fits(y, b, box)
  BY DEF Puts
<1>3. Writes(st1, s \o t, x \o y, st3)
  BY <1>1, <1>2, WritesConcat
<1>4. Fits(x \o y, a \o b, box)
  BY <1>1, <1>2, FitsConcat
<1>. QED
  BY <1>3, <1>4 DEF Puts

LEMMA PutsTypes ==
    ASSUME NEW st, NEW tags, NEW items, NEW box, NEW st2, Puts(st, tags, items, box, st2)
    PROVE  st \in Seq(Opened) /\ tags \in Seq(Tag) /\ items \in Seq(Char) /\ st2 \in Seq(Opened)
  BY DEF Puts, Writes, Fits

LEMMA PutsNothing ==
    ASSUME NEW st, NEW tags, NEW st2, NEW box, Writes(st, tags, <<>>, st2)
    PROVE  Puts(st, tags, <<>>, box, st2)
  BY FitsNone DEF Puts

LEMMA PutsAfter ==
    ASSUME NEW st1, NEW s, NEW st2, NEW t, NEW b, NEW box, NEW st3,
           Writes(st1, s, <<>>, st2), Puts(st2, t, b, box, st3)
    PROVE  Puts(st1, s \o t, b, box, st3)
<1>1. PICK y : Writes(st2, t, y, st3) /\ Fits(y, b, box)
  BY DEF Puts
<1>2. Writes(st1, s \o t, y, st3)
  BY <1>1, WritesThen
<1>. QED
  BY <1>1, <1>2 DEF Puts

LEMMA PutsBefore ==
    ASSUME NEW st1, NEW s, NEW a, NEW box, NEW st2, NEW t, NEW st3,
           Puts(st1, s, a, box, st2), Writes(st2, t, <<>>, st3)
    PROVE  Puts(st1, s \o t, a, box, st3)
<1>1. PICK x : Writes(st1, s, x, st2) /\ Fits(x, a, box)
  BY DEF Puts
<1>2. Writes(st1, s \o t, x, st3)
  BY <1>1, WritesThenNone
<1>. QED
  BY <1>1, <1>2 DEF Puts

(* The newline of a line, but for the last one of the document.              *)
Ending(final) == When(~final, <<LineBreak>>)

LEMMA EndingIs ==
    /\ Ending(TRUE) = <<>> /\ Ending(FALSE) = <<LineBreak>>
    /\ \A final \in BOOLEAN : Ending(final) \in Seq(Char)
<1>1. <<LineBreak>> \in Seq(Char)
  <2>1. LineBreak \in Char
    BY Named, StyleAssumption DEF LineBreak, Char
  <2>. QED
    BY <2>1
<1>2. <<>> \in Seq(Char)
  OBVIOUS
<1>3. Ending(TRUE) = <<>> /\ Ending(FALSE) = <<LineBreak>>
  BY DEF Ending, When
<1>. QED
  BY <1>1, <1>2, <1>3

LEMMA PutsLineEnd ==
    ASSUME NEW st \in Seq(Opened), NEW box, "chart" \in Within(st) <=> box, NEW final \in BOOLEAN
    PROVE  /\ Puts(st, LineEnd(final), Ending(final), box, st)
           /\ Puts(st, Text(<<Newline>>), <<LineBreak>>, box, st)
<1>1. Puts(st, Text(<<Newline>>), <<LineBreak>>, box, st)
  BY LineBreakFits DEF Puts
<1>2. Puts(st, <<>>, <<>>, box, st)
  BY WritesNone, PutsNothing
<1>3. LineEnd(FALSE) = Text(<<Newline>>) /\ LineEnd(TRUE) = <<>>
  BY DEF LineEnd, When
<1>4. Ending(TRUE) = <<>> /\ Ending(FALSE) = <<LineBreak>>
  BY EndingIs
<1>5. final = TRUE \/ final = FALSE
  OBVIOUS
<1>6. CASE final = TRUE
  BY <1>1, <1>2, <1>3, <1>4, <1>6, Zenon
<1>7. CASE final = FALSE
  BY <1>1, <1>2, <1>3, <1>4, <1>7, Zenon
<1>. QED
  BY <1>5, <1>6, <1>7

LEMMA PutsText ==
    ASSUME NEW st \in Seq(Opened), NEW s \in Seq(Strings), NEW items \in Seq(Char), NEW box,
           Len(items) = Len(s), \A i \in 1 .. Len(s) : items[i].c = s[i],
           "chart" \in Within(st) <=> box,
           "heading" \in Within(st) \/ \A i \in 1 .. Len(s) : s[i] = Newline
    PROVE  Puts(st, Text(s), items, box, st)
<1>1. Fits(Glyphs(s, st), items, box)
  BY GlyphsFit
<1>2. Writes(st, Text(s), Glyphs(s, st), st)
  BY WritesText
<1>. QED
  BY <1>1, <1>2 DEF Puts

LEMMA PutsSlices ==
    ASSUME NEW st \in Seq(Opened), NEW linked \in BOOLEAN, NEW from \in Nat, NEW to \in Nat,
           NEW h, h.segments \in Seq(Segment), NEW box, "chart" \in Within(st) <=> box,
           \A i \in 1 .. Len(Part(Held(h.segments), from, to)) :
               LET item == Part(Held(h.segments), from, to)[i]
               IN  \/ linked /\ item.link # NoLink
                   \/ Innermost(st, "a") = LinkShown(item.link)
                   \/ "prefix" \in Within(st) /\ item.link = NoLink
    PROVE  Puts(st, Slices(h, from, to, linked), Part(Held(h.segments), from, to), box, st)
<1>. DEFINE items == Part(Held(h.segments), from, to)
<1>1. items \in Seq(Char)
  <2>1. Held(h.segments) \in Seq(Char)
    BY TextOfAppend
  <2>2. Lesser(to, Len(Held(h.segments))) \in Int /\ Lesser(to, Len(Held(h.segments))) <= Len(Held(h.segments))
        /\ from + 1 \in Nat \ {0}
    BY <2>1 DEF Lesser
  <2>. QED
    BY <2>1, <2>2, PartOf DEF Part
<1>2. Fits(ShownAll(st, items, linked), items, box)
  <2>1. \A i \in 1 .. Len(items) :
               \/ linked /\ items[i].link # NoLink
               \/ Innermost(st, "a") = LinkShown(items[i].link)
               \/ "prefix" \in Within(st) /\ items[i].link = NoLink
    OBVIOUS
  <2>. HIDE DEF items
  <2>. QED
    BY <1>1, <2>1, ShownFits
<1>3. Writes(st, Slices(h, from, to, linked), ShownAll(st, items, linked), st)
  BY WritesSlices
<1>. QED
  BY <1>2, <1>3 DEF Puts

-----------------------------------------------------------------------------
(* A line that is written whole.                                             *)
LEMMA WithinTop ==
    ASSUME NEW st \in Seq(Opened), NEW e \in Strings, NEW x \in Strings
    PROVE  /\ Append(st, Top(e, x)) \in Seq(Opened)
           /\ \A o : o \in Within(Append(st, Top(e, x))) <=> o = e \/ o \in Within(st)
<1>1. Top(e, x) \in Opened
  BY TagTypes
<1>2. Append(st, Top(e, x)) \in Seq(Opened)
  BY <1>1
<1>. QED
  BY <1>2, WithinAppend

LEMMA HeadingLineIs ==
    ASSUME NEW st \in Seq(Opened), NEW s \in Seq(Strings), NEW items \in Seq(Char), NEW box,
           Len(items) = Len(s), \A i \in 1 .. Len(s) : items[i].c = s[i],
           "chart" \in Within(st) <=> box,
           NEW style \in Strings, NEW trail \in Seq(Strings), NEW final \in BOOLEAN
    PROVE  Puts(st, HeadingLine(style, s, trail, final), items \o Ending(final), box, st)
<1>. DEFINE in == Append(st, Top("heading", style))
<1>1. "heading" \in Strings /\ "chart" # "heading" /\ "heading" # "block"
  BY Named
<1>2. in \in Seq(Opened) /\ ("chart" \in Within(in) <=> box) /\ "heading" \in Within(in)
  BY <1>1, WithinTop
<1>3. Writes(st, <<Open("heading", style)>>, <<>>, in)
  BY <1>1, WritesOpen
<1>4. Writes(in, <<Close("heading")>>, <<>>, st)
  BY <1>1, WritesMute
<1>. HIDE DEF in
<1>5. Puts(in, Text(s), items, box, in)
  BY <1>2, PutsText
<1>6. Writes(in, Added(trail), <<>>, in)
  BY <1>2, WritesText
<1>7. Puts(st, <<Open("heading", style)>> \o Text(s), items, box, in)
  BY <1>3, <1>5, PutsAfter
<1>8. Puts(st, (<<Open("heading", style)>> \o Text(s)) \o Added(trail), items, box, in)
  BY <1>6, <1>7, PutsBefore
<1>9. Puts(st, ((<<Open("heading", style)>> \o Text(s)) \o Added(trail)) \o <<Close("heading")>>, items, box, st)
  BY <1>4, <1>8, PutsBefore
<1>10. Puts(st, LineEnd(final), Ending(final), box, st)
  BY PutsLineEnd
<1>. QED
  BY <1>9, <1>10, PutsConcat DEF HeadingLine

Two(a, b)        == <<a, b>>
Four(a, b, c, d) == <<a, b, c, d>>

LEMMA TupleTags ==
    /\ \A a, b \in Tag : Two(a, b) = <<a>> \o <<b>>
    /\ \A a, b, c, d \in Tag : Four(a, b, c, d) = ((<<a>> \o <<b>>) \o <<c>>) \o <<d>>
<1>1. ASSUME NEW s \in Seq(Tag), NEW b \in Tag
      PROVE  s \o <<b>> \in Seq(Tag) /\ Len(s \o <<b>>) = Len(s) + 1 /\ (s \o <<b>>)[Len(s) + 1] = b
             /\ \A i \in 1 .. Len(s) : (s \o <<b>>)[i] = s[i]
  OBVIOUS
<1>2. ASSUME NEW a \in Tag
      PROVE  <<a>> \in Seq(Tag) /\ Len(<<a>>) = 1 /\ <<a>>[1] = a
  OBVIOUS
<1>3. ASSUME NEW a \in Tag, NEW b \in Tag
      PROVE  /\ Two(a, b) = <<a>> \o <<b>> /\ <<a>> \o <<b>> \in Seq(Tag)
             /\ Len(<<a>> \o <<b>>) = 2 /\ (<<a>> \o <<b>>)[1] = a /\ (<<a>> \o <<b>>)[2] = b
  <2>. DEFINE one  == <<a>>
              both == one \o <<b>>
              pair == Two(a, b)
  <2>1. one \in Seq(Tag) /\ Len(one) = 1 /\ one[1] = a
    BY <1>2
  <2>2. pair \in Seq(Tag) /\ Len(pair) = 2 /\ pair[1] = a /\ pair[2] = b
    BY DEF Two
  <2>. HIDE DEF one
  <2>3. both \in Seq(Tag) /\ Len(both) = Len(one) + 1 /\ both[Len(one) + 1] = b
        /\ \A i \in 1 .. Len(one) : both[i] = one[i]
    BY <1>1, <2>1
  <2>. HIDE DEF both, pair
  <2>4. Len(both) = 2 /\ both[1] = a /\ both[2] = b
    BY <2>1, <2>3
  <2>5. \A i \in 1 .. Len(pair) : pair[i] = both[i]
    BY <2>2, <2>4
  <2>6. pair = both
    BY <2>2, <2>3, <2>4, <2>5, SeqEqual
  <2>. QED
    BY <2>3, <2>4, <2>6 DEF pair, both, one
<1>4. ASSUME NEW a \in Tag, NEW b \in Tag, NEW c \in Tag, NEW d \in Tag
      PROVE  Four(a, b, c, d) = ((<<a>> \o <<b>>) \o <<c>>) \o <<d>>
  <2>. DEFINE two == <<a>> \o <<b>>
              three == two \o <<c>>
              all == three \o <<d>>
              four == Four(a, b, c, d)
  <2>1. two \in Seq(Tag) /\ Len(two) = 2 /\ two[1] = a /\ two[2] = b
    BY <1>3
  <2>2. four \in Seq(Tag) /\ Len(four) = 4 /\ four[1] = a /\ four[2] = b /\ four[3] = c /\ four[4] = d
    BY DEF Four
  <2>. HIDE DEF two, four
  <2>3. three \in Seq(Tag) /\ Len(three) = Len(two) + 1 /\ three[Len(two) + 1] = c
        /\ \A i \in 1 .. Len(two) : three[i] = two[i]
    BY <1>1, <2>1
  <2>. HIDE DEF three
  <2>4. Len(three) = 3 /\ three[1] = a /\ three[2] = b /\ three[3] = c
    BY <2>1, <2>3
  <2>5. all \in Seq(Tag) /\ Len(all) = Len(three) + 1 /\ all[Len(three) + 1] = d
        /\ \A i \in 1 .. Len(three) : all[i] = three[i]
    BY <1>1, <2>3
  <2>. HIDE DEF all
  <2>6. Len(all) = 4 /\ all[1] = a /\ all[2] = b /\ all[3] = c /\ all[4] = d
    BY <2>4, <2>5
  <2>7. \A i \in 1 .. Len(four) : four[i] = all[i]
    BY <2>2, <2>6
  <2>8. four = all
    BY <2>2, <2>5, <2>6, <2>7, SeqEqual
  <2>. QED
    BY <2>8 DEF four, all, three, two
<1>. QED
  BY <1>3, <1>4

(* Up to the content of a line, without a prefix in it.                      *)
RowIn(st, row) == Append(Append(st, Top(row, NoText)), Top("content", NoText))

LEMMA RowInIs ==
    ASSUME NEW st \in Seq(Opened), NEW row \in Strings, row \in {"line", "block"}
    PROVE  /\ Append(st, Top(row, NoText)) \in Seq(Opened) /\ RowIn(st, row) \in Seq(Opened)
           /\ "chart" \in Within(RowIn(st, row)) <=> "chart" \in Within(st)
           /\ "chart" \in Within(Append(st, Top(row, NoText))) <=> "chart" \in Within(st)
           /\ Innermost(RowIn(st, row), "a") = Innermost(st, "a")
           /\ Innermost(Append(st, Top(row, NoText)), "a") = Innermost(st, "a")
<1>. DEFINE one == Append(st, Top(row, NoText))
<1>1. "content" \in Strings /\ "a" \in Strings /\ "a" # "content" /\ "a" # row
      /\ "chart" # row /\ "chart" # "content" /\ NoText \in Strings
  BY Named DEF NoText
<1>2. one \in Seq(Opened) /\ Innermost(one, "a") = Innermost(st, "a")
  BY <1>1, WithinTop, LastlyBelow
<1>3. "chart" \in Within(one) <=> "chart" \in Within(st)
  BY <1>1, WithinTop
<1>. HIDE DEF one
<1>. DEFINE two == Append(one, Top("content", NoText))
<1>4. two \in Seq(Opened) /\ Innermost(two, "a") = Innermost(one, "a")
  BY <1>1, <1>2, WithinTop, LastlyBelow
<1>5. "chart" \in Within(two) <=> "chart" \in Within(one)
  BY <1>1, <1>2, WithinTop
<1>. HIDE DEF two
<1>6. RowIn(st, row) = two
  BY DEF RowIn, two, one
<1>. QED
  BY <1>2, <1>3, <1>4, <1>5, <1>6 DEF one

LEMMA RowOpens ==
    ASSUME NEW st \in Seq(Opened), NEW row \in Strings, row \in {"line", "block"}
    PROVE  Writes(st, <<Open(row, ""), Open("prefix", ""), Close("prefix"), Open("content", "")>>,
                  <<>>, RowIn(st, row))
<1>. DEFINE one == Append(st, Top(row, NoText))
            a == Open(row, NoText)
            b == Open("prefix", NoText)
            c == Close("prefix")
            d == Open("content", NoText)
<1>1. "content" \in Strings /\ "prefix" \in Strings /\ NoText \in Strings /\ "prefix" # "block"
  BY Named DEF NoText
<1>2. one \in Seq(Opened)
  BY RowInIs
<1>3. a \in Tag /\ b \in Tag /\ c \in Tag /\ d \in Tag
  BY <1>1, TagTypes
<1>4. Writes(st, <<a>>, <<>>, one)
  BY <1>1, WritesOpen
<1>. HIDE DEF one
<1>5. Writes(one, <<b>>, <<>>, Append(one, Top("prefix", NoText)))
  BY <1>1, <1>2, WritesOpen
<1>6. Writes(Append(one, Top("prefix", NoText)), <<c>>, <<>>, one)
  BY <1>1, <1>2, WritesMute
<1>7. Writes(one, <<d>>, <<>>, Append(one, Top("content", NoText)))
  BY <1>1, <1>2, WritesOpen
<1>8. Append(one, Top("content", NoText)) = RowIn(st, row)
  BY DEF RowIn, one
<1>. HIDE DEF a, b, c, d
<1>9. Writes(st, <<a>> \o <<b>>, <<>>, Append(one, Top("prefix", NoText)))
  BY <1>4, <1>5, WritesThen
<1>10. Writes(st, (<<a>> \o <<b>>) \o <<c>>, <<>>, one)
  BY <1>6, <1>9, WritesThen
<1>11. Writes(st, ((<<a>> \o <<b>>) \o <<c>>) \o <<d>>, <<>>, RowIn(st, row))
  BY <1>7, <1>8, <1>10, WritesThen
<1>12. Four(a, b, c, d) = ((<<a>> \o <<b>>) \o <<c>>) \o <<d>>
  BY <1>3, TupleTags
<1>13. Writes(st, Four(a, b, c, d), <<>>, RowIn(st, row))
  BY <1>11, <1>12
<1>. QED
  BY <1>13, Zenon DEF a, b, c, d, Four, NoText

(* The rest of a line from a place on.                                       *)
Rest(s, from) == SubSeq(s, from + 1, Len(s))

LEMMA RestIs ==
    ASSUME NEW S, NEW s \in Seq(S), NEW from \in 0 .. Len(s)
    PROVE  /\ Rest(s, from) \in Seq(S) /\ Len(Rest(s, from)) = Len(s) - from
           /\ \A i \in 1 .. (Len(s) - from) : Rest(s, from)[i] = s[from + i]
           /\ Part(s, from, Len(s)) = Rest(s, from)
<1>1. Len(s) \in Nat /\ from + 1 \in Nat \ {0} /\ Len(s) \in Int
  OBVIOUS
<1>2. /\ Rest(s, from) \in Seq(S)
      /\ Len(s) < from + 1 => Len(Rest(s, from)) = 0
      /\ Len(s) >= from + 1 => Len(Rest(s, from)) = Len(s) - (from + 1) + 1
      /\ \A i \in 1 .. (Len(s) - (from + 1) + 1) : Rest(s, from)[i] = s[(from + 1) + i - 1]
  BY <1>1, PartOf DEF Rest
<1>3. Len(Rest(s, from)) = Len(s) - from
  BY <1>1, <1>2
<1>4. Len(s) - (from + 1) + 1 = Len(s) - from /\ \A i \in Int : (from + 1) + i - 1 = from + i
  BY <1>1
<1>5. Part(s, from, Len(s)) = Rest(s, from)
  <2>1. Lesser(Len(s), Len(s)) = Len(s)
    BY DEF Lesser
  <2>. QED
    BY <2>1 DEF Part, Rest
<1>6. \A i \in 1 .. (Len(s) - from) : Rest(s, from)[i] = s[from + i]
  <2>1. SUFFICES ASSUME NEW i \in 1 .. (Len(s) - from)
                 PROVE  Rest(s, from)[i] = s[from + i]
    OBVIOUS
  <2>2. i \in 1 .. (Len(s) - (from + 1) + 1) /\ i \in Int
    BY <1>1, <1>4
  <2>3. Rest(s, from)[i] = s[(from + 1) + i - 1]
    BY <1>2, <2>2
  <2>4. (from + 1) + i - 1 = from + i
    BY <2>2
  <2>. QED
    BY <2>3, <2>4
<1>. QED
  BY <1>2, <1>3, <1>5, <1>6

(* A line in two parts.                                                      *)
LEMMA TwoParts ==
    ASSUME NEW s \in Seq(Char), NEW p \in 0 .. Len(s)
    PROVE  Part(s, 0, p) \o Rest(s, p) = s /\ Part(s, 0, p) \in Seq(Char) /\ Rest(s, 0) = s
<1>1. Lesser(p, Len(s)) = p /\ Len(s) \in Nat /\ p \in Int /\ p <= Len(s)
  BY DEF Lesser
<1>2. Rest(s, p) \in Seq(Char) /\ Len(Rest(s, p)) = Len(s) - p
      /\ \A i \in 1 .. (Len(s) - p) : Rest(s, p)[i] = s[p + i]
  BY RestIs
<1>. DEFINE a == Part(s, 0, p)
<1>3. /\ a \in Seq(Char) /\ (p < 1 => Len(a) = 0) /\ (p >= 1 => Len(a) = p - 1 + 1)
      /\ \A i \in 1 .. (p - 1 + 1) : a[i] = s[1 + i - 1]
  <2>1. 0 + 1 = 1 /\ 1 \in Nat \ {0}
    OBVIOUS
  <2>2. a = SubSeq(s, 1, p)
    BY <1>1, <2>1 DEF Part
  <2>. HIDE DEF a
  <2>. QED
    BY <1>1, <2>1, <2>2, PartOf
<1>. HIDE DEF a
<1>4. Len(a) = p /\ \A i \in 1 .. p : a[i] = s[i]
  BY <1>1, <1>3
<1>5. a \o Rest(s, p) \in Seq(Char) /\ Len(a \o Rest(s, p)) = Len(s)
  <2>1. \A u \in Seq(Char), v \in Seq(Char) : u \o v \in Seq(Char) /\ Len(u \o v) = Len(u) + Len(v)
    OBVIOUS
  <2>2. a \o Rest(s, p) \in Seq(Char) /\ Len(a \o Rest(s, p)) = Len(a) + Len(Rest(s, p))
    BY <1>2, <1>3, <2>1
  <2>. QED
    BY <1>1, <1>2, <1>4, <2>2
<1>6. \A i \in 1 .. Len(s) : (a \o Rest(s, p))[i] = s[i]
  <2>. DEFINE b == Rest(s, p)
  <2>1. \A u \in Seq(Char), v \in Seq(Char) :
          /\ \A i \in 1 .. Len(u) : (u \o v)[i] = u[i]
          /\ \A i \in 1 .. Len(v) : (u \o v)[Len(u) + i] = v[i]
    OBVIOUS
  <2>2. b \in Seq(Char) /\ Len(b) = Len(s) - p /\ \A i \in 1 .. (Len(s) - p) : b[i] = s[p + i]
    BY <1>2
  <2>. HIDE DEF b
  <2>3. ASSUME NEW i \in 1 .. Len(s)
        PROVE  (a \o b)[i] = s[i]
    <3>1. CASE i <= p
      <4>1. i \in 1 .. Len(a)
        BY <1>4, <3>1
      <4>. QED
        BY <1>3, <1>4, <2>1, <2>2, <4>1
    <3>2. CASE i > p
      <4>. DEFINE j == i - p
      <4>1. j \in 1 .. Len(b) /\ i = Len(a) + j /\ j \in 1 .. (Len(s) - p) /\ p + j = i
        BY <1>1, <1>4, <2>2, <3>2
      <4>. HIDE DEF j
      <4>2. (a \o b)[Len(a) + j] = b[j] /\ b[j] = s[p + j]
        BY <1>3, <2>1, <2>2, <4>1
      <4>. QED
        BY <4>1, <4>2
    <3>3. i <= p \/ i > p
      BY <1>1
    <3>. QED
      BY <3>1, <3>2, <3>3
  <2>. QED
    BY <2>3 DEF b
<1>7. a \o Rest(s, p) = s
  BY <1>5, <1>6, SeqEqual
<1>8. Rest(s, 0) = s
  <2>1. 0 \in 0 .. Len(s) /\ Len(s) - 0 = Len(s) /\ \A i \in 1 .. Len(s) : 0 + i = i
    OBVIOUS
  <2>2. Rest(s, 0) \in Seq(Char) /\ Len(Rest(s, 0)) = Len(s)
        /\ \A i \in 1 .. Len(s) : Rest(s, 0)[i] = s[i]
    BY <2>1, RestIs
  <2>. QED
    BY <2>2, SeqEqual
<1>. QED
  BY <1>3, <1>7, <1>8 DEF a

LEMMA PutsCloseRow ==
    ASSUME NEW st \in Seq(Opened), NEW row \in Strings, row \in {"line", "block"},
           NEW box, "chart" \in Within(st) <=> box
    PROVE  Puts(Append(st, Top(row, NoText)), <<Close(row)>>, When(row = "block", <<LineBreak>>), box, st)
<1>. DEFINE open == Append(st, Top(row, NoText))
<1>1. open \in Seq(Opened) /\ ("chart" \in Within(open) <=> box) /\ NoText \in Strings
  BY RowInIs, Named DEF NoText
<1>2. CASE row # "block"
  <2>1. Writes(open, <<Close(row)>>, <<>>, st)
    BY <1>1, <1>2, WritesMute
  <2>. QED
    BY <1>2, <2>1, PutsNothing DEF When
<1>3. CASE row = "block"
  <2>1. Writes(open, <<Close(row)>>, ClosedText(open, row), st)
    BY <1>1, WritesClose
  <2>. HIDE DEF open
  <2>2. ClosedText(open, row) = <<Shown(Newline, open)>>
    BY <1>3 DEF ClosedText, When
  <2>3. Fits(Glyphs(<<Newline>>, open), <<LineBreak>>, box)
    BY <1>1, LineBreakFits
  <2>4. Glyphs(<<Newline>>, open) = <<Shown(Newline, open)>>
    <3>. DEFINE x == <<Newline>>
                g == Shown(Newline, open)
    <3>0. Newline \in Strings
      BY Named
    <3>1. x \in Seq(Strings) /\ Len(x) = 1 /\ x[1] = Newline /\ DOMAIN x = 1 .. 1
      BY <3>0
    <3>. HIDE DEF x
    <3>2. DOMAIN Glyphs(x, open) = 1 .. 1 /\ \A i \in 1 .. 1 : Glyphs(x, open)[i] = g
      BY <3>1 DEF Glyphs
    <3>3. Glyphs(x, open) = [i \in 1 .. 1 |-> g]
      BY <3>1 DEF Glyphs
    <3>. HIDE DEF g
    <3>4. [i \in 1 .. 1 |-> g] = <<g>>
      OBVIOUS
    <3>. QED
      BY <3>3, <3>4 DEF x, g
  <2>5. When(row = "block", <<LineBreak>>) = <<LineBreak>>
    BY <1>3 DEF When
  <2>. QED
    BY <2>1, <2>2, <2>3, <2>4, <2>5 DEF Puts, open
<1>. QED
  BY <1>2, <1>3

LEMMA PutsRest ==
    ASSUME NEW st \in Seq(Opened), NEW linked \in BOOLEAN, NEW h, h.segments \in Seq(Segment),
           NEW from \in 0 .. Len(TextOf(h.segments)), NEW box, "chart" \in Within(st) <=> box,
           \A i \in 1 .. Len(Rest(Held(h.segments), from)) :
               LET item == Rest(Held(h.segments), from)[i]
               IN  \/ linked /\ item.link # NoLink
                   \/ Innermost(st, "a") = LinkShown(item.link)
    PROVE  Puts(st, Slices(h, from, Len(LineText(h)), linked), Rest(Held(h.segments), from), box, st)
<1>1. Held(h.segments) \in Seq(Char) /\ Len(Held(h.segments)) = Len(TextOf(h.segments))
  BY TextOfAppend, HeldLength
<1>2. LineText(h) = TextOf(h.segments)
  BY DEF LineText, TextOf
<1>3. Len(TextOf(h.segments)) \in Nat /\ from \in Nat /\ from \in 0 .. Len(Held(h.segments))
  <2>1. Len(Held(h.segments)) \in Nat
    BY <1>1
  <2>. QED
    BY <1>1, <2>1
<1>4. Part(Held(h.segments), from, Len(TextOf(h.segments))) = Rest(Held(h.segments), from)
  BY <1>1, <1>3, RestIs
<1>. DEFINE to == Len(TextOf(h.segments))
            items == Part(Held(h.segments), from, to)
<1>5. \A i \in 1 .. Len(items) :
               \/ linked /\ items[i].link # NoLink
               \/ Innermost(st, "a") = LinkShown(items[i].link)
               \/ "prefix" \in Within(st) /\ items[i].link = NoLink
  BY <1>4
<1>6. to \in Nat
  BY <1>3
<1>. HIDE DEF to
<1>7. Puts(st, Slices(h, from, to, linked), items, box, st)
  BY <1>3, <1>5, <1>6, PutsSlices
<1>. QED
  BY <1>2, <1>4, <1>7 DEF to

LEMMA ChartLineIs ==
    ASSUME NEW h, h.segments \in Seq(Segment), NEW st \in Seq(Opened),
           NEW box, "chart" \in Within(st) <=> box, Innermost(st, "a") = LinkShown(NoLink),
           NEW prefix, NEW from \in 0 .. Len(TextOf(h.segments)),
           from = IF h.chart = "bar" THEN SkipBlanks(LineText(h), prefix) ELSE prefix
    PROVE  Puts(st, ChartLine(h, prefix, FALSE), Rest(Held(h.segments), from) \o <<LineBreak>>, box, st)
<1>. DEFINE row   == IF h.chart = "tile" THEN "block" ELSE "line"
            start == <<Open(row, ""), Open("prefix", ""), Close("prefix"), Open("content", "")>>
            slices == Slices(h, from, Len(LineText(h)), TRUE)
            ends  == When(~FALSE, <<Close("content"), Close(row)>>)
            break == When(~FALSE /\ h.chart # "tile", Text(<<Newline>>))
            items == Rest(Held(h.segments), from)
            open  == Append(st, Top(row, NoText))
            held  == Held(h.segments)
<1>0. row \in Strings /\ row \in {"line", "block"} /\ (row = "block" <=> h.chart = "tile")
  BY Named
<1>1. ChartLine(h, prefix, FALSE) = ((start \o slices) \o ends) \o break
  BY DEF ChartLine
<1>. HIDE DEF row, start, slices, ends, break
<1>2. Writes(st, start, <<>>, RowIn(st, row))
  BY <1>0, RowOpens DEF start
<1>3. RowIn(st, row) \in Seq(Opened) /\ open \in Seq(Opened) /\ ("chart" \in Within(RowIn(st, row)) <=> box)
      /\ Innermost(RowIn(st, row), "a") = LinkShown(NoLink)
  BY <1>0, RowInIs
<1>4. Puts(RowIn(st, row), slices, items, box, RowIn(st, row))
  <2>1. \A i \in 1 .. Len(items) :
               \/ TRUE /\ items[i].link # NoLink
               \/ Innermost(RowIn(st, row), "a") = LinkShown(items[i].link)
    BY <1>3
  <2>. QED
    BY <1>3, <2>1, PutsRest DEF slices
<1>. HIDE DEF items
<1>5. Puts(st, start \o slices, items, box, RowIn(st, row))
  BY <1>2, <1>4, PutsAfter
<1>6. Puts(RowIn(st, row), ends, When(row = "block", <<LineBreak>>), box, st)
  <2>1. "content" \in Strings /\ "content" # "block" /\ NoText \in Strings
    BY Named DEF NoText
  <2>2. Writes(RowIn(st, row), <<Close("content")>>, <<>>, open)
    <3>. HIDE DEF open
    <3>1. Writes(Append(open, Top("content", NoText)), <<Close("content")>>, <<>>, open)
      BY <1>3, <2>1, WritesMute
    <3>. QED
      BY <3>1 DEF RowIn, open
  <2>3. Puts(open, <<Close(row)>>, When(row = "block", <<LineBreak>>), box, st)
    BY <1>0, PutsCloseRow
  <2>4. Puts(RowIn(st, row), <<Close("content")>> \o <<Close(row)>>, When(row = "block", <<LineBreak>>), box, st)
    BY <2>2, <2>3, PutsAfter
  <2>. DEFINE c == Close("content")
              r == Close(row)
  <2>5. c \in Tag /\ r \in Tag
    BY <1>0, <2>1, TagTypes
  <2>6. ends = Two(c, r)
    BY DEF ends, When, Two
  <2>. HIDE DEF c, r
  <2>7. Two(c, r) = <<c>> \o <<r>>
    BY <2>5, TupleTags
  <2>. QED
    BY <2>4, <2>6, <2>7 DEF c, r
<1>7. Puts(st, (start \o slices) \o ends, items \o When(row = "block", <<LineBreak>>), box, st)
  BY <1>5, <1>6, PutsConcat
<1>8. items \in Seq(Char) /\ <<LineBreak>> \in Seq(Char)
  BY <1>5, PutsTypes, LineBreakFits
<1>9. CASE row = "block"
  <2>1. When(row = "block", <<LineBreak>>) = <<LineBreak>> /\ break = <<>>
    BY <1>0, <1>9 DEF When, break
  <2>2. Writes(st, break, <<>>, st)
    BY <2>1, WritesNone
  <2>3. Puts(st, (start \o slices) \o ends, items \o <<LineBreak>>, box, st)
    BY <1>7, <2>1
  <2>. QED
    BY <1>1, <2>2, <2>3, PutsBefore DEF items
<1>10. CASE row # "block"
  <2>1. When(row = "block", <<LineBreak>>) = <<>> /\ break = Text(<<Newline>>)
    BY <1>0, <1>10 DEF When, break
  <2>2. Puts(st, break, <<LineBreak>>, box, st)
    BY <2>1, PutsLineEnd
  <2>3. items \o <<>> = items
    BY <1>8
  <2>4. Puts(st, (start \o slices) \o ends, items, box, st)
    BY <1>7, <2>1, <2>3
  <2>. QED
    BY <1>1, <2>2, <2>4, PutsConcat DEF items
<1>. QED
  BY <1>9, <1>10

(* After the prefix of a line that is one link, everything has that link.    *)
LEMMA WholeLinkIs ==
    ASSUME NEW h, h.segments \in Seq(Segment), NEW prefix \in 0 .. Len(TextOf(h.segments))
    PROVE  /\ WholeLink(h, prefix) \in Links \cup {NoLink}
           /\ WholeLink(h, prefix) # NoLink =>
                \A i \in 1 .. Len(Rest(Held(h.segments), prefix)) :
                    Rest(Held(h.segments), prefix)[i].link = WholeLink(h, prefix)
<1>. DEFINE segs  == h.segments
            N     == Len(TextOf(segs))
            whole == WholeLink(h, prefix)
            after == {i \in DOMAIN segs :
                        Len(FlattenSeq([j \in 1 .. i |-> segs[j].text])) > prefix}
            links == {segs[i].link : i \in after}
<1>1. whole = IF \E l \in Links : links = {l} THEN CHOOSE l \in Links : links = {l} ELSE NoLink
  BY DEF WholeLink
<1>2. whole \in Links \cup {NoLink} /\ (whole # NoLink => links = {whole})
  <2>. HIDE DEF links, whole
  <2>1. CASE \E l \in Links : links = {l}
    <3>1. whole = CHOOSE l \in Links : links = {l}
      BY <1>1, <2>1
    <3>. QED
      BY <2>1, <3>1
  <2>2. CASE ~\E l \in Links : links = {l}
    BY <1>1, <2>2
  <2>. QED
    BY <2>1, <2>2
<1>3. /\ Held(segs) \in Seq(Char) /\ Len(Held(segs)) = N /\ N \in Nat /\ segs \in Seq(Segment)
      /\ prefix \in Nat /\ prefix \in 0 .. Len(Held(segs))
  <2>1. Held(segs) \in Seq(Char) /\ Len(Held(segs)) = N
    BY TextOfAppend, HeldLength
  <2>2. Len(Held(segs)) \in Nat
    BY <2>1
  <2>. QED
    BY <2>1, <2>2
<1>4. /\ Len(Rest(Held(segs), prefix)) = N - prefix
      /\ \A i \in 1 .. (N - prefix) : Rest(Held(segs), prefix)[i] = Held(segs)[prefix + i]
  BY <1>3, RestIs
<1>5. ASSUME NEW i \in 1 .. (N - prefix), whole # NoLink
      PROVE  Held(segs)[prefix + i].link = whole
  <2>. DEFINE p == prefix + i - 1
  <2>1. p \in Nat /\ p < N /\ p >= prefix /\ p + 1 = prefix + i
    BY <1>3
  <2>. HIDE DEF p
  <2>2. PICK k \in 1 .. Len(segs) : Holds(segs, k, p)
    BY <1>3, <2>1, ContentIs DEF N
  <2>3. Held(segs)[p + 1].link = segs[k].link
    BY <1>3, <2>1, <2>2, ContentIs DEF N
  <2>4. Before(segs, k + 1) > p
    BY <2>2 DEF Holds
  <2>5. Before(segs, k + 1) = Len(FlattenSeq([j \in 1 .. k |-> segs[j].text]))
    <3>1. (k + 1) - 1 = k
      OBVIOUS
    <3>. QED
      BY <3>1, Zenon DEF Before
  <2>6. Before(segs, k + 1) \in Nat
    <3>1. k + 1 \in 1 .. Len(segs) + 1
      BY <1>3
    <3>. QED
      BY <1>3, <3>1, ContentIs
  <2>7. k \in after
    <3>1. Before(segs, k + 1) > prefix
      BY <1>3, <2>1, <2>4, <2>6
    <3>2. DOMAIN segs = 1 .. Len(segs)
      BY <1>3
    <3>. QED
      BY <2>5, <3>1, <3>2
  <2>8. segs[k].link \in links
    BY <2>7
  <2>. HIDE DEF links, whole, N
  <2>. QED
    BY <1>2, <1>5, <2>1, <2>3, <2>8
<1>. HIDE DEF whole, N, links
<1>. QED
  BY <1>2, <1>4, <1>5 DEF whole

LEMMA LineInIsRow == \A st : LineIn(st) = RowIn(st, "line")
  BY Zenon DEF LineIn, RowIn, NoText

LEMMA PrefixLineIs ==
    ASSUME NEW h, h.segments \in Seq(Segment), NEW st \in Seq(Opened),
           NEW box, "chart" \in Within(st) <=> box, Innermost(st, "a") = LinkShown(NoLink),
           NEW prefix \in 0 .. Len(TextOf(h.segments)), NEW final \in BOOLEAN
    PROVE  Puts(st, PrefixLine(h, prefix, final), Held(h.segments) \o Ending(final), box,
                IF final THEN LineIn(st) ELSE st)
<1>. DEFINE whole == WholeLink(h, prefix)
            base  == Linked(st, whole, TRUE)
            one   == Append(base, Top("line", NoText))
            two   == Append(one, Top("prefix", NoText))
            held  == Held(h.segments)
            link  == When(whole # NoLink, <<Open("a", whole)>>)
            start == <<Open("line", ""), Open("prefix", "")>>
            first == Slices(h, 0, prefix, TRUE)
            mid   == <<Close("prefix"), Open("content", "")>>
            last  == Slices(h, prefix, Len(LineText(h)), whole = NoLink)
            linkEnd == When(whole # NoLink, <<Close("a")>>)
            ends  == When(~final, <<Close("content"), Close("line")>> \o Text(<<Newline>>))
<1>1. PrefixLine(h, prefix, final)
        = (((((link \o start) \o first) \o mid) \o last) \o linkEnd) \o ends
  BY DEF PrefixLine
<1>. HIDE DEF link, start, first, mid, last, linkEnd, ends
<1>2. /\ whole \in Links \cup {NoLink}
      /\ whole # NoLink => \A i \in 1 .. Len(Rest(held, prefix)) : Rest(held, prefix)[i].link = whole
  BY WholeLinkIs
<1>. HIDE DEF whole
<1>3. /\ base \in Seq(Opened) /\ Writes(st, link, <<>>, base)
  <2>1. /\ Linked(st, whole, TRUE) \in Seq(Opened)
        /\ Writes(st, When(TRUE /\ whole # NoLink, <<Open("a", whole)>>), <<>>, Linked(st, whole, TRUE))
    BY <1>2, WritesLink
  <2>2. (TRUE /\ whole # NoLink) = (whole # NoLink)
    OBVIOUS
  <2>. QED
    BY <2>1, <2>2 DEF link
<1>4. ("chart" \in Within(base) <=> box) /\ Innermost(base, "a") = LinkShown(whole)
  <2>1. CASE whole = NoLink
    <3>1. base = st
      BY <2>1 DEF Linked
    <3>. QED
      BY <2>1, <3>1
  <2>2. CASE whole # NoLink
    <3>1. base = Append(st, Top("a", whole))
      BY <2>2 DEF Linked
    <3>2. "a" \in Strings /\ whole \in Strings /\ "chart" # "a"
      BY <1>2, Named, EscapeStrings
    <3>3. Innermost(base, "a") = whole
      BY <3>1, <3>2, LastlyTop
    <3>4. "chart" \in Within(base) <=> box
      BY <3>1, <3>2, WithinTop
    <3>. QED
      BY <2>2, <3>3, <3>4 DEF LinkShown
  <2>. QED
    BY <2>1, <2>2
<1>5. whole # NoLink => base = Append(st, Top("a", whole))
  BY DEF Linked
<1>6. whole = NoLink => base = st
  BY DEF Linked
<1>. HIDE DEF base
<1>7. "prefix" \in Strings /\ "line" \in Strings /\ "content" \in Strings /\ NoText \in Strings
      /\ "prefix" # "block" /\ "line" # "block" /\ "content" # "block" /\ "chart" # "prefix" /\ "chart" # "line"
  BY Named DEF NoText
<1>8. one \in Seq(Opened) /\ ("chart" \in Within(one) <=> box)
  BY <1>3, <1>4, <1>7, WithinTop
<1>9. two \in Seq(Opened) /\ ("chart" \in Within(two) <=> box) /\ "prefix" \in Within(two)
  <2>. HIDE DEF one
  <2>. QED
    BY <1>7, <1>8, WithinTop
<1>10. /\ held \in Seq(Char) /\ Len(held) = Len(TextOf(h.segments)) /\ prefix \in 0 .. Len(held)
  BY TextOfAppend, HeldLength
<1>11. Writes(base, start, <<>>, two)
  <2>. DEFINE a == Open("line", NoText)
              b == Open("prefix", NoText)
  <2>1. Writes(base, <<a>>, <<>>, one)
    BY <1>3, <1>7, WritesOpen
  <2>2. a \in Tag /\ b \in Tag
    BY <1>7, TagTypes
  <2>. HIDE DEF one
  <2>3. Writes(one, <<b>>, <<>>, two)
    BY <1>7, <1>8, WritesOpen
  <2>. HIDE DEF two, a, b
  <2>4. Writes(base, <<a>> \o <<b>>, <<>>, two)
    BY <2>1, <2>3, WritesThen
  <2>5. Two(a, b) = <<a>> \o <<b>>
    BY <2>2, TupleTags
  <2>6. Writes(base, Two(a, b), <<>>, two)
    BY <2>4, <2>5
  <2>. QED
    BY <2>6, Zenon DEF Two, a, b, start, NoText
<1>12. Puts(two, first, Part(held, 0, prefix), box, two)
  <2>1. \A i \in 1 .. Len(Part(held, 0, prefix)) :
               LET item == Part(held, 0, prefix)[i]
               IN  \/ TRUE /\ item.link # NoLink
                   \/ Innermost(two, "a") = LinkShown(item.link)
                   \/ "prefix" \in Within(two) /\ item.link = NoLink
    BY <1>9
  <2>2. 0 \in Nat /\ prefix \in Nat
    BY <1>10
  <2>. HIDE DEF two
  <2>. QED
    BY <1>9, <2>1, <2>2, PutsSlices DEF first
<1>. DEFINE in == RowIn(base, "line")
<1>13. in \in Seq(Opened) /\ ("chart" \in Within(in) <=> box) /\ Innermost(in, "a") = LinkShown(whole)
  BY <1>3, <1>4, <1>7, RowInIs
<1>14. Writes(two, mid, <<>>, in)
  <2>. DEFINE a == Close("prefix")
              b == Open("content", NoText)
  <2>0. in = Append(one, Top("content", NoText))
    BY DEF RowIn
  <2>. HIDE DEF one, in
  <2>1. Writes(two, <<a>>, <<>>, one)
    BY <1>7, <1>8, WritesMute
  <2>2. a \in Tag /\ b \in Tag
    BY <1>7, TagTypes
  <2>3. Writes(one, <<b>>, <<>>, in)
    BY <1>7, <1>8, <2>0, WritesOpen
  <2>. HIDE DEF two, a, b
  <2>4. Writes(two, <<a>> \o <<b>>, <<>>, in)
    BY <2>1, <2>3, WritesThen
  <2>5. Two(a, b) = <<a>> \o <<b>>
    BY <2>2, TupleTags
  <2>6. Writes(two, Two(a, b), <<>>, in)
    BY <2>4, <2>5
  <2>. QED
    BY <2>6, Zenon DEF Two, a, b, mid, NoText
<1>. HIDE DEF two, one, in
<1>15. Puts(in, last, Rest(held, prefix), box, in)
  <2>1. \A i \in 1 .. Len(Rest(held, prefix)) :
               LET item == Rest(held, prefix)[i]
               IN  \/ (whole = NoLink) /\ item.link # NoLink
                   \/ Innermost(in, "a") = LinkShown(item.link)
    <3>1. CASE whole = NoLink
      BY <1>13, <3>1
    <3>2. CASE whole # NoLink
      BY <1>2, <1>13, <3>2
    <3>. QED
      BY <3>1, <3>2
  <2>. DEFINE linked == (whole = NoLink)
  <2>2. linked \in BOOLEAN
    OBVIOUS
  <2>. HIDE DEF linked
  <2>3. \A i \in 1 .. Len(Rest(held, prefix)) :
               LET item == Rest(held, prefix)[i]
               IN  \/ linked /\ item.link # NoLink
                   \/ Innermost(in, "a") = LinkShown(item.link)
    BY <2>1 DEF linked
  <2>4. Puts(in, Slices(h, prefix, Len(LineText(h)), linked), Rest(held, prefix), box, in)
    BY <1>13, <2>2, <2>3, PutsRest
  <2>. QED
    BY <2>4 DEF last, linked
<1>16. Writes(in, linkEnd, <<>>, LineIn(st))
  <2>1. CASE whole = NoLink
    <3>1. in = LineIn(st) /\ linkEnd = <<>>
      BY <1>6, <2>1, LineInIsRow DEF in, linkEnd, When
    <3>. QED
      BY <1>13, <3>1, WritesNone
  <2>2. CASE whole # NoLink
    <3>1. in = LineIn(Append(st, Top("a", whole))) /\ linkEnd = <<Close("a")>>
      BY <1>5, <2>2, LineInIsRow DEF in, linkEnd, When
    <3>2. whole \in Strings
      BY <1>2, EscapeStrings
    <3>3. Writes(LineIn(Append(st, Top("a", whole))), <<Close("a")>>, <<>>, LineIn(st))
      BY <3>2, WritesCloseLink
    <3>. QED
      BY <3>1, <3>3
  <2>. QED
    BY <2>1, <2>2
<1>17. Puts(LineIn(st), ends, Ending(final), box, IF final THEN LineIn(st) ELSE st)
  <2>1. LineIn(st) \in Seq(Opened)
    BY <1>16 DEF Writes
  <2>2. CASE final
    <3>1. ends = <<>> /\ Ending(final) = <<>> /\ (IF final THEN LineIn(st) ELSE st) = LineIn(st)
      BY <2>2 DEF ends, When, Ending
    <3>2. Puts(LineIn(st), <<>>, <<>>, box, LineIn(st))
      BY <2>1, WritesNone, PutsNothing
    <3>. QED
      BY <3>1, <3>2
  <2>3. CASE ~final
    <3>. DEFINE a == Close("content")
                b == Close("line")
                row == Append(st, Top("line", NoText))
    <3>1. ends = Two(a, b) \o Text(<<Newline>>) /\ Ending(final) = <<LineBreak>>
          /\ (IF final THEN LineIn(st) ELSE st) = st
      BY <2>3 DEF ends, When, Ending, Two
    <3>2. a \in Tag /\ b \in Tag /\ row \in Seq(Opened)
      BY <1>7, TagTypes, RowInIs
    <3>3. Writes(row, <<b>>, <<>>, st)
      BY <1>7, WritesMute
    <3>4. LineIn(st) = Append(row, Top("content", NoText))
      BY LineInIsRow DEF RowIn
    <3>. HIDE DEF row
    <3>5. Writes(LineIn(st), <<a>>, <<>>, row)
      BY <1>7, <3>2, <3>4, WritesMute
    <3>. HIDE DEF a, b
    <3>6. Writes(LineIn(st), <<a>> \o <<b>>, <<>>, st)
      BY <3>3, <3>5, WritesThen
    <3>7. Two(a, b) = <<a>> \o <<b>>
      BY <3>2, TupleTags
    <3>8. Writes(LineIn(st), Two(a, b), <<>>, st)
      BY <3>6, <3>7
    <3>9. Puts(st, Text(<<Newline>>), <<LineBreak>>, box, st)
      BY PutsLineEnd
    <3>10. Puts(LineIn(st), Two(a, b) \o Text(<<Newline>>), <<LineBreak>>, box, st)
      BY <3>8, <3>9, PutsAfter
    <3>. QED
      BY <3>1, <3>10
  <2>. QED
    BY <2>2, <2>3
<1>18. Writes(st, link \o start, <<>>, two)
  BY <1>3, <1>11, WritesThen
<1>19. Puts(st, (link \o start) \o first, Part(held, 0, prefix), box, two)
  BY <1>12, <1>18, PutsAfter
<1>20. Puts(st, ((link \o start) \o first) \o mid, Part(held, 0, prefix), box, in)
  BY <1>14, <1>19, PutsBefore
<1>21. Puts(st, (((link \o start) \o first) \o mid) \o last, Part(held, 0, prefix) \o Rest(held, prefix), box, in)
  BY <1>15, <1>20, PutsConcat
<1>22. Part(held, 0, prefix) \o Rest(held, prefix) = held
  <2>. HIDE DEF held
  <2>. QED
    BY <1>10, TwoParts
<1>23. Puts(st, ((((link \o start) \o first) \o mid) \o last) \o linkEnd, held, box, LineIn(st))
  <2>1. Puts(st, (((link \o start) \o first) \o mid) \o last, held, box, in)
    BY <1>21, <1>22
  <2>. QED
    BY <1>16, <2>1, PutsBefore
<1>. HIDE DEF held
<1>24. Puts(st, (((((link \o start) \o first) \o mid) \o last) \o linkEnd) \o ends, held \o Ending(final), box,
            IF final THEN LineIn(st) ELSE st)
  BY <1>17, <1>23, PutsConcat
<1>. QED
  BY <1>1, <1>24 DEF held

-----------------------------------------------------------------------------
(* FlushLine writes the characters of a line, without the lead.              *)
LEMMA LineTextIs == \A h : LineText(h) = TextOf(h.segments)
  BY DEF LineText, TextOf

(* A line, and what writing it does.                                         *)
Flushable(h, st, box, final, style) ==
    /\ h.segments \in Seq(Segment) /\ st \in Seq(Opened) /\ final \in BOOLEAN
    /\ "chart" \in Within(st) <=> box
    /\ Innermost(st, "a") = LinkShown(NoLink)
    /\ final => h.chart = "none" /\ TextOf(h.segments) # <<>>
    /\ Prefix(TextOf(h.segments), h.chart) < Len(TextOf(h.segments)) =>
           style = Held(h.segments)[Prefix(TextOf(h.segments), h.chart) + 1].style

Flushes(h, st, box, final, style) ==
    LET out == LeftOut(TextOf(h.segments), h.chart, style)
    IN  /\ out \in 0 .. Len(TextOf(h.segments))
        /\ \E tags, st2 :
              /\ FlushLine(h, final) = Emit(h, tags)
              /\ Puts(st, tags, Rest(Held(h.segments), out) \o Ending(final), box, st2)
              /\ (st2 = st \/ (final /\ st2 = LineIn(st)))

LEMMA FlushLineIs ==
    ASSUME NEW h, NEW st, NEW box, NEW final, NEW style, Flushable(h, st, box, final, style)
    PROVE  Flushes(h, st, box, final, style)
<1>. SUFFICES ASSUME h.segments \in Seq(Segment), st \in Seq(Opened), final \in BOOLEAN,
                     "chart" \in Within(st) <=> box,
                     Innermost(st, "a") = LinkShown(NoLink),
                     final => h.chart = "none" /\ TextOf(h.segments) # <<>>,
                     Prefix(TextOf(h.segments), h.chart) < Len(TextOf(h.segments)) =>
                         style = Held(h.segments)[Prefix(TextOf(h.segments), h.chart) + 1].style
              PROVE  LET out == LeftOut(TextOf(h.segments), h.chart, style)
                     IN  /\ out \in 0 .. Len(TextOf(h.segments))
                         /\ \E tags, st2 :
                               /\ FlushLine(h, final) = Emit(h, tags)
                               /\ Puts(st, tags, Rest(Held(h.segments), out) \o Ending(final), box, st2)
                               /\ (st2 = st \/ (final /\ st2 = LineIn(st)))
  BY DEF Flushable, Flushes
<1>. DEFINE s == LineText(h)
            N == Len(s)
            held == Held(h.segments)
            prefix == Prefix(s, h.chart)
            inner == SubSeq(s, prefix + 1, Len(s))
            quoted == Quoted(s, prefix)
            content == h.segments[CHOOSE i \in DOMAIN h.segments :
                          /\ Len(FlattenSeq([j \in 1..i |-> h.segments[j].text])) > prefix
                          /\ Len(FlattenSeq([j \in 1..(i - 1) |-> h.segments[j].text])) <= prefix]
            a1 == Text(<<Newline>>)
            a2 == HeadingLine(content.style, inner, When(~final, <<">", " ">>), final)
            a3 == HeadingLine(content.style, inner, [i \in 1..prefix |-> " "], final)
            a4 == HeadingLine(h.segments[1].style, s, <<>>, final)
            a5 == IF h.chart # "none" THEN ChartLine(h, prefix, final)
                  ELSE IF prefix > 0 THEN PrefixLine(h, prefix, final)
                  ELSE Slices(h, 0, Len(s), TRUE) \o LineEnd(final)
            heading == IsHeading(inner)
            tags == CASE s = <<>> -> a1
                      [] s # <<>> /\ heading /\ quoted -> a2
                      [] s # <<>> /\ heading /\ ~quoted /\ prefix > 0 /\ content.style = CodeStyle -> a3
                      [] s # <<>> /\ heading /\ prefix = 0 -> a4
                      [] OTHER -> a5
            out == LeftOut(s, h.chart, style)
            Done(t, o) == \E st2 : /\ Puts(st, t, Rest(held, o) \o Ending(final), box, st2)
                                   /\ (st2 = st \/ (final /\ st2 = LineIn(st)))
<1>1. FlushLine(h, final) = Emit(h, tags)
  BY DEF FlushLine
<1>2. s = TextOf(h.segments)
  BY LineTextIs
<1>3. /\ s \in Seq(Strings) /\ held \in Seq(Char) /\ Len(held) = N /\ N \in Nat
      /\ \A i \in 1 .. N : held[i].c = s[i]
  <2>1. TextOf(h.segments) \in Seq(Strings) /\ held \in Seq(Char)
    BY TextOfAppend
  <2>2. Len(held) = Len(TextOf(h.segments))
        /\ \A i \in 1 .. Len(TextOf(h.segments)) : held[i].c = TextOf(h.segments)[i]
    BY HeldLength
  <2>3. Len(TextOf(h.segments)) \in Nat
    BY <2>1
  <2>. HIDE DEF held, s
  <2>. QED
    BY <1>2, <2>1, <2>2, <2>3
<1>4. prefix \in 0 .. N /\ prefix \in Nat /\ SkipBlanks(s, prefix) \in prefix .. N
  <2>. HIDE DEF s
  <2>. QED
    BY <1>3, PrefixIs
<1>5. out = IF heading /\ prefix > 0 /\ (quoted \/ style = CodeStyle) THEN prefix
            ELSE IF s = <<>> \/ h.chart = "none" \/ (heading /\ prefix = 0) THEN 0
            ELSE IF h.chart = "bar" THEN SkipBlanks(s, prefix) ELSE prefix
  BY DEF LeftOut
<1>6. inner = Rest(s, prefix)
  BY DEF Rest
<1>7. prefix < N => style = held[prefix + 1].style
  BY <1>2
<1>8. heading => /\ prefix < N /\ content.style = style /\ style \in Strings
                 /\ inner \in Seq(Strings) /\ Len(inner) = Len(Rest(held, prefix))
                 /\ \A i \in 1 .. Len(inner) : Rest(held, prefix)[i].c = inner[i]
                 /\ Rest(held, prefix) \in Seq(Char)
  <2>. SUFFICES ASSUME heading
                PROVE  /\ prefix < N /\ content.style = style /\ style \in Strings
                       /\ inner \in Seq(Strings) /\ Len(inner) = Len(Rest(held, prefix))
                       /\ \A i \in 1 .. Len(inner) : Rest(held, prefix)[i].c = inner[i]
                       /\ Rest(held, prefix) \in Seq(Char)
    OBVIOUS
  <2>1. prefix \in 0 .. Len(held)
    BY <1>3, <1>4
  <2>2. /\ Rest(held, prefix) \in Seq(Char) /\ Len(Rest(held, prefix)) = N - prefix
        /\ \A i \in 1 .. (N - prefix) : Rest(held, prefix)[i] = held[prefix + i]
    <3>. HIDE DEF held, prefix, s
    <3>. QED
      BY <1>3, <2>1, RestIs
  <2>3. /\ inner \in Seq(Strings) /\ Len(inner) = N - prefix
        /\ \A i \in 1 .. (N - prefix) : inner[i] = s[prefix + i]
    <3>. HIDE DEF inner, prefix, s
    <3>. QED
      BY <1>3, <1>4, <1>6, RestIs DEF N
  <2>4. inner # <<>>
    <3>. HIDE DEF inner
    <3>. QED
      BY <2>3, HeadingIs
  <2>5. prefix < N
    <3>1. Len(inner) # 0
      <4>. HIDE DEF inner
      <4>. QED
        BY <2>3, <2>4, EmptySeq
    <3>. HIDE DEF inner, prefix, s, N
    <3>. QED
      BY <1>3, <1>4, <2>3, <3>1
  <2>6. \A i \in 1 .. Len(inner) : Rest(held, prefix)[i].c = inner[i]
    <3>1. ASSUME NEW i \in 1 .. (N - prefix)
          PROVE  Rest(held, prefix)[i].c = inner[i]
      <4>1. prefix + i \in 1 .. N
        <5>. HIDE DEF N, prefix
        <5>. QED
          BY <1>3, <1>4
      <4>. HIDE DEF held, inner, prefix, s, N
      <4>. QED
        BY <1>3, <2>2, <2>3, <4>1
    <3>. HIDE DEF inner, held, prefix, N
    <3>. QED
      BY <2>3, <3>1
  <2>7. content.style = style /\ style \in Strings
    <3>. DEFINE segs == h.segments
                Is(i) == /\ Len(FlattenSeq([j \in 1..i |-> h.segments[j].text])) > prefix
                         /\ Len(FlattenSeq([j \in 1..(i - 1) |-> h.segments[j].text])) <= prefix
                k == CHOOSE i \in DOMAIN h.segments : Is(i)
    <3>1. segs \in Seq(Segment) /\ DOMAIN segs = 1 .. Len(segs) /\ Len(segs) \in Nat
      OBVIOUS
    <3>2. ASSUME NEW i \in 1 .. Len(segs)
          PROVE  Is(i) <=> Holds(segs, i, prefix)
      <4>1. (i + 1) - 1 = i
        OBVIOUS
      <4>. HIDE DEF prefix
      <4>. QED
        BY <4>1, Zenon DEF Holds, Before
    <3>3. \E i \in 1 .. Len(segs) : Holds(segs, i, prefix)
      <4>1. prefix < Len(TextOf(segs))
        BY <1>2, <2>5
      <4>. HIDE DEF prefix, segs
      <4>. QED
        BY <1>4, <3>1, <4>1, ContentIs
    <3>. HIDE DEF Is
    <3>4. k \in DOMAIN h.segments /\ Is(k)
      <4>1. \E i \in DOMAIN h.segments : Is(i)
        BY <3>1, <3>2, <3>3
      <4>. QED
        BY <4>1, Zenon
    <3>5. content = segs[k]
      BY DEF Is
    <3>. HIDE DEF k
    <3>6. k \in 1 .. Len(segs) /\ Holds(segs, k, prefix)
      BY <3>1, <3>2, <3>4
    <3>7. Held(segs)[prefix + 1].style = segs[k].style
      <4>1. prefix < Len(TextOf(segs))
        BY <1>2, <2>5
      <4>. HIDE DEF prefix, segs
      <4>. QED
        BY <1>4, <3>1, <3>6, <4>1, ContentIs
    <3>8. segs[k] \in Segment
      BY <3>1, <3>6
    <3>9. segs[k].style \in Strings
      BY <3>8, HeldInIs, EscapeStrings
    <3>. HIDE DEF content
    <3>. QED
      BY <1>7, <2>5, <3>5, <3>7, <3>9
  <2>. HIDE DEF inner, content
  <2>. QED
    BY <2>2, <2>3, <2>5, <2>6, <2>7
<1>. HIDE DEF heading
<1>9. quoted => prefix > 0
  <2>1. quoted => \E i \in 1 .. prefix : TRUE
    BY DEF Quoted
  <2>. HIDE DEF prefix, quoted
  <2>. QED
    BY <1>4, <2>1
<1>10. Ending(final) \in Seq(Char)
  BY EndingIs
<1>11. LineEnd(final) = LineEnd(final) /\ Puts(st, LineEnd(final), Ending(final), box, st)
  BY PutsLineEnd
<1>12. s = <<>> => N = 0 /\ held = <<>> /\ prefix = 0 /\ ~heading /\ ~final
  <2>. SUFFICES ASSUME s = <<>> PROVE N = 0 /\ held = <<>> /\ prefix = 0 /\ ~heading /\ ~final
    OBVIOUS
  <2>1. N = 0
    OBVIOUS
  <2>2. held = <<>>
    <3>. HIDE DEF held, N
    <3>. QED
      BY <1>3, <2>1, EmptySeq
  <2>3. prefix = 0
    <3>. HIDE DEF prefix, N
    <3>. QED
      BY <1>4, <2>1
  <2>4. ~heading
    <3>. HIDE DEF prefix, N
    <3>. QED
      BY <1>8, <2>1, <2>3
  <2>. QED
    BY <1>2, <2>1, <2>2, <2>3, <2>4
<1>. HIDE DEF quoted, prefix, inner, content, out, s, held, N
<1>. SUFFICES out \in 0 .. N /\ Done(tags, out)
  <2>1. ASSUME out \in 0 .. N, Done(tags, out)
        PROVE  LeftOut(TextOf(h.segments), h.chart, style) \in 0 .. Len(TextOf(h.segments))
               /\ \E t, st2 :
                     /\ FlushLine(h, final) = Emit(h, t)
                     /\ Puts(st, t, Rest(Held(h.segments), LeftOut(TextOf(h.segments), h.chart, style))
                                      \o Ending(final), box, st2)
                     /\ (st2 = st \/ (final /\ st2 = LineIn(st)))
    <3>1. out = LeftOut(TextOf(h.segments), h.chart, style) /\ N = Len(TextOf(h.segments))
      BY <1>2 DEF out, N
    <3>2. held = Held(h.segments)
      BY DEF held
    <3>. HIDE DEF tags
    <3>. QED
      BY <1>1, <2>1, <3>1, <3>2
  <2>. QED
    BY <2>1
<1>13. CASE s = <<>>
  <2>1. tags = a1
    <3>. HIDE DEF a1, a2, a3, a4, a5
    <3>. QED
      BY <1>13
  <2>2. out = 0 /\ 0 \in 0 .. N
    BY <1>5, <1>12, <1>13
  <2>3. Rest(held, 0) \o Ending(final) = <<LineBreak>>
    <3>0. 0 \in 0 .. Len(held)
      BY <1>3, <1>12, <1>13
    <3>1. Rest(held, 0) = <<>>
      BY <1>3, <1>12, <1>13, <3>0, TwoParts
    <3>2. Ending(final) = <<LineBreak>>
      BY <1>12, <1>13, EndingIs
    <3>3. <<>> \o <<LineBreak>> = <<LineBreak>>
      OBVIOUS
    <3>. QED
      BY <3>1, <3>2, <3>3
  <2>4. Puts(st, a1, <<LineBreak>>, box, st)
    BY PutsLineEnd
  <2>5. Done(a1, 0)
    BY <2>3, <2>4
  <2>. HIDE DEF Done, tags, a1
  <2>. QED
    BY <2>1, <2>2, <2>5
<1>14. CASE s # <<>> /\ heading /\ prefix > 0 /\ (quoted \/ style = CodeStyle)
  <2>1. tags = a2 \/ tags = a3
    <3>. HIDE DEF a1, a2, a3, a4, a5
    <3>. QED
      BY <1>8, <1>14
  <2>2. out = prefix
    BY <1>5, <1>14
  <2>3. When(~final, <<">", " ">>) \in Seq(Strings) /\ [i \in 1..prefix |-> " "] \in Seq(Strings)
    <3>1. ">" \in Strings /\ " " \in Strings
      BY Named
    <3>. DEFINE a == ">"
                b == " "
    <3>. HIDE DEF a, b
    <3>2. a \in Strings /\ b \in Strings
      BY <3>1 DEF a, b
    <3>3. <<a, b>> \in Seq(Strings) /\ <<>> \in Seq(Strings)
      BY <3>2
    <3>4. [i \in 1..prefix |-> b] \in Seq(Strings)
      BY <1>4, <3>2
    <3>5. <<">", " ">> \in Seq(Strings) /\ [i \in 1..prefix |-> " "] \in Seq(Strings)
      BY <3>3, <3>4, Zenon DEF a, b
    <3>6. When(~final, <<">", " ">>) = <<">", " ">> \/ When(~final, <<">", " ">>) = <<>>
      BY Zenon DEF When
    <3>. QED
      BY <3>3, <3>5, <3>6, Zenon
  <2>4. content.style \in Strings
    BY <1>8, <1>14
  <2>5. \A trail \in Seq(Strings) :
          Puts(st, HeadingLine(content.style, inner, trail, final), Rest(held, prefix) \o Ending(final), box, st)
    <3>. SUFFICES ASSUME NEW trail \in Seq(Strings)
                  PROVE  Puts(st, HeadingLine(content.style, inner, trail, final),
                              Rest(held, prefix) \o Ending(final), box, st)
      OBVIOUS
    <3>. QED
      BY <1>8, <1>14, <2>4, HeadingLineIs
  <2>6. Done(a2, prefix) /\ Done(a3, prefix)
    BY <2>3, <2>5
  <2>. HIDE DEF Done, tags, a2, a3
  <2>. QED
    BY <1>4, <2>1, <2>2, <2>6
<1>15. CASE s # <<>> /\ heading /\ prefix = 0
  <2>1. tags = a4
    <3>1. ~(prefix > 0)
      BY <1>15
    <3>. HIDE DEF a1, a2, a3, a4, a5
    <3>. QED
      BY <1>9, <1>15, <3>1
  <2>2. out = 0 /\ 0 \in 0 .. N
    BY <1>3, <1>4, <1>5, <1>15
  <2>3. h.segments[1].style \in Strings
    <3>1. h.segments # <<>>
      BY <1>2, <1>15, TextOfAppend
    <3>2. h.segments[1] \in Segment
      BY <3>1
    <3>. QED
      BY <3>2, HeldInIs, EscapeStrings
  <2>4. Rest(held, 0) = held
    <3>1. 0 \in 0 .. Len(held)
      BY <1>3, <2>2
    <3>. QED
      BY <1>3, <3>1, TwoParts
  <2>5. <<>> \in Seq(Strings)
    OBVIOUS
  <2>6. Puts(st, a4, held \o Ending(final), box, st)
    BY <1>3, <2>3, <2>5, HeadingLineIs DEF N
  <2>7. Done(a4, 0)
    BY <2>4, <2>6
  <2>. HIDE DEF Done, tags, a4
  <2>. QED
    BY <2>1, <2>2, <2>7
<1>16. CASE s # <<>> /\ ~(heading /\ prefix > 0 /\ (quoted \/ style = CodeStyle)) /\ ~(heading /\ prefix = 0)
  <2>1. tags = a5
    <3>1. prefix > 0 \/ prefix = 0
      BY <1>4
    <3>. HIDE DEF a1, a2, a3, a4, a5
    <3>. QED
      BY <1>8, <1>9, <1>16, <3>1
  <2>2. CASE h.chart # "none"
    <3>. DEFINE from == IF h.chart = "bar" THEN SkipBlanks(s, prefix) ELSE prefix
    <3>1. out = from /\ from \in 0 .. N /\ ~final
      BY <1>2, <1>4, <1>5, <1>16, <2>2
    <3>2. a5 = ChartLine(h, prefix, final) /\ final = FALSE
      BY <2>2, <3>1
    <3>3. Puts(st, ChartLine(h, prefix, FALSE), Rest(held, from) \o <<LineBreak>>, box, st)
      <4>1. from \in 0 .. Len(TextOf(h.segments))
        BY <1>2, <3>1 DEF N
      <4>2. from = IF h.chart = "bar" THEN SkipBlanks(LineText(h), prefix) ELSE prefix
        BY DEF s
      <4>. HIDE DEF from
      <4>. QED
        BY <4>1, <4>2, ChartLineIs DEF held
    <3>4. Ending(final) = <<LineBreak>>
      BY <3>2, EndingIs
    <3>. HIDE DEF from, tags, a5
    <3>5. Done(a5, from)
      BY <3>2, <3>3, <3>4
    <3>. HIDE DEF Done
    <3>. QED
      BY <2>1, <3>1, <3>5
  <2>3. CASE h.chart = "none" /\ prefix > 0
    <3>1. out = 0 /\ 0 \in 0 .. N /\ 0 \in 0 .. Len(held)
      BY <1>3, <1>5, <1>16, <2>3
    <3>2. a5 = PrefixLine(h, prefix, final)
      BY <2>3
    <3>3. Puts(st, PrefixLine(h, prefix, final), held \o Ending(final), box, IF final THEN LineIn(st) ELSE st)
      <4>1. prefix \in 0 .. Len(TextOf(h.segments))
        BY <1>2, <1>4 DEF N
      <4>. QED
        BY <4>1, PrefixLineIs DEF held
    <3>4. Rest(held, 0) = held
      BY <1>3, <3>1, TwoParts
    <3>. HIDE DEF tags, a5
    <3>5. Done(a5, 0)
      BY <3>2, <3>3, <3>4
    <3>. HIDE DEF Done
    <3>. QED
      BY <2>1, <3>1, <3>5
  <2>4. CASE h.chart = "none" /\ ~(prefix > 0)
    <3>1. out = 0 /\ 0 \in 0 .. N /\ 0 \in 0 .. Len(held)
      BY <1>3, <1>5, <1>16, <2>4
    <3>2. a5 = Slices(h, 0, Len(s), TRUE) \o LineEnd(final)
      BY <2>4
    <3>3. Rest(held, 0) = held
      BY <1>3, <3>1, TwoParts
    <3>4. Puts(st, Slices(h, 0, Len(LineText(h)), TRUE), Rest(held, 0), box, st)
      <4>1. 0 \in 0 .. Len(TextOf(h.segments))
        BY <1>2, <3>1 DEF N
      <4>2. \A i \in 1 .. Len(Rest(held, 0)) :
               LET item == Rest(held, 0)[i]
               IN  \/ TRUE /\ item.link # NoLink
                   \/ Innermost(st, "a") = LinkShown(item.link)
        OBVIOUS
      <4>. QED
        BY <4>1, <4>2, PutsRest DEF held
    <3>5. Puts(st, Slices(h, 0, Len(s), TRUE) \o LineEnd(final), Rest(held, 0) \o Ending(final), box, st)
      BY <1>11, <3>4, PutsConcat DEF s
    <3>. HIDE DEF tags, a5
    <3>6. Done(a5, 0)
      BY <3>2, <3>5
    <3>. HIDE DEF Done
    <3>. QED
      BY <2>1, <3>1, <3>6
  <2>. QED
    BY <2>2, <2>3, <2>4
<1>17. prefix > 0 \/ prefix = 0
  BY <1>4
<1>. HIDE DEF Done, tags
<1>. QED
  BY <1>13, <1>14, <1>15, <1>16, <1>17

-----------------------------------------------------------------------------
(* What was written, and what of it is shown: all but the leads.             *)
Given == [c : Strings, lead : BOOLEAN, style : Styles, link : Links \cup {NoLink}, box : BOOLEAN]

LEMMA ShowsAre ==
    /\ Shows(<<>>) = <<>>
    /\ \A s \in Seq(Given) : Shows(s) \in Seq(Given)
    /\ \A s \in Seq(Given), item \in Given : Shows(Append(s, item)) = Shows(s) \o When(~item.lead, <<item>>)
<1>. DEFINE F == [item \in Given |-> When(~item.lead, <<item>>)]
<1>1. F \in [Given -> Seq(Given)]
  <2>1. \A item \in Given : <<item>> \in Seq(Given) /\ <<>> \in Seq(Given)
    OBVIOUS
  <2>. QED
    BY <2>1 DEF When
<1>2. \A s \in Seq(Given) : Shows(s) = FlattenSeq(Mapped(F, s))
  <2>. TAKE s \in Seq(Given)
  <2>1. \A i \in DOMAIN s : s[i] \in Given
    OBVIOUS
  <2>. QED
    BY <2>1, Zenon DEF Shows, Mapped
<1>3. \A item \in Given : F[item] = When(~item.lead, <<item>>)
  OBVIOUS
<1>4. <<>> \in Seq(Given)
  OBVIOUS
<1>. HIDE DEF F
<1>5. FlatMaps(Given, Given, F)
  BY <1>1, FlatMapAppend
<1>6. Shows(<<>>) = <<>>
  BY <1>2, <1>4, <1>5 DEF FlatMaps
<1>7. ASSUME NEW s \in Seq(Given), NEW item \in Given
      PROVE  Shows(s) \in Seq(Given) /\ Shows(Append(s, item)) = Shows(s) \o When(~item.lead, <<item>>)
  <2>1. Append(s, item) \in Seq(Given)
    OBVIOUS
  <2>. QED
    BY <1>2, <1>3, <1>5, <2>1 DEF FlatMaps
<1>8. \A s \in Seq(Given) : Shows(s) \in Seq(Given)
  BY <1>2, <1>5 DEF FlatMaps
<1>. QED
  BY <1>6, <1>7, <1>8

LEMMA GivenSeq ==
    \A s \in Seq(Given), t \in Seq(Given), x \in Given :
        /\ <<x>> \in Seq(Given) /\ <<>> \in Seq(Given) /\ Append(s, x) \in Seq(Given) /\ s \o t \in Seq(Given)
        /\ s \o <<x>> = Append(s, x) /\ s \o <<>> = s /\ s \o Append(t, x) = Append(s \o t, x)
        /\ Len(Append(s, x)) = Len(s) + 1 /\ Append(s, x)[Len(s) + 1] = x
        /\ \A i \in 1 .. Len(s) : Append(s, x)[i] = s[i]
  OBVIOUS

LEMMA GivenAssociate ==
    \A a, b, c \in Seq(Given) : (a \o b) \o c = a \o (b \o c)
  BY ConcatAssociative

LEMMA ShowsConcat ==
    ASSUME NEW s \in Seq(Given), NEW t \in Seq(Given)
    PROVE  Shows(s \o t) = Shows(s) \o Shows(t)
<1>. DEFINE P == {u \in Seq(Given) : Shows(s \o u) = Shows(s) \o Shows(u)}
<1>1. <<>> \in P
  <2>1. <<>> \in Seq(Given) /\ s \o <<>> = s /\ Shows(s) \in Seq(Given)
    BY ShowsAre
  <2>2. Shows(s) \o <<>> = Shows(s)
    BY <2>1
  <2>. QED
    BY <2>1, <2>2, ShowsAre
<1>2. ASSUME NEW u \in P, NEW x \in Given
      PROVE  Append(u, x) \in P
  <2>1. u \in Seq(Given) /\ Shows(s \o u) = Shows(s) \o Shows(u)
    OBVIOUS
  <2>. DEFINE w == When(~x.lead, <<x>>)
  <2>2. w \in Seq(Given)
    BY GivenSeq DEF When
  <2>. HIDE DEF w
  <2>3. s \o u \in Seq(Given) /\ s \o Append(u, x) = Append(s \o u, x) /\ Append(u, x) \in Seq(Given)
    BY <2>1, GivenSeq
  <2>4. Shows(Append(s \o u, x)) = Shows(s \o u) \o w /\ Shows(Append(u, x)) = Shows(u) \o w
        /\ Shows(s) \in Seq(Given) /\ Shows(u) \in Seq(Given)
    BY <2>1, <2>3, ShowsAre DEF w
  <2>5. (Shows(s) \o Shows(u)) \o w = Shows(s) \o (Shows(u) \o w)
    BY <2>2, <2>4, GivenAssociate
  <2>. QED
    BY <2>1, <2>3, <2>4, <2>5
<1>3. P = Seq(Given)
  <2>. HIDE DEF P
  <2>1. P \in SUBSET Seq(Given)
    BY DEF P
  <2>. QED
    BY <1>1, <1>2, <2>1, SeqInduct
<1>. QED
  BY <1>3

(* The rest of a sequence that goes on.                                      *)
LEMMA RestAppend ==
    ASSUME NEW s \in Seq(Given), NEW x \in Given
    PROVE  /\ \A m \in 0 .. Len(s) : Rest(Append(s, x), m) = Append(Rest(s, m), x)
           /\ Rest(s, Len(s)) = <<>>
<1>1. ASSUME NEW m \in 0 .. Len(s)
      PROVE  Rest(Append(s, x), m) = Append(Rest(s, m), x)
  <2>. DEFINE n    == Len(s)
              more == Append(s, x)
              a    == Rest(more, m)
              b    == Append(Rest(s, m), x)
  <2>1. n \in Nat /\ more \in Seq(Given) /\ Len(more) = n + 1 /\ more[n + 1] = x
        /\ \A i \in 1 .. n : more[i] = s[i]
    BY GivenSeq
  <2>. HIDE DEF n, more
  <2>2. m \in 0 .. Len(more) /\ m \in 0 .. n
    BY <2>1 DEF n
  <2>3. a \in Seq(Given) /\ Len(a) = n + 1 - m /\ \A i \in 1 .. (n + 1 - m) : a[i] = more[m + i]
    <3>1. /\ Rest(more, m) \in Seq(Given) /\ Len(Rest(more, m)) = Len(more) - m
          /\ \A i \in 1 .. (Len(more) - m) : Rest(more, m)[i] = more[m + i]
      BY <2>1, <2>2, RestIs
    <3>. QED
      BY <2>1, <3>1
  <2>4. Rest(s, m) \in Seq(Given) /\ Len(Rest(s, m)) = n - m /\ \A i \in 1 .. (n - m) : Rest(s, m)[i] = s[m + i]
    BY RestIs DEF n
  <2>5. b \in Seq(Given) /\ Len(b) = n - m + 1 /\ b[n - m + 1] = x /\ \A i \in 1 .. (n - m) : b[i] = Rest(s, m)[i]
    BY <2>4, GivenSeq
  <2>. HIDE DEF a, b
  <2>6. Len(a) = Len(b)
    BY <2>1, <2>2, <2>3, <2>5
  <2>7. \A i \in 1 .. Len(a) : a[i] = b[i]
    <3>1. ASSUME NEW i \in 1 .. (n - m)
          PROVE  a[i] = b[i]
      <4>1. m + i \in 1 .. n /\ i \in 1 .. (n + 1 - m)
        BY <2>1, <2>2
      <4>. QED
        BY <2>1, <2>3, <2>4, <2>5, <4>1
    <3>2. a[n + 1 - m] = b[n - m + 1]
      <4>1. n + 1 - m \in 1 .. (n + 1 - m) /\ m + (n + 1 - m) = n + 1
        BY <2>1, <2>2
      <4>. QED
        BY <2>1, <2>3, <2>5, <4>1
    <3>3. n - m + 1 = n + 1 - m /\ \A i \in 1 .. Len(a) : i \in 1 .. (n - m) \/ i = n + 1 - m
      BY <2>1, <2>2, <2>3
    <3>. QED
      BY <3>1, <3>2, <3>3
  <2>8. a = b
    BY <2>3, <2>5, <2>6, <2>7, SeqEqual
  <2>. QED
    BY <2>8 DEF a, b, more
<1>2. Rest(s, Len(s)) = <<>>
  <2>1. Len(s) \in 0 .. Len(s) /\ Len(s) - Len(s) = 0
    OBVIOUS
  <2>2. Rest(s, Len(s)) \in Seq(Given) /\ Len(Rest(s, Len(s))) = 0
    BY <2>1, RestIs
  <2>. QED
    BY <2>2, EmptySeq
<1>. QED
  BY <1>1, <1>2

LEMMA ShowsLead ==
    ASSUME NEW s \in Seq(Given), NEW m \in 0 .. Len(s),
           \A i \in 1 .. Len(s) : s[i].lead <=> i <= m
    PROVE  Shows(s) = Rest(s, m)
<1>. DEFINE Leads(u, n) == \A i \in 1 .. Len(u) : u[i].lead <=> i <= n
            Has(u) == \A n \in 0 .. Len(u) : Leads(u, n) => Shows(u) = Rest(u, n)
            P == {u \in Seq(Given) : Has(u)}
<1>1. <<>> \in P
  <2>1. <<>> \in Seq(Given) /\ \A n \in 0 .. Len(<<>>) : n = Len(<<>>)
    OBVIOUS
  <2>2. Shows(<<>>) = <<>> /\ Given # {}
    <3>1. [c |-> Newline, lead |-> FALSE, style |-> Plain, link |-> NoLink, box |-> FALSE] \in Given
      BY Named, StyleAssumption DEF Given
    <3>. QED
      BY <3>1, ShowsAre
  <2>3. Rest(<<>>, Len(<<>>)) = <<>>
    BY <2>1, <2>2, RestAppend
  <2>4. Has(<<>>)
    BY <2>1, <2>2, <2>3
  <2>. HIDE DEF Has
  <2>. QED
    BY <2>1, <2>4
<1>2. ASSUME NEW u \in P, NEW x \in Given
      PROVE  Append(u, x) \in P
  <2>. DEFINE more == Append(u, x)
              k    == Len(u)
  <2>1. u \in Seq(Given) /\ Has(u)
    <3>. HIDE DEF Has
    <3>. QED
      OBVIOUS
  <2>2. more \in Seq(Given) /\ Len(more) = k + 1 /\ more[k + 1] = x /\ k \in Nat
        /\ \A i \in 1 .. k : more[i] = u[i]
    BY <2>1, GivenSeq
  <2>3. Shows(more) = Shows(u) \o When(~x.lead, <<x>>) /\ Shows(u) \in Seq(Given)
    BY <2>1, ShowsAre
  <2>4. \A n \in 0 .. k : Rest(more, n) = Append(Rest(u, n), x) /\ Rest(u, n) \in Seq(Given)
    <3>1. \A n \in 0 .. k : Rest(more, n) = Append(Rest(u, n), x)
      BY <2>1, RestAppend
    <3>2. ASSUME NEW n \in 0 .. k
          PROVE  Rest(u, n) \in Seq(Given)
      BY <2>1, RestIs
    <3>. QED
      BY <3>1, <3>2
  <2>5. Rest(more, k + 1) = <<>> /\ Rest(u, k) = <<>>
    <3>1. Rest(more, Len(more)) = <<>> /\ Rest(u, Len(u)) = <<>>
      BY <2>1, <2>2, RestAppend
    <3>. HIDE DEF more
    <3>. QED
      BY <2>2, <3>1
  <2>. HIDE DEF more, k
  <2>6. ASSUME NEW n \in 0 .. k + 1, Leads(more, n)
        PROVE  Shows(more) = Rest(more, n)
    <3>1. CASE n = k + 1
      <4>1. Leads(u, k)
        BY <2>2, <2>6, <3>1 DEF k
      <4>2. Shows(u) = <<>>
        BY <2>1, <2>2, <2>5, <4>1 DEF k
      <4>3. x.lead
        BY <2>2, <2>6, <3>1
      <4>4. When(~x.lead, <<x>>) = <<>> /\ <<>> \o <<>> = <<>>
        BY <4>3 DEF When
      <4>. QED
        BY <2>3, <2>5, <3>1, <4>2, <4>4
    <3>2. CASE n \in 0 .. k
      <4>1. Leads(u, n)
        BY <2>2, <2>6 DEF k
      <4>2. Shows(u) = Rest(u, n)
        BY <2>1, <3>2, <4>1 DEF k
      <4>3. ~x.lead
        BY <2>2, <2>6, <3>2
      <4>4. When(~x.lead, <<x>>) = <<x>>
        BY <4>3 DEF When
      <4>5. Rest(u, n) \o <<x>> = Append(Rest(u, n), x)
        BY <2>4, <3>2, GivenSeq
      <4>. QED
        BY <2>3, <2>4, <3>2, <4>2, <4>4, <4>5
    <3>3. n = k + 1 \/ n \in 0 .. k
      BY <2>2
    <3>. QED
      BY <3>1, <3>2, <3>3
  <2>7. Has(more)
    <3>. HIDE DEF Leads
    <3>. QED
      BY <2>2, <2>6
  <2>. HIDE DEF Has
  <2>. QED
    BY <2>2, <2>7 DEF more
<1>3. P = Seq(Given)
  <2>. HIDE DEF P
  <2>1. P \in SUBSET Seq(Given)
    BY DEF P
  <2>. QED
    BY <1>1, <1>2, <2>1, SeqInduct
<1>4. Has(s)
  <2>. HIDE DEF Has
  <2>. QED
    BY <1>3
<1>. QED
  BY <1>4

-----------------------------------------------------------------------------
(* The state of the bridge.                                                  *)
LinkNames == Links \cup {NoLink}
HtmlState ==
    [segments : Seq(Segment), pending_newline : BOOLEAN, style : Styles, link : LinkNames,
     stream : {"none", "heading", "plain"}, span : BOOLEAN, anchor : BOOLEAN,
     stream_style : Styles, stream_link : LinkNames, utf8 : {<<>>, <<"e1">>},
     chart : STRING \cup {"none"}, body_emitted : BOOLEAN, footer_needs_newline : BOOLEAN, page : Page]

(* What is open while nothing is streamed, and in a streamed line.           *)
BoxOf(chart)        == IF chart = "none" THEN <<>> ELSE <<Top("chart", "")>>
Dressed(style, link) == Dressing(<<>>, [style |-> style, link |-> link], TRUE)

Opens(h) ==
    LET st == h.page.stack
    IN  /\ h.stream = "none" => st = BoxOf(h.chart)
        /\ h.stream = "heading" => \E x \in Strings : st = Append(<<>>, Top("heading", x))
        /\ h.stream = "plain" => st = Dressed(h.stream_style, h.stream_link)

Bridge(h) ==
    /\ h \in HtmlState
    /\ TextOf(h.segments) = <<>> => h.segments = <<>>
    /\ h.stream # "none" => h.chart = "none" /\ h.segments = <<>>
    /\ h.stream = "none" => h.utf8 = <<>>
    /\ h.span <=> h.stream = "plain"
    /\ h.anchor <=> h.span /\ h.stream_link # NoLink
    /\ h.pending_newline => h.stream # "none" \/ TextOf(h.segments) # <<>>
    /\ h.page.nested

(* From h to g, the page has gained what fits these characters.              *)
Gains(h, g, items, box) ==
    /\ g.page \in Page /\ g.page.nested = h.page.nested
    /\ \E new : Fits(new, items, box) /\ g.page.text = h.page.text \o new

LEMMA EmitIs ==
    ASSUME NEW h, h \in HtmlState, NEW tags, NEW items, NEW box, NEW st2,
           Puts(h.page.stack, tags, items, box, st2)
    PROVE  /\ Emit(h, tags) = [h EXCEPT !.page = Emit(h, tags).page]
           /\ Emit(h, tags).page.stack = st2
           /\ Gains(h, Emit(h, tags), items, box)
           /\ Emit(h, tags) \in HtmlState
<1>. DEFINE st == h.page.stack
            text == h.page.text
            nested == h.page.nested
            page == PageAfter(h.page, tags)
<1>1. h.page \in Page
  BY DEF HtmlState
<1>2. text \in Seq(Glyph) /\ nested \in BOOLEAN /\ h.page = PageOf(st, text, nested)
  BY <1>1, PageIs DEF Page
<1>3. PICK new : Writes(st, tags, new, st2) /\ Fits(new, items, box)
  BY DEF Puts
<1>4. new \in Seq(Glyph) /\ st2 \in Seq(Opened) /\ page = PageOf(st2, text \o new, nested)
  BY <1>2, <1>3 DEF Writes
<1>5. text \o new \in Seq(Glyph)
  BY <1>2, <1>4
<1>6. page \in Page /\ page.stack = st2 /\ page.text = text \o new /\ page.nested = nested
  <2>. DEFINE more == text \o new
  <2>. HIDE DEF page, st, text, nested, more
  <2>1. PageOf(st2, more, nested) \in Page
    BY <1>2, <1>4, <1>5, PageIs DEF more
  <2>2. /\ PageOf(st2, more, nested).stack = st2 /\ PageOf(st2, more, nested).text = more
        /\ PageOf(st2, more, nested).nested = nested
    BY DEF PageOf
  <2>. QED
    BY <1>4, <2>1, <2>2 DEF more
<1>7. Emit(h, tags) = [h EXCEPT !.page = page]
  BY DEF Emit
<1>. HIDE DEF page
<1>8. [h EXCEPT !.page = page].page = page /\ [h EXCEPT !.page = page] \in HtmlState
  BY <1>6 DEF HtmlState
<1>. QED
  BY <1>3, <1>6, <1>7, <1>8 DEF Gains

LEMMA GainsThen ==
    ASSUME NEW h, NEW g, NEW k, NEW a, NEW b, NEW box, h.page \in Page,
           Gains(h, g, a, box), Gains(g, k, b, box)
    PROVE  Gains(h, k, a \o b, box)
<1>1. PICK x : Fits(x, a, box) /\ g.page.text = h.page.text \o x
  BY DEF Gains
<1>2. PICK y : Fits(y, b, box) /\ k.page.text = g.page.text \o y
  BY DEF Gains
<1>3. Fits(x \o y, a \o b, box)
  BY <1>1, <1>2, FitsConcat
<1>4. x \in Seq(Glyph) /\ y \in Seq(Glyph) /\ h.page.text \in Seq(Glyph)
  BY <1>1, <1>2 DEF Fits, Page
<1>5. k.page.text = h.page.text \o (x \o y)
  <2>1. k.page.text = (h.page.text \o x) \o y
    BY <1>1, <1>2
  <2>2. (h.page.text \o x) \o y = h.page.text \o (x \o y)
    BY <1>4, GlyphsAssociate, Zenon
  <2>. QED
    BY <2>1, <2>2
<1>. QED
  BY <1>3, <1>5 DEF Gains

LEMMA GainsNothing == \A h, box : h.page \in Page => Gains(h, h, <<>>, box)
<1>. SUFFICES ASSUME NEW h, NEW box, h.page \in Page
              PROVE  Gains(h, h, <<>>, box)
  OBVIOUS
<1>1. h.page.text \in Seq(Glyph)
  BY DEF Page
<1>2. h.page.text \o <<>> = h.page.text
  BY <1>1
<1>. QED
  BY <1>2, FitsNone DEF Gains

LEMMA GainsNone ==
    ASSUME NEW h, NEW g, NEW a, NEW box, Gains(h, g, a, box)
    PROVE  a \o <<>> = a /\ <<>> \o a = a
<1>1. a \in Seq(Char)
  BY DEF Gains, Fits
<1>. QED
  BY <1>1

LEMMA BoxIs ==
    ASSUME NEW chart \in STRING \cup {"none"}
    PROVE  /\ BoxOf(chart) \in Seq(Opened)
           /\ "chart" \in Within(BoxOf(chart)) <=> chart # "none"
           /\ Innermost(BoxOf(chart), "a") = LinkShown(NoLink)
<1>0. "chart" \in Strings /\ "a" \in Strings /\ NoText \in Strings /\ "a" # "chart" /\ <<>> \in Seq(Opened)
  <2>1. <<>> \in Seq(Opened)
    OBVIOUS
  <2>. QED
    BY <2>1, Named DEF NoText
<1>1. LinkShown(NoLink) = NoText /\ Innermost(<<>>, "a") = NoText
  BY <1>0, InnermostNone, Zenon DEF LinkShown, NoText
<1>2. "chart" \notin Within(<<>>)
  BY DEF Within
<1>. DEFINE one == Append(<<>>, Top("chart", NoText))
<1>3. one \in Seq(Opened) /\ "chart" \in Within(one)
  BY <1>0, WithinTop
<1>4. Innermost(one, "a") = NoText
  BY <1>0, <1>1, LastlyBelow
<1>5. chart # "none" => BoxOf(chart) = one
  <2>. DEFINE top == Top("chart", NoText)
  <2>1. Append(<<>>, top) = <<top>>
    <3>. HIDE DEF top
    <3>. QED
      OBVIOUS
  <2>. QED
    BY <2>1, Zenon DEF BoxOf, NoText
<1>6. chart = "none" => BoxOf(chart) = <<>>
  BY DEF BoxOf
<1>. HIDE DEF one
<1>. QED
  BY <1>0, <1>1, <1>2, <1>3, <1>4, <1>5, <1>6

-----------------------------------------------------------------------------
(* The spans of a streamed line.                                             *)
LEMMA DressedIs ==
    ASSUME NEW style \in Styles, NEW link \in LinkNames
    PROVE  /\ Dressed(style, link) \in Seq(Opened)
           /\ Dressed(style, link) = Append(Linked(<<>>, link, TRUE), Top("span", style))
           /\ Linked(<<>>, link, TRUE) \in Seq(Opened)
           /\ Writes(<<>>, When(link # NoLink, <<Open("a", link)>>), <<>>, Linked(<<>>, link, TRUE))
           /\ Writes(Linked(<<>>, link, TRUE), When(link # NoLink, <<Close("a")>>), <<>>, <<>>)
           /\ Writes(Linked(<<>>, link, TRUE), <<Open("span", style)>>, <<>>, Dressed(style, link))
           /\ Writes(Dressed(style, link), <<Close("span")>>, <<>>, Linked(<<>>, link, TRUE))
<1>. DEFINE base == Linked(<<>>, link, TRUE)
<1>1. Dressed(style, link) = Append(base, Top("span", style))
  <2>. DEFINE seg == [style |-> style, link |-> link]
  <2>1. seg.style = style /\ seg.link = link
    OBVIOUS
  <2>. HIDE DEF seg
  <2>2. Dressing(<<>>, seg, TRUE) = Append(base, Top("span", style))
    BY <2>1 DEF Dressing
  <2>. QED
    BY <2>2 DEF Dressed, seg
<1>2. <<>> \in Seq(Opened) /\ link \in Links \cup {NoLink} /\ (TRUE /\ link # NoLink) = (link # NoLink)
  BY DEF LinkNames
<1>3. /\ base \in Seq(Opened)
      /\ Writes(<<>>, When(TRUE /\ link # NoLink, <<Open("a", link)>>), <<>>, base)
      /\ Writes(base, When(TRUE /\ link # NoLink, <<Close("a")>>), <<>>, <<>>)
  BY <1>2, WritesLink
<1>. HIDE DEF base
<1>4. "span" \in Strings /\ style \in Strings /\ "span" # "block"
  BY Named, EscapeStrings
<1>5. Append(base, Top("span", style)) \in Seq(Opened)
      /\ Writes(base, <<Open("span", style)>>, <<>>, Append(base, Top("span", style)))
      /\ Writes(Append(base, Top("span", style)), <<Close("span")>>, <<>>, base)
  BY <1>3, <1>4, WithinTop, WritesOpen, WritesMute
<1>. QED
  BY <1>1, <1>2, <1>3, <1>5 DEF base

Spans(h) ==
    /\ h.page.stack = IF h.span THEN Dressed(h.stream_style, h.stream_link) ELSE <<>>
    /\ h.anchor <=> h.span /\ h.stream_link # NoLink

LEMMA SpansClose ==
    ASSUME NEW h, h \in HtmlState, Spans(h)
    PROVE  Writes(h.page.stack, When(h.span, <<Close("span")>>) \o When(h.anchor, <<Close("a")>>), <<>>, <<>>)
<1>1. h.stream_style \in Styles /\ h.stream_link \in LinkNames /\ h.span \in BOOLEAN /\ h.anchor \in BOOLEAN
  BY DEF HtmlState
<1>2. CASE h.span
  <2>. DEFINE base == Linked(<<>>, h.stream_link, TRUE)
  <2>1. h.page.stack = Dressed(h.stream_style, h.stream_link) /\ (h.anchor = (h.stream_link # NoLink))
    BY <1>1, <1>2 DEF Spans
  <2>2. /\ Writes(h.page.stack, <<Close("span")>>, <<>>, base)
        /\ Writes(base, When(h.anchor, <<Close("a")>>), <<>>, <<>>)
    BY <1>1, <2>1, DressedIs
  <2>3. When(h.span, <<Close("span")>>) = <<Close("span")>>
    BY <1>2 DEF When
  <2>. HIDE DEF base
  <2>. QED
    BY <2>2, <2>3, WritesThen
<1>3. CASE ~h.span
  <2>1. h.page.stack = <<>> /\ When(h.span, <<Close("span")>>) = <<>> /\ When(h.anchor, <<Close("a")>>) = <<>>
    BY <1>3 DEF Spans, When
  <2>2. <<>> \in Seq(Opened)
    OBVIOUS
  <2>3. Writes(<<>>, <<>>, <<>>, <<>>)
    BY <2>2, WritesNone
  <2>4. Writes(<<>>, <<>> \o <<>>, <<>>, <<>>)
    BY <2>3, WritesThen
  <2>. QED
    BY <2>1, <2>4
<1>. QED
  BY <1>2, <1>3

(* What nothing that is written changes.                                     *)
Kept(h, g) ==
    /\ g.style = h.style /\ g.link = h.link /\ g.chart = h.chart
    /\ g.body_emitted = h.body_emitted /\ g.footer_needs_newline = h.footer_needs_newline

(* The open line's spans are those of this style and this link.              *)
Ensured(h, g, style, link) ==
    /\ g \in HtmlState /\ g.page.stack = Dressed(style, link)
    /\ g.span /\ (g.anchor <=> link # NoLink) /\ g.stream_style = style /\ g.stream_link = link
    /\ Gains(h, g, <<>>, FALSE) /\ g.page.nested = h.page.nested
    /\ Kept(h, g) /\ g.stream = h.stream /\ g.pending_newline = h.pending_newline
    /\ g.segments = h.segments /\ g.utf8 = h.utf8

LEMMA EnsureStyleIs ==
    ASSUME NEW h, h \in HtmlState, Spans(h), NEW style \in Styles, NEW link \in LinkNames
    PROVE  Ensured(h, EnsureStyle(h, style, link), style, link)
<1>. DEFINE g == EnsureStyle(h, style, link)
<1>0. h.page \in Page /\ h.span \in BOOLEAN /\ h.anchor \in BOOLEAN
  BY DEF HtmlState
<1>1. CASE h.span /\ h.stream_style = style /\ h.stream_link = link
  <2>1. g = h
    BY <1>1 DEF EnsureStyle
  <2>2. Kept(h, h)
    BY DEF Kept
  <2>3. Gains(h, h, <<>>, FALSE)
    BY <1>0, GainsNothing
  <2>. HIDE DEF g
  <2>4. g.page.stack = Dressed(style, link) /\ g.span /\ (g.anchor <=> link # NoLink)
    BY <1>1, <2>1 DEF Spans
  <2>. QED
    BY <1>1, <2>1, <2>2, <2>3, <2>4 DEF g, Ensured
<1>2. CASE ~(h.span /\ h.stream_style = style /\ h.stream_link = link)
  <2>. DEFINE closes == When(h.span, <<Close("span")>>) \o When(h.anchor, <<Close("a")>>)
              tags == (closes \o When(link # NoLink, <<Open("a", link)>>)) \o <<Open("span", style)>>
              k == Emit(h, tags)
              f == [k EXCEPT !.span = TRUE, !.anchor = link # NoLink,
                             !.stream_style = style, !.stream_link = link]
              base == Linked(<<>>, link, TRUE)
              b == (link # NoLink)
  <2>1. g = f
    BY <1>2 DEF EnsureStyle
  <2>2. Writes(h.page.stack, closes, <<>>, <<>>)
    BY SpansClose
  <2>. HIDE DEF closes
  <2>3. /\ Writes(<<>>, When(link # NoLink, <<Open("a", link)>>), <<>>, base)
        /\ Writes(base, <<Open("span", style)>>, <<>>, Dressed(style, link))
    BY DressedIs
  <2>. HIDE DEF base
  <2>4. Writes(h.page.stack, closes \o When(link # NoLink, <<Open("a", link)>>), <<>>, base)
    BY <2>2, <2>3, WritesThen
  <2>5. Writes(h.page.stack, tags, <<>>, Dressed(style, link))
    BY <2>3, <2>4, WritesThen
  <2>6. Puts(h.page.stack, tags, <<>>, FALSE, Dressed(style, link))
    BY <2>5, PutsNothing
  <2>. HIDE DEF tags
  <2>7. /\ k = [h EXCEPT !.page = k.page] /\ k.page.stack = Dressed(style, link)
        /\ Gains(h, k, <<>>, FALSE) /\ k \in HtmlState
    BY <2>6, EmitIs
  <2>8. b \in BOOLEAN
    OBVIOUS
  <2>. HIDE DEF k, b, g
  <2>9. f = [k EXCEPT !.span = TRUE, !.anchor = b, !.stream_style = style, !.stream_link = link]
    BY DEF b
  <2>. HIDE DEF f
  <2>10. /\ f.page = k.page /\ f.span = TRUE /\ f.anchor = b /\ f.stream_style = style /\ f.stream_link = link
         /\ f \in HtmlState
    BY <2>7, <2>8, <2>9 DEF HtmlState
  <2>11. Kept(h, f) /\ f.stream = h.stream /\ f.pending_newline = h.pending_newline
         /\ f.segments = h.segments /\ f.utf8 = h.utf8 /\ f.page.nested = h.page.nested
    <3>. DEFINE p == k.page
    <3>1. k = [h EXCEPT !.page = p] /\ p.nested = h.page.nested
      BY <2>7 DEF Gains
    <3>. HIDE DEF p
    <3>2. f = [h EXCEPT !.page = p, !.span = TRUE, !.anchor = b, !.stream_style = style, !.stream_link = link]
      BY <2>9, <3>1 DEF HtmlState
    <3>3. f.page = p
      BY <2>10 DEF p
    <3>. QED
      BY <3>1, <3>2, <3>3 DEF Kept, HtmlState
  <2>12. Gains(h, f, <<>>, FALSE)
    BY <2>7, <2>10 DEF Gains
  <2>. QED
    BY <2>1, <2>7, <2>10, <2>11, <2>12 DEF g, b, Ensured
<1>. QED
  BY <1>1, <1>2

(* Nothing is left of a line.                                                *)
Cleared(h, g) ==
    /\ g \in HtmlState /\ Kept(h, g)
    /\ g.segments = <<>> /\ ~g.pending_newline /\ g.stream = "none"
    /\ ~g.span /\ ~g.anchor /\ g.utf8 = <<>>

LEMMA CloseLineIs ==
    ASSUME NEW h, Bridge(h), Opens(h), h.stream # "none", NEW final \in BOOLEAN
    PROVE  LET g == [CloseLine(h, final) EXCEPT !.pending_newline = FALSE]
           IN  Cleared(h, g) /\ Gains(h, g, Ending(final), FALSE) /\ g.page.stack = <<>>
               /\ (~h.pending_newline => CloseLine(h, final) = g)
<1>. DEFINE closes == IF h.stream = "heading" THEN <<Close("heading")>>
                      ELSE When(h.span, <<Close("span")>>) \o When(h.anchor, <<Close("a")>>)
            tags == closes \o When(~final, Text(<<Newline>>))
            k == Emit(h, tags)
            g == [ResetStream(k) EXCEPT !.pending_newline = FALSE]
<1>1. h \in HtmlState /\ h.segments = <<>>
      /\ (h.span <=> h.stream = "plain") /\ (h.anchor <=> h.span /\ h.stream_link # NoLink)
      /\ h.stream \in {"heading", "plain"}
  BY DEF Bridge, HtmlState
<1>2. Writes(h.page.stack, closes, <<>>, <<>>)
  <2>1. CASE h.stream = "heading"
    <3>1. PICK x \in Strings : h.page.stack = Append(<<>>, Top("heading", x))
      BY <2>1 DEF Opens
    <3>2. <<>> \in Seq(Opened) /\ closes = <<Close("heading")>>
      BY <2>1
    <3>3. "heading" \in Strings /\ "heading" # "block"
      BY Named
    <3>4. Writes(Append(<<>>, Top("heading", x)), <<Close("heading")>>, <<>>, <<>>)
      BY <3>2, <3>3, WritesMute
    <3>. HIDE DEF closes
    <3>. QED
      BY <3>1, <3>2, <3>4
  <2>2. CASE h.stream = "plain"
    <3>1. Spans(h)
      BY <1>1, <2>2 DEF Opens, Spans
    <3>2. closes = When(h.span, <<Close("span")>>) \o When(h.anchor, <<Close("a")>>)
      BY <2>2
    <3>. HIDE DEF closes
    <3>. QED
      BY <1>1, <3>1, <3>2, SpansClose
  <2>. QED
    BY <1>1, <2>1, <2>2
<1>. HIDE DEF closes
<1>3. Puts(<<>>, LineEnd(final), Ending(final), FALSE, <<>>)
  <2>1. <<>> \in Seq(Opened)
    OBVIOUS
  <2>2. ("chart" \in Within(<<>>)) <=> FALSE
    BY DEF Within
  <2>. QED
    BY <2>1, <2>2, PutsLineEnd
<1>4. Puts(h.page.stack, tags, Ending(final), FALSE, <<>>)
  <2>1. tags = closes \o LineEnd(final)
    BY DEF LineEnd
  <2>. HIDE DEF tags
  <2>. QED
    BY <1>2, <1>3, <2>1, PutsAfter
<1>5. CloseLine(h, final) = ResetStream(k)
  BY DEF CloseLine, closes
<1>. HIDE DEF tags
<1>6. /\ k = [h EXCEPT !.page = k.page] /\ k.page.stack = <<>>
      /\ Gains(h, k, Ending(final), FALSE) /\ k \in HtmlState
  BY <1>1, <1>4, EmitIs
<1>. DEFINE p == k.page
<1>7. k = [h EXCEPT !.page = p]
  BY <1>6
<1>. HIDE DEF k
<1>8. g = [k EXCEPT !.stream = "none", !.span = FALSE, !.anchor = FALSE, !.stream_style = Plain,
                    !.stream_link = NoLink, !.utf8 = <<>>, !.pending_newline = FALSE]
  BY <1>6 DEF ResetStream, HtmlState
<1>. HIDE DEF g
<1>9. /\ g.page = k.page /\ g.segments = h.segments /\ Kept(h, g)
      /\ g.stream = "none" /\ ~g.span /\ ~g.anchor /\ g.utf8 = <<>> /\ ~g.pending_newline
      /\ g \in HtmlState
  <2>1. Plain \in Styles /\ NoLink \in LinkNames
    BY StyleAssumption DEF LinkNames
  <2>2. k.segments = h.segments /\ k.style = h.style /\ k.link = h.link /\ k.chart = h.chart
        /\ k.body_emitted = h.body_emitted /\ k.footer_needs_newline = h.footer_needs_newline
    <3>. HIDE DEF p
    <3>. QED
      BY <1>1, <1>7 DEF HtmlState
  <2>3. /\ g.page = k.page /\ g.segments = k.segments /\ Kept(k, g)
        /\ g.stream = "none" /\ ~g.span /\ ~g.anchor /\ g.utf8 = <<>> /\ ~g.pending_newline
    BY <1>6, <1>8 DEF HtmlState, Kept
  <2>4. g \in HtmlState
    BY <1>6, <1>8, <2>1 DEF HtmlState
  <2>. QED
    BY <2>2, <2>3, <2>4 DEF Kept
<1>10. ~h.pending_newline => ResetStream(k) = g
  <2>1. k.pending_newline = h.pending_newline
    <3>. HIDE DEF p
    <3>. QED
      BY <1>1, <1>7 DEF HtmlState
  <2>2. h.pending_newline \in BOOLEAN
    BY <1>1 DEF HtmlState
  <2>3. ~h.pending_newline => ResetStream(k).pending_newline = FALSE
    BY <1>6, <2>1, <2>2 DEF ResetStream, HtmlState
  <2>. QED
    BY <1>6, <2>3 DEF g, ResetStream, HtmlState
<1>11. Gains(h, g, Ending(final), FALSE) /\ g.page.stack = <<>>
  BY <1>6, <1>9 DEF Gains
<1>12. [CloseLine(h, final) EXCEPT !.pending_newline = FALSE] = g
  BY <1>5 DEF g
<1>13. Cleared(h, g)
  BY <1>1, <1>9 DEF Cleared
<1>. QED
  BY <1>5, <1>10, <1>11, <1>12, <1>13

(* The style that the first character after its prefix has.                  *)
IsContentStyle(h, style) ==
    LET prefix == Prefix(TextOf(h.segments), h.chart)
    IN  prefix < Len(TextOf(h.segments)) => style = Held(h.segments)[prefix + 1].style

LEMMA FlushPendingIs ==
    ASSUME NEW h, Bridge(h), Opens(h), NEW final \in BOOLEAN, final => h.chart = "none",
           NEW style, IsContentStyle(h, style)
    PROVE  LET g   == FlushPending(h, final)
               out == LeftOut(TextOf(h.segments), h.chart, style)
           IN  /\ h.stream # "none" /\ (h.pending_newline \/ final) =>
                    Cleared(h, g) /\ Gains(h, g, Ending(final), FALSE) /\ g.page.stack = <<>>
               /\ h.stream = "none" /\ TextOf(h.segments) # <<>> =>
                    /\ Cleared(h, g) /\ out \in 0 .. Len(TextOf(h.segments))
                    /\ Gains(h, g, Rest(Held(h.segments), out) \o Ending(final), h.chart # "none")
                    /\ g.page.stack = BoxOf(h.chart) \/ (final /\ g.page.stack = LineIn(BoxOf(h.chart)))
               /\ h.stream # "none" /\ ~h.pending_newline /\ ~final => g = h
               /\ h.stream = "none" /\ TextOf(h.segments) = <<>> => g = h
<1>. DEFINE g == FlushPending(h, final)
            out == LeftOut(TextOf(h.segments), h.chart, style)
            closed == IF h.stream # "none" /\ (h.pending_newline \/ final)
                      THEN [CloseLine(h, final) EXCEPT !.pending_newline = FALSE]
                      ELSE h
            text == LineText(closed) # <<>>
<1>1. g = IF closed.pending_newline \/ text
          THEN [Clear(FlushLine(closed, final /\ text)) EXCEPT !.pending_newline = FALSE]
          ELSE closed
  BY DEF FlushPending
<1>2. h \in HtmlState /\ h.segments \in Seq(Segment) /\ h.page \in Page /\ h.chart \in STRING \cup {"none"}
      /\ h.pending_newline \in BOOLEAN
  BY DEF Bridge, HtmlState
<1>3. ASSUME h.stream # "none", h.pending_newline \/ final
      PROVE  Cleared(h, g) /\ Gains(h, g, Ending(final), FALSE) /\ g.page.stack = <<>>
  <2>1. closed = [CloseLine(h, final) EXCEPT !.pending_newline = FALSE]
    BY <1>3
  <2>. HIDE DEF closed
  <2>2. Cleared(h, closed) /\ Gains(h, closed, Ending(final), FALSE) /\ closed.page.stack = <<>>
    BY <1>3, <2>1, CloseLineIs
  <2>3. LineText(closed) = <<>> /\ ~closed.pending_newline
    BY <2>2, LineTextIs, TextOfAppend DEF Cleared
  <2>. HIDE DEF g
  <2>4. g = closed
    BY <1>1, <2>3
  <2>. QED
    BY <2>2, <2>4
<1>4. ASSUME h.stream = "none" \/ (~h.pending_newline /\ ~final)
      PROVE  closed = h /\ (text <=> TextOf(h.segments) # <<>>)
  <2>1. closed = h
    BY <1>4
  <2>. HIDE DEF closed
  <2>. QED
    BY <2>1, LineTextIs
<1>. HIDE DEF closed, text, g
<1>5. ASSUME h.stream # "none", ~h.pending_newline, ~final
      PROVE  g = h
  <2>1. TextOf(h.segments) = <<>>
    BY <1>5, TextOfAppend DEF Bridge
  <2>. QED
    BY <1>1, <1>4, <1>5, <2>1
<1>6. ASSUME h.stream = "none", TextOf(h.segments) = <<>>
      PROVE  g = h
  <2>1. ~h.pending_newline
    BY <1>6 DEF Bridge
  <2>. QED
    BY <1>1, <1>4, <1>6, <2>1
<1>7. ASSUME h.stream = "none", TextOf(h.segments) # <<>>
      PROVE  /\ Cleared(h, g) /\ out \in 0 .. Len(TextOf(h.segments))
             /\ Gains(h, g, Rest(Held(h.segments), out) \o Ending(final), h.chart # "none")
             /\ g.page.stack = BoxOf(h.chart) \/ (final /\ g.page.stack = LineIn(BoxOf(h.chart)))
  <2>1. closed = h /\ text /\ (final /\ text) = final
    BY <1>4, <1>7
  <2>2. g = [Clear(FlushLine(h, final)) EXCEPT !.pending_newline = FALSE]
    BY <1>1, <2>1
  <2>. DEFINE st == BoxOf(h.chart)
  <2>0. PICK box \in BOOLEAN : box = (h.chart # "none")
    OBVIOUS
  <2>3. h.page.stack = st
    BY <1>7 DEF Opens
  <2>4. st \in Seq(Opened) /\ ("chart" \in Within(st) <=> box) /\ Innermost(st, "a") = LinkShown(NoLink)
    BY <1>2, <2>0, BoxIs
  <2>. HIDE DEF st
  <2>5. Prefix(TextOf(h.segments), h.chart) < Len(TextOf(h.segments)) =>
          style = Held(h.segments)[Prefix(TextOf(h.segments), h.chart) + 1].style
    BY DEF IsContentStyle
  <2>6. /\ out \in 0 .. Len(TextOf(h.segments))
        /\ \E tags, st2 :
              /\ FlushLine(h, final) = Emit(h, tags)
              /\ Puts(st, tags, Rest(Held(h.segments), out) \o Ending(final), box, st2)
              /\ (st2 = st \/ (final /\ st2 = LineIn(st)))
    <3>1. final => h.chart = "none" /\ TextOf(h.segments) # <<>>
      BY <1>7
    <3>2. Flushable(h, st, box, final, style)
      BY <1>2, <2>4, <2>5, <3>1 DEF Flushable
    <3>3. Flushes(h, st, box, final, style)
      BY <3>2, FlushLineIs
    <3>. QED
      BY <3>3 DEF Flushes
  <2>. HIDE DEF out
  <2>7. PICK tags, st2 :
              /\ FlushLine(h, final) = Emit(h, tags)
              /\ Puts(st, tags, Rest(Held(h.segments), out) \o Ending(final), box, st2)
              /\ (st2 = st \/ (final /\ st2 = LineIn(st)))
    BY <2>6
  <2>. DEFINE k == Emit(h, tags)
              p == k.page
  <2>8. /\ k = [h EXCEPT !.page = k.page] /\ k.page.stack = st2
        /\ Gains(h, k, Rest(Held(h.segments), out) \o Ending(final), box) /\ k \in HtmlState
    <3>. DEFINE items == Rest(Held(h.segments), out) \o Ending(final)
    <3>1. Puts(h.page.stack, tags, items, box, st2)
      BY <2>3, <2>7
    <3>2. h \in HtmlState
      BY <1>2
    <3>. HIDE DEF items
    <3>3. /\ Emit(h, tags) = [h EXCEPT !.page = Emit(h, tags).page]
          /\ Emit(h, tags).page.stack = st2
          /\ Gains(h, Emit(h, tags), items, box)
          /\ Emit(h, tags) \in HtmlState
      BY <3>1, <3>2, EmitIs
    <3>. QED
      BY <3>3 DEF items
  <2>9. k = [h EXCEPT !.page = p]
    BY <2>8
  <2>10. g = [Clear(k) EXCEPT !.pending_newline = FALSE]
    BY <2>2, <2>7
  <2>. HIDE DEF k
  <2>11. /\ g.page = k.page /\ g.segments = <<>> /\ ~g.pending_newline /\ Kept(k, g)
         /\ g.stream = k.stream /\ g.span = k.span /\ g.anchor = k.anchor /\ g.utf8 = k.utf8
         /\ g \in HtmlState
    <3>1. <<>> \in Seq(Segment)
      OBVIOUS
    <3>. QED
      BY <2>8, <2>10, <3>1 DEF Clear, HtmlState, Kept
  <2>12. /\ Kept(h, k) /\ k.stream = "none" /\ ~k.span /\ ~k.anchor /\ k.utf8 = <<>>
    <3>1. ~h.span /\ ~h.anchor /\ h.utf8 = <<>>
      BY <1>7 DEF Bridge
    <3>. HIDE DEF p
    <3>. QED
      BY <1>2, <1>7, <2>9, <3>1 DEF HtmlState, Kept
  <2>13. Cleared(h, g)
    BY <2>11, <2>12 DEF Cleared, Kept
  <2>14. g.page.stack = st \/ (final /\ g.page.stack = LineIn(st))
    BY <2>7, <2>8, <2>11
  <2>15. Gains(h, g, Rest(Held(h.segments), out) \o Ending(final), box)
    BY <2>8, <2>11 DEF Gains
  <2>. QED
    BY <2>0, <2>6, <2>13, <2>14, <2>15 DEF st
<1>. QED
  BY <1>3, <1>5, <1>6, <1>7 DEF g, out

(* Flushing always has one.                                                  *)
LEMMA ContentStyle ==
    ASSUME NEW h PROVE \E style : IsContentStyle(h, style)
<1>. DEFINE at == Held(h.segments)[Prefix(TextOf(h.segments), h.chart) + 1].style
<1>1. IsContentStyle(h, at)
  BY DEF IsContentStyle
<1>. QED
  BY <1>1

LEMMA ClearedIs ==
    ASSUME NEW h, Bridge(h), NEW g, Cleared(h, g), g.page.nested = h.page.nested,
           g.page.stack = BoxOf(h.chart)
    PROVE  Bridge(g) /\ Opens(g)
<1>1. TextOf(g.segments) = <<>>
  BY TextOfAppend DEF Cleared
<1>2. Bridge(g)
  BY <1>1 DEF Bridge, Cleared
<1>3. Opens(g)
  BY DEF Opens, Cleared, Kept
<1>. QED
  BY <1>2, <1>3

ReadyOf(h) == IF h.pending_newline THEN FlushPending(h, FALSE) ELSE h

LEMMA FlushPendingKeeps ==
    ASSUME NEW h, Bridge(h), Opens(h)
    PROVE  LET g == FlushPending(h, FALSE)
           IN  /\ Bridge(g) /\ Opens(g) /\ Kept(h, g) /\ ~g.pending_newline
               /\ g = h \/ Cleared(h, g)
               /\ g.stream = "none" => g.page.stack = BoxOf(h.chart) /\ TextOf(g.segments) = <<>>
<1>. DEFINE g == FlushPending(h, FALSE)
<1>1. PICK style : IsContentStyle(h, style)
  BY ContentStyle
<1>. DEFINE out == LeftOut(TextOf(h.segments), h.chart, style)
            items == Rest(Held(h.segments), out) \o Ending(FALSE)
<1>2. /\ h.stream # "none" /\ h.pending_newline =>
           Cleared(h, g) /\ Gains(h, g, Ending(FALSE), FALSE) /\ g.page.stack = <<>>
      /\ h.stream = "none" /\ TextOf(h.segments) # <<>> =>
           Cleared(h, g) /\ Gains(h, g, items, h.chart # "none") /\ g.page.stack = BoxOf(h.chart)
      /\ h.stream # "none" /\ ~h.pending_newline => g = h
      /\ h.stream = "none" /\ TextOf(h.segments) = <<>> => g = h
  BY <1>1, FlushPendingIs
<1>. HIDE DEF g, items
<1>3. h.pending_newline \in BOOLEAN /\ h.chart \in STRING \cup {"none"}
  BY DEF Bridge, HtmlState
<1>4. g = h \/ (Cleared(h, g) /\ g.page.nested = h.page.nested /\ g.page.stack = BoxOf(h.chart))
  <2>1. h.stream # "none" => BoxOf(h.chart) = <<>>
    BY DEF Bridge, BoxOf
  <2>. QED
    BY <1>2, <1>3, <2>1 DEF Gains
<1>5. h.pending_newline => h.stream # "none" \/ TextOf(h.segments) # <<>>
  BY DEF Bridge
<1>6. CASE g = h
  <2>1. ~h.pending_newline \/ Cleared(h, g)
    BY <1>2, <1>3, <1>5
  <2>2. ~g.pending_newline
    BY <1>6, <2>1 DEF Cleared
  <2>3. h.stream = "none" => TextOf(h.segments) = <<>> \/ Cleared(h, g)
    BY <1>2
  <2>4. TextOf(<<>>) = <<>>
    BY TextOfAppend
  <2>. QED
    BY <1>6, <2>2, <2>3, <2>4 DEF Kept, Opens, Cleared, g
<1>7. CASE g # h
  <2>1. Cleared(h, g) /\ Bridge(g) /\ Opens(g) /\ g.page.stack = BoxOf(h.chart)
    BY <1>4, <1>7, ClearedIs
  <2>2. TextOf(<<>>) = <<>>
    BY TextOfAppend
  <2>. QED
    BY <2>1, <2>2 DEF Cleared, g
<1>. QED
  BY <1>6, <1>7

-----------------------------------------------------------------------------
(* A byte.                                                                   *)
AsChar(h, c) == [c |-> c, style |-> h.style, link |-> h.link]

LEMMA HeldType ==
    \A segs \in Seq(Segment) : TextOf(segs) \in Seq(Strings) /\ Held(segs) \in Seq(Char)
<1>. DEFINE text == <<>>
<1>1. text \in Seq(Strings) /\ Plain \in Styles
  BY StyleAssumption
<1>. HIDE DEF text
<1>2. [text |-> text, style |-> Plain, link |-> NoLink] \in Segment
  BY <1>1 DEF Segment
<1>. QED
  BY <1>2, TextOfAppend

LEMMA AppendByteIs ==
    ASSUME NEW h, h \in HtmlState, NEW c \in Strings
    PROVE  LET g == AppendByte(h, c)
           IN  /\ g = [h EXCEPT !.segments = g.segments] /\ g.segments \in Seq(Segment)
               /\ TextOf(g.segments) = Append(TextOf(h.segments), c)
               /\ Held(g.segments) = Append(Held(h.segments), AsChar(h, c))
               /\ AsChar(h, c) \in Char
<1>. DEFINE g == AppendByte(h, c)
            segs == h.segments
            same == segs # <<>> /\ Last(segs).style = h.style /\ Last(segs).link = h.link
            new  == [text |-> <<c>>, style |-> h.style, link |-> h.link]
            item == AsChar(h, c)
<1>1. segs \in Seq(Segment) /\ h.style \in Styles /\ h.link \in Links \cup {NoLink}
  BY DEF HtmlState, LinkNames
<1>2. item \in Char
  BY <1>1 DEF AsChar, Char
<1>3. TextOf(segs) \in Seq(Strings) /\ Held(segs) \in Seq(Char)
  BY <1>1, HeldType
<1>4. CASE ~same
  <2>1. g = [h EXCEPT !.segments = Append(segs, new)]
    BY <1>4 DEF AppendByte
  <2>2. <<c>> \in Seq(Strings) /\ Len(<<c>>) = 1 /\ <<c>>[1] = c
    OBVIOUS
  <2>3. new \in Segment /\ new.text = <<c>> /\ new.style = h.style /\ new.link = h.link
    BY <1>1, <2>2 DEF Segment
  <2>4. HeldIn(new) = <<item>>
    <3>1. DOMAIN <<c>> = {1}
      OBVIOUS
    <3>2. HeldIn(new) = [j \in {1} |-> item]
      BY <2>2, <2>3, <3>1 DEF HeldIn, AsChar
    <3>3. [j \in {1} |-> item] = <<item>>
      <4>. HIDE DEF item
      <4>. QED
        OBVIOUS
    <3>. QED
      BY <3>2, <3>3
  <2>. HIDE DEF new
  <2>5. Append(segs, new) \in Seq(Segment)
    BY <1>1, <2>3
  <2>6. TextOf(Append(segs, new)) = TextOf(segs) \o <<c>> /\ Held(Append(segs, new)) = Held(segs) \o <<item>>
    BY <1>1, <2>3, <2>4, TextOfAppend
  <2>. HIDE DEF item
  <2>7. TextOf(segs) \o <<c>> = Append(TextOf(segs), c) /\ Held(segs) \o <<item>> = Append(Held(segs), item)
    BY <1>2, <1>3
  <2>8. g.segments = Append(segs, new)
    BY <2>1 DEF HtmlState
  <2>. HIDE DEF g
  <2>. QED
    BY <1>2, <2>1, <2>5, <2>6, <2>7, <2>8 DEF g, item
<1>5. CASE same
  <2>1. g = [h EXCEPT !.segments = [segs EXCEPT ![Len(segs)].text = Append(segs[Len(segs)].text, c)]]
    BY <1>5 DEF AppendByte
  <2>2. PICK front \in Seq(Segment), seg \in Segment : segs = Append(front, seg) /\ Len(segs) = Len(front) + 1
    BY <1>1, <1>5, FrontAndLast
  <2>. DEFINE longer == Append(seg.text, c)
              put == [seg EXCEPT !.text = longer]
  <2>3. Last(segs) = seg /\ segs[Len(segs)] = seg
    BY <2>2 DEF Last
  <2>4. seg.style = h.style /\ seg.link = h.link /\ seg.text \in Seq(Strings)
    BY <1>5, <2>3 DEF Segment
  <2>5. put \in Segment /\ put.text = Append(seg.text, c) /\ put.style = h.style /\ put.link = h.link
    <3>1. longer \in Seq(Strings)
      BY <2>4
    <3>. HIDE DEF longer
    <3>2. put \in Segment /\ put.text = longer /\ put.style = seg.style /\ put.link = seg.link
      BY <3>1 DEF Segment
    <3>. QED
      BY <2>4, <3>2 DEF longer
  <2>6. [segs EXCEPT ![Len(segs)].text = Append(segs[Len(segs)].text, c)] = Append(front, put)
    <3>1. [segs EXCEPT ![Len(segs)].text = Append(segs[Len(segs)].text, c)] = [segs EXCEPT ![Len(segs)] = put]
      BY <2>3
    <3>2. put \in Segment
      BY <2>5
    <3>. HIDE DEF put, longer
    <3>3. [Append(front, seg) EXCEPT ![Len(front) + 1] = put] = Append(front, put)
      <4>. DEFINE n == Len(front)
                  u == Append(front, seg)
                  v == Append(front, put)
                  w == [u EXCEPT ![n + 1] = put]
      <4>1. /\ n \in Nat /\ u \in Seq(Segment) /\ v \in Seq(Segment) /\ DOMAIN u = 1 .. n + 1 /\ DOMAIN v = 1 .. n + 1
            /\ \A j \in 1 .. n : u[j] = front[j] /\ v[j] = front[j]
            /\ v[n + 1] = put
        BY <3>2
      <4>. HIDE DEF n, u, v
      <4>2. v = [j \in DOMAIN v |-> v[j]]
        BY <4>1
      <4>3. DOMAIN w = 1 .. n + 1 /\ \A j \in 1 .. n + 1 : w[j] = v[j]
        BY <4>1
      <4>4. w = [j \in 1 .. n + 1 |-> w[j]]
        BY <4>1
      <4>. HIDE DEF w
      <4>5. w = v
        BY <4>1, <4>2, <4>3, <4>4
      <4>. QED
        BY <4>5 DEF w, n, u, v
    <3>. QED
      BY <2>2, <3>1, <3>3
  <2>. HIDE DEF put
  <2>7. HeldIn(put) = Append(HeldIn(seg), item)
    <3>1. Len(HeldIn(put)) = Len(seg.text) + 1 /\ HeldIn(put) \in Seq(Char)
      BY <2>4, <2>5, HeldInIs
    <3>2. Len(HeldIn(seg)) = Len(seg.text) /\ HeldIn(seg) \in Seq(Char) /\ Len(seg.text) \in Nat
      BY <2>4, HeldInIs
    <3>3. \A j \in 1 .. Len(seg.text) + 1 : HeldIn(put)[j] = [c |-> put.text[j], style |-> h.style, link |-> h.link]
      BY <2>4, <2>5 DEF HeldIn
    <3>4. \A j \in 1 .. Len(seg.text) : HeldIn(seg)[j] = [c |-> seg.text[j], style |-> h.style, link |-> h.link]
      BY <2>4 DEF HeldIn
    <3>5. \A j \in 1 .. Len(seg.text) : put.text[j] = seg.text[j]
      BY <2>4, <2>5
    <3>6. put.text[Len(seg.text) + 1] = c
      BY <2>4, <2>5
    <3>7. HeldIn(put)[Len(seg.text) + 1] = item
      BY <3>2, <3>3, <3>6 DEF AsChar
    <3>8. \A j \in 1 .. Len(seg.text) : HeldIn(put)[j] = HeldIn(seg)[j]
      <4>. TAKE j \in 1 .. Len(seg.text)
      <4>1. j \in 1 .. Len(seg.text) + 1
        BY <3>2
      <4>2. /\ HeldIn(put)[j] = [c |-> put.text[j], style |-> h.style, link |-> h.link]
            /\ HeldIn(seg)[j] = [c |-> seg.text[j], style |-> h.style, link |-> h.link]
        BY <3>3, <3>4, <4>1
      <4>3. put.text[j] = seg.text[j]
        BY <3>5
      <4>. HIDE DEF put
      <4>. QED
        BY <4>2, <4>3
    <3>. HIDE DEF item
    <3>9. Append(HeldIn(seg), item) \in Seq(Char)
      BY <1>2, <3>2
    <3>. QED
      BY <1>2, <3>1, <3>2, <3>7, <3>8, <3>9
  <2>8. Append(front, put) \in Seq(Segment)
    BY <2>2, <2>5
  <2>9. /\ TextOf(Append(front, put)) = TextOf(front) \o Append(seg.text, c)
        /\ TextOf(segs) = TextOf(front) \o seg.text
        /\ Held(Append(front, put)) = Held(front) \o Append(HeldIn(seg), item)
        /\ Held(segs) = Held(front) \o HeldIn(seg)
    BY <2>2, <2>5, <2>7, TextOfAppend
  <2>10. TextOf(front) \in Seq(Strings) /\ Held(front) \in Seq(Char) /\ HeldIn(seg) \in Seq(Char)
    BY <2>2, TextOfAppend, HeldInIs
  <2>. HIDE DEF item
  <2>11. TextOf(front) \o Append(seg.text, c) = Append(TextOf(front) \o seg.text, c)
    BY <2>4, <2>10, ConcatAppend
  <2>12. Held(front) \o Append(HeldIn(seg), item) = Append(Held(front) \o HeldIn(seg), item)
    BY <1>2, <2>10, ConcatAppend
  <2>13. g = [h EXCEPT !.segments = Append(front, put)]
    BY <2>1, <2>6
  <2>14. g.segments = Append(front, put)
    BY <2>13 DEF HtmlState
  <2>. HIDE DEF g
  <2>. QED
    BY <1>2, <2>8, <2>9, <2>11, <2>12, <2>13, <2>14 DEF g, item
<1>. QED
  BY <1>4, <1>5

(* Characters within the span, and the link, of a streamed line.             *)
LEMMA PutsDressed ==
    ASSUME NEW seg \in Segment
    PROVE  LET st == Dressed(seg.style, seg.link)
           IN  Puts(st, Text(seg.text), HeldIn(seg), FALSE, st)
<1>. DEFINE st == Dressed(seg.style, seg.link)
            items == HeldIn(seg)
            text == seg.text
            none == <<>>
<1>1. /\ text \in Seq(Strings) /\ seg.style \in Styles /\ seg.link \in LinkNames
      /\ items \in Seq(Char) /\ Len(items) = Len(text)
      /\ \A j \in 1 .. Len(text) : items[j].link = seg.link /\ items[j].style = seg.style
  BY HeldInIs DEF LinkNames
<1>2. st \in Seq(Opened) /\ none \in Seq(Opened)
  <2>1. \A style \in Styles, link \in LinkNames : Dressed(style, link) \in Seq(Opened)
    BY DressedIs
  <2>2. none \in Seq(Opened)
    OBVIOUS
  <2>. QED
    BY <1>1, <2>1, <2>2
<1>3. st = Dressing(none, seg, TRUE)
  <2>. DEFINE two == [style |-> seg.style, link |-> seg.link]
  <2>1. two.style = seg.style /\ two.link = seg.link
    OBVIOUS
  <2>. HIDE DEF two
  <2>2. Dressing(<<>>, two, TRUE) = Dressing(<<>>, seg, TRUE)
    BY <2>1 DEF Dressing
  <2>. QED
    BY <2>2 DEF Dressed, two
<1>4. Writes(st, Text(text), Glyphs(text, st), st)
  BY <1>1, <1>2, WritesText
<1>5. Glyphs(text, st) = ShownAll(none, items, TRUE)
  <2>1. Len(text) \in Nat
    BY <1>1
  <2>2. 1 \in Nat \ {0} /\ Len(text) \in Int /\ Len(text) <= Len(text)
    BY <2>1
  <2>. HIDE DEF none, items, text, st
  <2>3. Glyphs(SubSeq(seg.text, 1, Len(text)), Dressing(none, seg, TRUE))
          = ShownAll(none, SubSeq(HeldIn(seg), 1, Len(text)), TRUE)
    BY <1>2, <2>2, GlyphsOfPart DEF text
  <2>4. SubSeq(text, 1, Len(text)) = text
    BY <1>1
  <2>5. SubSeq(items, 1, Len(items)) = items
    BY <1>1
  <2>. QED
    BY <1>1, <1>3, <2>3, <2>4, <2>5 DEF text, items
<1>6. Fits(ShownAll(none, items, TRUE), items, FALSE)
  <2>1. ("chart" \in Within(<<>>)) = FALSE /\ Innermost(<<>>, "a") = LinkShown(NoLink)
    <3>1. "a" \in Strings
      BY Named
    <3>2. Innermost(<<>>, "a") = NoText
      BY <3>1, InnermostNone, Zenon DEF NoText
    <3>3. LinkShown(NoLink) = NoText
      BY Zenon DEF LinkShown, NoText
    <3>4. ("chart" \in Within(<<>>)) = FALSE
      BY DEF Within
    <3>. QED
      BY <3>2, <3>3, <3>4
  <2>2. \A j \in 1 .. Len(items) : items[j].link # NoLink \/ items[j].link = NoLink
    OBVIOUS
  <2>3. /\ "chart" \in Within(none) <=> FALSE
        /\ \A j \in 1 .. Len(items) : \/ TRUE /\ items[j].link # NoLink
                                      \/ Innermost(none, "a") = LinkShown(items[j].link)
                                      \/ "prefix" \in Within(none) /\ items[j].link = NoLink
    BY <2>1
  <2>. HIDE DEF none, items
  <2>. QED
    BY <1>1, <1>2, <2>3, ShownFits
<1>. HIDE DEF none, items, text, st
<1>7. Puts(st, Text(text), items, FALSE, st)
  BY <1>4, <1>5, <1>6 DEF Puts
<1>. QED
  BY <1>7 DEF st, items, text

(* From h to k, nothing but the page has changed.                            *)
Beside(h, k) ==
    /\ k \in HtmlState /\ h \in HtmlState /\ Kept(h, k)
    /\ k.segments = h.segments /\ k.pending_newline = h.pending_newline /\ k.stream = h.stream
    /\ k.span = h.span /\ k.anchor = h.anchor /\ k.stream_style = h.stream_style
    /\ k.stream_link = h.stream_link /\ k.utf8 = h.utf8

LEMMA EmitBeside ==
    ASSUME NEW h, h \in HtmlState, NEW tags, NEW items, NEW box, NEW st2,
           Puts(h.page.stack, tags, items, box, st2)
    PROVE  LET k == Emit(h, tags)
           IN  /\ Beside(h, k) /\ k.page.stack = st2 /\ k.page.nested = h.page.nested
               /\ Gains(h, k, items, box)
<1>. DEFINE k == Emit(h, tags)
            p == k.page
<1>1. k = [h EXCEPT !.page = p] /\ p.stack = st2 /\ Gains(h, k, items, box) /\ k \in HtmlState
  BY EmitIs
<1>. HIDE DEF k
<1>2. p.nested = h.page.nested
  BY <1>1 DEF Gains
<1>3. Beside(h, k)
  <2>. HIDE DEF p
  <2>. QED
    BY <1>1 DEF Beside, Kept, HtmlState
<1>. QED
  BY <1>1, <1>2, <1>3 DEF k

LEMMA EmitInside ==
    ASSUME NEW h, Bridge(h), Opens(h), NEW tags, NEW items, NEW box,
           Puts(h.page.stack, tags, items, box, h.page.stack)
    PROVE  LET k == Emit(h, tags)
           IN  Beside(h, k) /\ Bridge(k) /\ Opens(k) /\ Gains(h, k, items, box)
<1>. DEFINE k == Emit(h, tags)
<1>1. h \in HtmlState
  BY DEF Bridge
<1>2. /\ Beside(h, k) /\ k.page.stack = h.page.stack /\ k.page.nested = h.page.nested
      /\ Gains(h, k, items, box)
  BY <1>1, EmitBeside
<1>. HIDE DEF k
<1>3. Bridge(k)
  BY <1>2 DEF Bridge, Beside, Kept
<1>4. Opens(k)
  BY <1>2 DEF Opens, Beside, Kept
<1>. QED
  BY <1>2, <1>3, <1>4 DEF k

(* What stays as it is while a line is streamed.                             *)
Streams(h, g) ==
    /\ Bridge(g) /\ Opens(g) /\ Kept(h, g) /\ g.stream = h.stream
    /\ g.pending_newline = h.pending_newline /\ g.segments = h.segments

LEMMA EmitStyledIs ==
    ASSUME NEW h, Bridge(h), Opens(h), h.stream # "none", NEW seg \in Segment,
           seg.style = h.style, seg.link = h.link
    PROVE  LET g == EmitStyled(h, seg.text)
           IN  /\ Streams(h, g) /\ g.utf8 = h.utf8
               /\ Gains(h, g, HeldIn(seg), FALSE)
<1>. DEFINE g == EmitStyled(h, seg.text)
            items == HeldIn(seg)
            text == seg.text
            tags == Text(text)
<1>1. /\ h \in HtmlState /\ h.page \in Page /\ h.stream \in {"heading", "plain"} /\ h.style \in Styles /\ h.link \in LinkNames
      /\ h.page.nested
  BY DEF Bridge, HtmlState
<1>2. /\ text \in Seq(Strings) /\ items \in Seq(Char) /\ Len(items) = Len(text)
      /\ \A j \in 1 .. Len(text) : items[j].c = text[j]
  BY HeldInIs
<1>3. CASE h.stream = "heading"
  <2>1. PICK x \in Strings : h.page.stack = Append(<<>>, Top("heading", x))
    BY <1>3 DEF Opens
  <2>. DEFINE st == Append(<<>>, Top("heading", x))
  <2>2. st \in Seq(Opened) /\ ("chart" \in Within(st) <=> FALSE) /\ "heading" \in Within(st)
    <3>1. <<>> \in Seq(Opened)
      OBVIOUS
    <3>2. Within(<<>>) = {}
      BY DEF Within
    <3>3. "heading" \in Strings
      BY Named
    <3>4. st \in Seq(Opened) /\ \A o : o \in Within(st) <=> o = "heading" \/ o \in Within(<<>>)
      BY <3>1, <3>3, WithinTop
    <3>. HIDE DEF st
    <3>. QED
      BY <3>2, <3>4
  <2>. HIDE DEF st, items, text
  <2>3. Puts(st, tags, items, FALSE, st)
    BY <1>2, <2>2, PutsText
  <2>4. g = Emit(h, tags)
    BY <1>3 DEF EmitStyled, text
  <2>. HIDE DEF tags
  <2>5. Puts(h.page.stack, tags, items, FALSE, h.page.stack)
    BY <2>1, <2>3 DEF st
  <2>6. Beside(h, g) /\ Bridge(g) /\ Opens(g) /\ Gains(h, g, items, FALSE)
    BY <2>4, <2>5, EmitInside
  <2>. HIDE DEF g
  <2>. QED
    BY <2>6 DEF Streams, Beside, g, items
<1>4. CASE h.stream = "plain"
  <2>. DEFINE e == EnsureStyle(h, h.style, h.link)
              st == Dressed(h.style, h.link)
  <2>1. Spans(h)
    BY <1>4 DEF Spans, Opens, Bridge
  <2>2. Ensured(h, e, h.style, h.link)
    BY <1>1, <2>1, EnsureStyleIs
  <2>3. Puts(st, tags, items, FALSE, st)
    <3>1. Puts(Dressed(seg.style, seg.link), Text(seg.text), HeldIn(seg), FALSE, Dressed(seg.style, seg.link))
      BY PutsDressed
    <3>. QED
      BY <3>1
  <2>4. g = Emit(e, tags)
    BY <1>4 DEF EmitStyled
  <2>. HIDE DEF e, items, text, g, tags
  <2>5. /\ Kept(h, e) /\ e.stream = h.stream /\ e.pending_newline = h.pending_newline
        /\ e.segments = h.segments /\ e.utf8 = h.utf8
    BY <2>2 DEF Ensured
  <2>6. e.page.nested /\ e.page \in Page
    BY <1>1, <2>2 DEF Ensured, HtmlState
  <2>7. Bridge(e)
    BY <1>4, <2>2, <2>5, <2>6 DEF Bridge, Kept, Ensured
  <2>8. Opens(e)
    BY <1>4, <2>2, <2>5 DEF Opens, Ensured
  <2>9. Puts(e.page.stack, tags, items, FALSE, e.page.stack)
    BY <2>2, <2>3 DEF Ensured
  <2>10. Beside(e, g) /\ Bridge(g) /\ Opens(g) /\ Gains(e, g, items, FALSE)
    BY <2>4, <2>7, <2>8, <2>9, EmitInside
  <2>11. Gains(h, g, <<>> \o items, FALSE)
    BY <1>1, <2>2, <2>10, GainsThen DEF Ensured
  <2>12. <<>> \o items = items
    BY <2>10, GainsNone
  <2>. QED
    BY <2>5, <2>10, <2>11, <2>12 DEF Streams, Beside, Kept, g, items
<1>. QED
  BY <1>1, <1>3, <1>4

SegOf(h, text) == [text |-> text, style |-> h.style, link |-> h.link]

LEMMA SegOfIs ==
    ASSUME NEW h, h \in HtmlState, NEW text \in Seq(Strings)
    PROVE  /\ SegOf(h, text) \in Segment /\ SegOf(h, text).text = text
           /\ SegOf(h, text).style = h.style /\ SegOf(h, text).link = h.link
  BY DEF SegOf, Segment, HtmlState, LinkNames

LEMMA EmitByteIs ==
    ASSUME NEW h, Bridge(h), Opens(h), h.stream # "none", NEW c \in Strings
    PROVE  LET g == EmitByte(h, c)
           IN  /\ Streams(h, g)
               /\ \/ h.utf8 = <<>> /\ c = "e1" /\ g.utf8 = <<"e1">> /\ g.page = h.page
                  \/ g.utf8 = <<>> /\ Gains(h, g, HeldIn(SegOf(h, Append(h.utf8, c))), FALSE)
<1>. DEFINE g == EmitByte(h, c)
            bytes == Append(h.utf8, c)
            s == EmitStyled(h, bytes)
<1>1. h \in HtmlState /\ h.utf8 \in {<<>>, <<"e1">>} /\ h.page \in Page
  BY DEF Bridge, HtmlState
<1>2. "e1" \in Strings
  BY Named
<1>3. bytes \in Seq(Strings)
  <2>1. <<>> \in Seq(Strings) /\ <<"e1">> \in Seq(Strings)
    BY <1>2
  <2>2. h.utf8 \in Seq(Strings)
    BY <1>1, <2>1
  <2>. QED
    BY <2>2
<1>4. Streams(h, s) /\ s.utf8 = h.utf8 /\ Gains(h, s, HeldIn(SegOf(h, bytes)), FALSE)
  <2>. DEFINE seg == SegOf(h, bytes)
  <2>1. seg \in Segment /\ seg.text = bytes /\ seg.style = h.style /\ seg.link = h.link
    BY <1>1, <1>3, SegOfIs
  <2>. HIDE DEF seg
  <2>2. LET k == EmitStyled(h, seg.text)
        IN  Streams(h, k) /\ k.utf8 = h.utf8 /\ Gains(h, k, HeldIn(seg), FALSE)
    BY <2>1, EmitStyledIs
  <2>. QED
    BY <2>1, <2>2 DEF seg
<1>5. Utf8["e1"] = 2 /\ Utf8["e2"] = 0 /\ DOMAIN Utf8 = {"e1", "e2"}
  BY DEF Utf8
<1>. HIDE DEF s
<1>6. CASE h.utf8 = <<>> /\ c # "e1" /\ c # "e2"
  <2>1. bytes = <<c>>
    BY <1>6
  <2>2. g = s
    BY <1>5, <1>6, <2>1 DEF EmitByte, s
  <2>. HIDE DEF g, bytes
  <2>. QED
    BY <1>4, <1>6, <2>2 DEF g, bytes
<1>7. CASE h.utf8 = <<>> /\ c = "e1"
  <2>1. bytes = <<c>> /\ Len(<<c>>) = 1 /\ <<c>>[1] = c
    BY <1>7
  <2>2. g = [h EXCEPT !.utf8 = <<"e1">>]
    BY <1>5, <1>7, <2>1 DEF EmitByte
  <2>. HIDE DEF g
  <2>3. g.utf8 = <<"e1">> /\ g.page = h.page /\ Beside(h, [g EXCEPT !.utf8 = h.utf8]) /\ g \in HtmlState
    BY <1>1, <2>2 DEF Beside, HtmlState, Kept
  <2>4. /\ Kept(h, g) /\ g.stream = h.stream /\ g.pending_newline = h.pending_newline /\ g.segments = h.segments
        /\ g.span = h.span /\ g.anchor = h.anchor /\ g.stream_link = h.stream_link /\ g.stream_style = h.stream_style
    BY <1>1, <2>2 DEF HtmlState, Kept
  <2>5. Bridge(g)
    BY <2>3, <2>4 DEF Bridge, Kept
  <2>6. Opens(g)
    BY <2>3, <2>4 DEF Opens, Kept
  <2>. QED
    BY <1>7, <2>3, <2>4, <2>5, <2>6 DEF g, Streams
<1>8. CASE ~(h.utf8 = <<>> /\ c \notin DOMAIN Utf8) /\ ~(h.utf8 = <<>> /\ c = "e1")
  <2>1. ~(Len(bytes) < Utf8[bytes[1]])
    <3>1. CASE h.utf8 = <<>>
      <4>1. c = "e2" /\ bytes = <<c>> /\ Len(<<c>>) = 1 /\ <<c>>[1] = c
        BY <1>5, <1>8, <3>1
      <4>. QED
        BY <1>5, <4>1
    <3>2. CASE h.utf8 = <<"e1">>
      <4>. DEFINE x == <<"e1">>
      <4>1. x \in Seq(Strings) /\ Len(x) = 1
        BY <1>2
      <4>0. x[1] = "e1"
        OBVIOUS
      <4>. HIDE DEF x
      <4>2. Len(Append(x, c)) = 2 /\ Append(x, c)[1] = "e1"
        <5>1. Len(Append(x, c)) = Len(x) + 1
          BY <4>1
        <5>2. Append(x, c)[1] = x[1]
          BY <4>1
        <5>. QED
          BY <4>0, <4>1, <5>1, <5>2
      <4>3. bytes = Append(x, c)
        BY <3>2 DEF x
      <4>. QED
        BY <1>5, <4>2, <4>3
    <3>. QED
      BY <1>1, <3>1, <3>2
  <2>2. g = [s EXCEPT !.utf8 = <<>>]
    BY <1>8, <2>1 DEF EmitByte, s
  <2>. HIDE DEF g
  <2>3. s \in HtmlState /\ Bridge(s) /\ Opens(s)
    BY <1>4 DEF Streams, Bridge
  <2>4. /\ Kept(s, g) /\ g.stream = s.stream /\ g.pending_newline = s.pending_newline /\ g.segments = s.segments
        /\ g.span = s.span /\ g.anchor = s.anchor /\ g.stream_link = s.stream_link /\ g.stream_style = s.stream_style
        /\ g.utf8 = <<>> /\ g.page = s.page /\ g \in HtmlState
    BY <2>2, <2>3 DEF HtmlState, Kept
  <2>5. Bridge(g)
    BY <2>3, <2>4 DEF Bridge, Kept
  <2>6. Opens(g)
    BY <2>3, <2>4 DEF Opens, Kept
  <2>. HIDE DEF bytes
  <2>7. Gains(h, g, HeldIn(SegOf(h, bytes)), FALSE)
    BY <1>4, <2>4 DEF Gains
  <2>8. Streams(h, g)
    BY <1>4, <2>4, <2>5, <2>6 DEF Streams, Kept
  <2>. QED
    BY <2>4, <2>7, <2>8 DEF g, bytes
<1>. QED
  BY <1>1, <1>5, <1>6, <1>7, <1>8

-----------------------------------------------------------------------------
(* A collected line that is streamed from here on.                           *)
Wrote(h, g, items) ==
    /\ g \in HtmlState /\ Spans(g) /\ Gains(h, g, items, FALSE) /\ g.page.nested = h.page.nested
    /\ Kept(h, g) /\ g.stream = h.stream /\ g.pending_newline = h.pending_newline
    /\ g.segments = h.segments /\ g.utf8 = h.utf8
PutSegment(k, seg) == Emit(EnsureStyle(k, seg.style, seg.link), Text(seg.text))

LEMMA PutSegmentIs ==
    ASSUME NEW k, k \in HtmlState, Spans(k), NEW seg \in Segment
    PROVE  LET g == PutSegment(k, seg) IN Wrote(k, g, HeldIn(seg)) /\ g.span
<1>. DEFINE e == EnsureStyle(k, seg.style, seg.link)
            st == Dressed(seg.style, seg.link)
            tags == Text(seg.text)
            items == HeldIn(seg)
            g == Emit(e, tags)
<1>1. seg.style \in Styles /\ seg.link \in LinkNames /\ k.page \in Page
  BY HeldInIs DEF LinkNames, HtmlState
<1>2. Ensured(k, e, seg.style, seg.link)
  BY <1>1, EnsureStyleIs
<1>3. Puts(st, tags, items, FALSE, st)
  BY PutsDressed
<1>4. PutSegment(k, seg) = g
  BY DEF PutSegment
<1>. HIDE DEF e, tags, items, g
<1>5. e \in HtmlState /\ e.page.stack = st
  BY <1>2 DEF Ensured
<1>6. Puts(e.page.stack, tags, items, FALSE, st)
  BY <1>3, <1>5
<1>7. Beside(e, g) /\ g.page.stack = st /\ g.page.nested = e.page.nested /\ Gains(e, g, items, FALSE)
  BY <1>5, <1>6, EmitBeside DEF g
<1>8. Gains(k, g, <<>> \o items, FALSE)
  BY <1>1, <1>2, <1>7, GainsThen DEF Ensured
<1>9. Gains(k, g, items, FALSE)
  BY <1>7, <1>8, GainsNone
<1>10. g.span /\ (g.anchor <=> seg.link # NoLink) /\ g.stream_style = seg.style /\ g.stream_link = seg.link
  BY <1>2, <1>7 DEF Beside, Ensured
<1>11. Spans(g)
  BY <1>7, <1>10 DEF Spans, st
<1>12. Wrote(k, g, items)
  BY <1>2, <1>7, <1>9, <1>11 DEF Wrote, Beside, Kept, Ensured
<1>. QED
  BY <1>4, <1>10, <1>12 DEF items

LEMMA WroteThen ==
    ASSUME NEW h, NEW g, NEW k, NEW a, NEW b, h \in HtmlState, Wrote(h, g, a), Wrote(g, k, b)
    PROVE  Wrote(h, k, a \o b)
<1>1. h.page \in Page
  BY DEF HtmlState
<1>2. Gains(h, k, a \o b, FALSE)
  BY <1>1, GainsThen DEF Wrote
<1>. QED
  BY <1>2 DEF Wrote, Kept

(* What is written after each of the segments.                               *)
PutAt(h, segs, put, n) == IF n = 0 THEN h ELSE PutSegment(put[n - 1], segs[n])

LEMMA PutsExist ==
    ASSUME NEW h, h \in HtmlState, Spans(h), NEW segs \in Seq(Segment)
    PROVE  \E put : put = [n \in 0 .. Len(segs) |-> PutAt(h, segs, put, n)]
<1>. DEFINE S == {k \in HtmlState : Spans(k)}
            op == [x \in S \X Segment |-> PutSegment(x[1], x[2])]
<1>1. op \in [S \X Segment -> S]
  <2>1. \A k \in S, seg \in Segment : PutSegment(k, seg) \in S
    BY PutSegmentIs DEF Wrote
  <2>. HIDE DEF S
  <2>. QED
    BY <2>1
<1>2. PICK f \in [0 .. Len(segs) -> S] : Steps(op, h, segs, f)
  <2>. HIDE DEF op
  <2>1. h \in S
    OBVIOUS
  <2>. HIDE DEF S
  <2>. QED
    BY <1>1, <2>1, StepsExist
<1>3. Len(segs) \in Nat
  OBVIOUS
<1>4. f[0] = h /\ \A n \in 1 .. Len(segs) : f[n] = op[<<f[n - 1], segs[n]>>]
  <2>. HIDE DEF op
  <2>. QED
    BY <1>2, <1>3, StepsAre
<1>. HIDE DEF S
<1>5. \A n \in 1 .. Len(segs) : f[n] = PutSegment(f[n - 1], segs[n])
  <2>. TAKE n \in 1 .. Len(segs)
  <2>1. f[n - 1] \in S /\ segs[n] \in Segment
    BY <1>3
  <2>2. <<f[n - 1], segs[n]>> \in S \X Segment
    BY <2>1
  <2>3. op[<<f[n - 1], segs[n]>>] = PutSegment(f[n - 1], segs[n])
    BY <2>2
  <2>. QED
    BY <1>4, <2>3
<1>6. f = [n \in 0 .. Len(segs) |-> PutAt(h, segs, f, n)]
  <2>1. f = [n \in 0 .. Len(segs) |-> f[n]]
    OBVIOUS
  <2>2. \A n \in 0 .. Len(segs) : f[n] = PutAt(h, segs, f, n)
    <3>1. \A n \in 0 .. Len(segs) : n # 0 => n \in 1 .. Len(segs)
      OBVIOUS
    <3>. HIDE DEF op
    <3>. QED
      BY <1>4, <1>5, <3>1, Zenon DEF PutAt
  <2>3. [n \in 0 .. Len(segs) |-> f[n]] = [n \in 0 .. Len(segs) |-> PutAt(h, segs, f, n)]
    BY <2>2, Zenon
  <2>. QED
    BY <2>1, <2>3, Zenon
<1>. QED
  BY <1>6, Zenon

LEMMA PutsAll ==
    ASSUME NEW h, h \in HtmlState, Spans(h), NEW segs \in Seq(Segment), segs # <<>>,
           NEW put, put = [n \in 0 .. Len(segs) |-> PutAt(h, segs, put, n)]
    PROVE  Wrote(h, put[Len(segs)], Held(segs)) /\ put[Len(segs)].span
<1>. DEFINE part(n) == SubSeq(segs, 1, n)
            Done(n) == Wrote(h, put[n], Held(part(n))) /\ (n # 0 => put[n].span)
            P == {n \in Nat : n <= Len(segs) => Done(n)}
            N == Len(segs)
<1>0. N \in Nat
  OBVIOUS
<1>1. \A n \in 0 .. Len(segs) : put[n] = PutAt(h, segs, put, n)
  <2>1. \A g : g = [n \in 0 .. Len(segs) |-> PutAt(h, segs, put, n)]
               => \A n \in 0 .. Len(segs) : g[n] = PutAt(h, segs, put, n)
    BY Zenon
  <2>. QED
    BY <2>1, Zenon
<1>2. 0 \in P
  <2>1. 0 \in 0 .. Len(segs)
    BY <1>0
  <2>2. put[0] = h
    BY <1>1, <2>1 DEF PutAt
  <2>3. part(0) = <<>> /\ Held(<<>>) = <<>>
    BY TextOfAppend
  <2>4. h.page \in Page
    BY DEF HtmlState
  <2>5. Gains(h, h, <<>>, FALSE)
    BY <2>4, GainsNothing
  <2>6. Wrote(h, h, <<>>)
    BY <2>5 DEF Wrote, Kept
  <2>7. Held(part(0)) = <<>>
    BY <2>3
  <2>. QED
    BY <2>2, <2>6, <2>7
<1>3. ASSUME NEW n \in P
      PROVE  n + 1 \in P
  <2>1. n \in Nat
    OBVIOUS
  <2>2. ASSUME n + 1 <= N
        PROVE  Done(n + 1)
    <3>1. n + 1 \in 0 .. Len(segs) /\ n + 1 # 0 /\ (n + 1) - 1 = n /\ n <= N /\ n + 1 \in 1 .. Len(segs)
      BY <1>0, <2>1, <2>2
    <3>2. put[n + 1] = PutSegment(put[n], segs[n + 1])
      BY <1>1, <3>1 DEF PutAt
    <3>3. segs[n + 1] \in Segment
      BY <3>1
    <3>4. Wrote(h, put[n], Held(part(n)))
      BY <3>1
    <3>5. put[n] \in HtmlState /\ Spans(put[n])
      BY <3>4 DEF Wrote
    <3>6. Wrote(put[n], put[n + 1], HeldIn(segs[n + 1])) /\ put[n + 1].span
      BY <3>2, <3>3, <3>5, PutSegmentIs
    <3>7. part(n) \in Seq(Segment) /\ part(n + 1) = Append(part(n), segs[n + 1])
      BY <2>1, <2>2
    <3>8. Held(part(n + 1)) = Held(part(n)) \o HeldIn(segs[n + 1])
      BY <3>3, <3>7, TextOfAppend
    <3>9. Wrote(h, put[n + 1], Held(part(n)) \o HeldIn(segs[n + 1]))
      BY <3>4, <3>6, WroteThen
    <3>. QED
      BY <3>6, <3>8, <3>9
  <2>. HIDE DEF Done
  <2>. QED
    BY <2>1, <2>2
<1>4. P = Nat
  <2>. HIDE DEF Done
  <2>1. P \in SUBSET Nat
    OBVIOUS
  <2>. HIDE DEF P
  <2>. QED
    BY <1>2, <1>3, <2>1, NatInduct
<1>5. Done(N)
  <2>. HIDE DEF Done
  <2>. QED
    BY <1>0, <1>4
<1>6. N # 0
  OBVIOUS
<1>7. part(N) = segs
  OBVIOUS
<1>. HIDE DEF part
<1>. QED
  BY <1>5, <1>6, <1>7

LEMMA StreamKindIs ==
    \A s \in Seq(Strings) :
        /\ StreamKind(s) \in {"none", "heading", "plain"}
        /\ StreamKind(s) # "none" => s # <<>> /\ s[1] \notin {" ", ">", "-"} \cup Digit
<1>. SUFFICES ASSUME NEW s \in Seq(Strings)
              PROVE  /\ StreamKind(s) \in {"none", "heading", "plain"}
                     /\ StreamKind(s) # "none" => s # <<>> /\ s[1] \notin {" ", ">", "-"} \cup Digit
  OBVIOUS
<1>. DEFINE first == At(s, 1)
            markers == {" ", ">", "-"} \cup Digit
<1>1. s # <<>> => first = s[1]
  <2>1. s # <<>> => 1 \in DOMAIN s
    OBVIOUS
  <2>. QED
    BY <2>1, Zenon DEF At
<1>. HIDE DEF first, markers
<1>2. StreamKind(s) = IF s = <<>> \/ first \in markers THEN "none"
                      ELSE IF s[1] # "#" THEN "plain"
                      ELSE IF Hashes(s) = Len(s) THEN "none"
                      ELSE IF IsHeading(s) THEN "heading" ELSE "plain"
  BY DEF StreamKind, first, markers
<1>3. s = <<>> \/ first \in markers => StreamKind(s) = "none"
  BY <1>2, Zenon
<1>4. StreamKind(s) \in {"none", "heading", "plain"}
  BY <1>2, Zenon
<1>. QED
  BY <1>1, <1>3, <1>4 DEF markers

(* The line is streamed from here on.                                        *)
Begun(h, g) ==
    /\ h.chart = "none" /\ StreamKind(TextOf(h.segments)) # "none"
    /\ Bridge(g) /\ Opens(g) /\ Kept(h, g) /\ g.stream # "none" /\ g.utf8 = <<>>
    /\ g.pending_newline = h.pending_newline
    /\ Gains(h, g, Held(h.segments), FALSE)

LEMMA MaybeStartIs ==
    ASSUME NEW h, Bridge(h), Opens(h), h.stream = "none"
    PROVE  MaybeStart(h) = h \/ Begun(h, MaybeStart(h))
<1>. DEFINE segs == h.segments
            s == LineText(h)
            kind == IF h.chart = "none" THEN StreamKind(s) ELSE "none"
            put == CHOOSE f : f = [n \in 0 .. Len(segs) |->
                      IF n = 0 THEN h
                      ELSE Emit(EnsureStyle(f[n - 1], segs[n].style, segs[n].link), Text(segs[n].text))]
            g == MaybeStart(h)
            opened == <<Open("heading", segs[1].style)>> \o Text(s)
            hd == Emit(h, opened)
            pl == put[Len(segs)]
            items == Held(segs)
<1>1. /\ h \in HtmlState /\ segs \in Seq(Segment) /\ h.page \in Page /\ h.utf8 = <<>> /\ ~h.span /\ ~h.anchor
      /\ h.page.nested
  BY DEF Bridge, HtmlState
<1>2. s = TextOf(segs)
  BY LineTextIs
<1>3. TextOf(segs) \in Seq(Strings) /\ items \in Seq(Char)
  BY <1>1, HeldType
<1>4. kind \in {"none", "heading", "plain"} /\ (kind # "none" => h.chart = "none" /\ kind = StreamKind(s))
  BY <1>2, <1>3, StreamKindIs
<1>5. g = CASE kind = "none"    -> h
            [] kind = "heading" -> [[hd EXCEPT !.stream = "heading"] EXCEPT !.segments = <<>>]
            [] kind = "plain"   -> [[pl EXCEPT !.stream = "plain"] EXCEPT !.segments = <<>>]
  BY DEF MaybeStart, Clear
<1>6. kind # "none" => segs # <<>> /\ h.page.stack = <<>>
  <2>1. kind # "none" => s # <<>>
    BY <1>2, <1>3, <1>4, StreamKindIs
  <2>2. segs = <<>> => TextOf(segs) = <<>>
    BY TextOfAppend
  <2>3. h.chart = "none" => h.page.stack = <<>>
    BY DEF Opens, BoxOf
  <2>. QED
    BY <1>2, <1>4, <2>1, <2>2, <2>3
<1>. HIDE DEF kind, hd, pl, put, g
<1>7. kind = "none" => g = h
  BY <1>5
<1>8. ASSUME kind = "heading"
      PROVE  Begun(h, g)
  <2>1. g = [[hd EXCEPT !.stream = "heading"] EXCEPT !.segments = <<>>]
    BY <1>5, <1>8
  <2>. DEFINE x == segs[1].style
              none == <<>>
              st == Append(none, Top("heading", x))
  <2>2. x \in Strings /\ none \in Seq(Opened) /\ "heading" \in Strings
    <3>1. segs[1] \in Segment
      BY <1>1, <1>6, <1>8
    <3>2. x \in Styles
      BY <3>1 DEF Segment
    <3>3. none \in Seq(Opened)
      OBVIOUS
    <3>. HIDE DEF x, none
    <3>. QED
      BY <3>2, <3>3, EscapeStrings, Named
  <2>. HIDE DEF x, none
  <2>3. st \in Seq(Opened) /\ ("chart" \in Within(st) <=> FALSE) /\ "heading" \in Within(st)
    <3>1. Within(none) = {}
      BY DEF Within, none
    <3>2. st \in Seq(Opened) /\ \A o : o \in Within(st) <=> o = "heading" \/ o \in Within(none)
      BY <2>2, WithinTop
    <3>. HIDE DEF st
    <3>. QED
      BY <3>1, <3>2
  <2>4. Writes(none, <<Open("heading", x)>>, <<>>, st)
    BY <2>2, WritesOpen
  <2>. HIDE DEF st
  <2>5. Puts(st, Text(s), items, FALSE, st)
    <3>1. Len(items) = Len(s) /\ \A i \in 1 .. Len(s) : items[i].c = s[i]
      BY <1>1, <1>2, HeldLength
    <3>2. s \in Seq(Strings)
      BY <1>2, <1>3
    <3>. HIDE DEF items, s
    <3>. QED
      BY <1>3, <2>3, <3>1, <3>2, PutsText
  <2>6. Puts(none, <<Open("heading", x)>> \o Text(s), items, FALSE, st)
    BY <2>4, <2>5, PutsAfter
  <2>. HIDE DEF items
  <2>7. Puts(h.page.stack, opened, items, FALSE, st)
    BY <1>6, <1>8, <2>6 DEF none, x
  <2>. HIDE DEF opened
  <2>8. Beside(h, hd) /\ hd.page.stack = st /\ hd.page.nested = h.page.nested /\ Gains(h, hd, items, FALSE)
    BY <1>1, <2>7, EmitBeside DEF hd
  <2>9. /\ g \in HtmlState /\ g.stream = "heading" /\ g.segments = <<>> /\ g.page = hd.page /\ Kept(hd, g)
        /\ g.pending_newline = hd.pending_newline /\ g.span = hd.span /\ g.anchor = hd.anchor /\ g.utf8 = hd.utf8
    <3>1. <<>> \in Seq(Segment)
      OBVIOUS
    <3>2. hd \in HtmlState
      BY <2>8 DEF Beside
    <3>. QED
      BY <2>1, <3>1, <3>2 DEF HtmlState, Kept
  <2>10. Kept(h, g)
    BY <2>8, <2>9 DEF Beside, Kept
  <2>11. Bridge(g)
    BY <1>1, <1>4, <1>8, <2>8, <2>9, <2>10 DEF Bridge, Beside, Kept
  <2>12. Opens(g)
    BY <2>2, <2>8, <2>9 DEF Opens, st, none
  <2>13. Gains(h, g, items, FALSE)
    BY <2>8, <2>9 DEF Gains
  <2>. QED
    BY <1>1, <1>2, <1>4, <1>8, <2>8, <2>9, <2>10, <2>11, <2>12, <2>13 DEF Begun, Beside, items
<1>9. ASSUME kind = "plain"
      PROVE  Begun(h, g)
  <2>1. g = [[pl EXCEPT !.stream = "plain"] EXCEPT !.segments = <<>>]
    BY <1>5, <1>9
  <2>2. Spans(h)
    BY <1>1, <1>6, <1>9 DEF Spans
  <2>3. put = [n \in 0 .. Len(segs) |-> PutAt(h, segs, put, n)]
    <3>1. \A f : f = [n \in 0 .. Len(segs) |-> PutAt(h, segs, f, n)]
                 <=> f = [n \in 0 .. Len(segs) |->
                      IF n = 0 THEN h
                      ELSE Emit(EnsureStyle(f[n - 1], segs[n].style, segs[n].link), Text(segs[n].text))]
      BY Zenon DEF PutAt, PutSegment
    <3>2. \E f : f = [n \in 0 .. Len(segs) |-> PutAt(h, segs, f, n)]
      <4>. HIDE DEF segs
      <4>. QED
        BY <1>1, <2>2, PutsExist
    <3>3. put = [n \in 0 .. Len(segs) |->
                      IF n = 0 THEN h
                      ELSE Emit(EnsureStyle(put[n - 1], segs[n].style, segs[n].link), Text(segs[n].text))]
      BY <3>1, <3>2, Zenon DEF put
    <3>. QED
      BY <3>1, <3>3, Zenon
  <2>4. Wrote(h, pl, items) /\ pl.span
    BY <1>1, <1>6, <1>9, <2>2, <2>3, PutsAll DEF pl
  <2>. HIDE DEF items
  <2>5. /\ g \in HtmlState /\ g.stream = "plain" /\ g.segments = <<>> /\ g.page = pl.page /\ Kept(pl, g)
        /\ g.pending_newline = pl.pending_newline /\ g.span = pl.span /\ g.anchor = pl.anchor /\ g.utf8 = pl.utf8
        /\ g.stream_style = pl.stream_style /\ g.stream_link = pl.stream_link
    <3>1. <<>> \in Seq(Segment)
      OBVIOUS
    <3>2. pl \in HtmlState
      BY <2>4 DEF Wrote
    <3>. QED
      BY <2>1, <3>1, <3>2 DEF HtmlState, Kept
  <2>6. Kept(h, g)
    BY <2>4, <2>5 DEF Wrote, Kept
  <2>7. Bridge(g)
    BY <1>1, <1>4, <1>9, <2>4, <2>5, <2>6 DEF Bridge, Wrote, Spans, Kept
  <2>8. Opens(g)
    BY <2>4, <2>5 DEF Opens, Wrote, Spans
  <2>9. Gains(h, g, items, FALSE)
    BY <2>4, <2>5 DEF Gains, Wrote
  <2>. QED
    BY <1>1, <1>2, <1>4, <1>9, <2>4, <2>5, <2>6, <2>7, <2>8, <2>9 DEF Begun, Wrote, items
<1>. QED
  BY <1>4, <1>7, <1>8, <1>9 DEF g

-----------------------------------------------------------------------------
(* What the steps do to the bridge.                                          *)
LEMMA ReadyIs ==
    ASSUME NEW h, Bridge(h), Opens(h)
    PROVE  LET g == ReadyOf(h)
           IN  Bridge(g) /\ Opens(g) /\ Kept(h, g) /\ ~g.pending_newline
<1>. DEFINE f == FlushPending(h, FALSE)
<1>1. Bridge(f) /\ Opens(f) /\ Kept(h, f) /\ ~f.pending_newline
  BY FlushPendingKeeps
<1>. HIDE DEF f
<1>2. ReadyOf(h) = IF h.pending_newline THEN f ELSE h
  BY DEF ReadyOf, f
<1>3. Kept(h, h)
  BY DEF Kept
<1>. QED
  BY <1>1, <1>2, <1>3

(* A line without text.                                                      *)
LEMMA EmptyLineIs ==
    ASSUME NEW h, Bridge(h), Opens(h), h.stream = "none", TextOf(h.segments) = <<>>
    PROVE  LET g == Clear(FlushLine(h, FALSE))
           IN  Bridge(g) /\ Opens(g) /\ Beside(h, g) /\ Gains(h, g, <<LineBreak>>, h.chart # "none")
<1>. DEFINE g == Clear(FlushLine(h, FALSE))
            st == BoxOf(h.chart)
<1>0. PICK box \in BOOLEAN : box = (h.chart # "none")
  OBVIOUS
<1>1. /\ h \in HtmlState /\ h.segments \in Seq(Segment) /\ h.page \in Page /\ h.chart \in STRING \cup {"none"}
      /\ h.segments = <<>>
  BY DEF Bridge, HtmlState
<1>2. h.page.stack = st
  BY DEF Opens
<1>3. st \in Seq(Opened) /\ ("chart" \in Within(st) <=> box) /\ Innermost(st, "a") = LinkShown(NoLink)
  BY <1>0, <1>1, BoxIs
<1>. HIDE DEF st
<1>4. PICK style : IsContentStyle(h, style)
  BY ContentStyle
<1>5. Flushable(h, st, box, FALSE, style)
  BY <1>1, <1>3, <1>4 DEF Flushable, IsContentStyle
<1>6. Flushes(h, st, box, FALSE, style)
  BY <1>5, FlushLineIs
<1>. DEFINE out == LeftOut(TextOf(h.segments), h.chart, style)
<1>7. PICK tags, st2 : /\ FlushLine(h, FALSE) = Emit(h, tags)
                       /\ Puts(st, tags, Rest(Held(h.segments), out) \o Ending(FALSE), box, st2)
                       /\ st2 = st
  BY <1>6 DEF Flushes
<1>8. out \in 0 .. Len(TextOf(h.segments))
  BY <1>6 DEF Flushes
<1>. HIDE DEF out
<1>9. Rest(Held(h.segments), out) \o Ending(FALSE) = <<LineBreak>>
  <2>1. out = 0
    BY <1>8
  <2>2. Held(h.segments) = <<>>
    BY <1>1, TextOfAppend
  <2>3. Rest(<<>>, 0) = <<>>
    BY DEF Rest
  <2>4. Ending(FALSE) \in Seq(Char)
    BY EndingIs
  <2>5. <<>> \o Ending(FALSE) = Ending(FALSE)
    BY <2>4
  <2>. QED
    BY <2>1, <2>2, <2>3, <2>5, EndingIs
<1>10. Puts(h.page.stack, tags, <<LineBreak>>, box, h.page.stack)
  BY <1>2, <1>7, <1>9
<1>. DEFINE k == Emit(h, tags)
            items == <<LineBreak>>
<1>. HIDE DEF items
<1>11. Beside(h, k) /\ Bridge(k) /\ Opens(k) /\ Gains(h, k, items, box)
  BY <1>10, EmitInside DEF items
<1>12. g = [k EXCEPT !.segments = <<>>]
  BY <1>7 DEF Clear
<1>. HIDE DEF k, g
<1>13. g = k
  BY <1>1, <1>11, <1>12 DEF Beside, HtmlState
<1>. QED
  BY <1>0, <1>11, <1>13 DEF items, g

LEMMA BeginTokenIs ==
    ASSUME NEW h, Bridge(h), Opens(h)
    PROVE  LET g == BeginToken(h)
           IN  /\ Bridge(g) /\ Opens(g) /\ Gains(h, g, <<>>, FALSE)
               /\ g.segments = h.segments /\ g.pending_newline = h.pending_newline /\ g.style = h.style
               /\ g.link = h.link /\ g.stream = h.stream /\ g.utf8 = h.utf8 /\ g.chart = h.chart
<1>. DEFINE g == BeginToken(h)
            tags == When(h.footer_needs_newline, Added(<<Newline>>))
            k == Emit(h, tags)
<1>1. h \in HtmlState /\ h.page \in Page /\ h.footer_needs_newline \in BOOLEAN /\ h.page.stack \in Seq(Opened)
  BY DEF Bridge, HtmlState, Page
<1>2. Writes(h.page.stack, tags, <<>>, h.page.stack)
  <2>1. <<Newline>> \in Seq(Strings)
    <3>1. Newline \in Strings
      BY Named
    <3>. QED
      BY <3>1
  <2>2. Writes(h.page.stack, Added(<<Newline>>), <<>>, h.page.stack)
    BY <1>1, <2>1, WritesText
  <2>3. Writes(h.page.stack, <<>>, <<>>, h.page.stack)
    BY <1>1, WritesNone
  <2>. QED
    BY <1>1, <2>2, <2>3 DEF When
<1>3. Puts(h.page.stack, tags, <<>>, FALSE, h.page.stack)
  BY <1>2, PutsNothing
<1>. HIDE DEF tags
<1>4. Beside(h, k) /\ Bridge(k) /\ Opens(k) /\ Gains(h, k, <<>>, FALSE)
  BY <1>3, EmitInside
<1>5. g = [k EXCEPT !.footer_needs_newline = FALSE, !.body_emitted = TRUE]
  BY DEF BeginToken, tags
<1>. HIDE DEF k, g
<1>6. /\ g \in HtmlState /\ g.segments = k.segments /\ g.pending_newline = k.pending_newline /\ g.style = k.style
      /\ g.link = k.link /\ g.stream = k.stream /\ g.utf8 = k.utf8 /\ g.chart = k.chart /\ g.page = k.page
      /\ g.span = k.span /\ g.anchor = k.anchor /\ g.stream_style = k.stream_style /\ g.stream_link = k.stream_link
  BY <1>4, <1>5 DEF Beside, HtmlState
<1>7. Bridge(g)
  BY <1>4, <1>6 DEF Bridge
<1>8. Opens(g)
  BY <1>4, <1>6 DEF Opens
<1>9. Gains(h, g, <<>>, FALSE)
  BY <1>4, <1>6 DEF Gains
<1>. QED
  BY <1>4, <1>6, <1>7, <1>8, <1>9 DEF g, Beside, Kept

LEMMA QuotePrefixIs ==
    ASSUME NEW h, Bridge(h), QuotePrefixOnly(h)
    PROVE  h.stream = "none" /\ ~h.pending_newline /\ TextOf(h.segments) # <<>>
<1>. DEFINE s == TextOf(h.segments)
            t == SkipBlanks(s, 0)
<1>1. s \in Seq(Strings)
  BY HeldType DEF Bridge, HtmlState
<1>2. ~h.pending_newline /\ At(s, t + 1) = ">"
  BY LineTextIs DEF QuotePrefixOnly
<1>3. t \in Nat
  <2>1. Len(s) \in Nat /\ 0 \in 0 .. Len(s)
    BY <1>1
  <2>. HIDE DEF s
  <2>2. t \in 0 .. Len(s)
    BY <1>1, <2>1, SkipIs
  <2>. QED
    BY <2>1, <2>2
<1>. HIDE DEF s, t
<1>4. t + 1 <= Len(s)
  BY <1>1, <1>2, <1>3, AtBlank
<1>5. s # <<>>
  BY <1>3, <1>4
<1>6. h.stream = "none"
  BY <1>5, TextOfAppend DEF Bridge, s
<1>. QED
  BY <1>2, <1>5, <1>6 DEF s

(* Ending a line before a chart.                                             *)
LEMMA EndLineIs ==
    ASSUME NEW h, Bridge(h), Opens(h), NEW style, IsContentStyle(h, style)
    PROVE  LET g   == EndLineForChart(h)
               out == LeftOut(TextOf(h.segments), h.chart, style)
           IN  /\ Bridge(g) /\ Opens(g) /\ Kept(h, g) /\ g.stream = "none" /\ ~g.pending_newline
               /\ TextOf(g.segments) = <<>>
               /\ QuotePrefixOnly(h) => g.page = h.page
               /\ ~QuotePrefixOnly(h) /\ h.stream # "none" => Gains(h, g, Ending(FALSE), FALSE)
               /\ ~QuotePrefixOnly(h) /\ h.stream = "none" /\ TextOf(h.segments) # <<>> =>
                    /\ out \in 0 .. Len(TextOf(h.segments))
                    /\ Gains(h, g, Rest(Held(h.segments), out) \o Ending(FALSE), h.chart # "none")
               /\ ~QuotePrefixOnly(h) /\ h.stream = "none" /\ TextOf(h.segments) = <<>> => g.page = h.page
<1>. DEFINE g == EndLineForChart(h)
            f == FlushPending(h, FALSE)
            c == CloseLine(f, FALSE)
            out == LeftOut(TextOf(h.segments), h.chart, style)
            items == Rest(Held(h.segments), out) \o Ending(FALSE)
<1>1. h \in HtmlState /\ h.segments \in Seq(Segment) /\ h.page \in Page /\ h.pending_newline \in BOOLEAN
  BY DEF Bridge, HtmlState
<1>2. g = IF QuotePrefixOnly(h) THEN [h EXCEPT !.segments = <<>>]
          ELSE IF f.stream # "none" THEN c ELSE f
  BY DEF EndLineForChart, Clear
<1>3. TextOf(<<>>) = <<>>
  BY TextOfAppend
<1>4. /\ h.stream # "none" /\ h.pending_newline =>
           Cleared(h, f) /\ Gains(h, f, Ending(FALSE), FALSE) /\ f.page.stack = <<>>
      /\ h.stream = "none" /\ TextOf(h.segments) # <<>> =>
           Cleared(h, f) /\ out \in 0 .. Len(TextOf(h.segments)) /\ Gains(h, f, items, h.chart # "none")
      /\ h.stream # "none" /\ ~h.pending_newline => f = h
      /\ h.stream = "none" /\ TextOf(h.segments) = <<>> => f = h
  BY FlushPendingIs
<1>5. /\ Bridge(f) /\ Opens(f) /\ Kept(h, f) /\ ~f.pending_newline
      /\ f.stream = "none" => TextOf(f.segments) = <<>>
  BY FlushPendingKeeps
<1>. HIDE DEF f, g, items, out
<1>6. ASSUME QuotePrefixOnly(h)
      PROVE  Bridge(g) /\ Opens(g) /\ Kept(h, g) /\ g.stream = "none" /\ ~g.pending_newline
             /\ TextOf(g.segments) = <<>> /\ g.page = h.page
  <2>1. g = [h EXCEPT !.segments = <<>>] /\ h.stream = "none" /\ ~h.pending_newline
    BY <1>2, <1>6, QuotePrefixIs
  <2>2. <<>> \in Seq(Segment)
    OBVIOUS
  <2>3. /\ g \in HtmlState /\ Kept(h, g) /\ g.segments = <<>> /\ g.stream = "none" /\ ~g.pending_newline /\ g.page = h.page
        /\ g.span = h.span /\ g.anchor = h.anchor /\ g.utf8 = h.utf8 /\ g.stream_link = h.stream_link
        /\ g.stream_style = h.stream_style
    BY <1>1, <2>1, <2>2 DEF HtmlState, Kept
  <2>4. Bridge(g)
    BY <1>3, <2>1, <2>3 DEF Bridge, Kept
  <2>5. Opens(g)
    BY <2>1, <2>3 DEF Opens, Kept
  <2>. QED
    BY <1>3, <2>3, <2>4, <2>5
<1>7. ASSUME ~QuotePrefixOnly(h), f.stream = "none"
      PROVE  /\ Bridge(g) /\ Opens(g) /\ Kept(h, g) /\ g.stream = "none" /\ ~g.pending_newline
             /\ TextOf(g.segments) = <<>> /\ g = f
             /\ h.stream # "none" => h.pending_newline
  BY <1>1, <1>2, <1>4, <1>5, <1>7
<1>8. ASSUME ~QuotePrefixOnly(h), f.stream # "none"
      PROVE  /\ Bridge(g) /\ Opens(g) /\ Kept(h, g) /\ g.stream = "none" /\ ~g.pending_newline
             /\ TextOf(g.segments) = <<>> /\ Gains(h, g, Ending(FALSE), FALSE)
             /\ h.stream # "none"
  <2>1. g = c /\ f = h /\ h.stream # "none" /\ ~h.pending_newline
    BY <1>1, <1>2, <1>4, <1>8 DEF Cleared
  <2>2. /\ Cleared(h, g) /\ Gains(h, g, Ending(FALSE), FALSE) /\ g.page.stack = <<>>
    <3>. DEFINE d == [CloseLine(h, FALSE) EXCEPT !.pending_newline = FALSE]
    <3>1. Cleared(h, d) /\ Gains(h, d, Ending(FALSE), FALSE) /\ d.page.stack = <<>>
          /\ (~h.pending_newline => CloseLine(h, FALSE) = d)
      BY <2>1, CloseLineIs
    <3>. HIDE DEF d
    <3>. QED
      BY <2>1, <3>1
  <2>3. g.page.nested = h.page.nested
    BY <2>2 DEF Gains
  <2>4. g.page.stack = BoxOf(h.chart)
    BY <2>1, <2>2 DEF Bridge, BoxOf
  <2>5. Bridge(g) /\ Opens(g)
    BY <2>2, <2>3, <2>4, ClearedIs
  <2>. QED
    BY <1>3, <2>1, <2>2, <2>5 DEF Cleared
<1>9. /\ QuotePrefixOnly(h) => g.page = h.page
      /\ ~QuotePrefixOnly(h) /\ h.stream # "none" => Gains(h, g, Ending(FALSE), FALSE)
      /\ ~QuotePrefixOnly(h) /\ h.stream = "none" /\ TextOf(h.segments) # <<>> =>
           out \in 0 .. Len(TextOf(h.segments)) /\ Gains(h, g, items, h.chart # "none")
      /\ ~QuotePrefixOnly(h) /\ h.stream = "none" /\ TextOf(h.segments) = <<>> => g.page = h.page
  BY <1>4, <1>6, <1>7, <1>8
<1>10. Bridge(g) /\ Opens(g) /\ Kept(h, g) /\ g.stream = "none" /\ ~g.pending_newline /\ TextOf(g.segments) = <<>>
  BY <1>6, <1>7, <1>8
<1>. QED
  BY <1>9, <1>10 DEF g, out, items

(* A tag that opens or closes something around the lines.                    *)
LEMMA AroundIs ==
    ASSUME NEW h, Bridge(h), h.stream = "none", NEW tags, NEW st2, Writes(h.page.stack, tags, <<>>, st2)
    PROVE  LET k == Emit(h, tags)
           IN  Beside(h, k) /\ Bridge(k) /\ k.page.stack = st2 /\ Gains(h, k, <<>>, FALSE) /\ k.page.text = h.page.text
<1>. DEFINE k == Emit(h, tags)
<1>1. Puts(h.page.stack, tags, <<>>, FALSE, st2)
  BY PutsNothing
<1>2. h \in HtmlState /\ h.page \in Page
  BY DEF Bridge, HtmlState
<1>3. Beside(h, k) /\ k.page.stack = st2 /\ k.page.nested = h.page.nested /\ Gains(h, k, <<>>, FALSE)
  BY <1>1, <1>2, EmitBeside
<1>. HIDE DEF k
<1>4. Bridge(k)
  BY <1>3 DEF Bridge, Beside, Kept
<1>5. k.page.text = h.page.text
  <2>1. PICK new : Fits(new, <<>>, FALSE) /\ k.page.text = h.page.text \o new
    BY <1>3 DEF Gains
  <2>2. new = <<>> /\ h.page.text \in Seq(Glyph)
    <3>1. new \in Seq(Glyph) /\ Len(new) = Len(<<>>)
      BY <2>1 DEF Fits
    <3>2. Len(<<>>) = 0
      OBVIOUS
    <3>3. h.page.text \in Seq(Glyph)
      BY <1>2 DEF Page
    <3>. QED
      BY <3>1, <3>2, <3>3
  <2>. QED
    BY <2>1, <2>2
<1>. QED
  BY <1>3, <1>4, <1>5 DEF k

-----------------------------------------------------------------------------
(* What the ANSI renderer writes.                                            *)
AnsiByte == [c : Strings, lead : BOOLEAN]
LineOf   == [lead : Seq(STRING), body : Seq(STRING)]
RowBytes(row) == LineBytes(row) \o Bytes(<<Newline>>, FALSE)

LEMMA BytesAre ==
    \A seq \in Seq(Strings), lead \in BOOLEAN :
        /\ Bytes(seq, lead) \in Seq(AnsiByte) /\ Len(Bytes(seq, lead)) = Len(seq)
        /\ \A i \in 1 .. Len(seq) : Bytes(seq, lead)[i] = [c |-> seq[i], lead |-> lead]
<1>. SUFFICES ASSUME NEW seq \in Seq(Strings), NEW lead \in BOOLEAN
              PROVE  /\ Bytes(seq, lead) \in Seq(AnsiByte) /\ Len(Bytes(seq, lead)) = Len(seq)
                     /\ \A i \in 1 .. Len(seq) : Bytes(seq, lead)[i] = [c |-> seq[i], lead |-> lead]
  OBVIOUS
<1>1. \A i \in 1 .. Len(seq) : [c |-> seq[i], lead |-> lead] \in AnsiByte
  BY DEF AnsiByte
<1>2. Bytes(seq, lead) = [i \in 1 .. Len(seq) |-> [c |-> seq[i], lead |-> lead]] /\ Len(seq) \in Nat
  BY DEF Bytes
<1>3. [i \in 1 .. Len(seq) |-> [c |-> seq[i], lead |-> lead]] \in [1 .. Len(seq) -> AnsiByte]
  BY <1>1
<1>. QED
  BY <1>2, <1>3

LEMMA StringsAre == \A s \in Seq(STRING) : s \in Seq(Strings)
<1>. TAKE s \in Seq(STRING)
<1>1. \A x \in STRING : x \in Strings
  BY DEF Strings
<1>2. Len(s) \in Nat /\ s = [i \in 1 .. Len(s) |-> s[i]] /\ \A i \in 1 .. Len(s) : s[i] \in STRING
  OBVIOUS
<1>3. \A i \in 1 .. Len(s) : s[i] \in Strings
  BY <1>1, <1>2, Zenon
<1>4. [i \in 1 .. Len(s) |-> s[i]] \in [1 .. Len(s) -> Strings]
  BY <1>3, Zenon
<1>5. \A n \in Nat : \A f : f \in [1 .. n -> Strings] => f \in Seq(Strings)
  OBVIOUS
<1>6. s \in [1 .. Len(s) -> Strings]
  BY <1>2, <1>4, Zenon
<1>. QED
  BY <1>2, <1>5, <1>6, Zenon

LEMMA AnsiConcat ==
    \A a, b, c \in Seq(AnsiByte) :
        /\ a \o b \in Seq(AnsiByte) /\ Len(a \o b) = Len(a) + Len(b) /\ (a \o b) \o c = a \o (b \o c)
        /\ a \o <<>> = a /\ <<>> \o a = a /\ Len(a) \in Nat
  OBVIOUS

LEMMA LineBytesAre ==
    ASSUME NEW line \in LineOf
    PROVE  /\ line.lead \in Seq(Strings) /\ line.body \in Seq(Strings)
           /\ LineBytes(line) \in Seq(AnsiByte) /\ RowBytes(line) \in Seq(AnsiByte)
<1>1. line.lead \in Seq(Strings) /\ line.body \in Seq(Strings)
  <2>1. line.lead \in Seq(STRING) /\ line.body \in Seq(STRING)
    BY DEF LineOf
  <2>. QED
    BY <2>1, StringsAre
<1>2. Bytes(line.lead, TRUE) \in Seq(AnsiByte) /\ Bytes(line.body, FALSE) \in Seq(AnsiByte)
  BY <1>1, BytesAre
<1>3. Bytes(<<Newline>>, FALSE) \in Seq(AnsiByte)
  <2>1. Newline \in Strings
    BY Named
  <2>2. <<Newline>> \in Seq(Strings)
    BY <2>1
  <2>. QED
    BY <2>2, BytesAre
<1>4. LineBytes(line) \in Seq(AnsiByte)
  BY <1>2, AnsiConcat DEF LineBytes
<1>5. RowBytes(line) \in Seq(AnsiByte)
  BY <1>3, <1>4, AnsiConcat DEF RowBytes
<1>. QED
  BY <1>1, <1>4, <1>5

LEMMA RowsAre ==
    /\ FlattenSeq([i \in DOMAIN <<>> |-> RowBytes(<<>>[i])]) = <<>>
    /\ \A rows \in Seq(LineOf) : FlattenSeq([i \in DOMAIN rows |-> RowBytes(rows[i])]) \in Seq(AnsiByte)
    /\ \A rows \in Seq(LineOf), row \in LineOf :
         FlattenSeq([i \in DOMAIN Append(rows, row) |-> RowBytes(Append(rows, row)[i])])
           = FlattenSeq([i \in DOMAIN rows |-> RowBytes(rows[i])]) \o RowBytes(row)
<1>. DEFINE F == [row \in LineOf |-> RowBytes(row)]
<1>1. F \in [LineOf -> Seq(AnsiByte)]
  BY LineBytesAre
<1>2. FlatMaps(LineOf, AnsiByte, F)
  <2>. HIDE DEF F
  <2>. QED
    BY <1>1, FlatMapAppend
<1>3. \A rows \in Seq(LineOf) :
        FlattenSeq([i \in DOMAIN rows |-> RowBytes(rows[i])]) = FlattenSeq(Mapped(F, rows))
  <2>. TAKE rows \in Seq(LineOf)
  <2>1. \A i \in DOMAIN rows : F[rows[i]] = RowBytes(rows[i])
    OBVIOUS
  <2>. HIDE DEF F
  <2>2. Mapped(F, rows) = [i \in DOMAIN rows |-> RowBytes(rows[i])]
    BY <2>1, Zenon DEF Mapped
  <2>. QED
    BY <2>2
<1>. HIDE DEF F
<1>4. FlattenSeq([i \in DOMAIN <<>> |-> RowBytes(<<>>[i])]) = <<>>
  <2>1. [i \in DOMAIN <<>> |-> RowBytes(<<>>[i])] = <<>>
    OBVIOUS
  <2>. QED
    BY <2>1, FlattenEmpty
<1>5. \A row \in LineOf : F[row] = RowBytes(row)
  BY DEF F
<1>6. \A rows \in Seq(LineOf) : FlattenSeq([i \in DOMAIN rows |-> RowBytes(rows[i])]) \in Seq(AnsiByte)
  BY <1>2, <1>3 DEF FlatMaps
<1>7. \A rows \in Seq(LineOf), row \in LineOf :
        FlattenSeq([i \in DOMAIN Append(rows, row) |-> RowBytes(Append(rows, row)[i])])
          = FlattenSeq([i \in DOMAIN rows |-> RowBytes(rows[i])]) \o RowBytes(row)
  <2>. TAKE rows \in Seq(LineOf), row \in LineOf
  <2>1. Append(rows, row) \in Seq(LineOf)
    OBVIOUS
  <2>2. FlattenSeq(Mapped(F, Append(rows, row))) = FlattenSeq(Mapped(F, rows)) \o F[row]
    BY <1>2 DEF FlatMaps
  <2>. QED
    BY <1>3, <1>5, <2>1, <2>2
<1>. QED
  BY <1>4, <1>6, <1>7

-----------------------------------------------------------------------------
(* The elements that are open, in every state.                               *)
TagsInv ==
    /\ Bridge(html) /\ ansi \in Seq(AnsiByte)
    /\ phase \in {"text", "chart", "table", "ending", "finished"}
    /\ html.chart # "none" <=> phase = "chart"
    /\ phase # "finished" \/ html.stream # "none" => Opens(html)
    /\ phase = "finished" => ansi = <<>> /\ (html.stream = "none" => html.page.stack \in {<<>>, LineIn(<<>>)})

LEMMA TagsInit == Init => TagsInv
<1>. SUFFICES ASSUME Init PROVE TagsInv
  OBVIOUS
<1>1. /\ html = [segments |-> <<>>, pending_newline |-> FALSE, style |-> Plain, link |-> NoLink,
               stream |-> "none", span |-> FALSE, anchor |-> FALSE, stream_style |-> Plain,
               stream_link |-> NoLink, utf8 |-> <<>>, chart |-> "none",
               body_emitted |-> FALSE, footer_needs_newline |-> FALSE, page |-> EmptyPage]
      /\ ansi = <<>> /\ phase = "text"
  BY DEF Init
<1>2. EmptyPage \in Page /\ EmptyPage.nested /\ EmptyPage.stack = <<>>
  BY DEF EmptyPage, Page
<1>. DEFINE page == EmptyPage
            segs == <<>>
<1>3. segs \in Seq(Segment) /\ Plain \in Styles /\ NoLink \in LinkNames
  BY StyleAssumption DEF LinkNames
<1>4. TextOf(segs) = <<>>
  BY TextOfAppend
<1>. HIDE DEF page, segs
<1>5. html = [segments |-> segs, pending_newline |-> FALSE, style |-> Plain, link |-> NoLink,
               stream |-> "none", span |-> FALSE, anchor |-> FALSE, stream_style |-> Plain,
               stream_link |-> NoLink, utf8 |-> <<>>, chart |-> "none",
               body_emitted |-> FALSE, footer_needs_newline |-> FALSE, page |-> page]
  BY <1>1 DEF page, segs
<1>6. page \in Page
  BY <1>2 DEF page
<1>7. html \in HtmlState
  BY <1>3, <1>5, <1>6 DEF HtmlState
<1>8. /\ html.segments = segs /\ ~html.pending_newline /\ html.stream = "none" /\ ~html.span /\ ~html.anchor
      /\ html.utf8 = <<>> /\ html.chart = "none" /\ html.page = page
  BY <1>5
<1>9. segs = <<>>
  BY DEF segs
<1>10. Bridge(html)
  BY <1>2, <1>4, <1>7, <1>8, <1>9 DEF Bridge, page
<1>11. Opens(html)
  BY <1>2, <1>8 DEF Opens, BoxOf, page
<1>12. ansi \in Seq(AnsiByte)
  BY <1>1
<1>. QED
  BY <1>1, <1>8, <1>10, <1>11, <1>12 DEF TagsInv

LEMMA TagsReads ==
    ASSUME TagsInv, Reads
    PROVE  /\ Bridge(Ready) /\ Opens(Ready) /\ Kept(html, Ready) /\ ~Ready.pending_newline
           /\ Byte \in Strings /\ Tail(ansi) \in Seq(AnsiByte) /\ phase # "finished"
           /\ Bridge(html) /\ Opens(html) /\ Ready = ReadyOf(html)
<1>1. Bridge(html) /\ Opens(html) /\ phase # "finished" /\ ansi \in Seq(AnsiByte) /\ ansi # <<>>
  BY DEF TagsInv, Reads
<1>2. Ready = ReadyOf(html)
  BY DEF Ready, ReadyOf
<1>3. Bridge(Ready) /\ Opens(Ready) /\ Kept(html, Ready) /\ ~Ready.pending_newline
  BY <1>1, <1>2, ReadyIs
<1>4. Head(ansi) \in AnsiByte /\ Tail(ansi) \in Seq(AnsiByte)
  BY <1>1
<1>5. Byte \in Strings
  BY <1>4 DEF Byte, AnsiByte
<1>. QED
  BY <1>1, <1>2, <1>3, <1>4, <1>5

LEMMA TagsStep ==
    ASSUME TagsInv, Reads, NEW h, Bridge(h), Opens(h), h.chart = html.chart, Step(h)
    PROVE  TagsInv'
<1>1. html' = h /\ ansi' = Tail(ansi) /\ phase' = phase
  BY DEF Step
<1>2. Tail(ansi) \in Seq(AnsiByte) /\ phase # "finished"
  BY TagsReads
<1>. QED
  BY <1>1, <1>2 DEF TagsInv

(* Changing the style or the link.                                           *)
Restyled(h, style, link) == [h EXCEPT !.style = style, !.link = link]

LEMMA RestyleIs ==
    ASSUME NEW h, Bridge(h), Opens(h), NEW style \in Styles, NEW link \in LinkNames
    PROVE  LET g == Restyled(h, style, link)
           IN  /\ Bridge(g) /\ Opens(g) /\ g.chart = h.chart /\ g.style = style /\ g.link = link
               /\ g.page = h.page /\ g.segments = h.segments /\ g.pending_newline = h.pending_newline
               /\ g.stream = h.stream /\ g.utf8 = h.utf8
<1>. DEFINE g == Restyled(h, style, link)
<1>0. g = [h EXCEPT !.style = style, !.link = link]
  BY DEF Restyled
<1>. HIDE DEF g
<1>1. h \in HtmlState
  BY DEF Bridge
<1>2. /\ g \in HtmlState /\ g.chart = h.chart /\ g.style = style /\ g.link = link
      /\ g.page = h.page /\ g.segments = h.segments /\ g.pending_newline = h.pending_newline
      /\ g.stream = h.stream /\ g.utf8 = h.utf8 /\ g.span = h.span /\ g.anchor = h.anchor
      /\ g.stream_style = h.stream_style /\ g.stream_link = h.stream_link
  BY <1>0, <1>1 DEF HtmlState
<1>3. Bridge(g)
  BY <1>2 DEF Bridge
<1>4. Opens(g)
  BY <1>2 DEF Opens
<1>. QED
  BY <1>2, <1>3, <1>4 DEF g

(* A line break becomes pending.                                             *)
LEMMA PendIs ==
    ASSUME NEW h, Bridge(h), Opens(h), ~(h.stream = "none" /\ TextOf(h.segments) = <<>>),
           NEW g, g = [h EXCEPT !.pending_newline = TRUE]
    PROVE  /\ Bridge(g) /\ Opens(g) /\ Kept(h, g) /\ g.pending_newline
           /\ g.page = h.page /\ g.segments = h.segments /\ g.stream = h.stream /\ g.utf8 = h.utf8
<1>1. h \in HtmlState
  BY DEF Bridge
<1>2. /\ g \in HtmlState /\ Kept(h, g) /\ g.pending_newline
      /\ g.page = h.page /\ g.segments = h.segments
      /\ g.stream = h.stream /\ g.utf8 = h.utf8 /\ g.span = h.span /\ g.anchor = h.anchor
      /\ g.stream_style = h.stream_style /\ g.stream_link = h.stream_link
  BY <1>1 DEF HtmlState, Kept
<1>3. Bridge(g)
  BY <1>2 DEF Bridge, Kept
<1>4. Opens(g)
  BY <1>2 DEF Opens, Kept
<1>. QED
  BY <1>2, <1>3, <1>4

(* A byte is collected.                                                      *)
LEMMA CollectIs ==
    ASSUME NEW h, Bridge(h), Opens(h), h.stream = "none", NEW c \in Strings
    PROVE  LET g == AppendByte(h, c)
           IN  /\ Bridge(g) /\ Opens(g) /\ Kept(h, g) /\ g.stream = "none" /\ g.utf8 = <<>>
               /\ g.pending_newline = h.pending_newline /\ g.page = h.page
               /\ TextOf(g.segments) = Append(TextOf(h.segments), c)
               /\ Held(g.segments) = Append(Held(h.segments), AsChar(h, c))
<1>. DEFINE g == AppendByte(h, c)
            segs == g.segments
<1>1. h \in HtmlState
  BY DEF Bridge
<1>2. /\ g = [h EXCEPT !.segments = segs] /\ segs \in Seq(Segment)
      /\ TextOf(segs) = Append(TextOf(h.segments), c)
      /\ Held(segs) = Append(Held(h.segments), AsChar(h, c))
  BY <1>1, AppendByteIs
<1>3. TextOf(segs) # <<>>
  <2>1. TextOf(h.segments) \in Seq(Strings)
    BY <1>1, HeldType DEF HtmlState
  <2>. HIDE DEF segs
  <2>. QED
    BY <1>2, <2>1
<1>4. g.segments = segs
  OBVIOUS
<1>. HIDE DEF segs, g
<1>5. /\ g \in HtmlState /\ Kept(h, g) /\ g.pending_newline = h.pending_newline
      /\ g.page = h.page
      /\ g.stream = h.stream /\ g.utf8 = h.utf8 /\ g.span = h.span /\ g.anchor = h.anchor
      /\ g.stream_style = h.stream_style /\ g.stream_link = h.stream_link
  BY <1>1, <1>2 DEF HtmlState, Kept
<1>6. Bridge(g)
  BY <1>3, <1>4, <1>5 DEF Bridge, Kept
<1>7. Opens(g)
  BY <1>5 DEF Opens, Kept
<1>8. g.utf8 = <<>>
  BY <1>5 DEF Bridge
<1>. QED
  BY <1>2, <1>4, <1>5, <1>6, <1>7, <1>8 DEF g

LEMMA TagsWriteNewline == ASSUME TagsInv, WriteNewline PROVE TagsInv'
<1>. DEFINE e == Clear(FlushLine(Ready, FALSE))
            p == [Ready EXCEPT !.pending_newline = TRUE]
            empty == Ready.stream = "none" /\ LineText(Ready) = <<>>
            h == IF empty THEN e ELSE p
<1>1. Reads /\ Step(h)
  BY DEF WriteNewline
<1>2. Bridge(Ready) /\ Opens(Ready) /\ Kept(html, Ready)
  BY <1>1, TagsReads
<1>3. empty <=> Ready.stream = "none" /\ TextOf(Ready.segments) = <<>>
  BY LineTextIs
<1>4. empty => Bridge(e) /\ Opens(e) /\ Beside(Ready, e)
  BY <1>2, <1>3, EmptyLineIs
<1>5. ~empty => Bridge(p) /\ Opens(p) /\ Kept(Ready, p)
  BY <1>2, <1>3, PendIs
<1>. HIDE DEF e, p, empty
<1>6. Bridge(h) /\ Opens(h) /\ h.chart = html.chart
  BY <1>2, <1>4, <1>5 DEF Beside, Kept
<1>. QED
  BY <1>1, <1>6, TagsStep

LEMMA TagsWriteStyle == ASSUME TagsInv, WriteStyle PROVE TagsInv'
<1>. DEFINE h == [Ready EXCEPT !.style = Byte]
<1>1. Reads /\ Step(h) /\ Byte \in Styles
  BY DEF WriteStyle
<1>2. Bridge(Ready) /\ Opens(Ready) /\ Kept(html, Ready)
  BY <1>1, TagsReads
<1>3. Ready.link \in LinkNames /\ h = Restyled(Ready, Byte, Ready.link)
  BY <1>2 DEF Bridge, HtmlState, Restyled
<1>. HIDE DEF h
<1>4. Bridge(h) /\ Opens(h) /\ h.chart = Ready.chart
  BY <1>1, <1>2, <1>3, RestyleIs
<1>. QED
  BY <1>1, <1>2, <1>4, TagsStep DEF Kept

LEMMA TagsWriteLink == ASSUME TagsInv, WriteLink PROVE TagsInv'
<1>. DEFINE link == IF Byte # NoLink /\ Safe(Byte) THEN Byte ELSE NoLink
            h == [Ready EXCEPT !.link = link]
<1>1. Reads /\ Step(h) /\ Byte \in Links \cup {NoLink}
  BY DEF WriteLink, LinkOf
<1>2. Bridge(Ready) /\ Opens(Ready) /\ Kept(html, Ready)
  BY <1>1, TagsReads
<1>3. link \in LinkNames
  BY <1>1 DEF LinkNames
<1>. HIDE DEF link
<1>4. Ready.style \in Styles /\ h = Restyled(Ready, Ready.style, link)
  BY <1>2 DEF Bridge, HtmlState, Restyled
<1>. HIDE DEF h
<1>5. Bridge(h) /\ Opens(h) /\ h.chart = Ready.chart
  BY <1>2, <1>3, <1>4, RestyleIs
<1>. QED
  BY <1>1, <1>2, <1>5, TagsStep DEF Kept

LEMMA TagsWriteByte == ASSUME TagsInv, WriteByte PROVE TagsInv'
<1>. DEFINE e == EmitByte(Ready, Byte)
            a == AppendByte(Ready, Byte)
            m == MaybeStart(a)
            h == IF Ready.stream # "none" THEN e ELSE m
<1>1. Reads /\ Step(h)
  BY DEF WriteByte
<1>2. Bridge(Ready) /\ Opens(Ready) /\ Kept(html, Ready) /\ Byte \in Strings
  BY <1>1, TagsReads
<1>3. Ready.stream # "none" => Streams(Ready, e)
  BY <1>2, EmitByteIs
<1>4. Ready.stream = "none" => Bridge(a) /\ Opens(a) /\ Kept(Ready, a) /\ a.stream = "none"
  BY <1>2, CollectIs
<1>. HIDE DEF a
<1>5. Ready.stream = "none" => m = a \/ Begun(a, m)
  BY <1>4, MaybeStartIs
<1>. HIDE DEF e, m
<1>6. Bridge(h) /\ Opens(h) /\ h.chart = html.chart
  BY <1>2, <1>3, <1>4, <1>5 DEF Begun, Streams, Kept
<1>. HIDE DEF h
<1>. QED
  BY <1>1, <1>6, TagsStep

LEMMA BelowIs == \A s \in Below : s \in Seq(Strings) /\ Bytes(s, FALSE) \in Seq(AnsiByte)
<1>. TAKE s \in Below
<1>1. s \in {<<>>, <<Newline>>, <<Newline, Newline>>}
  BY DEF Below
<1>2. Newline \in Strings
  BY Named
<1>3. <<>> \in Seq(Strings) /\ <<Newline>> \in Seq(Strings) /\ <<Newline, Newline>> \in Seq(Strings)
  BY <1>2
<1>4. s \in Seq(Strings)
  BY <1>1, <1>3
<1>. QED
  BY <1>4, BytesAre

LEMMA TagsWriteLine == ASSUME TagsInv, WriteLine PROVE TagsInv'
<1>1. PICK line \in Lines, newlines \in Below : ansi' = Bytes(newlines, FALSE) \o LineBytes(line)
  BY DEF WriteLine
<1>2. phase = "text" /\ html' = BeginToken(html) /\ phase' = phase
  BY DEF WriteLine, Begins
<1>3. line \in LineOf
  BY BlocksAssumption DEF IsLine, LineOf
<1>4. ansi' \in Seq(AnsiByte)
  BY <1>1, <1>3, BelowIs, LineBytesAre, AnsiConcat
<1>5. Bridge(html) /\ Opens(html)
  BY <1>2 DEF TagsInv
<1>6. Bridge(html') /\ Opens(html') /\ html'.chart = html.chart
  BY <1>2, <1>5, BeginTokenIs
<1>. QED
  BY <1>2, <1>4, <1>6 DEF TagsInv

ChartBytes(chart) == FlattenSeq([i \in DOMAIN chart.rows |-> RowBytes(chart.rows[i])])

LEMMA ChartsAre ==
    \A chart \in Charts : /\ chart.kind \in STRING /\ chart.kind # "none" /\ chart.rows \in Seq(LineOf)
                          /\ ChartBytes(chart) \in Seq(AnsiByte)
                          /\ \A i \in DOMAIN chart.rows : IsLine(chart.rows[i], chart.kind)
<1>. TAKE chart \in Charts
<1>1. /\ chart.kind \in STRING /\ chart.kind # "none" /\ chart.rows \in Seq(LineOf)
      /\ \A i \in DOMAIN chart.rows : IsLine(chart.rows[i], chart.kind)
  BY BlocksAssumption DEF LineOf
<1>. QED
  BY <1>1, RowsAre DEF ChartBytes

(* A chart's box.                                                            *)
LEMMA OpenChartIs ==
    ASSUME NEW h, Bridge(h), Opens(h), h.stream = "none", h.chart = "none", ~h.pending_newline,
           TextOf(h.segments) = <<>>, NEW kind \in STRING, kind # "none"
    PROVE  LET g == [Emit(h, <<Open("chart", "")>>) EXCEPT !.chart = kind]
           IN  /\ Bridge(g) /\ Opens(g) /\ g.chart = kind /\ g.style = h.style /\ g.link = h.link
               /\ g.stream = "none" /\ ~g.pending_newline /\ g.segments = <<>> /\ g.utf8 = <<>>
               /\ g.page.text = h.page.text
<1>. DEFINE tags == <<Open("chart", "")>>
            k == Emit(h, tags)
            g == [k EXCEPT !.chart = kind]
            box == BoxOf(kind)
<1>1. h.page.stack = <<>>
  BY DEF Opens, BoxOf
<1>2. Writes(<<>>, tags, <<>>, box)
  <2>1. "chart" \in Strings /\ NoText \in Strings /\ <<>> \in Seq(Opened)
    <3>1. <<>> \in Seq(Opened)
      OBVIOUS
    <3>. QED
      BY <3>1, Named DEF NoText
  <2>2. Writes(<<>>, <<Open("chart", NoText)>>, <<>>, Append(<<>>, Top("chart", NoText)))
    BY <2>1, WritesOpen
  <2>3. Append(<<>>, Top("chart", NoText)) = box
    <3>. DEFINE top == Top("chart", NoText)
    <3>1. Append(<<>>, top) = <<top>>
      <4>. HIDE DEF top
      <4>. QED
        OBVIOUS
    <3>. QED
      BY <3>1, Zenon DEF BoxOf, NoText
  <2>4. tags = <<Open("chart", NoText)>>
    BY Zenon DEF NoText
  <2>. HIDE DEF tags, box
  <2>. QED
    BY <2>2, <2>3, <2>4
<1>. HIDE DEF tags, box
<1>3. Writes(h.page.stack, tags, <<>>, box)
  BY <1>1, <1>2
<1>4. Beside(h, k) /\ Bridge(k) /\ k.page.stack = box /\ k.page.text = h.page.text
  BY <1>3, AroundIs
<1>5. kind \in STRING \cup {"none"}
  OBVIOUS
<1>. HIDE DEF k
<1>6. /\ g \in HtmlState /\ g.chart = kind /\ g.style = k.style /\ g.link = k.link /\ g.page = k.page
      /\ g.stream = k.stream /\ g.pending_newline = k.pending_newline /\ g.segments = k.segments
      /\ g.utf8 = k.utf8 /\ g.span = k.span /\ g.anchor = k.anchor
      /\ g.stream_style = k.stream_style /\ g.stream_link = k.stream_link
  BY <1>4, <1>5 DEF Beside, HtmlState
<1>7. h.segments = <<>> /\ h.utf8 = <<>>
  BY DEF Bridge
<1>. HIDE DEF g
<1>8. Bridge(g)
  BY <1>4, <1>6 DEF Bridge, Beside
<1>9. Opens(g)
  BY <1>4, <1>6 DEF Opens, box, Beside
<1>. QED
  BY <1>4, <1>6, <1>7, <1>8, <1>9 DEF g, k, tags, Beside, Kept

LEMMA TagsBeginChart == ASSUME TagsInv, BeginChart PROVE TagsInv'
<1>1. PICK chart \in Charts, newlines \in Below \cup {<<>>} :
        /\ html' = [Emit(EndLineForChart(BeginToken(html)), <<Open("chart", "")>>)
                       EXCEPT !.chart = chart.kind]
        /\ ansi' = Bytes(newlines, FALSE) \o ChartBytes(chart)
  BY Zenon DEF BeginChart, ChartBytes, RowBytes
<1>2. phase = "text" /\ phase' = "chart"
  BY DEF BeginChart, Begins
<1>3. chart.kind \in STRING /\ chart.kind # "none" /\ ChartBytes(chart) \in Seq(AnsiByte)
  BY ChartsAre
<1>4. ansi' \in Seq(AnsiByte)
  <2>1. <<>> \in Seq(Strings)
    OBVIOUS
  <2>2. Bytes(newlines, FALSE) \in Seq(AnsiByte)
    BY <2>1, BelowIs, BytesAre
  <2>. QED
    BY <1>1, <1>3, <2>2, AnsiConcat
<1>5. Bridge(html) /\ Opens(html) /\ html.chart = "none"
  BY <1>2 DEF TagsInv
<1>. DEFINE b == BeginToken(html)
            e == EndLineForChart(b)
<1>6. Bridge(b) /\ Opens(b) /\ b.chart = html.chart
  BY <1>5, BeginTokenIs
<1>. HIDE DEF b
<1>7. PICK style : IsContentStyle(b, style)
  BY ContentStyle
<1>8. Bridge(e) /\ Opens(e) /\ e.chart = "none" /\ e.stream = "none" /\ ~e.pending_newline /\ TextOf(e.segments) = <<>>
  BY <1>5, <1>6, <1>7, EndLineIs DEF Kept
<1>. HIDE DEF e
<1>9. html' = [Emit(e, <<Open("chart", "")>>) EXCEPT !.chart = chart.kind]
  BY <1>1 DEF b, e
<1>10. Bridge(html') /\ Opens(html') /\ html'.chart = chart.kind
  BY <1>3, <1>8, <1>9, OpenChartIs
<1>. QED
  BY <1>2, <1>3, <1>4, <1>10 DEF TagsInv

LEMMA CloseChartIs ==
    ASSUME NEW h, Bridge(h), Opens(h), h.chart # "none", ~h.pending_newline, TextOf(h.segments) = <<>>
    PROVE  LET g == [Emit(h, <<Close("chart")>>) EXCEPT !.chart = "none"]
           IN  /\ Bridge(g) /\ Opens(g) /\ g.chart = "none" /\ g.style = h.style /\ g.link = h.link
               /\ g.stream = "none" /\ ~g.pending_newline /\ g.segments = <<>> /\ g.utf8 = <<>>
               /\ g.page.text = h.page.text
<1>. DEFINE tags == <<Close("chart")>>
            k == Emit(h, tags)
            g == [k EXCEPT !.chart = "none"]
<1>0. h.stream = "none" /\ h.segments = <<>> /\ h.utf8 = <<>>
  BY DEF Bridge
<1>1. h.page.stack = BoxOf(h.chart)
  BY <1>0 DEF Opens
<1>2. Writes(BoxOf(h.chart), tags, <<>>, <<>>)
  <2>1. "chart" \in Strings /\ NoText \in Strings /\ <<>> \in Seq(Opened) /\ "chart" # "block"
    <3>1. <<>> \in Seq(Opened)
      OBVIOUS
    <3>. QED
      BY <3>1, Named DEF NoText
  <2>2. Writes(Append(<<>>, Top("chart", NoText)), tags, <<>>, <<>>)
    BY <2>1, WritesMute
  <2>3. Append(<<>>, Top("chart", NoText)) = BoxOf(h.chart)
    <3>. DEFINE top == Top("chart", NoText)
    <3>1. Append(<<>>, top) = <<top>>
      <4>. HIDE DEF top
      <4>. QED
        OBVIOUS
    <3>. QED
      BY <3>1, Zenon DEF BoxOf, NoText
  <2>. HIDE DEF tags
  <2>. QED
    BY <2>2, <2>3
<1>. DEFINE none == <<>>
<1>3. Writes(h.page.stack, tags, <<>>, none)
  <2>. HIDE DEF tags
  <2>. QED
    BY <1>1, <1>2
<1>. HIDE DEF tags, none
<1>4. Beside(h, k) /\ Bridge(k) /\ k.page.stack = none /\ k.page.text = h.page.text
  BY <1>0, <1>3, AroundIs
<1>. HIDE DEF k
<1>6. /\ g \in HtmlState /\ g.chart = "none" /\ g.style = k.style /\ g.link = k.link /\ g.page = k.page
      /\ g.stream = k.stream /\ g.pending_newline = k.pending_newline /\ g.segments = k.segments
      /\ g.utf8 = k.utf8 /\ g.span = k.span /\ g.anchor = k.anchor
      /\ g.stream_style = k.stream_style /\ g.stream_link = k.stream_link
  BY <1>4 DEF Beside, HtmlState
<1>. HIDE DEF g
<1>8. Bridge(g)
  BY <1>4, <1>6 DEF Bridge, Beside
<1>9. Opens(g)
  BY <1>0, <1>4, <1>6 DEF Opens, BoxOf, Beside, none
<1>. QED
  BY <1>0, <1>4, <1>6, <1>8, <1>9 DEF g, k, tags, Beside, Kept

LEMMA TagsEndChart == ASSUME TagsInv, EndChart PROVE TagsInv'
<1>. DEFINE f == FlushPending(html, FALSE)
<1>1. /\ ansi = <<>> /\ phase = "chart" /\ phase' = "text" /\ ansi' = ansi
      /\ html' = [Emit(f, <<Close("chart")>>) EXCEPT !.chart = "none"]
  BY DEF EndChart
<1>2. Bridge(html) /\ Opens(html) /\ html.chart # "none"
  BY <1>1 DEF TagsInv
<1>3. /\ Bridge(f) /\ Opens(f) /\ Kept(html, f) /\ ~f.pending_newline
      /\ f.stream = "none" => TextOf(f.segments) = <<>>
  BY <1>2, FlushPendingKeeps
<1>. HIDE DEF f
<1>4. f.chart # "none" /\ TextOf(f.segments) = <<>>
  BY <1>2, <1>3 DEF Kept, Bridge
<1>5. Bridge(html') /\ Opens(html') /\ html'.chart = "none"
  BY <1>1, <1>3, <1>4, CloseChartIs
<1>6. ansi' \in Seq(AnsiByte)
  BY <1>1 DEF TagsInv
<1>. QED
  BY <1>1, <1>5, <1>6 DEF TagsInv

LEMMA TagsBeginTable == ASSUME TagsInv, BeginTable PROVE TagsInv'
<1>1. phase = "text" /\ phase' = "table" /\ html' = html
  BY DEF BeginTable, Begins
<1>2. ansi' \in Seq(AnsiByte)
  BY BelowIs DEF BeginTable
<1>. QED
  BY <1>1, <1>2 DEF TagsInv

LEMMA MuteIs ==
    \A st \in Seq(Opened), b \in BOOLEAN :
        /\ Writes(st, When(b, Added(<<Newline>>)), <<>>, st)
        /\ Writes(st, When(b, Added(<<Newline>>)) \o <<Open("table", ""), Close("table")>>, <<>>, st)
<1>. TAKE st \in Seq(Opened), b \in BOOLEAN
<1>. DEFINE mute == When(b, Added(<<Newline>>))
            o == Open("table", NoText)
            c == Close("table")
<1>1. <<Newline>> \in Seq(Strings) /\ "table" \in Strings /\ NoText \in Strings /\ "table" # "block"
  <2>1. Newline \in Strings /\ "table" \in Strings /\ NoText \in Strings
    BY Named DEF NoText
  <2>. QED
    BY <2>1
<1>2. Writes(st, mute, <<>>, st)
  <2>1. Writes(st, Added(<<Newline>>), <<>>, st)
    BY <1>1, WritesText
  <2>2. Writes(st, <<>>, <<>>, st)
    BY WritesNone
  <2>. QED
    BY <2>1, <2>2 DEF When
<1>. HIDE DEF mute
<1>3. Writes(st, <<o>>, <<>>, Append(st, Top("table", NoText)))
  BY <1>1, WritesOpen
<1>4. Writes(Append(st, Top("table", NoText)), <<c>>, <<>>, st)
  BY <1>1, WritesMute
<1>5. o \in Tag /\ c \in Tag
  BY <1>1, TagTypes
<1>. HIDE DEF o, c
<1>6. Writes(st, <<o>> \o <<c>>, <<>>, st)
  BY <1>3, <1>4, WritesThen
<1>7. Writes(st, Two(o, c), <<>>, st)
  BY <1>5, <1>6, TupleTags
<1>8. Writes(st, mute \o Two(o, c), <<>>, st)
  BY <1>2, <1>7, WritesThen
<1>9. Two(o, c) = <<Open("table", ""), Close("table")>>
  BY Zenon DEF Two, o, c, NoText
<1>. QED
  BY <1>2, <1>8, <1>9 DEF mute

(* A table, written around the bridge.                                       *)
WithTable(h, b, follows) ==
    [Emit(h, When(b, Added(<<Newline>>)) \o <<Open("table", ""), Close("table")>>)
       EXCEPT !.footer_needs_newline = follows]

LEMMA AddTableIs ==
    ASSUME NEW h, Bridge(h), Opens(h), NEW b \in BOOLEAN, NEW follows \in BOOLEAN
    PROVE  LET g == WithTable(h, b, follows)
           IN  /\ Bridge(g) /\ Opens(g) /\ Gains(h, g, <<>>, FALSE)
               /\ g.segments = h.segments /\ g.pending_newline = h.pending_newline /\ g.style = h.style
               /\ g.link = h.link /\ g.stream = h.stream /\ g.utf8 = h.utf8 /\ g.chart = h.chart
<1>. DEFINE tags == When(b, Added(<<Newline>>)) \o <<Open("table", ""), Close("table")>>
            k == Emit(h, tags)
            g == [k EXCEPT !.footer_needs_newline = follows]
<1>1. h.page.stack \in Seq(Opened)
  BY DEF Bridge, HtmlState, Page
<1>2. Writes(h.page.stack, tags, <<>>, h.page.stack)
  BY <1>1, MuteIs
<1>. HIDE DEF tags
<1>3. Puts(h.page.stack, tags, <<>>, FALSE, h.page.stack)
  BY <1>2, PutsNothing
<1>4. Beside(h, k) /\ Bridge(k) /\ Opens(k) /\ Gains(h, k, <<>>, FALSE)
  BY <1>3, EmitInside
<1>. HIDE DEF k
<1>6. /\ g \in HtmlState /\ g.segments = k.segments /\ g.pending_newline = k.pending_newline /\ g.style = k.style
      /\ g.link = k.link /\ g.stream = k.stream /\ g.utf8 = k.utf8 /\ g.chart = k.chart /\ g.page = k.page
      /\ g.span = k.span /\ g.anchor = k.anchor /\ g.stream_style = k.stream_style /\ g.stream_link = k.stream_link
  BY <1>4 DEF Beside, HtmlState
<1>. HIDE DEF g
<1>7. Bridge(g)
  BY <1>4, <1>6 DEF Bridge
<1>8. Opens(g)
  BY <1>4, <1>6 DEF Opens
<1>9. Gains(h, g, <<>>, FALSE)
  BY <1>4, <1>6 DEF Gains
<1>. QED
  BY <1>4, <1>6, <1>7, <1>8, <1>9 DEF g, k, tags, Beside, Kept, WithTable

LEMMA TagsEndTable == ASSUME TagsInv, EndTable PROVE TagsInv'
<1>. DEFINE f == FlushPending(html, FALSE)
<1>1. ansi = <<>> /\ phase = "table" /\ phase' = "text" /\ ansi' = ansi
  BY DEF EndTable
<1>2. PICK follows \in BOOLEAN : html' = WithTable(f, html.footer_needs_newline, follows)
  <2>1. PICK by \in BOOLEAN : html' = WithTable(f, html.footer_needs_newline, ~by)
    BY Zenon DEF EndTable, WithTable
  <2>2. by = TRUE \/ by = FALSE
    OBVIOUS
  <2>3. (~by) \in BOOLEAN
    BY <2>2, Zenon
  <2>. QED
    BY <2>1, <2>3
<1>3. Bridge(html) /\ Opens(html) /\ html.chart = "none" /\ html.footer_needs_newline \in BOOLEAN
  BY <1>1 DEF TagsInv, Bridge, HtmlState
<1>4. Bridge(f) /\ Opens(f) /\ Kept(html, f)
  BY <1>3, FlushPendingKeeps
<1>. HIDE DEF f
<1>5. Bridge(html') /\ Opens(html') /\ html'.chart = f.chart
  BY <1>2, <1>3, <1>4, AddTableIs
<1>6. ansi' \in Seq(AnsiByte) /\ html'.chart = "none"
  BY <1>1, <1>3, <1>4, <1>5 DEF TagsInv, Kept
<1>. QED
  BY <1>1, <1>5, <1>6 DEF TagsInv

LEMMA TagsFinish == ASSUME TagsInv, Finish PROVE TagsInv'
<1>1. phase = "text" /\ phase' = "ending" /\ html' = html /\ ansi' = When(LineOpen, Bytes(<<Newline>>, FALSE))
  BY DEF Finish
<1>2. ansi' \in Seq(AnsiByte)
  <2>1. Newline \in Strings
    BY Named
  <2>2. <<Newline>> \in Seq(Strings) /\ <<>> \in Seq(AnsiByte)
    BY <2>1
  <2>3. Bytes(<<Newline>>, FALSE) \in Seq(AnsiByte)
    BY <2>2, BytesAre
  <2>. QED
    BY <1>1, <2>2, <2>3 DEF When
<1>. QED
  BY <1>1, <1>2 DEF TagsInv

LEMMA OpenLineIs ==
    \A st \in {<<>>, LineIn(<<>>)} : st \in Seq(Opened) /\ ("chart" \in Within(st) <=> FALSE)
<1>. DEFINE none == <<>>
<1>1. none \in Seq(Opened) /\ "chart" \notin Within(none)
  BY DEF Within
<1>. HIDE DEF none
<1>2. "line" \in Strings /\ "line" # "chart" /\ "line" # "heading" /\ "line" # "block"
  BY Named
<1>3. RowIn(none, "line") \in Seq(Opened) /\ "chart" \notin Within(RowIn(none, "line"))
  BY <1>1, <1>2, RowInIs
<1>4. RowIn(none, "line") = LineIn(none)
  BY Zenon DEF RowIn, LineIn, NoText
<1>. QED
  BY <1>1, <1>3, <1>4 DEF none

LEMMA TagsWriteFooter == ASSUME TagsInv, WriteFooter PROVE TagsInv'
<1>. DEFINE f    == FlushPending(html, TRUE)
            k    == Emit(f, Text(<<Newline>>))
            mute == When(~html.body_emitted \/ html.footer_needs_newline, Added(<<Newline>>))
<1>1. /\ ansi = <<>> /\ phase = "ending" /\ phase' = "finished" /\ ansi' = ansi
      /\ html' = IF Unfinished(html) THEN k ELSE Emit(html, mute)
  BY DEF WriteFooter
<1>2. Bridge(html) /\ Opens(html) /\ html.chart = "none" /\ ansi \in Seq(AnsiByte)
  BY <1>1 DEF TagsInv
<1>3. CASE Unfinished(html)
  <2>1. PICK style : IsContentStyle(html, style)
    BY ContentStyle
  <2>2. html.stream = "none" => TextOf(html.segments) # <<>>
    BY <1>2, <1>3 DEF Unfinished, Bridge
  <2>3. html.stream # "none" => html.pending_newline
    BY <1>2, <1>3 DEF Unfinished, Bridge
  <2>4. BoxOf(html.chart) = <<>>
    BY <1>2 DEF BoxOf
  <2>5. /\ Cleared(html, f) /\ f.page.stack \in {<<>>, LineIn(<<>>)} /\ f.page.nested = html.page.nested
    <3>1. html.stream # "none" => Cleared(html, f) /\ Gains(html, f, Ending(TRUE), FALSE) /\ f.page.stack = <<>>
      BY <1>2, <2>1, <2>3, FlushPendingIs
    <3>2. html.stream = "none" =>
             /\ Cleared(html, f)
             /\ Gains(html, f, Rest(Held(html.segments), LeftOut(TextOf(html.segments), html.chart, style)) \o Ending(TRUE),
                      html.chart # "none")
             /\ f.page.stack = BoxOf(html.chart) \/ f.page.stack = LineIn(BoxOf(html.chart))
      BY <1>2, <2>1, <2>2, FlushPendingIs
    <3>. HIDE DEF f
    <3>. QED
      BY <2>4, <3>1, <3>2 DEF Gains
  <2>. HIDE DEF f
  <2>6. f.page.stack \in Seq(Opened) /\ ("chart" \in Within(f.page.stack) <=> FALSE)
    BY <2>5, OpenLineIs
  <2>7. Puts(f.page.stack, Text(<<Newline>>), <<LineBreak>>, FALSE, f.page.stack)
    <3>. DEFINE st == f.page.stack
    <3>. HIDE DEF st
    <3>1. st \in Seq(Opened) /\ ("chart" \in Within(st) <=> FALSE)
      BY <2>6 DEF st
    <3>2. Puts(st, Text(<<Newline>>), <<LineBreak>>, FALSE, st)
      BY <3>1, PutsLineEnd
    <3>. QED
      BY <3>2 DEF st
  <2>8. f \in HtmlState
    BY <2>5 DEF Cleared
  <2>9. Beside(f, k) /\ k.page.stack = f.page.stack /\ k.page.nested = f.page.nested
    <3>. DEFINE items == <<LineBreak>>
                tags  == Text(<<Newline>>)
                box   == FALSE
    <3>1. Puts(f.page.stack, tags, items, box, f.page.stack)
      BY <2>7
    <3>. HIDE DEF items, tags, box
    <3>2. Beside(f, Emit(f, tags)) /\ Emit(f, tags).page.stack = f.page.stack /\ Emit(f, tags).page.nested = f.page.nested
      BY <2>8, <3>1, EmitBeside
    <3>. QED
      BY <3>2 DEF tags
  <2>. HIDE DEF k
  <2>10. html' = k
    BY <1>1, <1>3
  <2>11. Bridge(k) /\ k.chart = "none" /\ k.stream = "none"
    <3>1. TextOf(<<>>) = <<>>
      BY TextOfAppend
    <3>. QED
      BY <1>2, <2>5, <2>9, <3>1 DEF Beside, Cleared, Bridge, Kept
  <2>. QED
    BY <1>1, <1>2, <2>5, <2>9, <2>10, <2>11 DEF TagsInv
<1>4. CASE ~Unfinished(html)
  <2>1. html.page.stack \in Seq(Opened) /\ (~html.body_emitted \/ html.footer_needs_newline) \in BOOLEAN
    BY <1>2, Zenon DEF Bridge, HtmlState, Page
  <2>2. Writes(html.page.stack, mute, <<>>, html.page.stack)
    BY <2>1, MuteIs
  <2>. HIDE DEF mute
  <2>3. Puts(html.page.stack, mute, <<>>, FALSE, html.page.stack)
    BY <2>2, PutsNothing
  <2>4. Beside(html, Emit(html, mute)) /\ Bridge(Emit(html, mute)) /\ Opens(Emit(html, mute))
    BY <1>2, <2>3, EmitInside
  <2>5. html' = Emit(html, mute)
    BY <1>1, <1>4
  <2>6. html'.chart = "none" /\ (html'.stream = "none" => html'.page.stack = <<>>)
    BY <1>2, <2>4, <2>5 DEF Beside, Kept, Opens, BoxOf
  <2>. QED
    BY <1>1, <1>2, <2>4, <2>5, <2>6 DEF TagsInv
<1>. QED
  BY <1>3, <1>4

LEMMA TagsNext == ASSUME TagsInv, [Next]_vars PROVE TagsInv'
<1>1. CASE UNCHANGED vars
  BY <1>1 DEF TagsInv, vars
<1>. QED
  BY <1>1, TagsWriteNewline, TagsWriteStyle, TagsWriteLink, TagsWriteByte, TagsWriteLine, TagsBeginChart,
     TagsEndChart, TagsBeginTable, TagsEndTable, TagsFinish, TagsWriteFooter DEF Next

(* TagsInv, the inductive invariant, holds in every document.                *)
THEOREM TagsInvariance == Spec => []TagsInv
<1>1. TagsInv /\ [Next]_vars => TagsInv'
  BY TagsNext
<1>. QED
  BY <1>1, TagsInit, PTL DEF Spec

-----------------------------------------------------------------------------
(* The names of the elements that are open.                                  *)
Names(st) == [i \in DOMAIN st |-> st[i].of]

LEMMA NamesOpen ==
    ASSUME NEW st \in Seq(Opened), NEW e, NEW x
    PROVE  Names(Append(st, Top(e, x))) = Append(Names(st), e)
<1>. DEFINE more  == Append(st, Top(e, x))
            names == Names(st)
            n     == Len(st)
<1>1. n \in Nat /\ DOMAIN more = 1 .. n + 1 /\ DOMAIN st = 1 .. n /\ more[n + 1].of = e
      /\ \A i \in 1 .. n : more[i] = st[i]
  BY DEF Top
<1>2. names \in Seq({st[i].of : i \in 1 .. n}) /\ Len(names) = n
  BY <1>1 DEF Names
<1>. HIDE DEF more, names, n
<1>3. DOMAIN Append(names, e) = 1 .. n + 1 /\ Append(names, e)[n + 1] = e
      /\ \A i \in 1 .. n : Append(names, e)[i] = names[i]
  BY <1>1, <1>2
<1>4. \A i \in 1 .. n : names[i] = st[i].of
  BY <1>1 DEF names, Names
<1>5. \A i \in 1 .. n + 1 : more[i].of = Append(names, e)[i]
  BY <1>1, <1>3, <1>4
<1>6. Append(names, e) = [i \in 1 .. n + 1 |-> Append(names, e)[i]]
  <2>. DEFINE S == {st[i].of : i \in 1 .. n} \cup {e}
  <2>1. names \in Seq(S) /\ e \in S
    BY <1>2, <1>4, <1>1
  <2>. HIDE DEF S
  <2>2. Append(names, e) \in Seq(S) /\ Len(Append(names, e)) = n + 1
    BY <1>2, <2>1
  <2>3. \A k \in Seq(S) : Len(k) = n + 1 => k = [i \in 1 .. n + 1 |-> k[i]]
    BY <1>1
  <2>. QED
    BY <2>2, <2>3
<1>7. Names(more) = Append(names, e)
  BY <1>1, <1>5, <1>6 DEF Names
<1>. QED
  BY <1>7 DEF more, names

LEMMA NamesDressed ==
    ASSUME NEW style \in Styles, NEW link \in LinkNames
    PROVE  Names(Dressed(style, link)) = When(link # NoLink, <<"a">>) \o <<"span">>
<1>. DEFINE none == <<>>
            base == Linked(none, link, TRUE)
            here == Names(base)
<1>0. none \in Seq(Opened) /\ link \in Strings /\ style \in Strings /\ "a" \in Strings
  <2>1. none \in Seq(Opened)
    OBVIOUS
  <2>2. "a" \in Strings
    BY Named
  <2>3. link \in Strings /\ style \in Strings
    BY EscapeStrings DEF LinkNames
  <2>. QED
    BY <2>1, <2>2, <2>3
<1>1. Names(none) = none
  <2>. DEFINE names == [i \in 1 .. 0 |-> none[i].of]
  <2>1. names \in Seq(Strings) /\ Len(names) = 0
    OBVIOUS
  <2>. HIDE DEF names
  <2>2. names = <<>>
    BY <2>1
  <2>3. DOMAIN none = 1 .. 0
    OBVIOUS
  <2>. QED
    BY <2>2, <2>3 DEF names, Names
<1>. HIDE DEF none
<1>2. base \in Seq(Opened) /\ here = When(link # NoLink, <<"a">>)
  <2>1. CASE link = NoLink
    <3>1. base = none
      BY <2>1 DEF Linked
    <3>2. here = none /\ base \in Seq(Opened)
      BY <1>0, <1>1, <3>1
    <3>. HIDE DEF here, base
    <3>. QED
      BY <2>1, <3>2 DEF When, none
  <2>2. CASE link # NoLink
    <3>1. base = Append(none, Top("a", link))
      BY <2>2 DEF Linked
    <3>2. here = Append(none, "a") /\ base \in Seq(Opened)
      BY <1>0, <1>1, <3>1, NamesOpen, WithinTop
    <3>3. Append(none, "a") = <<"a">>
      BY DEF none
    <3>. QED
      BY <2>2, <3>2, <3>3 DEF When
  <2>. QED
    BY <2>1, <2>2
<1>. HIDE DEF base, here
<1>3. Dressed(style, link) = Append(base, Top("span", style))
  BY DEF Dressed, Dressing, base, none
<1>4. Names(Append(base, Top("span", style))) = Append(here, "span")
  BY <1>2, NamesOpen DEF here
<1>5. here \in Seq(Strings)
  BY <1>0, <1>2 DEF When
<1>6. Append(here, "span") = here \o <<"span">>
  <2>1. "span" \in Strings
    BY Named
  <2>. QED
    BY <1>5, <2>1
<1>. QED
  BY <1>2, <1>3, <1>4, <1>6

LEMMA TagsFollow == TagsInv => TagsMatch
<1>. SUFFICES ASSUME TagsInv PROVE TagsMatch
  OBVIOUS
<1>. DEFINE st   == html.page.stack
            open == [i \in DOMAIN html.page.stack |-> html.page.stack[i].of]
            box  == <<"chart">>
            head == <<"heading">>
            span == When(html.anchor, <<"a">>) \o <<"span">>
            rest == IF phase = "finished" /\ open # <<>> THEN <<"line", "content">> ELSE <<>>
            none == <<>>
<1>1. open = Names(st)
  BY DEF Names
<1>2. Bridge(html) /\ html.page.nested /\ html \in HtmlState
  BY DEF TagsInv, Bridge
<1>3. none \in Seq(Opened) /\ NoText \in Strings
  <2>1. none \in Seq(Opened)
    OBVIOUS
  <2>. QED
    BY <2>1, Named DEF NoText
<1>4. Names(none) = none
  <2>. DEFINE names == [i \in 1 .. 0 |-> none[i].of]
  <2>1. names \in Seq(Strings) /\ Len(names) = 0
    OBVIOUS
  <2>. HIDE DEF names
  <2>2. names = <<>>
    BY <2>1
  <2>3. DOMAIN none = 1 .. 0
    OBVIOUS
  <2>. QED
    BY <2>2, <2>3 DEF names, Names
<1>5. \A e, x : Names(Append(none, Top(e, x))) = <<e>>
  <2>. TAKE e, x
  <2>. HIDE DEF none
  <2>1. Names(Append(none, Top(e, x))) = Append(none, e)
    BY <1>3, <1>4, NamesOpen
  <2>2. Append(none, e) = <<e>>
    BY DEF none
  <2>. QED
    BY <2>1, <2>2
<1>. HIDE DEF none, open
<1>6. html.stream = "heading" => open = head
  <2>1. SUFFICES ASSUME html.stream = "heading" PROVE open = head
    OBVIOUS
  <2>2. PICK x \in Strings : st = Append(none, Top("heading", x))
    BY <2>1 DEF TagsInv, Opens, none
  <2>. HIDE DEF st
  <2>. QED
    BY <1>1, <1>5, <2>2
<1>7. html.stream = "plain" => open = span
  <2>1. SUFFICES ASSUME html.stream = "plain" PROVE open = span
    OBVIOUS
  <2>2. st = Dressed(html.stream_style, html.stream_link) /\ (html.anchor <=> html.stream_link # NoLink)
    BY <1>2, <2>1 DEF TagsInv, Opens, Bridge
  <2>3. html.stream_style \in Styles /\ html.stream_link \in LinkNames /\ html.anchor \in BOOLEAN
    BY <1>2 DEF HtmlState
  <2>4. html.anchor = (html.stream_link # NoLink)
    BY <2>2, <2>3
  <2>. HIDE DEF st
  <2>5. Names(st) = When(html.stream_link # NoLink, <<"a">>) \o <<"span">>
    BY <2>2, <2>3, NamesDressed
  <2>. QED
    BY <1>1, <2>4, <2>5
<1>8. html.stream = "none" /\ html.chart # "none" => open = box /\ phase = "chart"
  <2>1. SUFFICES ASSUME html.stream = "none", html.chart # "none" PROVE open = box /\ phase = "chart"
    OBVIOUS
  <2>2. st = BoxOf(html.chart) /\ phase = "chart"
    BY <2>1 DEF TagsInv, Opens
  <2>3. BoxOf(html.chart) = Append(none, Top("chart", NoText))
    <3>. DEFINE top == Top("chart", NoText)
    <3>1. Append(none, top) = <<top>>
      <4>. HIDE DEF top
      <4>. QED
        BY DEF none
    <3>. QED
      BY <2>1, <3>1, Zenon DEF BoxOf, NoText
  <2>. HIDE DEF st
  <2>. QED
    BY <1>1, <1>5, <2>2, <2>3
<1>9. html.stream = "none" /\ html.chart = "none" => open = rest
  <2>1. SUFFICES ASSUME html.stream = "none", html.chart = "none" PROVE open = rest
    OBVIOUS
  <2>2. CASE st = none
    <3>1. open = none
      BY <1>1, <1>4, <2>2
    <3>. QED
      BY <3>1 DEF none
  <2>3. CASE st = LineIn(none) /\ phase = "finished"
    <3>1. Append(none, Top("line", NoText)) \in Seq(Opened) /\ NoText \in Strings
      BY <1>3, Named, WithinTop
    <3>2. Names(Append(none, Top("line", NoText))) = <<"line">>
      BY <1>5
    <3>3. Names(Append(Append(none, Top("line", NoText)), Top("content", NoText))) = Append(<<"line">>, "content")
      BY <3>1, <3>2, NamesOpen
    <3>4. LineIn(none) = Append(Append(none, Top("line", NoText)), Top("content", NoText))
      BY Zenon DEF LineIn, NoText
    <3>5. Append(<<"line">>, "content") = <<"line", "content">>
      <4>1. ASSUME NEW a \in Strings, NEW b \in Strings PROVE Append(<<a>>, b) = <<a, b>>
        <5>. DEFINE both == Append(<<a>>, b)
                    pair == Two(a, b)
        <5>1. both \in Seq(Strings) /\ Len(both) = 2 /\ both[1] = a /\ both[2] = b
          OBVIOUS
        <5>2. pair \in Seq(Strings) /\ Len(pair) = 2 /\ pair[1] = a /\ pair[2] = b
          BY DEF Two
        <5>. HIDE DEF both, pair
        <5>3. both = pair
          BY <5>1, <5>2, SeqEqual
        <5>. QED
          BY <5>3, Zenon DEF both, pair, Two
      <4>. QED
        BY <4>1, Named
    <3>6. open = <<"line", "content">>
      BY <1>1, <2>3, <3>3, <3>4, <3>5
    <3>7. <<"line", "content">> # <<>>
      OBVIOUS
    <3>. QED
      BY <2>3, <3>6, <3>7
  <2>4. phase # "finished" => st = none
    BY <2>1 DEF TagsInv, Opens, BoxOf, none
  <2>5. phase = "finished" => st \in {none, LineIn(none)}
    BY <2>1 DEF TagsInv, none
  <2>. QED
    BY <2>2, <2>3, <2>4, <2>5
<1>10. html.stream # "none" => ~(phase = "chart" /\ html.chart # "none")
  BY <1>2 DEF Bridge
<1>11. html.stream \in {"none", "heading", "plain"}
  BY <1>2 DEF HtmlState
<1>12. open = CASE phase = "chart" /\ html.chart # "none" -> box
                [] html.stream = "heading" -> head
                [] html.stream = "plain" -> span
                [] OTHER -> rest
  <2>. HIDE DEF box, head, span, rest
  <2>. QED
    BY <1>6, <1>7, <1>8, <1>9, <1>10, <1>11
<1>. QED
  BY <1>2, <1>12, Zenon DEF TagsMatch, open, box, head, span, rest

(* Tags are nested, and what is open between and within lines is what the   *)
(* bridge remembers (html_bridge_consume, html_flush_line), for every        *)
(* document of the lines and charts that the ANSI renderer writes.           *)
THEOREM TagsMatched == Spec => []TagsMatch
<1>. QED
  BY TagsInvariance, TagsFollow, PTL

=============================================================================
