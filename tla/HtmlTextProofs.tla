--------------------------- MODULE HtmlTextProofs ---------------------------
(***************************************************************************)
(* The HTML bridge shows every character that the ANSI renderer writes     *)
(* once, in order and dressed as written, for any options and any document *)
(* of any length.                                                          *)
(*                                                                         *)
(* TextInv cuts what was given, `given', in two: `done' is what the page   *)
(* shows, `rest' is what the bridge holds, and says where the ANSI side is *)
(* in its line, so that what it writes next goes after what is held.       *)
(***************************************************************************)
EXTENDS HtmlProofs

-----------------------------------------------------------------------------
(* Items, characters and what shows them.                                    *)

(* A character that was written is the one that is held.                     *)
Agrees(item, char, box) ==
    /\ item.c = char.c /\ item.box = box
    /\ char.c # Newline => item.style = char.style /\ item.link = char.link

AgreeAll(items, chars, box) ==
    /\ items \in Seq(Given) /\ chars \in Seq(Char) /\ Len(items) = Len(chars)
    /\ \A i \in 1 .. Len(items) : Agrees(items[i], chars[i], box)

FitsGiven(glyphs, items) ==
    /\ glyphs \in Seq(Glyph) /\ items \in Seq(Given) /\ Len(glyphs) = Len(items)
    /\ \A i \in 1 .. Len(items) : FitsItem(glyphs[i], items[i], items[i].box)

LEMMA AgreeAppend ==
    ASSUME NEW items, NEW chars, NEW box, AgreeAll(items, chars, box),
           NEW x \in Given, NEW char \in Char, Agrees(x, char, box)
    PROVE  AgreeAll(Append(items, x), Append(chars, char), box)
<1>. DEFINE n == Len(items)
            a == Append(items, x)
            b == Append(chars, char)
<1>1. /\ a \in Seq(Given) /\ Len(a) = n + 1 /\ a[n + 1] = x /\ \A i \in 1 .. n : a[i] = items[i]
  BY DEF AgreeAll
<1>2. /\ b \in Seq(Char) /\ Len(b) = n + 1 /\ b[n + 1] = char /\ \A i \in 1 .. n : b[i] = chars[i]
  BY DEF AgreeAll
<1>3. n \in Nat /\ \A i \in 1 .. n : Agrees(items[i], chars[i], box)
  BY DEF AgreeAll
<1>. HIDE DEF a, b, n
<1>4. \A i \in 1 .. n + 1 : Agrees(a[i], b[i], box)
  BY <1>1, <1>2, <1>3
<1>. QED
  BY <1>1, <1>2, <1>4 DEF AgreeAll, a, b

LEMMA AgreeFits ==
    ASSUME NEW items, NEW chars, NEW box, AgreeAll(items, chars, box),
           NEW m \in 0 .. Len(items), NEW new, Fits(new, Rest(chars, m), box)
    PROVE  FitsGiven(new, Rest(items, m))
<1>. DEFINE n == Len(items)
            a == Rest(items, m)
            b == Rest(chars, m)
<1>1. n \in Nat /\ items \in Seq(Given) /\ chars \in Seq(Char) /\ Len(chars) = n /\ m \in 0 .. n
      /\ m \in 0 .. Len(chars)
  BY DEF AgreeAll
<1>2. a \in Seq(Given) /\ Len(a) = n - m /\ \A i \in 1 .. (n - m) : a[i] = items[m + i]
  BY <1>1, RestIs
<1>3. b \in Seq(Char) /\ Len(b) = n - m /\ \A i \in 1 .. (n - m) : b[i] = chars[m + i]
  BY <1>1, RestIs
<1>4. \A i \in 1 .. n : Agrees(items[i], chars[i], box)
  BY DEF AgreeAll
<1>. HIDE DEF a, b
<1>5. new \in Seq(Glyph) /\ Len(new) = n - m /\ \A i \in 1 .. (n - m) : FitsItem(new[i], b[i], box)
  BY <1>3 DEF Fits, b
<1>6. ASSUME NEW i \in 1 .. (n - m)
      PROVE  FitsItem(new[i], a[i], a[i].box)
  <2>1. m + i \in 1 .. n
    BY <1>1
  <2>2. Agrees(a[i], b[i], box)
    BY <1>2, <1>3, <1>4, <2>1
  <2>3. FitsItem(new[i], b[i], box)
    BY <1>5
  <2>. QED
    BY <2>2, <2>3 DEF Agrees, FitsItem
<1>. HIDE DEF n
<1>. QED
  BY <1>2, <1>5, <1>6 DEF FitsGiven, a

LEMMA FitsGivenConcat ==
    ASSUME NEW x, NEW a, NEW y, NEW b, FitsGiven(x, a), FitsGiven(y, b)
    PROVE  FitsGiven(x \o y, a \o b)
<1>1. /\ x \in Seq(Glyph) /\ a \in Seq(Given) /\ Len(x) = Len(a)
      /\ y \in Seq(Glyph) /\ b \in Seq(Given) /\ Len(y) = Len(b)
      /\ \A i \in 1 .. Len(a) : FitsItem(x[i], a[i], a[i].box)
      /\ \A i \in 1 .. Len(b) : FitsItem(y[i], b[i], b[i].box)
  BY DEF FitsGiven
<1>. DEFINE s == x \o y
            t == a \o b
            m == Len(a)
            n == Len(b)
<1>2. /\ s \in Seq(Glyph) /\ Len(s) = m + n /\ \A i \in 1 .. m : s[i] = x[i]
      /\ \A i \in (m + 1) .. (m + n) : s[i] = y[i - m]
  BY <1>1
<1>3. /\ t \in Seq(Given) /\ Len(t) = m + n /\ \A i \in 1 .. m : t[i] = a[i]
      /\ \A i \in (m + 1) .. (m + n) : t[i] = b[i - m]
  BY <1>1
<1>4. m \in Nat /\ n \in Nat
  BY <1>1
<1>. HIDE DEF s, t, m, n
<1>5. ASSUME NEW i \in 1 .. (m + n)
      PROVE  FitsItem(s[i], t[i], t[i].box)
  <2>1. CASE i \in 1 .. m
    BY <1>1, <1>2, <1>3, <2>1 DEF m
  <2>2. CASE i \in (m + 1) .. (m + n)
    <3>1. i - m \in 1 .. n
      BY <1>4, <2>2
    <3>. QED
      BY <1>1, <1>2, <1>3, <2>2, <3>1 DEF n
  <2>. QED
    BY <1>4, <2>1, <2>2
<1>. QED
  BY <1>2, <1>3, <1>5 DEF FitsGiven, s, t

LEMMA FitsNothing == FitsGiven(<<>>, Shows(<<>>))
<1>. DEFINE none == <<>>
<1>1. none \in Seq(Glyph) /\ none \in Seq(Given) /\ Len(none) = 0
  OBVIOUS
<1>2. Shows(none) = none
  BY ShowsAre
<1>. HIDE DEF none
<1>3. FitsGiven(none, Shows(none))
  BY <1>1, <1>2 DEF FitsGiven
<1>. QED
  BY <1>3 DEF none

-----------------------------------------------------------------------------
(* The characters of a line. *)
AllOf(line) == line.lead \o line.body
Upto(bytes, r) == SubSeq(bytes, 1, r)
Count(bytes, r) == Len(Chars(Upto(bytes, r)))
Mark(line) == Len(Chars(line.lead))

LEMMA CharsAre ==
    /\ Chars(<<>>) = <<>>
    /\ \A s \in Seq(Strings) : Chars(s) \in Seq(Strings)
    /\ \A s \in Seq(Strings), c \in Strings : Chars(Append(s, c)) = Chars(s) \o When(c \notin Escapes, <<c>>)
<1>. DEFINE F == [c \in Strings |-> When(c \notin Escapes, <<c>>)]
<1>1. F \in [Strings -> Seq(Strings)]
  <2>1. \A c \in Strings : <<c>> \in Seq(Strings) /\ <<>> \in Seq(Strings)
    OBVIOUS
  <2>. QED
    BY <2>1 DEF When
<1>2. \A s \in Seq(Strings) : Chars(s) = FlattenSeq(Mapped(F, s))
  <2>. TAKE s \in Seq(Strings)
  <2>1. \A i \in DOMAIN s : s[i] \in Strings
    OBVIOUS
  <2>. QED
    BY <2>1, Zenon DEF Chars, Mapped
<1>3. \A c \in Strings : F[c] = When(c \notin Escapes, <<c>>)
  OBVIOUS
<1>4. <<>> \in Seq(Strings)
  OBVIOUS
<1>. HIDE DEF F
<1>5. FlatMaps(Strings, Strings, F)
  BY <1>1, FlatMapAppend
<1>6. Chars(<<>>) = <<>>
  BY <1>2, <1>4, <1>5 DEF FlatMaps
<1>7. ASSUME NEW s \in Seq(Strings), NEW c \in Strings
      PROVE  Chars(s) \in Seq(Strings) /\ Chars(Append(s, c)) = Chars(s) \o When(c \notin Escapes, <<c>>)
  <2>1. Append(s, c) \in Seq(Strings)
    OBVIOUS
  <2>. QED
    BY <1>2, <1>3, <1>5, <2>1 DEF FlatMaps
<1>8. \A s \in Seq(Strings) : Chars(s) \in Seq(Strings)
  BY <1>2, <1>5 DEF FlatMaps
<1>. QED
  BY <1>6, <1>7, <1>8

LEMMA UptoIs ==
    ASSUME NEW bytes \in Seq(Strings)
    PROVE  /\ \A r \in 0 .. Len(bytes) : Upto(bytes, r) \in Seq(Strings) /\ Len(Upto(bytes, r)) = r
           /\ Upto(bytes, 0) = <<>> /\ Upto(bytes, Len(bytes)) = bytes
           /\ \A r \in Nat : r + 1 \in 1 .. Len(bytes) =>
                /\ bytes[r + 1] \in Strings
                /\ Upto(bytes, r + 1) = Append(Upto(bytes, r), bytes[r + 1])
<1>1. \A r \in 0 .. Len(bytes) : Upto(bytes, r) \in Seq(Strings) /\ Len(Upto(bytes, r)) = r
  BY DEF Upto
<1>2. Upto(bytes, 0) = <<>>
  <2>1. Upto(bytes, 0) \in Seq(Strings) /\ Len(Upto(bytes, 0)) = 0
    BY <1>1
  <2>. QED
    BY <2>1, EmptySeq
<1>3. Upto(bytes, Len(bytes)) = bytes
  <2>1. Len(bytes) \in 0 .. Len(bytes) /\ Len(bytes) \in Nat
    OBVIOUS
  <2>2. \A i \in 1 .. Len(bytes) : Upto(bytes, Len(bytes))[i] = bytes[i]
    BY DEF Upto
  <2>. QED
    BY <1>1, <2>1, <2>2, SeqEqual
<1>4. ASSUME NEW r \in Nat, r + 1 \in 1 .. Len(bytes)
      PROVE  bytes[r + 1] \in Strings /\ Upto(bytes, r + 1) = Append(Upto(bytes, r), bytes[r + 1])
  <2>. DEFINE a == Upto(bytes, r + 1)
              b == Append(Upto(bytes, r), bytes[r + 1])
  <2>0. bytes[r + 1] \in Strings /\ r \in 0 .. Len(bytes) /\ r + 1 \in 0 .. Len(bytes)
    BY <1>4
  <2>1. a \in Seq(Strings) /\ Len(a) = r + 1 /\ \A i \in 1 .. (r + 1) : a[i] = bytes[i]
    BY <1>4 DEF Upto
  <2>2. Upto(bytes, r) \in Seq(Strings) /\ Len(Upto(bytes, r)) = r /\ \A i \in 1 .. r : Upto(bytes, r)[i] = bytes[i]
    BY <1>4 DEF Upto
  <2>3. b \in Seq(Strings) /\ Len(b) = r + 1 /\ b[r + 1] = bytes[r + 1] /\ \A i \in 1 .. r : b[i] = Upto(bytes, r)[i]
    BY <2>0, <2>2
  <2>. HIDE DEF a, b
  <2>4. \A i \in 1 .. Len(a) : a[i] = b[i]
    <3>1. \A i \in 1 .. (r + 1) : i \in 1 .. r \/ i = r + 1
      OBVIOUS
    <3>. QED
      BY <2>1, <2>2, <2>3, <3>1
  <2>5. a = b
    BY <2>1, <2>3, <2>4, SeqEqual
  <2>. QED
    BY <2>0, <2>5 DEF a, b
<1>. QED
  BY <1>1, <1>2, <1>3, <1>4

LEMMA CountStep ==
    ASSUME NEW bytes \in Seq(Strings)
    PROVE  /\ Count(bytes, 0) = 0 /\ Chars(Upto(bytes, 0)) = <<>>
           /\ \A r \in 0 .. Len(bytes) : Chars(Upto(bytes, r)) \in Seq(Strings) /\ Count(bytes, r) \in Nat
           /\ \A r \in Nat : r + 1 \in 1 .. Len(bytes) =>
                /\ bytes[r + 1] \in Escapes => /\ Chars(Upto(bytes, r + 1)) = Chars(Upto(bytes, r))
                                               /\ Count(bytes, r + 1) = Count(bytes, r)
                /\ bytes[r + 1] \notin Escapes =>
                     /\ Chars(Upto(bytes, r + 1)) = Append(Chars(Upto(bytes, r)), bytes[r + 1])
                     /\ Count(bytes, r + 1) = Count(bytes, r) + 1
<1>1. Chars(Upto(bytes, 0)) = <<>>
  BY UptoIs, CharsAre
<1>2. \A r \in 0 .. Len(bytes) : Chars(Upto(bytes, r)) \in Seq(Strings) /\ Count(bytes, r) \in Nat
  <2>. TAKE r \in 0 .. Len(bytes)
  <2>1. Upto(bytes, r) \in Seq(Strings)
    BY UptoIs
  <2>2. Chars(Upto(bytes, r)) \in Seq(Strings)
    BY <2>1, CharsAre
  <2>. QED
    BY <2>2 DEF Count
<1>3. ASSUME NEW r \in Nat, r + 1 \in 1 .. Len(bytes)
      PROVE  /\ bytes[r + 1] \in Escapes => /\ Chars(Upto(bytes, r + 1)) = Chars(Upto(bytes, r))
                                            /\ Count(bytes, r + 1) = Count(bytes, r)
             /\ bytes[r + 1] \notin Escapes =>
                  /\ Chars(Upto(bytes, r + 1)) = Append(Chars(Upto(bytes, r)), bytes[r + 1])
                  /\ Count(bytes, r + 1) = Count(bytes, r) + 1
  <2>. DEFINE s == Chars(Upto(bytes, r))
              t == Chars(Upto(bytes, r + 1))
              c == bytes[r + 1]
  <2>0. r \in 0 .. Len(bytes)
    BY <1>3
  <2>1. Upto(bytes, r) \in Seq(Strings) /\ c \in Strings /\ Upto(bytes, r + 1) = Append(Upto(bytes, r), c)
    BY <1>3, <2>0, UptoIs
  <2>2. t = s \o When(c \notin Escapes, <<c>>) /\ s \in Seq(Strings)
    BY <2>1, CharsAre
  <2>. HIDE DEF s, t, c
  <2>3. c \in Escapes => t = s
    BY <2>2 DEF When
  <2>4. c \notin Escapes => t = Append(s, c) /\ Len(t) = Len(s) + 1
    BY <2>1, <2>2 DEF When
  <2>. QED
    BY <2>3, <2>4 DEF Count, s, t, c
<1>4. Count(bytes, 0) = 0
  BY <1>1 DEF Count
<1>. QED
  BY <1>1, <1>2, <1>3, <1>4

(* The characters of more of a line go on where those of less of it end.     *)
LEMMA CountGrows ==
    ASSUME NEW bytes \in Seq(Strings), NEW i \in 0 .. Len(bytes), NEW j \in 0 .. Len(bytes), i <= j
    PROVE  /\ Count(bytes, i) <= Count(bytes, j)
           /\ \A k \in 1 .. Count(bytes, i) : Chars(Upto(bytes, i))[k] = Chars(Upto(bytes, j))[k]
<1>. DEFINE Goes(n) == /\ Count(bytes, i) <= Count(bytes, i + n)
                       /\ \A k \in 1 .. Count(bytes, i) : Chars(Upto(bytes, i))[k] = Chars(Upto(bytes, i + n))[k]
            P == {n \in Nat : i + n <= Len(bytes) => Goes(n)}
<1>0. Len(bytes) \in Nat /\ i \in Nat
  OBVIOUS
<1>1. 0 \in P
  <2>1. i + 0 = i /\ Count(bytes, i) \in Nat
    BY CountStep
  <2>. QED
    BY <2>1
<1>2. ASSUME NEW n \in P
      PROVE  n + 1 \in P
  <2>1. SUFFICES ASSUME i + (n + 1) <= Len(bytes) PROVE Goes(n + 1)
    BY <1>0
  <2>. DEFINE r == i + n
              s == Chars(Upto(bytes, r))
              t == Chars(Upto(bytes, r + 1))
  <2>2. n \in Nat /\ r \in Nat /\ r + 1 \in 1 .. Len(bytes) /\ r \in 0 .. Len(bytes) /\ i + (n + 1) = r + 1
    BY <1>0, <2>1
  <2>3. Goes(n)
    BY <1>0, <2>1, <2>2
  <2>4. Count(bytes, i) \in Nat /\ Count(bytes, r) \in Nat /\ s \in Seq(Strings)
    BY <2>2, CountStep
  <2>5. bytes[r + 1] \in Strings
    BY <2>2, UptoIs
  <2>6. \/ t = s /\ Count(bytes, r + 1) = Count(bytes, r)
        \/ t = Append(s, bytes[r + 1]) /\ Count(bytes, r + 1) = Count(bytes, r) + 1
    BY <2>2, CountStep
  <2>7. Count(bytes, r) = Len(s)
    BY DEF Count
  <2>8. Count(bytes, i) <= Count(bytes, r)
        /\ \A k \in 1 .. Count(bytes, i) : Chars(Upto(bytes, i))[k] = s[k]
    BY <2>3
  <2>. HIDE DEF s, t, r
  <2>9. \A k \in 1 .. Count(bytes, i) : t[k] = s[k]
    <3>. DEFINE m == Count(bytes, i)
    <3>1. \A u \in Seq(Strings), c \in Strings : \A k \in 1 .. Len(u) : Append(u, c)[k] = u[k]
      OBVIOUS
    <3>2. \A k \in 1 .. m : k \in 1 .. Len(s)
      BY <2>4, <2>7, <2>8
    <3>3. \A k \in 1 .. m : Append(s, bytes[r + 1])[k] = s[k]
      BY <2>4, <2>5, <3>1, <3>2
    <3>. QED
      BY <2>6, <3>3, Zenon
  <2>10. Count(bytes, i) <= Count(bytes, r + 1)
    BY <2>4, <2>6, <2>8
  <2>. QED
    BY <2>2, <2>8, <2>9, <2>10 DEF t
<1>3. P = Nat
  <2>. HIDE DEF P
  <2>1. P \in SUBSET Nat
    BY DEF P
  <2>. QED
    BY <1>1, <1>2, <2>1, NatInduct
<1>4. j - i \in Nat /\ i + (j - i) = j /\ i + (j - i) <= Len(bytes)
  BY <1>0
<1>5. Goes(j - i)
  <2>. HIDE DEF Goes
  <2>. QED
    BY <1>3, <1>4
<1>. QED
  BY <1>4, <1>5

-----------------------------------------------------------------------------
(* The styles that a line's first bytes may leave selected. *)
Selecting(bytes, r) == {i \in DOMAIN bytes : bytes[i] \in Styles /\ i <= r}
LastIn(bytes, S)    == IF S = {} THEN Styles ELSE {bytes[Max(S)]}
Selected(bytes, r)  == LastIn(bytes, Selecting(bytes, r))

LEMMA StylesAfterIs ==
    ASSUME NEW bytes, NEW n
    PROVE  StylesAfter(bytes, n)
             = LastIn(bytes, {i \in DOMAIN bytes : bytes[i] \in Styles /\ Count(bytes, i) <= n})
  BY Zenon DEF StylesAfter, LastIn, Count, Upto

LEMMA LastInIs ==
    ASSUME NEW bytes \in Seq(Strings), NEW S \in SUBSET {i \in DOMAIN bytes : bytes[i] \in Styles}
    PROVE  LastIn(bytes, S) \in SUBSET Styles /\ LastIn(bytes, S) # {}
<1>1. CASE S = {}
  BY <1>1, StyleAssumption DEF LastIn
<1>2. CASE S # {}
  <2>1. S \in SUBSET (0 .. Len(bytes)) /\ Len(bytes) \in Nat
    OBVIOUS
  <2>2. Max(S) \in S
    BY <1>2, <2>1, MaxOf
  <2>3. bytes[Max(S)] \in Styles
    BY <2>2
  <2>. QED
    BY <1>2, <2>3 DEF LastIn
<1>. QED
  BY <1>1, <1>2

LEMMA SelectedIs ==
    ASSUME NEW bytes \in Seq(Strings)
    PROVE  /\ Selected(bytes, 0) = Styles
           /\ \A r \in Nat : r + 1 \in 1 .. Len(bytes) =>
                /\ bytes[r + 1] \in Styles => Selected(bytes, r + 1) = {bytes[r + 1]}
                /\ bytes[r + 1] \notin Styles => Selected(bytes, r + 1) = Selected(bytes, r)
                /\ bytes[r + 1] \notin Escapes => Selected(bytes, r) = StylesAfter(bytes, Count(bytes, r))
<1>0. DOMAIN bytes = 1 .. Len(bytes) /\ Len(bytes) \in Nat
  OBVIOUS
<1>1. Selected(bytes, 0) = Styles
  <2>1. Selecting(bytes, 0) = {}
    BY <1>0 DEF Selecting
  <2>. QED
    BY <2>1 DEF Selected, LastIn
<1>2. ASSUME NEW r \in Nat, r + 1 \in 1 .. Len(bytes), bytes[r + 1] \in Styles
      PROVE  Selected(bytes, r + 1) = {bytes[r + 1]}
  <2>. DEFINE S == Selecting(bytes, r + 1)
  <2>1. r + 1 \in S /\ S \in SUBSET Int /\ \A m \in S : m <= r + 1
    BY <1>0, <1>2 DEF Selecting
  <2>. HIDE DEF S
  <2>2. Max(S) = r + 1
    BY <2>1, MaxIs
  <2>. QED
    BY <2>1, <2>2 DEF Selected, LastIn, S
<1>3. ASSUME NEW r \in Nat, r + 1 \in 1 .. Len(bytes), bytes[r + 1] \notin Styles
      PROVE  Selected(bytes, r + 1) = Selected(bytes, r)
  <2>1. Selecting(bytes, r + 1) = Selecting(bytes, r)
    BY <1>0, <1>3 DEF Selecting
  <2>. QED
    BY <2>1 DEF Selected
<1>4. ASSUME NEW r \in Nat, r + 1 \in 1 .. Len(bytes), bytes[r + 1] \notin Escapes
      PROVE  Selected(bytes, r) = StylesAfter(bytes, Count(bytes, r))
  <2>. DEFINE S == {i \in DOMAIN bytes : bytes[i] \in Styles /\ Count(bytes, i) <= Count(bytes, r)}
  <2>0. r \in 0 .. Len(bytes) /\ r + 1 \in 0 .. Len(bytes)
    BY <1>0, <1>4
  <2>1. Count(bytes, r + 1) = Count(bytes, r) + 1 /\ Count(bytes, r) \in Nat
    BY <1>4, <2>0, CountStep
  <2>2. ASSUME NEW i \in 1 .. Len(bytes), i <= r
        PROVE  Count(bytes, i) <= Count(bytes, r)
    BY <2>0, <2>2, CountGrows
  <2>3. ASSUME NEW i \in 1 .. Len(bytes), r + 1 <= i
        PROVE  Count(bytes, i) \in Nat /\ Count(bytes, r + 1) <= Count(bytes, i)
    <3>1. i \in 0 .. Len(bytes)
      OBVIOUS
    <3>. QED
      BY <2>0, <2>3, <3>1, CountGrows, CountStep
  <2>4. \A i \in 1 .. Len(bytes) : Count(bytes, i) <= Count(bytes, r) <=> i <= r
    <3>. TAKE i \in 1 .. Len(bytes)
    <3>1. i <= r \/ r + 1 <= i
      OBVIOUS
    <3>. QED
      BY <2>1, <2>2, <2>3, <3>1
  <2>5. S = Selecting(bytes, r)
    BY <1>0, <2>4 DEF Selecting
  <2>. HIDE DEF S
  <2>6. StylesAfter(bytes, Count(bytes, r)) = LastIn(bytes, S)
    BY StylesAfterIs DEF S
  <2>. QED
    BY <2>5, <2>6 DEF Selected
<1>. QED
  BY <1>1, <1>2, <1>3, <1>4

-----------------------------------------------------------------------------
(* The bytes of a line. *)
Lined(line, chart) == line \in LineOf /\ IsLine(line, chart)

LEMMA LineIs ==
    ASSUME NEW line, NEW chart, Lined(line, chart)
    PROVE  LET bytes == AllOf(line)
               n     == Len(line.lead)
           IN  /\ bytes \in Seq(Strings) /\ n \in 0 .. Len(bytes) /\ Mark(line) = Count(bytes, n)
               /\ \A i \in 1 .. Len(bytes) : bytes[i] # Newline /\ (bytes[i] = "e1" => i < Len(bytes) /\ bytes[i + 1] = "e2")
               /\ \A style \in StylesAfter(bytes, Prefix(Chars(bytes), chart)) :
                    Mark(line) = LeftOut(Chars(bytes), chart, style)
<1>. DEFINE bytes == AllOf(line)
            n     == Len(line.lead)
            lead  == line.lead
            body  == line.body
<1>1. lead \in Seq(Strings) /\ body \in Seq(Strings)
  BY LineBytesAre DEF Lined
<1>. HIDE DEF lead, body
<1>a. bytes = lead \o body /\ n = Len(lead)
  BY DEF AllOf, lead, body
<1>. HIDE DEF bytes, n
<1>2. bytes \in Seq(Strings) /\ n \in 0 .. Len(bytes)
  BY <1>1, <1>a
<1>3. Upto(bytes, n) = line.lead
  <2>1. Len(Upto(bytes, n)) = n /\ Upto(bytes, n) \in Seq(Strings)
    BY <1>2, UptoIs
  <2>2. \A i \in 1 .. n : Upto(bytes, n)[i] = lead[i]
    BY <1>1, <1>a DEF Upto
  <2>3. Upto(bytes, n) = lead
    BY <1>1, <1>a, <2>1, <2>2, SeqEqual
  <2>. QED
    BY <2>3 DEF lead
<1>4. Mark(line) = Count(bytes, n)
  BY <1>3, Zenon DEF Mark, Count
<1>5. DOMAIN bytes = 1 .. Len(bytes)
  BY <1>2
<1>6. /\ \A i \in DOMAIN bytes : bytes[i] # Newline /\ (bytes[i] = "e1" => i < Len(bytes) /\ bytes[i + 1] = "e2")
      /\ \A style \in StylesAfter(bytes, Prefix(Chars(bytes), chart)) :
           Mark(line) = LeftOut(Chars(bytes), chart, style)
  <2>1. IsLine(line, chart)
    BY DEF Lined
  <2>. QED
    BY <2>1, Zenon DEF IsLine, AllOf, Mark, bytes
<1>. QED
  BY <1>2, <1>4, <1>5, <1>6 DEF bytes, n

LEMMA BytesOfLine ==
    ASSUME NEW line, NEW chart, Lined(line, chart)
    PROVE  /\ LineBytes(line) \in Seq(AnsiByte) /\ Len(LineBytes(line)) = Len(AllOf(line))
           /\ \A i \in 1 .. Len(AllOf(line)) :
                LineBytes(line)[i] = [c |-> AllOf(line)[i], lead |-> i <= Len(line.lead)]
<1>. DEFINE lead == line.lead
            body == line.body
            a    == Bytes(lead, TRUE)
            b    == Bytes(body, FALSE)
            m    == Len(lead)
            n    == Len(body)
<1>1. lead \in Seq(Strings) /\ body \in Seq(Strings) /\ m \in Nat /\ n \in Nat
  BY LineBytesAre DEF Lined
<1>. HIDE DEF lead, body
<1>2. a \in Seq(AnsiByte) /\ Len(a) = m /\ \A i \in 1 .. m : a[i] = [c |-> lead[i], lead |-> TRUE]
  BY <1>1, BytesAre
<1>3. b \in Seq(AnsiByte) /\ Len(b) = n /\ \A i \in 1 .. n : b[i] = [c |-> body[i], lead |-> FALSE]
  BY <1>1, BytesAre
<1>4. /\ Len(lead \o body) = m + n /\ \A i \in 1 .. m : (lead \o body)[i] = lead[i]
      /\ \A i \in (m + 1) .. (m + n) : (lead \o body)[i] = body[i - m]
  BY <1>1
<1>. HIDE DEF a, b
<1>5. /\ a \o b \in Seq(AnsiByte) /\ Len(a \o b) = m + n /\ \A i \in 1 .. m : (a \o b)[i] = a[i]
      /\ \A i \in (m + 1) .. (m + n) : (a \o b)[i] = b[i - m]
  BY <1>1, <1>2, <1>3
<1>6. LineBytes(line) = a \o b /\ AllOf(line) = lead \o body
  BY Zenon DEF LineBytes, AllOf, a, b, lead, body
<1>7. ASSUME NEW i \in 1 .. (m + n)
      PROVE  (a \o b)[i] = [c |-> (lead \o body)[i], lead |-> i <= m]
  <2>1. CASE i \in 1 .. m
    <3>1. (i <= m) = TRUE
      BY <2>1
    <3>. QED
      BY <1>2, <1>4, <1>5, <2>1, <3>1
  <2>2. CASE i \in (m + 1) .. (m + n)
    <3>1. i - m \in 1 .. n /\ (i <= m) = FALSE
      BY <1>1, <2>2
    <3>. QED
      BY <1>3, <1>4, <1>5, <2>2, <3>1
  <2>3. i \in 1 .. m \/ i \in (m + 1) .. (m + n)
    BY <1>1
  <2>. HIDE DEF m, n
  <2>. QED
    BY <2>1, <2>2, <2>3
<1>. HIDE DEF m, n
<1>. QED
  BY <1>4, <1>5, <1>6, <1>7 DEF m, lead

Empty == [lead |-> <<>>, body |-> <<>>]

LEMMA EmptyIs ==
    ASSUME NEW chart
    PROVE  Lined(Empty, chart) /\ AllOf(Empty) = <<>> /\ LineBytes(Empty) = <<>>
<1>. DEFINE none == <<>>
<1>1. none \in Seq(STRING) /\ none \in Seq(Strings) /\ Len(none) = 0 /\ DOMAIN none = {} /\ none \o none = none
  OBVIOUS
<1>. HIDE DEF none
<1>2. Empty \in LineOf /\ Empty.lead = none /\ Empty.body = none
  BY <1>1 DEF Empty, LineOf, none
<1>3. AllOf(Empty) = none
  BY <1>1, <1>2 DEF AllOf
<1>4. Chars(none) = none
  BY CharsAre DEF none
<1>5. \A style : LeftOut(none, chart, style) = 0
  <2>. TAKE style
  <2>. DEFINE prefix == Prefix(none, chart)
              inner  == SubSeq(none, prefix + 1, Len(none))
  <2>1. prefix \in 0 .. Len(none)
    BY <1>1, PrefixIs
  <2>2. prefix = 0
    BY <1>1, <2>1
  <2>3. ~(prefix > 0)
    BY <2>2
  <2>. HIDE DEF prefix, inner
  <2>4. LeftOut(none, chart, style)
          = IF IsHeading(inner) /\ prefix > 0 /\ (Quoted(none, prefix) \/ style = CodeStyle) THEN prefix
            ELSE IF none = <<>> \/ chart = "none" \/ (IsHeading(inner) /\ prefix = 0) THEN 0
            ELSE IF chart = "bar" THEN SkipBlanks(none, prefix) ELSE prefix
    BY Zenon DEF LeftOut, prefix, inner
  <2>. QED
    BY <2>3, <2>4 DEF none
<1>6. Lined(Empty, chart)
  <2>1. Chars(none) = none /\ Len(Chars(Empty.lead)) = 0 /\ Empty.lead \o Empty.body = none
    BY <1>1, <1>2, <1>4
  <2>2. \A style \in StylesAfter(none, Prefix(none, chart)) : Len(Chars(Empty.lead)) = LeftOut(none, chart, style)
    BY <1>5, <2>1
  <2>3. Empty \in [lead : Seq(STRING), body : Seq(STRING)]
    BY <1>2 DEF LineOf
  <2>4. \A i \in DOMAIN none : none[i] # Newline /\ (none[i] = "e1" => i < Len(none) /\ none[i + 1] = "e2")
    BY <1>1
  <2>. HIDE DEF Empty
  <2>. QED
    BY <1>2, <2>1, <2>2, <2>3, <2>4, Zenon DEF Lined, IsLine
<1>7. LineBytes(Empty) = none
  <2>1. LineBytes(Empty) \in Seq(AnsiByte) /\ Len(LineBytes(Empty)) = Len(none)
    BY <1>3, <1>6, BytesOfLine
  <2>. QED
    BY <1>1, <2>1, EmptySeq DEF none
<1>. QED
  BY <1>3, <1>6, <1>7 DEF none

-----------------------------------------------------------------------------
(* What the ANSI renderer has still to write of a block: the rest of a line, *)
(* and then lines, each after a newline.                                     *)
Break == Bytes(<<Newline>>, FALSE)
Follow(line, y) == Break \o (LineBytes(line) \o y)

Closed(P, chart) ==
    /\ <<>> \in P
    /\ \A line \in LineOf, y \in P : Lined(line, chart) => Follow(line, y) \in P
Fed(chart) == {x \in Seq(AnsiByte) : \A P \in SUBSET Seq(AnsiByte) : Closed(P, chart) => x \in P}

Reading(a, chart, line, r) ==
    /\ Lined(line, chart) /\ r \in 0 .. Len(AllOf(line))
    /\ \E x \in Fed(chart) : a = Rest(LineBytes(line), r) \o x
Started(a, chart) == \E line : Reading(a, chart, line, 0)

LEMMA Joined ==
    ASSUME NEW S, NEW s \in Seq(S), NEW t \in Seq(S)
    PROVE  /\ s \o t \in Seq(S) /\ Len(s \o t) = Len(s) + Len(t) /\ Len(s) \in Nat /\ Len(t) \in Nat
           /\ \A i \in 1 .. Len(s) : (s \o t)[i] = s[i]
           /\ \A i \in 1 .. Len(t) : (s \o t)[Len(s) + i] = t[i]
  OBVIOUS

LEMMA Split ==
    ASSUME NEW S, NEW s \in Seq(S), s # <<>>
    PROVE  /\ Head(s) = s[1] /\ Head(s) \in S /\ Tail(s) \in Seq(S) /\ Len(s) \in Nat /\ Len(s) >= 1
           /\ Len(Tail(s)) = Len(s) - 1 /\ \A i \in 1 .. (Len(s) - 1) : Tail(s)[i] = s[i + 1]
  OBVIOUS

LEMMA BreakIs ==
    /\ Break \in Seq(AnsiByte)
    /\ \A z \in Seq(AnsiByte) :
         /\ Break \o z \in Seq(AnsiByte) /\ Break \o z # <<>> /\ Tail(Break \o z) = z
         /\ Head(Break \o z).c = Newline /\ Head(Break \o z).lead = FALSE
<1>. DEFINE nl == [c |-> Newline, lead |-> FALSE]
<1>1. Newline \in Strings /\ <<Newline>> \in Seq(Strings) /\ Len(<<Newline>>) = 1 /\ <<Newline>>[1] = Newline
  <2>1. Newline \in Strings
    BY Named
  <2>. QED
    BY <2>1
<1>2. Break \in Seq(AnsiByte) /\ Len(Break) = 1 /\ Break[1] = nl
  <2>. DEFINE one == <<Newline>>
  <2>1. one \in Seq(Strings) /\ Len(one) = 1 /\ one[1] = Newline
    BY <1>1
  <2>. DEFINE no == FALSE
  <2>2. no \in BOOLEAN /\ 1 \in 1 .. 1
    OBVIOUS
  <2>. HIDE DEF one, no
  <2>3. Bytes(one, no) \in Seq(AnsiByte) /\ Len(Bytes(one, no)) = 1
        /\ Bytes(one, no)[1] = [c |-> one[1], lead |-> no]
    BY <2>1, <2>2, BytesAre
  <2>4. Break = Bytes(one, no)
    BY Zenon DEF Break, one, no
  <2>. QED
    BY <2>1, <2>3, <2>4 DEF no
<1>. HIDE DEF nl
<1>3. ASSUME NEW z \in Seq(AnsiByte)
      PROVE  Break \o z \in Seq(AnsiByte) /\ Break \o z # <<>> /\ Tail(Break \o z) = z /\ Head(Break \o z) = nl
  <2>. DEFINE a == Break \o z
  <2>1. /\ a \in Seq(AnsiByte) /\ Len(a) = Len(z) + 1 /\ a[1] = nl
        /\ \A i \in 1 .. Len(z) : a[i + 1] = z[i]
    <3>. DEFINE b == Break
    <3>1. b \in Seq(AnsiByte) /\ Len(b) = 1 /\ b[1] = nl
      BY <1>2
    <3>. HIDE DEF b
    <3>2. /\ b \o z \in Seq(AnsiByte) /\ Len(b \o z) = Len(b) + Len(z) /\ Len(z) \in Nat
          /\ \A i \in 1 .. Len(b) : (b \o z)[i] = b[i]
          /\ \A i \in 1 .. Len(z) : (b \o z)[Len(b) + i] = z[i]
      BY <3>1, Joined
    <3>3. a = b \o z
      BY DEF b
    <3>. HIDE DEF a
    <3>4. \A i \in 1 .. Len(z) : Len(b) + i = i + 1
      BY <3>1, <3>2
    <3>5. 1 \in 1 .. Len(b) /\ Len(b) + Len(z) = Len(z) + 1
      BY <3>1, <3>2
    <3>6. a[1] = nl
      BY <3>1, <3>2, <3>3, <3>5
    <3>7. \A i \in 1 .. Len(z) : a[i + 1] = z[i]
      BY <3>2, <3>3, <3>4
    <3>. QED
      BY <3>2, <3>3, <3>5, <3>6, <3>7
  <2>2. Len(z) \in Nat
    OBVIOUS
  <2>. HIDE DEF a
  <2>3. a # <<>> /\ Head(a) = nl
    BY <2>1, <2>2
  <2>4. Tail(a) \in Seq(AnsiByte) /\ Len(Tail(a)) = Len(z) /\ \A i \in 1 .. Len(z) : Tail(a)[i] = a[i + 1]
    BY <2>1, <2>2, <2>3
  <2>5. Tail(a) = z
    BY <2>1, <2>4, SeqEqual
  <2>. QED
    BY <2>1, <2>3, <2>5 DEF a
<1>4. nl.c = Newline /\ nl.lead = FALSE
  BY DEF nl
<1>. QED
  BY <1>2, <1>3, <1>4

LEMMA FedIs ==
    ASSUME NEW chart
    PROVE  /\ <<>> \in Fed(chart) /\ Fed(chart) \in SUBSET Seq(AnsiByte)
           /\ \A line \in LineOf, y \in Fed(chart) : Lined(line, chart) => Follow(line, y) \in Fed(chart)
           /\ \A x \in Fed(chart) :
                x = <<>> \/ \E line \in LineOf, y \in Fed(chart) : Lined(line, chart) /\ x = Follow(line, y)
<1>1. ASSUME NEW line \in LineOf, NEW y \in Seq(AnsiByte), Lined(line, chart)
      PROVE  Follow(line, y) \in Seq(AnsiByte)
  <2>1. LineBytes(line) \in Seq(AnsiByte)
    BY LineBytesAre
  <2>2. LineBytes(line) \o y \in Seq(AnsiByte)
    BY <2>1, AnsiConcat
  <2>. QED
    BY <2>2, BreakIs DEF Follow
<1>2. <<>> \in Fed(chart)
  <2>1. <<>> \in Seq(AnsiByte)
    OBVIOUS
  <2>. QED
    BY <2>1, Zenon DEF Fed, Closed
<1>3. ASSUME NEW line \in LineOf, NEW y \in Fed(chart), Lined(line, chart)
      PROVE  Follow(line, y) \in Fed(chart)
  <2>1. y \in Seq(AnsiByte)
    BY DEF Fed
  <2>2. Follow(line, y) \in Seq(AnsiByte)
    BY <1>1, <1>3, <2>1
  <2>3. ASSUME NEW P \in SUBSET Seq(AnsiByte), Closed(P, chart)
        PROVE  Follow(line, y) \in P
    <3>1. y \in P
      BY <2>3 DEF Fed
    <3>. QED
      BY <1>3, <2>3, <3>1, Zenon DEF Closed
  <2>. QED
    BY <2>2, <2>3, Zenon DEF Fed
<1>4. ASSUME NEW x \in Fed(chart)
      PROVE  x = <<>> \/ \E line \in LineOf, y \in Fed(chart) : Lined(line, chart) /\ x = Follow(line, y)
  <2>. DEFINE Has(z) == z = <<>> \/ \E line \in LineOf, y \in Fed(chart) : Lined(line, chart) /\ z = Follow(line, y)
              P == {z \in Fed(chart) : Has(z)}
  <2>1. P \in SUBSET Seq(AnsiByte)
    BY DEF Fed
  <2>2. <<>> \in P
    BY <1>2
  <2>3. ASSUME NEW line \in LineOf, NEW y \in P, Lined(line, chart)
        PROVE  Follow(line, y) \in P
    <3>1. y \in Fed(chart)
      <4>. HIDE DEF Has
      <4>. QED
        OBVIOUS
    <3>2. Follow(line, y) \in Fed(chart)
      BY <1>3, <2>3, <3>1
    <3>3. Has(Follow(line, y))
      BY <2>3, <3>1
    <3>. HIDE DEF Has
    <3>. QED
      BY <3>2, <3>3
  <2>. HIDE DEF Has
  <2>4. Closed(P, chart)
    <3>. HIDE DEF P
    <3>. QED
      BY <2>2, <2>3, Zenon DEF Closed
  <2>5. x \in P
    <3>. HIDE DEF P
    <3>. QED
      BY <2>1, <2>4, Zenon DEF Fed
  <2>6. Has(x)
    BY <2>5
  <2>. QED
    BY <2>6 DEF Has
<1>5. Fed(chart) \in SUBSET Seq(AnsiByte)
  BY DEF Fed
<1>. QED
  BY <1>2, <1>3, <1>4, <1>5

LEMMA RestAnd ==
    ASSUME NEW b \in Seq(AnsiByte), NEW x \in Seq(AnsiByte)
    PROVE  /\ Rest(b, Len(b)) \o x = x /\ Rest(b, 0) \o x = b \o x
           /\ \A r \in Nat : r + 1 \in 1 .. Len(b) =>
                LET a == Rest(b, r) \o x
                IN  a # <<>> /\ Head(a) = b[r + 1] /\ Tail(a) = Rest(b, r + 1) \o x
<1>1. Rest(b, Len(b)) \o x = x
  <2>1. Len(b) \in 0 .. Len(b) /\ Len(b) - Len(b) = 0
    OBVIOUS
  <2>2. Rest(b, Len(b)) \in Seq(AnsiByte) /\ Len(Rest(b, Len(b))) = 0
    BY <2>1, RestIs
  <2>3. Rest(b, Len(b)) = <<>>
    BY <2>2, EmptySeq
  <2>. QED
    BY <2>3, AnsiConcat
<1>2. Rest(b, 0) \o x = b \o x
  <2>1. 0 \in 0 .. Len(b) /\ Len(b) - 0 = Len(b)
    OBVIOUS
  <2>2. Rest(b, 0) \in Seq(AnsiByte) /\ Len(Rest(b, 0)) = Len(b) - 0
        /\ \A i \in 1 .. (Len(b) - 0) : Rest(b, 0)[i] = b[0 + i]
    BY <2>1, RestIs
  <2>3. \A i \in 1 .. Len(b) : Rest(b, 0)[i] = b[i]
    BY <2>1, <2>2
  <2>4. Rest(b, 0) = b
    BY <2>1, <2>2, <2>3, SeqEqual
  <2>. QED
    BY <2>4
<1>3. ASSUME NEW r \in Nat, r + 1 \in 1 .. Len(b)
      PROVE  LET a == Rest(b, r) \o x
             IN  a # <<>> /\ Head(a) = b[r + 1] /\ Tail(a) = Rest(b, r + 1) \o x
  <2>. DEFINE s == Rest(b, r)
              t == Rest(b, r + 1)
              a == s \o x
              c == t \o x
              n == Len(b) - r
              m == Len(x)
  <2>0. r \in 0 .. Len(b) /\ r + 1 \in 0 .. Len(b) /\ n \in Nat /\ n >= 1 /\ m \in Nat
        /\ Len(b) - (r + 1) = n - 1
    BY <1>3
  <2>1. s \in Seq(AnsiByte) /\ Len(s) = n /\ \A i \in 1 .. n : s[i] = b[r + i]
    BY <2>0, RestIs
  <2>2. t \in Seq(AnsiByte) /\ Len(t) = n - 1 /\ \A i \in 1 .. (n - 1) : t[i] = b[r + 1 + i]
    <3>1. /\ t \in Seq(AnsiByte) /\ Len(t) = Len(b) - (r + 1)
          /\ \A i \in 1 .. (Len(b) - (r + 1)) : t[i] = b[(r + 1) + i]
      BY <2>0, RestIs
    <3>. QED
      BY <2>0, <3>1
  <2>. HIDE DEF s, t
  <2>3. a \in Seq(AnsiByte) /\ Len(a) = n + m /\ (\A i \in 1 .. n : a[i] = s[i])
        /\ \A i \in 1 .. m : a[n + i] = x[i]
    <3>1. /\ s \o x \in Seq(AnsiByte) /\ Len(s \o x) = Len(s) + Len(x)
          /\ (\A i \in 1 .. Len(s) : (s \o x)[i] = s[i])
          /\ \A i \in 1 .. Len(x) : (s \o x)[Len(s) + i] = x[i]
      <4>1. s \in Seq(AnsiByte)
        BY <2>1
      <4>. QED
        BY <4>1, Joined
    <3>2. Len(s) = n /\ Len(x) = m
      BY <2>1
    <3>. HIDE DEF n, m
    <3>. QED
      BY <3>1, <3>2
  <2>4. c \in Seq(AnsiByte) /\ Len(c) = n - 1 + m /\ (\A i \in 1 .. (n - 1) : c[i] = t[i])
        /\ \A i \in 1 .. m : c[n - 1 + i] = x[i]
    <3>1. /\ t \o x \in Seq(AnsiByte) /\ Len(t \o x) = Len(t) + Len(x)
          /\ (\A i \in 1 .. Len(t) : (t \o x)[i] = t[i])
          /\ \A i \in 1 .. Len(x) : (t \o x)[Len(t) + i] = x[i]
      <4>1. t \in Seq(AnsiByte)
        BY <2>2
      <4>. QED
        BY <4>1, Joined
    <3>2. Len(t) = (n - 1) /\ Len(x) = m
      BY <2>2
    <3>. HIDE DEF n, m
    <3>. QED
      BY <3>1, <3>2
  <2>. HIDE DEF a, c, m, n
  <2>5. a # <<>> /\ Head(a) = a[1] /\ Tail(a) \in Seq(AnsiByte) /\ Len(Tail(a)) = Len(a) - 1
        /\ \A i \in 1 .. (Len(a) - 1) : Tail(a)[i] = a[i + 1]
    <3>1. Len(a) # 0
      BY <2>0, <2>3
    <3>2. a # <<>>
      BY <3>1
    <3>. QED
      BY <2>3, <3>2, Split
  <2>6. Head(a) = b[r + 1]
    <3>1. 1 \in 1 .. n
      BY <2>0
    <3>. QED
      BY <2>1, <2>3, <2>5, <3>1
  <2>7. Len(Tail(a)) = n - 1 + m
    BY <2>0, <2>3, <2>5
  <2>8. ASSUME NEW i \in 1 .. (n - 1 + m)
        PROVE  Tail(a)[i] = c[i]
    <3>0. i \in 1 .. (Len(a) - 1) /\ i \in Nat
      BY <2>0, <2>3
    <3>1. Tail(a)[i] = a[i + 1]
      BY <2>5, <3>0
    <3>2. CASE i <= n - 1
      <4>1. i + 1 \in 1 .. n /\ i \in 1 .. (n - 1)
        BY <2>0, <3>0, <3>2
      <4>2. a[i + 1] = s[i + 1] /\ c[i] = t[i]
        BY <2>3, <2>4, <4>1
      <4>3. s[i + 1] = b[r + (i + 1)] /\ t[i] = b[r + 1 + i] /\ r + (i + 1) = r + 1 + i
        BY <2>1, <2>2, <3>0, <4>1
      <4>. QED
        BY <3>1, <4>2, <4>3
    <3>3. CASE i > n - 1
      <4>. DEFINE k == i - (n - 1)
      <4>1. k \in 1 .. m /\ n + k = i + 1 /\ n - 1 + k = i
        BY <2>0, <3>0, <3>3
      <4>. HIDE DEF k
      <4>2. a[n + k] = x[k] /\ c[n - 1 + k] = x[k]
        BY <2>3, <2>4, <4>1
      <4>. QED
        BY <3>1, <4>1, <4>2
    <3>. QED
      BY <2>0, <3>0, <3>2, <3>3
  <2>9. Tail(a) = c
    BY <2>4, <2>5, <2>7, <2>8, SeqEqual
  <2>. QED
    BY <2>5, <2>6, <2>9 DEF a, c, s, t
<1>. QED
  BY <1>1, <1>2, <1>3

LEMMA ReadingStep ==
    ASSUME NEW a, NEW chart, NEW L, NEW r, Reading(a, chart, L, r), a # <<>>
    PROVE  /\ r < Len(AllOf(L)) =>
                /\ Head(a).c = AllOf(L)[r + 1] /\ (Head(a).lead <=> r + 1 <= Len(L.lead))
                /\ Reading(Tail(a), chart, L, r + 1)
           /\ r = Len(AllOf(L)) => Head(a).c = Newline /\ ~Head(a).lead /\ Started(Tail(a), chart)
           /\ Lined(L, chart) /\ r \in 0 .. Len(AllOf(L))
<1>. DEFINE b == LineBytes(L)
            n == Len(AllOf(L))
<1>1. Lined(L, chart) /\ r \in 0 .. n
  BY DEF Reading
<1>2. PICK x \in Fed(chart) : a = Rest(b, r) \o x
  BY DEF Reading
<1>3. b \in Seq(AnsiByte) /\ Len(b) = n /\ n \in Nat
  <2>1. b \in Seq(AnsiByte) /\ Len(b) = n
    BY <1>1, BytesOfLine
  <2>. QED
    BY <2>1
<1>4. \A i \in 1 .. n : b[i].c = AllOf(L)[i] /\ (b[i].lead <=> i <= Len(L.lead))
  <2>. TAKE i \in 1 .. n
  <2>. DEFINE c == AllOf(L)[i]
              l == i <= Len(L.lead)
  <2>1. b[i] = [c |-> c, lead |-> l]
    BY <1>1, BytesOfLine
  <2>. HIDE DEF b, n, c, l
  <2>2. b[i].c = c /\ b[i].lead = l
    BY <2>1
  <2>. QED
    BY <2>2 DEF c, l
<1>5. x \in Seq(AnsiByte)
  BY FedIs
<1>. HIDE DEF b, n
<1>6. ASSUME r < n
      PROVE  /\ Head(a).c = AllOf(L)[r + 1] /\ (Head(a).lead <=> r + 1 <= Len(L.lead))
             /\ Reading(Tail(a), chart, L, r + 1)
  <2>1. r \in Nat /\ r + 1 \in 1 .. Len(b) /\ r + 1 \in 1 .. n
    BY <1>1, <1>3, <1>6
  <2>2. Head(a) = b[r + 1] /\ Tail(a) = Rest(b, r + 1) \o x
    BY <1>2, <1>3, <1>5, <2>1, RestAnd
  <2>3. Reading(Tail(a), chart, L, r + 1)
    <3>1. r + 1 \in 0 .. n
      BY <2>1
    <3>. QED
      BY <1>1, <2>2, <3>1 DEF Reading, b, n
  <2>. QED
    BY <1>4, <2>1, <2>2, <2>3
<1>7. ASSUME r = n
      PROVE  Head(a).c = Newline /\ ~Head(a).lead /\ Started(Tail(a), chart)
  <2>1. a = x
    BY <1>2, <1>3, <1>5, <1>7, RestAnd
  <2>2. PICK line \in LineOf, y \in Fed(chart) : Lined(line, chart) /\ x = Follow(line, y)
    BY <2>1, FedIs
  <2>. DEFINE z == LineBytes(line) \o y
  <2>3. LineBytes(line) \in Seq(AnsiByte) /\ y \in Seq(AnsiByte)
    BY LineBytesAre, FedIs
  <2>4. z \in Seq(AnsiByte)
    BY <2>3, AnsiConcat
  <2>5. a = Break \o z
    BY <2>1, <2>2 DEF Follow
  <2>6. Head(a).c = Newline /\ ~Head(a).lead /\ Tail(a) = z
    <3>. HIDE DEF z
    <3>. QED
      BY <2>4, <2>5, BreakIs
  <2>7. Reading(z, chart, line, 0)
    <3>1. z = Rest(LineBytes(line), 0) \o y
      BY <2>3, RestAnd
    <3>2. AllOf(line) \in Seq(Strings)
      BY <2>2, LineIs
    <3>3. 0 \in 0 .. Len(AllOf(line))
      BY <3>2
    <3>. HIDE DEF z
    <3>. QED
      BY <2>2, <3>1, <3>3 DEF Reading
  <2>. QED
    BY <2>6, <2>7 DEF Started
<1>. QED
  BY <1>1, <1>6, <1>7 DEF n

LEMMA ReadingOn ==
    ASSUME NEW chart, NEW L, Lined(L, chart), NEW x \in Fed(chart)
    PROVE  Reading(x, chart, L, Len(AllOf(L))) /\ Reading(LineBytes(L) \o x, chart, L, 0)
<1>. DEFINE b == LineBytes(L)
            n == Len(AllOf(L))
<1>1. b \in Seq(AnsiByte) /\ Len(b) = n /\ n \in Nat
  <2>1. b \in Seq(AnsiByte) /\ Len(b) = n
    BY BytesOfLine
  <2>. QED
    BY <2>1
<1>2. x \in Seq(AnsiByte)
  BY FedIs
<1>3. n \in 0 .. n /\ 0 \in 0 .. n
  BY <1>1
<1>4. x = Rest(b, n) \o x /\ b \o x = Rest(b, 0) \o x
  <2>. HIDE DEF b, n
  <2>. QED
    BY <1>1, <1>2, RestAnd
<1>. HIDE DEF b, n
<1>5. Reading(x, chart, L, n)
  BY <1>3, <1>4 DEF Reading, b, n
<1>6. Reading(b \o x, chart, L, 0)
  BY <1>3, <1>4 DEF Reading, b, n
<1>. QED
  BY <1>5, <1>6 DEF b, n

LEMMA ReadingEnd ==
    ASSUME NEW chart, NEW L, NEW r, Reading(<<>>, chart, L, r)
    PROVE  r = Len(AllOf(L)) /\ Lined(L, chart)
<1>. DEFINE b == LineBytes(L)
            n == Len(AllOf(L))
            a == <<>>
<1>1. Lined(L, chart) /\ r \in 0 .. n
  BY DEF Reading
<1>2. PICK x \in Fed(chart) : a = Rest(b, r) \o x
  BY DEF Reading
<1>3. b \in Seq(AnsiByte) /\ Len(b) = n /\ n \in Nat
  <2>1. b \in Seq(AnsiByte) /\ Len(b) = n
    BY <1>1, BytesOfLine
  <2>. QED
    BY <2>1
<1>5. x \in Seq(AnsiByte)
  BY FedIs
<1>6. ASSUME r < n PROVE FALSE
  <2>1. r \in Nat /\ r + 1 \in 1 .. Len(b)
    BY <1>1, <1>3, <1>6
  <2>. HIDE DEF b, n
  <2>2. Rest(b, r) \o x # <<>>
    BY <1>3, <1>5, <2>1, RestAnd
  <2>. QED
    BY <1>2, <2>2
<1>. HIDE DEF n, a, b
<1>. QED
  BY <1>1, <1>3, <1>6 DEF n

LEMMA AnsiAssociate ==
    ASSUME NEW a \in Seq(AnsiByte), NEW b \in Seq(AnsiByte), NEW c \in Seq(AnsiByte)
    PROVE  (a \o b) \o c = a \o (b \o c)
  BY AnsiConcat

LEMMA StartedIs ==
    ASSUME NEW chart
    PROVE  /\ \A z \in Fed(chart) : Started(z, chart)
           /\ \A z : Started(z, chart) => z \in Seq(AnsiByte) /\ Break \o z \in Fed(chart)
           /\ \A L : \A z \in Fed(chart) : Lined(L, chart) => Started(LineBytes(L) \o z, chart)
<1>1. ASSUME NEW z \in Fed(chart)
      PROVE  Started(z, chart)
  <2>1. Lined(Empty, chart) /\ AllOf(Empty) = <<>>
    BY EmptyIs
  <2>2. Len(AllOf(Empty)) = 0
    BY <2>1
  <2>3. Reading(z, chart, Empty, Len(AllOf(Empty)))
    BY <2>1, ReadingOn
  <2>. HIDE DEF Empty
  <2>. QED
    BY <2>2, <2>3 DEF Started
<1>2. ASSUME NEW z, Started(z, chart)
      PROVE  z \in Seq(AnsiByte) /\ Break \o z \in Fed(chart)
  <2>1. PICK L : Reading(z, chart, L, 0)
    BY <1>2 DEF Started
  <2>2. PICK x \in Fed(chart) : Lined(L, chart) /\ z = Rest(LineBytes(L), 0) \o x
    BY <2>1 DEF Reading
  <2>3. L \in LineOf /\ x \in Seq(AnsiByte)
    BY <2>2, FedIs DEF Lined
  <2>4. LineBytes(L) \in Seq(AnsiByte)
    BY <2>3, LineBytesAre
  <2>5. z = LineBytes(L) \o x
    BY <2>2, <2>3, <2>4, RestAnd
  <2>6. Follow(L, x) \in Fed(chart)
    BY <2>2, <2>3, FedIs
  <2>. QED
    BY <2>3, <2>4, <2>5, <2>6, AnsiConcat DEF Follow
<1>3. ASSUME NEW L, NEW z \in Fed(chart), Lined(L, chart)
      PROVE  Started(LineBytes(L) \o z, chart)
  BY <1>3, ReadingOn DEF Started
<1>. QED
  BY <1>1, <1>2, <1>3

(* What ends with a newline, as the rows of a chart do.                      *)
Ends(a) == a # <<>> => a[Len(a)].c = Newline

LEMMA EndsIs ==
    /\ Break \in Seq(AnsiByte) /\ Ends(Break) /\ Ends(<<>>) /\ Break # <<>>
    /\ \A x \in Seq(AnsiByte), y \in Seq(AnsiByte) :
         /\ Ends(y) /\ y # <<>> => Ends(x \o y) /\ x \o y # <<>>
         /\ Ends(x) /\ Ends(y) => Ends(x \o y)
    /\ \A a \in Seq(AnsiByte) : Ends(a) /\ a # <<>> => IF Tail(a) = <<>> THEN Head(a).c = Newline ELSE Ends(Tail(a))
<1>1. Break \in Seq(AnsiByte) /\ Break # <<>> /\ Ends(Break)
  <2>. DEFINE b == Break
              z == <<>>
  <2>1. b \in Seq(AnsiByte) /\ z \in Seq(AnsiByte)
    BY BreakIs
  <2>2. b \o z = b
    BY <2>1, AnsiConcat DEF z
  <2>. HIDE DEF b, z
  <2>3. b # <<>> /\ Tail(b) = z /\ Head(b).c = Newline
    BY <2>1, <2>2, BreakIs DEF b
  <2>4. Head(b) = b[1] /\ Len(Tail(b)) = Len(b) - 1 /\ Len(b) \in Nat
    BY <2>1, <2>3, Split
  <2>5. Len(z) = 0
    BY DEF z
  <2>6. Len(b) = 1
    <3>1. Len(Tail(b)) = Len(z)
      BY <2>3
    <3>. QED
      BY <2>4, <2>5, <3>1
  <2>. QED
    BY <2>1, <2>3, <2>4, <2>6 DEF Ends, b
<1>2. ASSUME NEW x \in Seq(AnsiByte), NEW y \in Seq(AnsiByte), Ends(y), y # <<>>
      PROVE  Ends(x \o y) /\ x \o y # <<>>
  <2>. DEFINE z == x \o y
  <2>1. Len(y) \in Nat /\ Len(y) >= 1
    BY <1>2, Split
  <2>2. z \in Seq(AnsiByte) /\ Len(z) = Len(x) + Len(y) /\ Len(x) \in Nat
        /\ \A i \in 1 .. Len(y) : z[Len(x) + i] = y[i]
    BY Joined
  <2>3. y[Len(y)].c = Newline
    BY <1>2 DEF Ends
  <2>. HIDE DEF z
  <2>4. Len(y) \in 1 .. Len(y) /\ Len(z) # 0
    BY <2>1, <2>2
  <2>5. z[Len(z)] = y[Len(y)]
    BY <2>2, <2>4
  <2>6. z # <<>>
    BY <2>4
  <2>. QED
    BY <2>3, <2>5, <2>6 DEF Ends, z
<1>3. ASSUME NEW x \in Seq(AnsiByte), NEW y \in Seq(AnsiByte), Ends(x), Ends(y)
      PROVE  Ends(x \o y)
  <2>1. CASE y = <<>>
    BY <1>3, <2>1, AnsiConcat
  <2>. QED
    BY <1>2, <1>3, <2>1
<1>4. ASSUME NEW a \in Seq(AnsiByte), Ends(a), a # <<>>
      PROVE  IF Tail(a) = <<>> THEN Head(a).c = Newline ELSE Ends(Tail(a))
  <2>. DEFINE t == Tail(a)
              n == Len(a)
  <2>1. Head(a) = a[1] /\ t \in Seq(AnsiByte) /\ n \in Nat /\ n >= 1 /\ Len(t) = n - 1
        /\ \A i \in 1 .. (n - 1) : t[i] = a[i + 1]
    BY <1>4, Split
  <2>2. a[n].c = Newline
    BY <1>4 DEF Ends
  <2>. HIDE DEF t, n
  <2>3. CASE t = <<>>
    <3>1. Len(t) = 0
      BY <2>3
    <3>2. n = 1
      BY <2>1, <3>1
    <3>. QED
      BY <2>1, <2>2, <2>3, <3>2 DEF t
  <2>4. CASE t # <<>>
    <3>1. Len(t) >= 1
      BY <2>1, <2>4, Split
    <3>2. n - 1 \in 1 .. (n - 1) /\ n - 1 + 1 = n
      BY <2>1, <3>1
    <3>3. t[n - 1] = a[n]
      BY <2>1, <3>2
    <3>. QED
      BY <2>1, <2>2, <2>4, <3>3 DEF Ends, t
  <2>. QED
    BY <2>3, <2>4
<1>5. Ends(<<>>)
  BY DEF Ends
<1>. QED
  BY <1>1, <1>2, <1>3, <1>4, <1>5

(* The rows of a chart.                                                      *)
RowsOf(rows) == FlattenSeq([i \in DOMAIN rows |-> RowBytes(rows[i])])

LEMMA ChartStarts ==
    ASSUME NEW chart, NEW rows \in Seq(LineOf), \A i \in DOMAIN rows : IsLine(rows[i], chart)
    PROVE  /\ RowsOf(rows) \in Seq(AnsiByte) /\ Ends(RowsOf(rows))
           /\ \A z : Started(z, chart) => Started(RowsOf(rows) \o z, chart)
<1>. DEFINE Rows(s) == \A i \in 1 .. Len(s) : IsLine(s[i], chart)
            Has(s) == Rows(s) => /\ Ends(RowsOf(s))
                                 /\ \A z : Started(z, chart) => Started(RowsOf(s) \o z, chart)
            P == {s \in Seq(LineOf) : Has(s)}
<1>1. <<>> \in P
  <2>1. RowsOf(<<>>) = <<>>
    BY RowsAre DEF RowsOf
  <2>2. \A z : Started(z, chart) => Started(<<>> \o z, chart)
    BY StartedIs, AnsiConcat
  <2>3. Has(<<>>)
    BY <2>1, <2>2, EndsIs
  <2>. HIDE DEF Has
  <2>. QED
    BY <2>3
<1>2. ASSUME NEW s \in P, NEW row \in LineOf
      PROVE  Append(s, row) \in P
  <2>. DEFINE t == Append(s, row)
              f == RowsOf(s)
              b == LineBytes(row)
  <2>1. s \in Seq(LineOf) /\ Has(s)
    <3>. HIDE DEF Has
    <3>. QED
      OBVIOUS
  <2>2. t \in Seq(LineOf) /\ Len(t) = Len(s) + 1 /\ Len(s) \in Nat /\ t[Len(s) + 1] = row
        /\ \A i \in 1 .. Len(s) : t[i] = s[i]
    BY <2>1
  <2>3. ASSUME Rows(t)
        PROVE  /\ Ends(RowsOf(t))
               /\ \A z : Started(z, chart) => Started(RowsOf(t) \o z, chart)
    <3>. HIDE DEF t
    <3>1. Rows(s)
      <4>1. \A i \in 1 .. Len(s) : i \in 1 .. Len(t)
        BY <2>2
      <4>. QED
        BY <2>2, <2>3, <4>1
    <3>2. Lined(row, chart)
      <4>1. Len(s) + 1 \in 1 .. Len(t)
        BY <2>2
      <4>. QED
        BY <2>2, <2>3, <4>1 DEF Lined
    <3>. HIDE DEF Rows
    <3>3. RowsOf(t) = f \o RowBytes(row) /\ RowBytes(row) = b \o Break
      BY <2>1, RowsAre DEF RowsOf, RowBytes, Break, t
    <3>4. f \in Seq(AnsiByte) /\ b \in Seq(AnsiByte) /\ Break \in Seq(AnsiByte) /\ Ends(f)
          /\ (\A z : Started(z, chart) => Started(f \o z, chart))
      <4>1. f \in Seq(AnsiByte)
        BY <2>1, RowsAre DEF RowsOf
      <4>. QED
        BY <2>1, <3>1, <4>1, LineBytesAre, BreakIs
    <3>. HIDE DEF f, b
    <3>5. Ends(b \o Break) /\ b \o Break \in Seq(AnsiByte)
      BY <3>4, EndsIs, AnsiConcat
    <3>6. Ends(RowsOf(t))
      BY <3>3, <3>4, <3>5, EndsIs
    <3>7. ASSUME NEW z, Started(z, chart)
          PROVE  Started(RowsOf(t) \o z, chart)
      <4>1. z \in Seq(AnsiByte) /\ Break \o z \in Fed(chart)
        BY <3>7, StartedIs
      <4>2. Started(b \o (Break \o z), chart)
        BY <3>2, <4>1, StartedIs DEF b
      <4>3. (b \o Break) \o z = b \o (Break \o z)
        BY <3>4, <4>1, AnsiAssociate
      <4>4. Started(f \o ((b \o Break) \o z), chart)
        BY <3>4, <4>2, <4>3
      <4>5. (f \o (b \o Break)) \o z = f \o ((b \o Break) \o z)
        BY <3>4, <3>5, <4>1, AnsiAssociate
      <4>. QED
        BY <3>3, <4>4, <4>5
    <3>. QED
      BY <3>6, <3>7
  <2>. HIDE DEF Rows
  <2>4. Has(t)
    BY <2>3
  <2>. HIDE DEF Has, t
  <2>5. t \in P
    BY <2>2, <2>4
  <2>. QED
    BY <2>5 DEF t
<1>3. P = Seq(LineOf)
  <2>. HIDE DEF Has
  <2>1. P \in SUBSET Seq(LineOf)
    OBVIOUS
  <2>. HIDE DEF P
  <2>. QED
    BY <1>1, <1>2, <2>1, SeqInduct
<1>4. Has(rows)
  <2>. HIDE DEF Has
  <2>. QED
    BY <1>3
<1>5. Rows(rows)
  OBVIOUS
<1>6. RowsOf(rows) \in Seq(AnsiByte)
  BY RowsAre DEF RowsOf
<1>. HIDE DEF Rows
<1>. QED
  BY <1>4, <1>5, <1>6

-----------------------------------------------------------------------------
(* What has been read and not been written.                                  *)
Mid == "e1"
LeadOf(h) == <<AsChar(h, Mid)>>
WaitingOf(h) == IF h.utf8 # <<>> THEN LeadOf(h) ELSE Held(h.segments) \o When(h.pending_newline, <<LineBreak>>)

Leads(rest, m) == \A i \in 1 .. Len(rest) : rest[i].lead <=> i <= m

(* What is collected of a line: the styles are those its own escapes select. *)
Collected(h, L, r) ==
    /\ TextOf(h.segments) = Chars(Upto(AllOf(L), r))
    /\ \A k \in 1 .. Len(Held(h.segments)) : Held(h.segments)[k].style \in StylesAfter(AllOf(L), k - 1)

On(h, rest, L, r) ==
    /\ Lined(L, h.chart) /\ r \in 0 .. Len(AllOf(L)) /\ Leads(rest, Mark(L))
    /\ h.stream = "none" => Collected(h, L, r)
    /\ h.stream # "none" => Mark(L) = 0

Reached(h, a, style, L, r) ==
    /\ Reading(a, h.chart, L, r) /\ style \in Selected(AllOf(L), r)
    /\ h.utf8 # <<>> => r >= 1 /\ AllOf(L)[r] = Mid

LineAt(h, a, style, rest) ==
    IF h.pending_newline
    THEN h.utf8 = <<>> /\ Started(a, h.chart) /\ \E L : On(h, rest, L, Len(AllOf(L)))
    ELSE \E L, r : Reached(h, a, style, L, r) /\ On(h, rest, L, r)

OpenIn(v) == v # <<>> /\ Last(v).c # Newline

Parts(h, a, style, v, done, rest) ==
    /\ done \in Seq(Given) /\ v = done \o rest
    /\ FitsGiven(h.page.text, Shows(done))
    /\ AgreeAll(rest, WaitingOf(h), h.chart # "none")
    /\ h.stream = "none" => ~OpenIn(done)
    /\ LineAt(h, a, style, rest)

Core(h, a, p, v) ==
    /\ h.style = p.style /\ h.link = p.link /\ v \in Seq(Given)
    /\ OpenIn(v) <=> ~h.pending_newline /\ (h.stream # "none" \/ TextOf(h.segments) # <<>>)
    /\ \E done, rest : Parts(h, a, p.style, v, done, rest)

(* A line whose first character does not start a marker has no prefix, and   *)
(* out of a chart it loses nothing.                                          *)
NoMarker(c) == c \notin {" ", ">", "-"} \cup Digit

LEMMA NoPrefix ==
    ASSUME NEW s \in Seq(Strings), s # <<>>, NoMarker(s[1])
    PROVE  Prefix(s, "none") = 0 /\ \A style : LeftOut(s, "none", style) = 0
<1>1. Len(s) \in Nat /\ Len(s) >= 1 /\ 1 \in DOMAIN s /\ 0 \in 0 .. Len(s) /\ 1 \in 1 .. Len(s)
  OBVIOUS
<1>2. s[1] # " " /\ s[1] # ">" /\ s[1] # "-" /\ s[1] \notin Digit
  BY Zenon DEF NoMarker
<1>3. At(s, 1) = s[1]
  BY <1>1, Zenon DEF At
<1>4. SkipBlanks(s, 0) = 0
  <2>1. SkipBlanks(s, 0) \in 0 .. Len(s)
        /\ \A k \in 1 .. Len(s) : 0 < k /\ k <= SkipBlanks(s, 0) => s[k] = " "
    BY <1>1, SkipIs
  <2>2. ~(0 < 1 /\ 1 <= SkipBlanks(s, 0))
    BY <1>1, <1>2, <2>1, Zenon
  <2>3. SkipBlanks(s, 0) \in 0 .. Len(s)
    BY <2>1
  <2>. QED
    BY <1>1, <2>2, <2>3
<1>5. 0 + 1 = 1 /\ 0 + 2 = 2 /\ 0 + 0 = 0 /\ ~(0 > 0)
  OBVIOUS
<1>6. ~QuoteAt(s, 0)
  BY <1>2, <1>3, <1>5, Zenon DEF QuoteAt
<1>7. QuotesEnd(s) = 0
  <2>1. PICK f \in [0 .. Len(s) -> 0 .. Len(s)] :
          (\A i \in 0 .. Len(s) : f[i] = EndAt(s, f, i)) /\ QuotesEnd(s) = f[0]
    BY EndsExist
  <2>2. EndAt(s, f, 0) = 0
    BY <1>4, <1>6, Zenon DEF EndAt
  <2>. QED
    BY <1>1, <2>1, <2>2
<1>8. MarkerLength(s, 0) = 0
  <2>. DEFINE S == {n \in 0..(Len(s) - 0) : \A k \in 1..n : s[0 + k] \in Digit}
              digits == Max(S)
  <2>1. ASSUME NEW n \in S
        PROVE  n <= 0
    <3>1. n \in Nat /\ \A k \in 1 .. n : s[0 + k] \in Digit
      BY <1>1
    <3>2. ASSUME n >= 1 PROVE FALSE
      <4>1. 1 \in 1 .. n
        BY <3>1, <3>2
      <4>2. s[0 + 1] \in Digit
        BY <3>1, <4>1, Zenon
      <4>. QED
        BY <1>2, <1>5, <4>2, Zenon
    <3>. QED
      BY <3>1, <3>2
  <2>2. 0 \in S /\ S \in SUBSET Int
    BY <1>1
  <2>. HIDE DEF S
  <2>3. digits = 0
    BY <2>1, <2>2, MaxIs
  <2>4. ~(At(s, 0 + 1) = "-") /\ ~(digits > 0)
    BY <1>2, <1>3, <1>5, <2>3, Zenon
  <2>. HIDE DEF digits
  <2>. QED
    BY <2>4, Zenon DEF MarkerLength, digits, S
<1>9. PrefixLength(s) = 0
  <2>. DEFINE start == SkipBlanks(s, QuotesEnd(s))
              marked == start + MarkerLength(s, start)
  <2>1. start = 0
    BY <1>4, <1>7
  <2>. HIDE DEF start
  <2>2. marked = 0
    BY <1>5, <1>8, <2>1
  <2>. HIDE DEF marked
  <2>3. ~(marked > start)
    BY <2>1, <2>2
  <2>4. PrefixLength(s) = IF marked > start THEN marked + TaskLength(s, marked)
        ELSE IF QuotesEnd(s) = 0 /\ start + 1 = Len(s) /\ s[Len(s)] = ">" THEN 0
        ELSE start
    BY Zenon DEF PrefixLength, start, marked
  <2>. QED
    BY <2>1, <2>3, <2>4, Zenon
<1>. DEFINE none == "none"
<1>10. Prefix(s, none) = 0
  <2>1. none # "bar"
    OBVIOUS
  <2>. HIDE DEF none
  <2>. QED
    BY <1>9, <2>1, Zenon DEF Prefix
<1>11. ASSUME NEW style
       PROVE  LeftOut(s, none, style) = 0
  <2>. DEFINE prefix == Prefix(s, none)
              heading == IsHeading(SubSeq(s, prefix + 1, Len(s)))
  <2>1. prefix = 0
    BY <1>10
  <2>. HIDE DEF prefix, heading
  <2>2. ~(prefix > 0)
    BY <2>1
  <2>3. LeftOut(s, none, style)
          = IF heading /\ prefix > 0 /\ (Quoted(s, prefix) \/ style = CodeStyle) THEN prefix
            ELSE IF s = <<>> \/ none = "none" \/ (heading /\ prefix = 0) THEN 0
            ELSE IF none = "bar" THEN SkipBlanks(s, prefix) ELSE prefix
    BY Zenon DEF LeftOut, prefix, heading
  <2>. QED
    BY <2>2, <2>3, Zenon
<1>. QED
  BY <1>10, <1>11 DEF none

LEMMA SomeStyle ==
    ASSUME NEW bytes \in Seq(Strings), NEW n
    PROVE  \E style : style \in StylesAfter(bytes, n)
<1>. DEFINE S == {i \in DOMAIN bytes : bytes[i] \in Styles /\ Count(bytes, i) <= n}
<1>1. StylesAfter(bytes, n) = LastIn(bytes, S)
  BY StylesAfterIs
<1>2. S \in SUBSET {i \in DOMAIN bytes : bytes[i] \in Styles}
  OBVIOUS
<1>. HIDE DEF S
<1>. QED
  BY <1>1, <1>2, LastInIs

LEMMA LeadFlag ==
    ASSUME NEW L, NEW chart, Lined(L, chart), NEW r \in Nat, r + 1 \in 1 .. Len(AllOf(L)),
           AllOf(L)[r + 1] \notin Escapes
    PROVE  r + 1 <= Len(L.lead) <=> Count(AllOf(L), r) + 1 <= Mark(L)
<1>. DEFINE bytes == AllOf(L)
            n == Len(L.lead)
<1>1. bytes \in Seq(Strings) /\ n \in 0 .. Len(bytes) /\ Mark(L) = Count(bytes, n)
  BY LineIs
<1>2. r + 1 \in 1 .. Len(bytes) /\ bytes[r + 1] \notin Escapes
  OBVIOUS
<1>. HIDE DEF bytes, n
<1>3. r \in 0 .. Len(bytes) /\ r + 1 \in 0 .. Len(bytes) /\ Len(bytes) \in Nat
  BY <1>1, <1>2
<1>4. Count(bytes, r + 1) = Count(bytes, r) + 1 /\ Count(bytes, r) \in Nat /\ Count(bytes, n) \in Nat
  BY <1>1, <1>2, <1>3, CountStep
<1>5. ASSUME r + 1 <= n PROVE Count(bytes, r) + 1 <= Count(bytes, n)
  BY <1>1, <1>3, <1>4, <1>5, CountGrows
<1>6. ASSUME n <= r PROVE ~(Count(bytes, r) + 1 <= Count(bytes, n))
  <2>1. Count(bytes, n) <= Count(bytes, r)
    BY <1>1, <1>3, <1>6, CountGrows
  <2>. QED
    BY <1>4, <2>1
<1>7. r + 1 <= n \/ n <= r
  BY <1>1
<1>8. r + 1 <= n <=> Count(bytes, r) + 1 <= Mark(L)
  <2>1. CASE r + 1 <= n
    BY <1>1, <1>5, <2>1
  <2>2. CASE n <= r
    <3>1. ~(r + 1 <= n)
      BY <1>1, <2>2
    <3>. QED
      BY <1>1, <1>6, <2>2, <3>1
  <2>. QED
    BY <1>7, <2>1, <2>2
<1>. QED
  BY <1>8 DEF bytes, n

LEMMA LineDropped ==
    ASSUME NEW h, h.segments \in Seq(Segment), NEW L, Lined(L, h.chart), Collected(h, L, Len(AllOf(L)))
    PROVE  \E style : /\ IsContentStyle(h, style)
                      /\ Mark(L) = LeftOut(TextOf(h.segments), h.chart, style)
<1>. DEFINE bytes == AllOf(L)
            s == TextOf(h.segments)
            held == Held(h.segments)
            prefix == Prefix(s, h.chart)
<1>1. /\ bytes \in Seq(Strings)
      /\ \A style \in StylesAfter(bytes, Prefix(Chars(bytes), h.chart)) :
           Mark(L) = LeftOut(Chars(bytes), h.chart, style)
  BY LineIs
<1>2. s = Chars(bytes) /\ \A k \in 1 .. Len(held) : held[k].style \in StylesAfter(bytes, k - 1)
  <2>1. Upto(bytes, Len(bytes)) = bytes
    BY <1>1, UptoIs
  <2>. QED
    BY <2>1 DEF Collected
<1>3. s \in Seq(Strings) /\ Len(held) = Len(s) /\ Len(s) \in Nat
  BY HeldType, HeldLength
<1>. HIDE DEF bytes, s, held
<1>4. prefix \in 0 .. Len(s)
  BY <1>3, PrefixIs
<1>5. \A style \in StylesAfter(bytes, prefix) : Mark(L) = LeftOut(s, h.chart, style)
  BY <1>1, <1>2
<1>. HIDE DEF prefix
<1>6. CASE prefix < Len(s)
  <2>. DEFINE style == held[prefix + 1].style
  <2>1. prefix + 1 \in 1 .. Len(held) /\ (prefix + 1) - 1 = prefix
    BY <1>3, <1>4, <1>6
  <2>2. style \in StylesAfter(bytes, prefix)
    BY <1>2, <2>1
  <2>3. IsContentStyle(h, style)
    BY DEF IsContentStyle, prefix, held, s
  <2>. HIDE DEF style
  <2>. QED
    BY <1>5, <2>2, <2>3 DEF s
<1>7. CASE ~(prefix < Len(s))
  <2>1. PICK style : style \in StylesAfter(bytes, prefix)
    BY <1>1, SomeStyle
  <2>2. IsContentStyle(h, style)
    BY <1>7 DEF IsContentStyle, prefix, s
  <2>. QED
    BY <1>5, <2>1, <2>2 DEF s
<1>. QED
  BY <1>6, <1>7

LEMMA LineBegins ==
    ASSUME NEW L, NEW chart, chart = "none", Lined(L, chart), NEW r \in 0 .. Len(AllOf(L)),
           StreamKind(Chars(Upto(AllOf(L), r))) # "none"
    PROVE  Mark(L) = 0
<1>. DEFINE bytes == AllOf(L)
            n == Len(bytes)
            s == Chars(Upto(bytes, r))
            S == Chars(bytes)
<1>1. /\ bytes \in Seq(Strings)
      /\ \A style \in StylesAfter(bytes, Prefix(S, chart)) : Mark(L) = LeftOut(S, chart, style)
  BY LineIs
<1>0. r \in 0 .. n
  OBVIOUS
<1>2. s \in Seq(Strings) /\ S \in Seq(Strings) /\ Upto(bytes, n) = bytes /\ n \in 0 .. n
  BY <1>0, <1>1, CountStep, UptoIs, CharsAre
<1>3. s # <<>> /\ NoMarker(s[1])
  BY <1>2, StreamKindIs DEF NoMarker
<1>4. Count(bytes, r) = Len(s) /\ Count(bytes, n) = Len(S)
  BY <1>2 DEF Count
<1>. HIDE DEF s, S, n, bytes
<1>5. r <= n
  BY <1>0, <1>2
<1>6. /\ Len(s) <= Len(S) /\ \A k \in 1 .. Len(s) : s[k] = S[k]
  <2>1. /\ Count(bytes, r) <= Count(bytes, n)
        /\ \A k \in 1 .. Count(bytes, r) : Chars(Upto(bytes, r))[k] = Chars(Upto(bytes, n))[k]
    BY <1>0, <1>1, <1>2, <1>5, CountGrows DEF n
  <2>. QED
    BY <1>2, <1>4, <2>1 DEF s, S
<1>7. S # <<>> /\ NoMarker(S[1])
  <2>1. Len(s) >= 1 /\ Len(s) \in Nat
    BY <1>2, <1>3, Split
  <2>2. 1 \in 1 .. Len(s) /\ Len(S) # 0
    BY <1>2, <1>6, <2>1
  <2>. QED
    BY <1>3, <1>6, <2>2
<1>8. \A style : LeftOut(S, chart, style) = 0
  BY <1>2, <1>7, NoPrefix
<1>9. PICK style : style \in StylesAfter(bytes, Prefix(S, chart))
  BY <1>1, SomeStyle
<1>. QED
  BY <1>1, <1>8, <1>9

-----------------------------------------------------------------------------
(* What is written shows what was read.                                      *)
LEMMA GainsGiven ==
    ASSUME NEW h, NEW g, NEW box, NEW done \in Seq(Given), NEW items, NEW chars, AgreeAll(items, chars, box),
           NEW m \in 0 .. Len(items), Leads(items, m), FitsGiven(h.page.text, Shows(done)),
           NEW out, out = Rest(chars, m), Gains(h, g, out, box)
    PROVE  FitsGiven(g.page.text, Shows(done \o items))
<1>1. PICK new : Fits(new, out, box) /\ g.page.text = h.page.text \o new
  BY DEF Gains
<1>2. FitsGiven(new, Rest(items, m))
  BY <1>1, AgreeFits
<1>3. items \in Seq(Given)
  BY DEF AgreeAll
<1>4. Shows(items) = Rest(items, m)
  BY <1>3, ShowsLead DEF Leads
<1>5. Shows(done \o items) = Shows(done) \o Shows(items)
  BY <1>3, ShowsConcat
<1>. QED
  BY <1>1, <1>2, <1>4, <1>5, FitsGivenConcat

LEMMA RestJoin ==
    ASSUME NEW S, NEW s \in Seq(S), NEW t \in Seq(S), NEW m \in 0 .. Len(s)
    PROVE  Rest(s \o t, m) = Rest(s, m) \o t
<1>. DEFINE a == s \o t
            r == Rest(s, m)
            x == Rest(a, m)
            y == r \o t
            n == Len(s)
            k == Len(t)
<1>1. a \in Seq(S) /\ Len(a) = n + k /\ n \in Nat /\ k \in Nat
      /\ (\A i \in 1 .. n : a[i] = s[i]) /\ \A i \in 1 .. k : a[n + i] = t[i]
  BY Joined
<1>2. r \in Seq(S) /\ Len(r) = n - m /\ \A i \in 1 .. (n - m) : r[i] = s[m + i]
  BY RestIs
<1>0. m \in 0 .. n
  OBVIOUS
<1>. HIDE DEF a, r
<1>3. m \in 0 .. Len(a)
  BY <1>0, <1>1
<1>4. x \in Seq(S) /\ Len(x) = Len(a) - m /\ \A i \in 1 .. (Len(a) - m) : x[i] = a[m + i]
  BY <1>1, <1>3, RestIs
<1>5. y \in Seq(S) /\ Len(y) = Len(r) + k /\ (\A i \in 1 .. Len(r) : y[i] = r[i])
      /\ \A i \in 1 .. k : y[Len(r) + i] = t[i]
  <2>1. r \in Seq(S)
    BY <1>2
  <2>. QED
    BY <2>1, Joined
<1>. HIDE DEF x, y, n, k
<1>6. Len(a) - m = (n - m) + k
  BY <1>0, <1>1
<1>7. ASSUME NEW i \in 1 .. Len(x)
      PROVE  x[i] = y[i]
  <2>1. x[i] = a[m + i]
    BY <1>4
  <2>2. CASE i <= n - m
    <3>1. i \in 1 .. (n - m) /\ m + i \in 1 .. n
      BY <1>0, <1>1, <2>2
    <3>. QED
      BY <1>1, <1>2, <1>5, <2>1, <3>1
  <2>3. CASE ~(i <= n - m)
    <3>. DEFINE j == i - (n - m)
    <3>1. j \in 1 .. k /\ n + j = m + i /\ (n - m) + j = i
      BY <1>0, <1>1, <1>4, <1>6, <2>3
    <3>. HIDE DEF j
    <3>. QED
      BY <1>1, <1>2, <1>5, <2>1, <3>1
  <2>. QED
    BY <2>2, <2>3
<1>8. x = y
  BY <1>1, <1>2, <1>4, <1>5, <1>6, <1>7, SeqEqual
<1>. QED
  BY <1>8 DEF x, y, a, r

(* The end of a line that is collected or streamed.                          *)
Whole(h) == Held(h.segments) \o <<LineBreak>>

LEMMA LineOut ==
    ASSUME NEW h, Bridge(h), NEW rest, NEW L, On(h, rest, L, Len(AllOf(L)))
    PROVE  \E style :
             /\ IsContentStyle(h, style)
             /\ h.stream = "none" => Mark(L) = LeftOut(TextOf(h.segments), h.chart, style)
             /\ h.stream # "none" => Rest(Held(h.segments), Mark(L)) = <<>> /\ h.chart = "none"
             /\ Mark(L) \in 0 .. Len(Held(h.segments))
             /\ Rest(Whole(h), Mark(L)) = Rest(Held(h.segments), Mark(L)) \o <<LineBreak>>
<1>. DEFINE held == Held(h.segments)
            s == TextOf(h.segments)
            bytes == AllOf(L)
            n == Len(bytes)
            m == Mark(L)
<1>1. h.segments \in Seq(Segment)
  BY DEF Bridge, HtmlState
<1>2. held \in Seq(Char) /\ Len(held) = Len(s) /\ Len(s) \in Nat /\ s \in Seq(Strings)
  BY <1>1, HeldType, HeldLength
<1>3. bytes \in Seq(Strings) /\ Len(L.lead) \in 0 .. n /\ m = Count(bytes, Len(L.lead)) /\ Lined(L, h.chart)
  <2>1. Lined(L, h.chart)
    BY DEF On
  <2>. QED
    BY <2>1, LineIs
<1>. HIDE DEF bytes, m
<1>4. n \in 0 .. n /\ Len(L.lead) <= n /\ Upto(bytes, n) = bytes /\ m \in Nat
  BY <1>3, UptoIs, CountStep
<1>. HIDE DEF n
<1>5. m <= Count(bytes, n)
  BY <1>3, <1>4, CountGrows DEF n
<1>6. CASE h.stream = "none"
  <2>1. Collected(h, L, n)
    BY <1>6 DEF On, n, bytes
  <2>2. Len(s) = Count(bytes, n)
    BY <2>1 DEF Collected, Count, bytes
  <2>3. PICK style : IsContentStyle(h, style) /\ m = LeftOut(s, h.chart, style)
    <3>1. Collected(h, L, Len(AllOf(L)))
      BY <2>1 DEF n, bytes
    <3>. QED
      BY <1>1, <1>3, <3>1, LineDropped DEF m
  <2>4. m \in 0 .. Len(held)
    BY <1>2, <1>4, <1>5, <2>2
  <2>5. Rest(Whole(h), m) = Rest(held, m) \o <<LineBreak>>
    <3>1. <<LineBreak>> \in Seq(Char)
      BY EndingIs
    <3>. HIDE DEF held
    <3>2. Rest(held \o <<LineBreak>>, m) = Rest(held, m) \o <<LineBreak>>
      BY <1>2, <2>4, <3>1, RestJoin
    <3>. QED
      BY <3>2 DEF Whole, held
  <2>. QED
    BY <1>6, <2>3, <2>4, <2>5 DEF m
<1>7. CASE h.stream # "none"
  <2>1. m = 0 /\ h.chart = "none" /\ h.segments = <<>>
    BY <1>7 DEF On, m, Bridge
  <2>2. held = <<>>
    BY <2>1, TextOfAppend
  <2>3. Len(held) = 0
    BY <2>2
  <2>4. m \in 0 .. Len(held)
    BY <2>1, <2>3
  <2>5. Rest(Whole(h), m) = Rest(held, m) \o <<LineBreak>>
    <3>1. <<LineBreak>> \in Seq(Char)
      BY EndingIs
    <3>. HIDE DEF held
    <3>2. Rest(held \o <<LineBreak>>, m) = Rest(held, m) \o <<LineBreak>>
      BY <1>2, <2>4, <3>1, RestJoin
    <3>. QED
      BY <3>2 DEF Whole, held
  <2>6. Rest(held, m) = <<>>
    <3>. HIDE DEF held
    <3>1. Rest(held, m) \in Seq(Char) /\ Len(Rest(held, m)) = Len(held) - m
      BY <1>2, <2>4, RestIs
    <3>2. Len(Rest(held, m)) = 0
      BY <2>1, <2>3, <3>1
    <3>. QED
      BY <3>1, <3>2, EmptySeq
  <2>7. PICK style : IsContentStyle(h, style)
    BY ContentStyle
  <2>. QED
    BY <1>7, <2>1, <2>4, <2>5, <2>6, <2>7 DEF m
<1>. QED
  BY <1>6, <1>7

LEMMA FlushOut ==
    ASSUME NEW h, Bridge(h), Opens(h), h.pending_newline, NEW rest, NEW L, On(h, rest, L, Len(AllOf(L))),
           NEW final \in BOOLEAN, final => h.chart = "none"
    PROVE  /\ Cleared(h, FlushPending(h, final))
           /\ Gains(h, FlushPending(h, final), Rest(Held(h.segments), Mark(L)) \o Ending(final), h.chart # "none")
           /\ FlushPending(h, final).page.stack \in {BoxOf(h.chart), LineIn(BoxOf(h.chart))}
<1>. DEFINE g == FlushPending(h, final)
            box == h.chart # "none"
            held == Held(h.segments)
            kept == Rest(held, Mark(L))
            no == FALSE
<1>1. PICK style :
             /\ IsContentStyle(h, style)
             /\ h.stream = "none" => Mark(L) = LeftOut(TextOf(h.segments), h.chart, style)
             /\ h.stream # "none" => kept = <<>> /\ h.chart = "none"
  BY LineOut
<1>2. /\ h.stream # "none" => Cleared(h, g) /\ Gains(h, g, Ending(final), no) /\ g.page.stack = <<>>
      /\ h.stream = "none" /\ TextOf(h.segments) # <<>> =>
           /\ Cleared(h, g)
           /\ Gains(h, g, Rest(held, LeftOut(TextOf(h.segments), h.chart, style)) \o Ending(final), box)
           /\ g.page.stack = BoxOf(h.chart) \/ g.page.stack = LineIn(BoxOf(h.chart))
  BY <1>1, FlushPendingIs
<1>3. h.stream # "none" \/ TextOf(h.segments) # <<>>
  BY DEF Bridge
<1>4. h.stream # "none" => kept \o Ending(final) = Ending(final)
  <2>1. \A e \in Seq(Char) : <<>> \o e = e
    OBVIOUS
  <2>. QED
    BY <1>1, <2>1, EndingIs
<1>. HIDE DEF g, kept, held
<1>5. CASE h.stream # "none"
  <2>1. box = no
    BY <1>1, <1>5
  <2>2. BoxOf(h.chart) = <<>>
    BY <1>1, <1>5 DEF BoxOf
  <2>3. Gains(h, g, kept \o Ending(final), box)
    BY <1>2, <1>4, <1>5, <2>1
  <2>. HIDE DEF box, no
  <2>. QED
    BY <1>2, <1>5, <2>2, <2>3 DEF g, kept, held, box
<1>6. CASE h.stream = "none"
  <2>1. Gains(h, g, kept \o Ending(final), box)
    BY <1>1, <1>2, <1>3, <1>6 DEF kept
  <2>. HIDE DEF box, no
  <2>. QED
    BY <1>2, <1>3, <1>6, <2>1 DEF g, kept, held, box
<1>. QED
  BY <1>5, <1>6

(* Nothing is waiting.                                                       *)
SettledAt(h, v) ==
    /\ h.segments = <<>> /\ ~h.pending_newline /\ h.stream = "none" /\ h.utf8 = <<>>
    /\ v \in Seq(Given) /\ FitsGiven(h.page.text, Shows(v)) /\ ~OpenIn(v)

LEMMA NothingWaits ==
    ASSUME NEW h, h.segments = <<>>, ~h.pending_newline, h.utf8 = <<>>
    PROVE  WaitingOf(h) = <<>> /\ \A box : AgreeAll(<<>>, WaitingOf(h), box)
<1>. DEFINE none == <<>>
<1>1. none \in Seq(Given) /\ none \in Seq(Char) /\ Len(none) = 0 /\ none \o none = none
  OBVIOUS
<1>2. Held(h.segments) = none
  BY TextOfAppend
<1>3. When(h.pending_newline, <<LineBreak>>) = none
  BY DEF When
<1>. HIDE DEF none
<1>4. WaitingOf(h) = none
  BY <1>1, <1>2, <1>3 DEF WaitingOf, none
<1>5. \A box : AgreeAll(none, none, box)
  BY <1>1 DEF AgreeAll
<1>. QED
  BY <1>4, <1>5 DEF none

LEMMA Settles ==
    ASSUME NEW h, NEW v, SettledAt(h, v), NEW a, Started(a, h.chart),
           NEW p, h.style = p.style, h.link = p.link, p.style \in Styles
    PROVE  Core(h, a, p, v)
<1>. DEFINE none == <<>>
<1>1. PICK L : Reading(a, h.chart, L, 0)
  BY DEF Started
<1>. DEFINE bytes == AllOf(L)
<1>2. Lined(L, h.chart) /\ 0 \in 0 .. Len(bytes)
  BY <1>1 DEF Reading
<1>3. bytes \in Seq(Strings)
  BY <1>2, LineIs
<1>4. h.segments = none /\ ~h.pending_newline /\ h.stream = "none" /\ h.utf8 = none
      /\ v \in Seq(Given) /\ FitsGiven(h.page.text, Shows(v)) /\ ~OpenIn(v)
  BY DEF SettledAt
<1>5. TextOf(h.segments) = none /\ Held(h.segments) = none
  BY <1>4, TextOfAppend
<1>6. On(h, none, L, 0)
  <2>1. Chars(Upto(bytes, 0)) = none
    BY <1>3, CountStep
  <2>2. 1 .. Len(none) = {}
    OBVIOUS
  <2>. HIDE DEF none
  <2>3. Collected(h, L, 0)
    BY <1>5, <2>1, <2>2 DEF Collected, bytes
  <2>4. Leads(none, Mark(L))
    BY <2>2 DEF Leads
  <2>. QED
    BY <1>2, <1>4, <2>3, <2>4 DEF On, bytes
<1>7. Reached(h, a, p.style, L, 0)
  <2>1. Selected(bytes, 0) = Styles
    BY <1>3, SelectedIs
  <2>. QED
    BY <1>1, <1>4, <2>1 DEF Reached, bytes
<1>8. v = v \o none
  BY <1>4
<1>9. AgreeAll(none, WaitingOf(h), h.chart # "none")
  BY <1>4, NothingWaits
<1>. HIDE DEF none
<1>10. LineAt(h, a, p.style, none)
  BY <1>4, <1>6, <1>7 DEF LineAt
<1>11. Parts(h, a, p.style, v, v, none)
  BY <1>4, <1>8, <1>9, <1>10 DEF Parts
<1>12. OpenIn(v) <=> ~h.pending_newline /\ (h.stream # "none" \/ TextOf(h.segments) # <<>>)
  BY <1>4, <1>5 DEF none
<1>. QED
  BY <1>4, <1>11, <1>12 DEF Core

LEMMA PendingSettles ==
    ASSUME NEW h, Bridge(h), Opens(h), h.pending_newline, NEW a, NEW p, NEW v, Core(h, a, p, v)
    PROVE  /\ SettledAt(FlushPending(h, FALSE), v) /\ Started(a, h.chart)
           /\ \E L, rest, done : /\ On(h, rest, L, Len(AllOf(L))) /\ WaitingOf(h) = Whole(h)
                                 /\ AgreeAll(rest, Whole(h), h.chart # "none")
                                 /\ done \in Seq(Given) /\ v = done \o rest
                                 /\ FitsGiven(h.page.text, Shows(done))
<1>. DEFINE no == FALSE
            g == FlushPending(h, no)
            box == h.chart # "none"
            held == Held(h.segments)
            whole == Whole(h)
<1>1. PICK done, rest : Parts(h, a, p.style, v, done, rest)
  BY DEF Core
<1>2. /\ done \in Seq(Given) /\ v = done \o rest /\ FitsGiven(h.page.text, Shows(done))
      /\ AgreeAll(rest, WaitingOf(h), box) /\ LineAt(h, a, p.style, rest)
  BY <1>1 DEF Parts
<1>3. h.utf8 = <<>> /\ Started(a, h.chart)
  BY <1>2 DEF LineAt
<1>4. PICK L : On(h, rest, L, Len(AllOf(L)))
  BY <1>2 DEF LineAt
<1>. DEFINE m == Mark(L)
            out == Rest(whole, m)
<1>5. WaitingOf(h) = whole
  BY <1>3 DEF WaitingOf, When, Whole
<1>6. m \in 0 .. Len(held) /\ out = Rest(held, m) \o <<LineBreak>>
  BY <1>4, LineOut
<1>7. Cleared(h, g) /\ Gains(h, g, Rest(held, m) \o Ending(no), box)
  <2>1. no \in BOOLEAN /\ (no => h.chart = "none")
    OBVIOUS
  <2>. HIDE DEF no
  <2>. QED
    BY <1>4, <2>1, FlushOut
<1>8. Gains(h, g, out, box)
  <2>1. Ending(no) = <<LineBreak>>
    BY EndingIs
  <2>. HIDE DEF no, g
  <2>. QED
    BY <1>6, <1>7, <2>1
<1>9. m \in 0 .. Len(rest)
  <2>1. held \in Seq(Char)
    BY HeldType DEF Bridge, HtmlState
  <2>. HIDE DEF held
  <2>2. Len(held \o <<LineBreak>>) = Len(held) + 1 /\ Len(held) \in Nat
    BY <2>1
  <2>3. Len(rest) = Len(held) + 1
    BY <1>2, <1>5, <2>2 DEF AgreeAll, Whole, held
  <2>. HIDE DEF m
  <2>. QED
    BY <1>6, <2>2, <2>3 DEF held
<1>10. Leads(rest, m)
  BY <1>4 DEF On
<1>11. AgreeAll(rest, whole, box)
  BY <1>2, <1>5
<1>. HIDE DEF out, m, g, box, whole
<1>12. FitsGiven(g.page.text, Shows(done \o rest))
  BY <1>2, <1>8, <1>9, <1>10, <1>11, GainsGiven DEF out
<1>13. v \in Seq(Given) /\ ~OpenIn(v)
  BY DEF Core
<1>14. SettledAt(g, v)
  BY <1>2, <1>7, <1>12, <1>13 DEF SettledAt, Cleared
<1>. QED
  BY <1>2, <1>3, <1>4, <1>5, <1>11, <1>14 DEF g, whole, box

LEMMA IdleSettled ==
    ASSUME NEW h, Bridge(h), ~h.pending_newline, NEW a, NEW p, NEW v, Core(h, a, p, v), ~OpenIn(v)
    PROVE  SettledAt(h, v)
<1>1. PICK done, rest : Parts(h, a, p.style, v, done, rest)
  BY DEF Core
<1>2. h.stream = "none" /\ h.segments = <<>> /\ h.utf8 = <<>> /\ v \in Seq(Given)
  BY DEF Core, Bridge
<1>3. WaitingOf(h) = <<>>
  BY <1>2, NothingWaits
<1>4. rest \in Seq(Given) /\ Len(rest) = Len(WaitingOf(h)) /\ done \in Seq(Given) /\ v = done \o rest
      /\ FitsGiven(h.page.text, Shows(done))
  BY <1>1 DEF Parts, AgreeAll
<1>5. rest = <<>>
  <2>1. Len(rest) = 0
    BY <1>3, <1>4
  <2>. QED
    BY <1>4, <2>1, EmptySeq
<1>6. v = done
  BY <1>4, <1>5, GivenSeq
<1>. QED
  BY <1>2, <1>4, <1>6 DEF SettledAt

LEMMA FlushSettled ==
    ASSUME NEW h, Bridge(h), Opens(h), NEW a, NEW p, NEW v, Core(h, a, p, v), ~OpenIn(v)
    PROVE  SettledAt(FlushPending(h, FALSE), v)
<1>1. CASE h.pending_newline
  BY <1>1, PendingSettles
<1>2. CASE ~h.pending_newline
  <2>. DEFINE no == FALSE
  <2>1. SettledAt(h, v)
    BY <1>2, IdleSettled
  <2>2. h.stream = "none" /\ h.segments = <<>>
    BY <2>1 DEF SettledAt
  <2>3. TextOf(h.segments) = <<>>
    BY <2>2, TextOfAppend
  <2>4. PICK style : IsContentStyle(h, style)
    BY ContentStyle
  <2>5. no \in BOOLEAN /\ (no => h.chart = "none")
    OBVIOUS
  <2>. HIDE DEF no
  <2>6. FlushPending(h, no) = h
    BY <2>2, <2>3, <2>4, <2>5, FlushPendingIs
  <2>. QED
    BY <2>1, <2>6 DEF no
<1>. QED
  BY <1>1, <1>2

LEMMA ReadyCore ==
    ASSUME NEW h, Bridge(h), Opens(h), NEW a, NEW p, NEW v, Core(h, a, p, v)
    PROVE  Core(ReadyOf(h), a, p, v)
<1>1. CASE h.pending_newline
  <2>. DEFINE g == FlushPending(h, FALSE)
  <2>1. ReadyOf(h) = g
    BY <1>1 DEF ReadyOf
  <2>2. SettledAt(g, v) /\ Started(a, h.chart)
    BY <1>1, PendingSettles
  <2>3. Kept(h, g)
    BY FlushPendingKeeps
  <2>. HIDE DEF g
  <2>4. h.style = p.style /\ h.link = p.link /\ h.style \in Styles
    BY DEF Core, Bridge, HtmlState
  <2>5. g.style = p.style /\ g.link = p.link /\ g.chart = h.chart /\ p.style \in Styles
    BY <2>3, <2>4 DEF Kept
  <2>. QED
    BY <2>1, <2>2, <2>5, Settles
<1>2. CASE ~h.pending_newline
  BY <1>2 DEF ReadyOf
<1>. QED
  BY <1>1, <1>2

(* What only writes tags, or remembers that it has.                          *)
Alike(h, g) ==
    /\ g.segments = h.segments /\ g.pending_newline = h.pending_newline /\ g.style = h.style
    /\ g.link = h.link /\ g.stream = h.stream /\ g.utf8 = h.utf8 /\ g.chart = h.chart
    /\ g.page.text = h.page.text

LEMMA AlikeCore ==
    ASSUME NEW h, NEW g, Alike(h, g), NEW a, NEW p, NEW v, Core(h, a, p, v)
    PROVE  Core(g, a, p, v)
<1>0. /\ g.segments = h.segments /\ g.pending_newline = h.pending_newline /\ g.style = h.style
      /\ g.link = h.link /\ g.stream = h.stream /\ g.utf8 = h.utf8 /\ g.chart = h.chart
      /\ g.page.text = h.page.text
  BY DEF Alike
<1>1. WaitingOf(g) = WaitingOf(h)
  BY <1>0, Zenon DEF WaitingOf, LeadOf, AsChar
<1>2. \A rest, L, r : On(h, rest, L, r) => On(g, rest, L, r)
  BY <1>0, Zenon DEF On, Collected
<1>3. \A style, L, r : Reached(h, a, style, L, r) => Reached(g, a, style, L, r)
  BY <1>0, Zenon DEF Reached
<1>4. \A style, rest : LineAt(h, a, style, rest) => LineAt(g, a, style, rest)
  BY <1>0, <1>2, <1>3, Zenon DEF LineAt
<1>5. \A done, rest : Parts(h, a, p.style, v, done, rest) => Parts(g, a, p.style, v, done, rest)
  BY <1>0, <1>1, <1>4, Zenon DEF Parts
<1>. QED
  BY <1>0, <1>5, Zenon DEF Core

LEMMA GainsAlike ==
    ASSUME NEW h, h.page \in Page, NEW g, NEW box, Gains(h, g, <<>>, box)
    PROVE  g.page.text = h.page.text
<1>. DEFINE none == <<>>
<1>1. PICK new : Fits(new, none, box) /\ g.page.text = h.page.text \o new
  BY DEF Gains
<1>2. new \in Seq(Glyph) /\ Len(new) = Len(none) /\ h.page.text \in Seq(Glyph)
  BY <1>1 DEF Fits, Page
<1>3. new = <<>>
  <2>1. Len(new) = 0
    BY <1>2
  <2>. QED
    BY <1>2, <2>1, EmptySeq
<1>4. \A t \in Seq(Glyph) : t \o <<>> = t
  OBVIOUS
<1>. QED
  BY <1>1, <1>2, <1>3, <1>4

-----------------------------------------------------------------------------
(* The steps.                                                                *)
LEMMA OpenAppend ==
    ASSUME NEW v \in Seq(Given), NEW x \in Given
    PROVE  Append(v, x) \in Seq(Given) /\ (OpenIn(Append(v, x)) <=> x.c # Newline)
<1>. DEFINE w == Append(v, x)
<1>1. w \in Seq(Given) /\ Len(w) = Len(v) + 1 /\ w[Len(v) + 1] = x /\ Len(v) \in Nat
  OBVIOUS
<1>. HIDE DEF w
<1>2. w # <<>> /\ w[Len(w)] = x
  BY <1>1
<1>3. Last(w) = x
  BY <1>2, Zenon DEF Last
<1>4. OpenIn(w) <=> x.c # Newline
  BY <1>2, <1>3 DEF OpenIn
<1>. QED
  BY <1>1, <1>4 DEF w

LEMMA AgreeOne ==
    ASSUME NEW x \in Given, NEW char \in Char, NEW box, Agrees(x, char, box)
    PROVE  AgreeAll(<<x>>, <<char>>, box)
<1>. DEFINE a == <<>>
            b == <<>>
<1>1. AgreeAll(a, b, box)
  BY DEF AgreeAll
<1>2. Append(a, x) = <<x>> /\ Append(b, char) = <<char>>
  OBVIOUS
<1>. HIDE DEF a, b
<1>. QED
  BY <1>1, <1>2, AgreeAppend

(* A newline ends the line that is read.                                     *)
LEMMA AtNewline ==
    ASSUME NEW h, ~h.pending_newline, NEW a, a # <<>>, Head(a).c = Newline, NEW p, NEW v, Core(h, a, p, v)
    PROVE  /\ h.utf8 = <<>> /\ ~Head(a).lead /\ Started(Tail(a), h.chart)
           /\ \E done, rest, L : Parts(h, a, p.style, v, done, rest) /\ On(h, rest, L, Len(AllOf(L)))
<1>1. PICK done, rest : Parts(h, a, p.style, v, done, rest)
  BY DEF Core
<1>2. PICK L, r : Reached(h, a, p.style, L, r) /\ On(h, rest, L, r)
  BY <1>1 DEF Parts, LineAt
<1>. DEFINE bytes == AllOf(L)
            n == Len(bytes)
<1>3. Reading(a, h.chart, L, r) /\ (h.utf8 # <<>> => r >= 1 /\ bytes[r] = Mid)
  BY <1>2 DEF Reached
<1>4. /\ r < n => Head(a).c = bytes[r + 1]
      /\ r = n => ~Head(a).lead /\ Started(Tail(a), h.chart)
      /\ Lined(L, h.chart) /\ r \in 0 .. n
  BY <1>3, ReadingStep
<1>5. bytes \in Seq(Strings)
      /\ \A i \in 1 .. n : bytes[i] # Newline /\ (bytes[i] = Mid => i < n)
  BY <1>4, LineIs DEF Mid
<1>. HIDE DEF bytes
<1>6. n \in Nat
  BY <1>5
<1>. HIDE DEF n
<1>7. r = n
  <2>1. ASSUME r < n PROVE FALSE
    <3>1. r + 1 \in 1 .. n
      BY <1>4, <1>6, <2>1
    <3>. QED
      BY <1>4, <1>5, <2>1, <3>1
  <2>. QED
    BY <1>4, <1>6, <2>1
<1>8. h.utf8 = <<>>
  <2>1. ASSUME h.utf8 # <<>> PROVE FALSE
    <3>1. r \in 1 .. n /\ bytes[r] = Mid
      BY <1>3, <1>4, <1>6, <2>1
    <3>2. r < n
      BY <1>5, <3>1
    <3>. QED
      BY <1>6, <1>7, <3>2
  <2>. QED
    BY <2>1
<1>. QED
  BY <1>1, <1>2, <1>4, <1>7, <1>8 DEF n, bytes

LEMMA BreakAlone ==
    ASSUME NEW h, Bridge(h), Opens(h), ~h.pending_newline, h.stream = "none", TextOf(h.segments) = <<>>,
           NEW a, a # <<>>, Head(a).c = Newline, NEW p, NEW v, Core(h, a, p, v),
           NEW x \in Given, x.c = Newline, ~x.lead, x.box <=> h.chart # "none"
    PROVE  Core(Clear(FlushLine(h, FALSE)), Tail(a), p, Append(v, x))
<1>. DEFINE g == Clear(FlushLine(h, FALSE))
            box == h.chart # "none"
            chars == <<LineBreak>>
            items == <<x>>
<1>1. Started(Tail(a), h.chart)
  BY AtNewline
<1>2. ~OpenIn(v) /\ h.style = p.style /\ h.link = p.link
  BY DEF Core
<1>3. SettledAt(h, v)
  BY <1>2, IdleSettled
<1>4. Beside(h, g) /\ Gains(h, g, chars, box)
  BY EmptyLineIs
<1>5. LineBreak \in Char
  BY Named, StyleAssumption DEF LineBreak, Char
<1>6. LineBreak.c = Newline
  BY DEF LineBreak
<1>7. AgreeAll(items, chars, box)
  <2>1. Agrees(x, LineBreak, box)
    <3>1. x.box = box
      <4>1. x.box \in BOOLEAN
        BY DEF Given
      <4>. QED
        BY <4>1
    <3>. QED
      BY <1>6, <3>1 DEF Agrees
  <2>. QED
    BY <1>5, <2>1, AgreeOne
<1>8. Rest(chars, 0) = chars
  <2>1. chars \in Seq(Char) /\ 0 \in 0 .. Len(chars)
    BY <1>5
  <2>. QED
    BY <2>1, TwoParts
<1>9. Leads(items, 0) /\ 0 \in 0 .. Len(items)
  BY DEF Leads
<1>10. v \in Seq(Given) /\ FitsGiven(h.page.text, Shows(v))
  BY <1>3 DEF SettledAt
<1>. HIDE DEF g, box, chars, items
<1>11. FitsGiven(g.page.text, Shows(v \o items))
  BY <1>4, <1>7, <1>8, <1>9, <1>10, GainsGiven
<1>12. v \o items = Append(v, x)
  BY <1>10, GivenSeq DEF items
<1>13. Append(v, x) \in Seq(Given) /\ ~OpenIn(Append(v, x))
  BY <1>10, OpenAppend
<1>14. SettledAt(g, Append(v, x))
  BY <1>3, <1>4, <1>11, <1>12, <1>13 DEF SettledAt, Beside
<1>15. g.style = p.style /\ g.link = p.link /\ g.chart = h.chart /\ p.style \in Styles
  BY <1>2, <1>4 DEF Beside, Kept, Bridge, HtmlState
<1>16. Core(g, Tail(a), p, Append(v, x))
  BY <1>1, <1>14, <1>15, Settles
<1>. QED
  BY <1>16 DEF g

LEMMA BreakPends ==
    ASSUME NEW h, Bridge(h), Opens(h), ~h.pending_newline, ~(h.stream = "none" /\ TextOf(h.segments) = <<>>),
           NEW a, a # <<>>, Head(a).c = Newline, NEW p, NEW v, Core(h, a, p, v),
           NEW x \in Given, x.c = Newline, ~x.lead, x.box <=> h.chart # "none",
           NEW g, g = [h EXCEPT !.pending_newline = TRUE]
    PROVE  Core(g, Tail(a), p, Append(v, x))
<1>. DEFINE box == h.chart # "none"
            held == Held(h.segments)
            w == Append(v, x)
<1>1. h.utf8 = <<>> /\ Started(Tail(a), h.chart)
  BY AtNewline
<1>2. PICK done, rest, L : Parts(h, a, p.style, v, done, rest) /\ On(h, rest, L, Len(AllOf(L)))
  BY AtNewline
<1>3. /\ done \in Seq(Given) /\ v = done \o rest /\ FitsGiven(h.page.text, Shows(done))
      /\ AgreeAll(rest, WaitingOf(h), box) /\ (h.stream = "none" => ~OpenIn(done))
  BY <1>2 DEF Parts
<1>4. /\ Kept(h, g) /\ g.pending_newline
      /\ g.page = h.page /\ g.segments = h.segments /\ g.stream = h.stream /\ g.utf8 = h.utf8
  BY PendIs
<1>5. held \in Seq(Char)
  BY HeldType DEF Bridge, HtmlState
<1>6. LineBreak \in Char /\ LineBreak.c = Newline
  BY Named, StyleAssumption DEF LineBreak, Char
<1>. DEFINE more == Append(rest, x)
<1>7. WaitingOf(h) = held /\ WaitingOf(g) = Append(held, LineBreak)
  <2>1. \A s \in Seq(Char) : s \o <<>> = s /\ s \o <<LineBreak>> = Append(s, LineBreak)
    BY <1>6
  <2>2. WaitingOf(h) = held \o <<>>
    BY <1>1 DEF WaitingOf, When
  <2>3. WaitingOf(g) = held \o <<LineBreak>>
    BY <1>1, <1>4 DEF WaitingOf, When
  <2>. HIDE DEF held
  <2>. QED
    BY <1>5, <2>1, <2>2, <2>3
<1>8. AgreeAll(more, WaitingOf(g), box)
  <2>1. Agrees(x, LineBreak, box)
    <3>1. x.box = box
      <4>1. x.box \in BOOLEAN
        BY DEF Given
      <4>. QED
        BY <4>1
    <3>. QED
      BY <1>6, <3>1 DEF Agrees
  <2>2. AgreeAll(rest, held, box)
    BY <1>3, <1>7
  <2>. HIDE DEF box, held
  <2>. QED
    BY <1>6, <1>7, <2>1, <2>2, AgreeAppend
<1>9. rest \in Seq(Given) /\ Len(rest) = Len(held)
  BY <1>3, <1>7 DEF AgreeAll
<1>10. w \in Seq(Given) /\ ~OpenIn(w) /\ w = done \o more
  <2>1. v \in Seq(Given)
    BY DEF Core
  <2>2. done \o Append(rest, x) = Append(done \o rest, x)
    BY <1>3, <1>9, GivenSeq
  <2>. QED
    BY <1>3, <2>1, <2>2, OpenAppend
<1>11. Leads(more, Mark(L))
  <2>. DEFINE m == Mark(L)
              n == Len(rest)
  <2>1. m \in 0 .. n
    BY <1>2, <1>9, LineOut
  <2>2. \A i \in 1 .. n : rest[i].lead <=> i <= m
    BY <1>2 DEF On, Leads
  <2>3. Len(more) = n + 1 /\ more[n + 1] = x /\ n \in Nat /\ \A i \in 1 .. n : more[i] = rest[i]
    BY <1>9
  <2>. HIDE DEF m, n, more
  <2>4. ASSUME NEW i \in 1 .. Len(more)
        PROVE  more[i].lead <=> i <= m
    <3>1. CASE i \in 1 .. n
      BY <2>2, <2>3, <3>1
    <3>2. CASE i = n + 1
      BY <2>1, <2>3, <3>2
    <3>. QED
      BY <2>3, <3>1, <3>2
  <2>. QED
    BY <2>4 DEF Leads, m
<1>12. On(g, more, L, Len(AllOf(L)))
  <2>1. /\ Lined(L, h.chart) /\ Len(AllOf(L)) \in 0 .. Len(AllOf(L))
        /\ h.stream = "none" => Collected(h, L, Len(AllOf(L)))
        /\ h.stream # "none" => Mark(L) = 0
    BY <1>2, Zenon DEF On
  <2>2. h.stream = "none" => Collected(g, L, Len(AllOf(L)))
    BY <1>4, <2>1, Zenon DEF Collected
  <2>3. g.chart = h.chart
    BY <1>4 DEF Kept
  <2>. HIDE DEF more
  <2>. QED
    BY <1>4, <1>11, <2>1, <2>2, <2>3, Zenon DEF On
<1>13. g.style = p.style /\ g.link = p.link /\ g.chart = h.chart
  BY <1>4 DEF Kept, Core
<1>14. LineAt(g, Tail(a), p.style, more)
  <2>. HIDE DEF more
  <2>. QED
    BY <1>1, <1>4, <1>12, <1>13 DEF LineAt
<1>15. Parts(g, Tail(a), p.style, w, done, more)
  <2>. HIDE DEF more, w
  <2>. QED
    BY <1>3, <1>4, <1>8, <1>10, <1>13, <1>14 DEF Parts
<1>. HIDE DEF w, more
<1>16. Core(g, Tail(a), p, w)
  BY <1>4, <1>10, <1>13, <1>15 DEF Core
<1>. QED
  BY <1>16 DEF w

(* Any other byte is the next one of the line.                               *)
Late == "e2"
Stands(h, a, style, rest, L, r) ==
    /\ AllOf(L) \in Seq(Strings) /\ r \in Nat /\ r + 1 \in 1 .. Len(AllOf(L))
    /\ Head(a).c = AllOf(L)[r + 1] /\ (Head(a).lead <=> r + 1 <= Len(L.lead))
    /\ Reading(Tail(a), h.chart, L, r + 1) /\ style \in Selected(AllOf(L), r)
    /\ On(h, rest, L, r)
    /\ h.utf8 # <<>> => Head(a).c = Late

LEMMA AtByte ==
    ASSUME NEW h, ~h.pending_newline, NEW a, a # <<>>, Head(a).c # Newline, NEW p, NEW v, Core(h, a, p, v)
    PROVE  \E done, rest, L, r : Parts(h, a, p.style, v, done, rest) /\ Stands(h, a, p.style, rest, L, r)
<1>1. PICK done, rest : Parts(h, a, p.style, v, done, rest)
  BY DEF Core
<1>2. PICK L, r : Reached(h, a, p.style, L, r) /\ On(h, rest, L, r)
  BY <1>1 DEF Parts, LineAt
<1>. DEFINE bytes == AllOf(L)
            n == Len(bytes)
<1>3. Reading(a, h.chart, L, r) /\ (h.utf8 # <<>> => r >= 1 /\ bytes[r] = Mid) /\ p.style \in Selected(bytes, r)
  BY <1>2 DEF Reached
<1>4. /\ r < n => /\ Head(a).c = bytes[r + 1] /\ (Head(a).lead <=> r + 1 <= Len(L.lead))
                  /\ Reading(Tail(a), h.chart, L, r + 1)
      /\ r = n => Head(a).c = Newline
      /\ Lined(L, h.chart) /\ r \in 0 .. n
  BY <1>3, ReadingStep
<1>5. bytes \in Seq(Strings) /\ \A i \in 1 .. n : bytes[i] = Mid => bytes[i + 1] = Late
  BY <1>4, LineIs DEF Mid, Late
<1>. HIDE DEF bytes
<1>6. n \in Nat
  BY <1>5
<1>. HIDE DEF n
<1>7. r < n /\ r \in Nat /\ r + 1 \in 1 .. n
  BY <1>4, <1>6
<1>8. ASSUME h.utf8 # <<>> PROVE Head(a).c = Late
  <2>1. r \in 1 .. n /\ bytes[r] = Mid
    BY <1>3, <1>6, <1>7, <1>8
  <2>. QED
    BY <1>4, <1>5, <1>7, <2>1
<1>9. Stands(h, a, p.style, rest, L, r)
  BY <1>2, <1>3, <1>4, <1>5, <1>7, <1>8 DEF Stands, bytes, n
<1>. QED
  BY <1>1, <1>9

LEMMA EscapeRead ==
    ASSUME NEW h, Bridge(h), Opens(h), ~h.pending_newline, NEW a, a # <<>>, Head(a).c \in Escapes,
           NEW p, NEW v, Core(h, a, p, v), NEW style \in Styles, NEW link \in LinkNames,
           Head(a).c \in Styles => style = Head(a).c, Head(a).c \notin Styles => style = p.style,
           NEW q, q.style = style, q.link = link
    PROVE  Core(Restyled(h, style, link), Tail(a), q, v)
<1>. DEFINE g == Restyled(h, style, link)
            c == Head(a).c
<1>1. c # Newline /\ c # Late /\ c # Mid
  <2>1. Late \in DOMAIN Utf8 /\ Mid \in DOMAIN Utf8
    BY DEF Utf8, Late, Mid
  <2>. QED
    BY <2>1, EscapeAssumption
<1>2. PICK done, rest, L, r : Parts(h, a, p.style, v, done, rest) /\ Stands(h, a, p.style, rest, L, r)
  BY <1>1, AtByte
<1>. DEFINE bytes == AllOf(L)
<1>3. /\ bytes \in Seq(Strings) /\ r \in Nat /\ r + 1 \in 1 .. Len(bytes) /\ c = bytes[r + 1]
      /\ Reading(Tail(a), h.chart, L, r + 1) /\ p.style \in Selected(bytes, r) /\ On(h, rest, L, r)
      /\ h.utf8 # <<>> => c = Late
  BY <1>2 DEF Stands
<1>4. /\ g.chart = h.chart /\ g.style = style /\ g.link = link
      /\ g.page = h.page /\ g.segments = h.segments /\ g.pending_newline = h.pending_newline
      /\ g.stream = h.stream /\ g.utf8 = h.utf8
  BY RestyleIs
<1>5. h.utf8 = <<>>
  BY <1>1, <1>3
<1>. HIDE DEF g, c, bytes
<1>6. WaitingOf(g) = WaitingOf(h)
  BY <1>4, <1>5, Zenon DEF WaitingOf
<1>7. bytes[r + 1] \in Escapes
  BY <1>3 DEF c
<1>8. On(g, rest, L, r + 1)
  <2>1. Chars(Upto(bytes, r + 1)) = Chars(Upto(bytes, r))
    BY <1>3, <1>7, CountStep
  <2>2. /\ Lined(L, h.chart) /\ Leads(rest, Mark(L))
        /\ h.stream = "none" => Collected(h, L, r)
        /\ h.stream # "none" => Mark(L) = 0
    BY <1>3, Zenon DEF On
  <2>3. h.stream = "none" => Collected(g, L, r + 1)
    BY <1>4, <2>1, <2>2, Zenon DEF Collected, bytes
  <2>4. r + 1 \in 0 .. Len(bytes)
    BY <1>3
  <2>. QED
    BY <1>4, <2>2, <2>3, <2>4, Zenon DEF On, bytes
<1>9. style \in Selected(bytes, r + 1)
  <2>1. CASE c \in Styles
    BY <1>3, <2>1, SelectedIs DEF c
  <2>2. CASE c \notin Styles
    BY <1>3, <2>2, SelectedIs DEF c
  <2>. QED
    BY <2>1, <2>2
<1>10. Reached(g, Tail(a), style, L, r + 1)
  BY <1>3, <1>4, <1>5, <1>9 DEF Reached, bytes
<1>11. LineAt(g, Tail(a), style, rest)
  BY <1>4, <1>8, <1>10 DEF LineAt
<1>12. Parts(g, Tail(a), style, v, done, rest)
  BY <1>2, <1>4, <1>6, <1>11, Zenon DEF Parts
<1>13. v \in Seq(Given) /\ (OpenIn(v) <=> ~h.pending_newline /\ (h.stream # "none" \/ TextOf(h.segments) # <<>>))
  BY DEF Core
<1>14. Core(g, Tail(a), q, v)
  BY <1>4, <1>12, <1>13 DEF Core
<1>. QED
  BY <1>14 DEF g

(* A byte is collected.                                                      *)
LEMMA ByteCollected ==
    ASSUME NEW h, Bridge(h), Opens(h), ~h.pending_newline, h.stream = "none",
           NEW a, a # <<>>, Head(a).c \in Strings, Head(a).c \notin Escapes, Head(a).c # Newline,
           NEW p, NEW v, Core(h, a, p, v),
           NEW x \in Given, x.c = Head(a).c, x.lead = Head(a).lead, x.style = p.style, x.link = p.link,
           x.box <=> h.chart # "none"
    PROVE  Core(AppendByte(h, Head(a).c), Tail(a), p, Append(v, x))
<1>. DEFINE c == Head(a).c
            g == AppendByte(h, c)
            box == h.chart # "none"
            char == AsChar(h, c)
            held == Held(h.segments)
            w == Append(v, x)
<1>1. PICK done, rest, L, r : Parts(h, a, p.style, v, done, rest) /\ Stands(h, a, p.style, rest, L, r)
  BY AtByte
<1>. DEFINE bytes == AllOf(L)
            m == Mark(L)
            more == Append(rest, x)
<1>2. /\ bytes \in Seq(Strings) /\ r \in Nat /\ r + 1 \in 1 .. Len(bytes) /\ c = bytes[r + 1]
      /\ (Head(a).lead <=> r + 1 <= Len(L.lead))
      /\ Reading(Tail(a), h.chart, L, r + 1) /\ p.style \in Selected(bytes, r) /\ On(h, rest, L, r)
  BY <1>1 DEF Stands
<1>3. /\ done \in Seq(Given) /\ v = done \o rest /\ FitsGiven(h.page.text, Shows(done))
      /\ AgreeAll(rest, WaitingOf(h), box) /\ ~OpenIn(done)
  BY <1>1 DEF Parts
<1>4. c \in Strings /\ c \notin Escapes /\ c # Newline
  OBVIOUS
<1>. HIDE DEF c
<1>5. /\ Bridge(g) /\ Kept(h, g) /\ g.stream = "none" /\ g.utf8 = <<>>
      /\ g.pending_newline = h.pending_newline /\ g.page = h.page
      /\ TextOf(g.segments) = Append(TextOf(h.segments), c)
      /\ Held(g.segments) = Append(held, char)
  BY <1>4, CollectIs
<1>6. char \in Char
  BY <1>4, AppendByteIs DEF Bridge
<1>. HIDE DEF g, bytes
<1>7. held \in Seq(Char) /\ TextOf(h.segments) \in Seq(Strings) /\ Len(held) = Len(TextOf(h.segments))
  BY HeldType, HeldLength DEF Bridge, HtmlState
<1>8. WaitingOf(h) = held /\ WaitingOf(g) = Append(held, char)
  <2>1. \A s \in Seq(Char) : s \o <<>> = s
    OBVIOUS
  <2>2. h.utf8 = <<>>
    BY DEF Bridge
  <2>3. WaitingOf(h) = held \o <<>>
    BY <2>2 DEF WaitingOf, When
  <2>4. WaitingOf(g) = Append(held, char) \o <<>>
    BY <1>5 DEF WaitingOf, When
  <2>5. Append(held, char) \in Seq(Char)
    BY <1>6, <1>7
  <2>. HIDE DEF held, char
  <2>. QED
    BY <1>7, <2>1, <2>3, <2>4, <2>5
<1>9. AgreeAll(more, WaitingOf(g), box)
  <2>1. Agrees(x, char, box)
    <3>1. x.box = box
      <4>1. x.box \in BOOLEAN
        BY DEF Given
      <4>. QED
        BY <4>1
    <3>2. char.c = c /\ char.style = p.style /\ char.link = p.link
      BY DEF AsChar, Core
    <3>3. x.c = c
      BY DEF c
    <3>. HIDE DEF char, box
    <3>. QED
      BY <3>1, <3>2, <3>3 DEF Agrees
  <2>2. AgreeAll(rest, held, box)
    BY <1>3, <1>8
  <2>. HIDE DEF box, held, char
  <2>. QED
    BY <1>6, <1>8, <2>1, <2>2, AgreeAppend
<1>10. rest \in Seq(Given) /\ Len(rest) = Len(held)
  BY <1>3, <1>8 DEF AgreeAll
<1>11. w \in Seq(Given) /\ OpenIn(w) /\ w = done \o more
  <2>1. v \in Seq(Given)
    BY DEF Core
  <2>2. done \o Append(rest, x) = Append(done \o rest, x)
    BY <1>3, <1>10, GivenSeq
  <2>3. x.c # Newline
    BY <1>4 DEF c
  <2>. QED
    BY <1>3, <2>1, <2>2, <2>3, OpenAppend
<1>12. /\ Lined(L, h.chart) /\ r \in 0 .. Len(bytes) /\ Leads(rest, m)
       /\ TextOf(h.segments) = Chars(Upto(bytes, r))
       /\ \A k \in 1 .. Len(held) : held[k].style \in StylesAfter(bytes, k - 1)
  BY <1>2 DEF On, Collected, bytes
<1>13. /\ Chars(Upto(bytes, r + 1)) = Append(Chars(Upto(bytes, r)), c)
       /\ Count(bytes, r) = Len(held) /\ Len(held) \in Nat
  <2>1. bytes[r + 1] \notin Escapes
    BY <1>2, <1>4
  <2>2. Chars(Upto(bytes, r + 1)) = Append(Chars(Upto(bytes, r)), c)
    BY <1>2, <2>1, CountStep
  <2>. QED
    BY <1>7, <1>12, <2>2 DEF Count
<1>14. Leads(more, m)
  <2>. DEFINE n == Len(rest)
  <2>1. x.lead <=> n + 1 <= m
    <3>1. bytes[r + 1] \notin Escapes
      BY <1>2, <1>4
    <3>2. r + 1 <= Len(L.lead) <=> Count(bytes, r) + 1 <= m
      BY <1>2, <1>12, <3>1, LeadFlag DEF bytes
    <3>. QED
      BY <1>2, <1>10, <1>13, <3>2
  <2>2. \A i \in 1 .. n : rest[i].lead <=> i <= m
    BY <1>12 DEF Leads
  <2>3. Len(more) = n + 1 /\ more[n + 1] = x /\ n \in Nat /\ \A i \in 1 .. n : more[i] = rest[i]
    BY <1>10
  <2>. HIDE DEF m, n, more
  <2>4. ASSUME NEW i \in 1 .. Len(more)
        PROVE  more[i].lead <=> i <= m
    <3>1. CASE i \in 1 .. n
      BY <2>2, <2>3, <3>1
    <3>2. CASE i = n + 1
      BY <2>1, <2>3, <3>2
    <3>. QED
      BY <2>3, <3>1, <3>2
  <2>. QED
    BY <2>4 DEF Leads
<1>15. Collected(g, L, r + 1)
  <2>. DEFINE now == Append(held, char)
              n == Len(held)
  <2>1. char.style = p.style
    BY DEF AsChar, Core
  <2>2. p.style \in StylesAfter(bytes, n)
    <3>1. bytes[r + 1] \notin Escapes
      BY <1>2, <1>4
    <3>. QED
      BY <1>2, <1>13, <3>1, SelectedIs
  <2>. HIDE DEF char
  <2>3. Len(now) = n + 1 /\ now[n + 1] = char /\ n \in Nat /\ \A i \in 1 .. n : now[i] = held[i]
    BY <1>6, <1>7
  <2>. HIDE DEF now, n
  <2>4. ASSUME NEW i \in 1 .. Len(now)
        PROVE  now[i].style \in StylesAfter(bytes, i - 1)
    <3>1. CASE i \in 1 .. n
      BY <1>12, <2>3, <3>1 DEF n
    <3>2. CASE i = n + 1
      <4>1. i - 1 = n
        BY <2>3, <3>2
      <4>. QED
        BY <2>1, <2>2, <2>3, <3>2, <4>1
    <3>. QED
      BY <2>3, <3>1, <3>2
  <2>. QED
    BY <1>5, <1>12, <1>13, <2>4 DEF Collected, now, bytes
<1>16. On(g, more, L, r + 1)
  <2>1. r + 1 \in 0 .. Len(bytes)
    BY <1>2
  <2>. HIDE DEF more
  <2>. QED
    BY <1>5, <1>12, <1>14, <1>15, <2>1, Zenon DEF On, Kept, bytes, m
<1>17. Reached(g, Tail(a), p.style, L, r + 1)
  <2>1. p.style \in Selected(bytes, r + 1)
    <3>1. bytes[r + 1] \notin Styles
      BY <1>2, <1>4 DEF Escapes
    <3>. QED
      BY <1>2, <3>1, SelectedIs
  <2>. QED
    BY <1>2, <1>5, <2>1 DEF Reached, Kept, bytes
<1>. HIDE DEF more, w
<1>18. LineAt(g, Tail(a), p.style, more)
  BY <1>5, <1>16, <1>17 DEF LineAt
<1>19. Parts(g, Tail(a), p.style, w, done, more)
  BY <1>3, <1>5, <1>9, <1>11, <1>18 DEF Parts, Kept
<1>20. TextOf(g.segments) # <<>>
  BY <1>5, <1>7, <1>4
<1>21. Core(g, Tail(a), p, w)
  BY <1>5, <1>11, <1>19, <1>20 DEF Core, Kept
<1>. QED
  BY <1>21 DEF g, w, c

(* The line that is collected is streamed from here on.                      *)
LEMMA BegunCore ==
    ASSUME NEW h, Bridge(h), ~h.pending_newline, h.stream = "none",
           NEW b, NEW p, NEW w, Core(h, b, p, w), NEW g, Begun(h, g)
    PROVE  Core(g, b, p, w)
<1>. DEFINE held == Held(h.segments)
            none == <<>>
            box == h.chart # "none"
            no == FALSE
<1>1. /\ h.chart = "none" /\ StreamKind(TextOf(h.segments)) # "none"
      /\ Bridge(g) /\ Kept(h, g) /\ g.stream # "none" /\ g.utf8 = <<>>
      /\ g.pending_newline = h.pending_newline /\ Gains(h, g, held, no)
  BY DEF Begun
<1>2. PICK done, rest : Parts(h, b, p.style, w, done, rest)
  BY DEF Core
<1>3. /\ done \in Seq(Given) /\ w = done \o rest /\ FitsGiven(h.page.text, Shows(done))
      /\ AgreeAll(rest, WaitingOf(h), box) /\ LineAt(h, b, p.style, rest)
  BY <1>2 DEF Parts
<1>4. PICK L, r : Reached(h, b, p.style, L, r) /\ On(h, rest, L, r)
  BY <1>3 DEF LineAt
<1>5. Lined(L, h.chart) /\ r \in 0 .. Len(AllOf(L)) /\ Leads(rest, Mark(L)) /\ Collected(h, L, r)
  BY <1>4 DEF On
<1>6. Mark(L) = 0
  <2>1. StreamKind(Chars(Upto(AllOf(L), r))) # "none"
    BY <1>1, <1>5 DEF Collected
  <2>. QED
    BY <1>1, <1>5, <2>1, LineBegins
<1>7. held \in Seq(Char) /\ TextOf(h.segments) \in Seq(Strings)
  BY HeldType DEF Bridge, HtmlState
<1>8. WaitingOf(h) = held
  <2>1. \A s \in Seq(Char) : s \o <<>> = s
    OBVIOUS
  <2>2. h.utf8 = <<>>
    BY DEF Bridge
  <2>3. WaitingOf(h) = held \o <<>>
    BY <2>2 DEF WaitingOf, When
  <2>. HIDE DEF held
  <2>. QED
    BY <1>7, <2>1, <2>3
<1>9. held = Rest(held, 0)
  BY <1>7, TwoParts
<1>10. 0 \in 0 .. Len(rest) /\ Leads(rest, 0) /\ AgreeAll(rest, held, box) /\ rest \in Seq(Given)
  BY <1>3, <1>5, <1>6, <1>8 DEF AgreeAll
<1>11. box = no
  BY <1>1
<1>. HIDE DEF held, box, no
<1>12. FitsGiven(g.page.text, Shows(w))
  BY <1>1, <1>3, <1>9, <1>10, <1>11, GainsGiven
<1>13. g.segments = <<>>
  BY <1>1 DEF Bridge
<1>14. WaitingOf(g) = none /\ AgreeAll(none, WaitingOf(g), g.chart # "none")
  BY <1>1, <1>13, NothingWaits
<1>15. w \in Seq(Given) /\ w = w \o none
  BY <1>3, <1>10, GivenSeq
<1>16. TextOf(h.segments) # <<>>
  BY <1>1, <1>7, StreamKindIs
<1>17. OpenIn(w)
  BY <1>16 DEF Core
<1>18. Leads(none, Mark(L))
  BY DEF Leads
<1>. HIDE DEF none
<1>19. On(g, none, L, r)
  BY <1>1, <1>5, <1>6, <1>18 DEF On, Kept
<1>20. Reached(g, b, p.style, L, r)
  BY <1>1, <1>4 DEF Reached, Kept
<1>21. LineAt(g, b, p.style, none)
  BY <1>1, <1>19, <1>20 DEF LineAt
<1>22. Parts(g, b, p.style, w, w, none)
  BY <1>1, <1>12, <1>14, <1>15, <1>21 DEF Parts
<1>. QED
  BY <1>1, <1>15, <1>17, <1>22 DEF Core, Kept

(* A byte is streamed.                                                       *)
LEMMA OneThenOne ==
    ASSUME NEW S, NEW y \in S, NEW z \in S
    PROVE  Append(<<y>>, z) = <<y, z>> /\ <<y>> \in Seq(S)
<1>. DEFINE one == <<y>>
            two == <<y, z>>
            more == Append(one, z)
<1>1. one \in Seq(S) /\ Len(one) = 1 /\ one[1] = y
  OBVIOUS
<1>2. two \in Seq(S) /\ Len(two) = 2 /\ two[1] = y /\ two[2] = z
  OBVIOUS
<1>. HIDE DEF one, two
<1>3. more \in Seq(S) /\ Len(more) = 2 /\ more[1] = y /\ more[2] = z
  <2>1. \A s \in Seq(S) : /\ Append(s, z) \in Seq(S) /\ Len(Append(s, z)) = Len(s) + 1
                         /\ Append(s, z)[Len(s) + 1] = z /\ \A i \in 1 .. Len(s) : Append(s, z)[i] = s[i]
    OBVIOUS
  <2>2. more \in Seq(S) /\ Len(more) = Len(one) + 1 /\ more[Len(one) + 1] = z
        /\ \A i \in 1 .. Len(one) : more[i] = one[i]
    BY <1>1, <2>1, Zenon
  <2>3. Len(one) + 1 = 2 /\ 1 \in 1 .. Len(one)
    BY <1>1
  <2>. HIDE DEF more
  <2>. QED
    BY <1>1, <2>2, <2>3
<1>. HIDE DEF more
<1>4. \A i \in 1 .. Len(two) : more[i] = two[i]
  <2>1. 1 .. Len(two) = {1, 2}
    BY <1>2
  <2>. QED
    BY <1>2, <1>3, <2>1
<1>5. more = two
  BY <1>2, <1>3, <1>4, SeqEqual
<1>. QED
  BY <1>1, <1>5 DEF one, two, more

LEMMA StreamsHeld ==
    ASSUME NEW h, Bridge(h), h.stream # "none", ~h.pending_newline, NEW c \in Strings
    PROVE  /\ HeldIn(SegOf(h, Append(h.utf8, c))) = Append(WaitingOf(h), AsChar(h, c))
           /\ h.utf8 = <<>> => WaitingOf(h) = <<>>
           /\ WaitingOf(h) \in Seq(Char) /\ AsChar(h, c) \in Char
<1>. DEFINE none == <<>>
            char == AsChar(h, c)
            lead == AsChar(h, Mid)
<1>1. h.segments = none /\ h \in HtmlState
  BY DEF Bridge
<1>2. Mid \in Strings
  BY DEF Mid, Strings
<1>3. char \in Char /\ lead \in Char
  BY <1>1, <1>2, AppendByteIs
<1>4. Held(h.segments) = none /\ When(h.pending_newline, <<LineBreak>>) = none /\ none \o none = none
  BY <1>1, TextOfAppend DEF When
<1>5. h.utf8 = none \/ h.utf8 = <<Mid>>
  BY <1>1 DEF HtmlState, Mid
<1>6. CASE h.utf8 = none
  <2>1. WaitingOf(h) = none
    BY <1>4, <1>6 DEF WaitingOf
  <2>2. Append(h.utf8, c) = <<c>> /\ Append(none, char) = <<char>> /\ none \in Seq(Char)
    BY <1>6
  <2>3. HeldIn(SegOf(h, <<c>>)) = <<char>>
    BY DEF HeldIn, SegOf, AsChar
  <2>. HIDE DEF char, none
  <2>. QED
    BY <1>3, <1>6, <2>1, <2>2, <2>3 DEF char, none
<1>7. CASE h.utf8 = <<Mid>>
  <2>1. WaitingOf(h) = <<lead>>
    BY <1>7 DEF WaitingOf, LeadOf
  <2>2. Append(h.utf8, c) = <<Mid, c>>
    BY <1>2, <1>7, OneThenOne
  <2>3. HeldIn(SegOf(h, <<Mid, c>>)) = <<lead, char>>
    BY DEF HeldIn, SegOf, AsChar
  <2>. HIDE DEF char, lead
  <2>4. Append(<<lead>>, char) = <<lead, char>> /\ <<lead>> \in Seq(Char)
    BY <1>3, OneThenOne
  <2>5. h.utf8 # <<>>
    BY <1>7
  <2>. QED
    BY <1>3, <2>1, <2>2, <2>3, <2>4, <2>5 DEF char
<1>. QED
  BY <1>5, <1>6, <1>7

LEMMA ByteStreamed ==
    ASSUME NEW h, Bridge(h), Opens(h), ~h.pending_newline, h.stream # "none",
           NEW a, a # <<>>, Head(a).c \in Strings, Head(a).c \notin Escapes, Head(a).c # Newline,
           NEW p, NEW v, Core(h, a, p, v),
           NEW x \in Given, x.c = Head(a).c, x.lead = Head(a).lead, x.style = p.style, x.link = p.link,
           x.box <=> h.chart # "none"
    PROVE  Core(EmitByte(h, Head(a).c), Tail(a), p, Append(v, x))
<1>. DEFINE c == Head(a).c
            g == EmitByte(h, c)
            box == h.chart # "none"
            no == FALSE
            char == AsChar(h, c)
            w == Append(v, x)
            none == <<>>
<1>1. PICK done, rest, L, r : Parts(h, a, p.style, v, done, rest) /\ Stands(h, a, p.style, rest, L, r)
  BY AtByte
<1>. DEFINE bytes == AllOf(L)
            items == Append(rest, x)
            chars == Append(WaitingOf(h), char)
<1>2. /\ bytes \in Seq(Strings) /\ r \in Nat /\ r + 1 \in 1 .. Len(bytes) /\ c = bytes[r + 1]
      /\ (Head(a).lead <=> r + 1 <= Len(L.lead))
      /\ Reading(Tail(a), h.chart, L, r + 1) /\ p.style \in Selected(bytes, r) /\ On(h, rest, L, r)
  BY <1>1 DEF Stands
<1>3. /\ done \in Seq(Given) /\ v = done \o rest /\ FitsGiven(h.page.text, Shows(done))
      /\ AgreeAll(rest, WaitingOf(h), box)
  BY <1>1 DEF Parts
<1>4. c \in Strings /\ c \notin Escapes /\ c # Newline
  OBVIOUS
<1>. HIDE DEF c
<1>5. /\ Streams(h, g)
      /\ \/ h.utf8 = <<>> /\ c = Mid /\ g.utf8 = <<Mid>> /\ g.page = h.page
         \/ g.utf8 = <<>> /\ Gains(h, g, HeldIn(SegOf(h, Append(h.utf8, c))), no)
  BY <1>4, EmitByteIs DEF Mid
<1>6. /\ Bridge(g) /\ Kept(h, g) /\ g.stream = h.stream /\ g.pending_newline = h.pending_newline
      /\ g.segments = h.segments
  BY <1>5 DEF Streams
<1>7. /\ HeldIn(SegOf(h, Append(h.utf8, c))) = chars /\ (h.utf8 = <<>> => WaitingOf(h) = <<>>)
      /\ WaitingOf(h) \in Seq(Char) /\ char \in Char
  BY <1>4, StreamsHeld
<1>8. Lined(L, h.chart) /\ Leads(rest, 0) /\ Mark(L) = 0
  BY <1>2 DEF On
<1>9. h.chart = "none" /\ box = no
  BY DEF Bridge
<1>10. AgreeAll(items, chars, box)
  <2>1. Agrees(x, char, box)
    <3>1. x.box = box
      <4>1. x.box \in BOOLEAN
        BY DEF Given
      <4>. QED
        BY <4>1
    <3>2. char.c = c /\ char.style = p.style /\ char.link = p.link
      BY DEF AsChar, Core
    <3>3. x.c = c
      BY DEF c
    <3>. HIDE DEF char, box
    <3>. QED
      BY <3>1, <3>2, <3>3 DEF Agrees
  <2>. HIDE DEF box, char
  <2>. QED
    BY <1>3, <1>7, <2>1, AgreeAppend
<1>11. rest \in Seq(Given) /\ Len(rest) = Len(WaitingOf(h))
  BY <1>3 DEF AgreeAll
<1>. HIDE DEF g, bytes
<1>12. w \in Seq(Given) /\ OpenIn(w) /\ w = done \o items /\ v \in Seq(Given)
  <2>1. v \in Seq(Given)
    BY DEF Core
  <2>2. done \o Append(rest, x) = Append(done \o rest, x)
    BY <1>3, <1>11, GivenSeq
  <2>3. x.c # Newline
    BY <1>4 DEF c
  <2>. QED
    BY <1>3, <2>1, <2>2, <2>3, OpenAppend
<1>13. Leads(items, 0) /\ 0 \in 0 .. Len(items)
  <2>. DEFINE n == Len(rest)
  <2>1. ~x.lead
    <3>1. bytes[r + 1] \notin Escapes
      BY <1>2, <1>4
    <3>2. r + 1 <= Len(L.lead) <=> Count(bytes, r) + 1 <= Mark(L)
      BY <1>2, <1>8, <3>1, LeadFlag DEF bytes
    <3>3. Count(bytes, r) \in Nat
      <4>1. r \in 0 .. Len(bytes)
        BY <1>2
      <4>. QED
        BY <1>2, <4>1, CountStep
    <3>4. ~(Count(bytes, r) + 1 <= 0)
      BY <3>3
    <3>. QED
      BY <1>2, <1>8, <3>2, <3>4
  <2>2. \A i \in 1 .. n : ~rest[i].lead
    BY <1>8 DEF Leads
  <2>3. Len(items) = n + 1 /\ items[n + 1] = x /\ n \in Nat /\ \A i \in 1 .. n : items[i] = rest[i]
    BY <1>11
  <2>. HIDE DEF n, items
  <2>4. ASSUME NEW i \in 1 .. Len(items)
        PROVE  ~items[i].lead /\ ~(i <= 0)
    <3>1. CASE i \in 1 .. n
      BY <2>2, <2>3, <3>1
    <3>2. CASE i = n + 1
      BY <2>1, <2>3, <3>2
    <3>. QED
      BY <2>3, <3>1, <3>2
  <2>5. 0 \in 0 .. Len(items)
    BY <2>3
  <2>. QED
    BY <2>4, <2>5 DEF Leads
<1>14. p.style \in Selected(bytes, r + 1) /\ r + 1 \in 0 .. Len(bytes) /\ r + 1 >= 1
  <2>1. bytes[r + 1] \notin Styles
    BY <1>2, <1>4 DEF Escapes
  <2>. QED
    BY <1>2, <2>1, SelectedIs
<1>15. g.style = p.style /\ g.link = p.link /\ g.chart = h.chart
  BY <1>6 DEF Core, Kept
<1>16. ASSUME NEW d, NEW s, Parts(g, Tail(a), p.style, w, d, s)
       PROVE  Core(g, Tail(a), p, w)
  BY <1>6, <1>12, <1>15, <1>16 DEF Core
<1>17. CASE h.utf8 = <<>> /\ c = Mid /\ g.utf8 = <<Mid>> /\ g.page = h.page
  <2>1. WaitingOf(h) = <<>> /\ g.utf8 # <<>>
    BY <1>7, <1>17
  <2>2. chars = <<char>>
    BY <2>1
  <2>3. WaitingOf(g) = <<AsChar(g, Mid)>>
    BY <2>1 DEF WaitingOf, LeadOf
  <2>4. AsChar(g, Mid) = char
    BY <1>6, <1>17 DEF AsChar, Kept
  <2>5. WaitingOf(g) = chars
    BY <2>2, <2>3, <2>4
  <2>. HIDE DEF chars, items, box, char
  <2>6. On(g, items, L, r + 1)
    BY <1>6, <1>8, <1>13, <1>14, <1>15 DEF On, bytes
  <2>7. Reached(g, Tail(a), p.style, L, r + 1)
    BY <1>2, <1>14, <1>15, <1>17 DEF Reached, bytes
  <2>8. LineAt(g, Tail(a), p.style, items)
    BY <1>6, <2>6, <2>7 DEF LineAt
  <2>. HIDE DEF w
  <2>9. Parts(g, Tail(a), p.style, w, done, items)
    BY <1>3, <1>6, <1>10, <1>12, <1>15, <1>17, <2>5, <2>8 DEF Parts, box
  <2>. QED
    BY <1>16, <2>9 DEF g, w, c
<1>18. CASE g.utf8 = <<>> /\ Gains(h, g, HeldIn(SegOf(h, Append(h.utf8, c))), no)
  <2>1. Gains(h, g, chars, box)
    BY <1>7, <1>9, <1>18
  <2>2. chars = Rest(chars, 0)
    <3>1. chars \in Seq(Char)
      BY <1>7
    <3>. HIDE DEF chars
    <3>. QED
      BY <3>1, TwoParts
  <2>. HIDE DEF chars, items, box, char, w, no
  <2>3. FitsGiven(g.page.text, Shows(w))
    BY <1>3, <1>10, <1>12, <1>13, <2>1, <2>2, GainsGiven
  <2>4. g.segments = <<>>
    BY <1>6 DEF Bridge
  <2>5. WaitingOf(g) = none /\ AgreeAll(none, WaitingOf(g), g.chart # "none")
    BY <1>6, <1>18, <2>4, NothingWaits
  <2>6. w = w \o none
    BY <1>12
  <2>7. Leads(none, Mark(L))
    BY DEF Leads
  <2>. HIDE DEF none
  <2>8. On(g, none, L, r + 1)
    BY <1>6, <1>8, <1>14, <1>15, <2>7 DEF On, bytes
  <2>9. Reached(g, Tail(a), p.style, L, r + 1)
    BY <1>2, <1>14, <1>15, <1>18 DEF Reached, bytes
  <2>10. LineAt(g, Tail(a), p.style, none)
    BY <1>6, <2>8, <2>9 DEF LineAt
  <2>11. Parts(g, Tail(a), p.style, w, w, none)
    BY <1>6, <1>12, <2>3, <2>5, <2>6, <2>10 DEF Parts
  <2>. QED
    BY <1>16, <2>11 DEF g, w, c
<1>. QED
  BY <1>5, <1>17, <1>18

(* More is written to a bridge that has read all there was.                  *)
LEMMA FeedsCore ==
    ASSUME NEW h, Bridge(h), NEW p, NEW v, Core(h, <<>>, p, v), NEW z, Started(z, h.chart)
    PROVE  /\ OpenIn(v) => Core(h, Break \o z, p, v)
           /\ ~OpenIn(v) => Core(h, z, p, v)
<1>. DEFINE none == <<>>
            y == Break \o z
<1>1. PICK done, rest : Parts(h, none, p.style, v, done, rest)
  BY DEF Core
<1>2. LineAt(h, none, p.style, rest)
  BY <1>1 DEF Parts
<1>3. h.style \in Styles /\ h.style = p.style /\ h.link = p.link
  BY DEF Core, Bridge, HtmlState
<1>4. \A b : LineAt(h, b, p.style, rest) => Parts(h, b, p.style, v, done, rest)
  BY <1>1, Zenon DEF Parts
<1>5. \A b : LineAt(h, b, p.style, rest) => Core(h, b, p, v)
  BY <1>4, Zenon DEF Core
<1>6. ASSUME OpenIn(v) PROVE Core(h, y, p, v)
  <2>1. ~h.pending_newline
    BY <1>6 DEF Core
  <2>2. PICK L, r : Reached(h, none, p.style, L, r) /\ On(h, rest, L, r)
    BY <1>2, <2>1 DEF LineAt
  <2>3. Reading(<<>>, h.chart, L, r)
    BY <2>2 DEF Reached
  <2>4. r = Len(AllOf(L)) /\ Lined(L, h.chart)
    BY <2>3, ReadingEnd
  <2>5. y \in Fed(h.chart)
    BY StartedIs
  <2>. HIDE DEF y, none
  <2>6. Reading(y, h.chart, L, r)
    BY <2>4, <2>5, ReadingOn
  <2>7. Reached(h, y, p.style, L, r)
    BY <2>2, <2>6, Zenon DEF Reached
  <2>8. LineAt(h, y, p.style, rest)
    BY <2>1, <2>2, <2>7, Zenon DEF LineAt
  <2>. QED
    BY <1>5, <2>8
<1>7. ASSUME ~OpenIn(v) PROVE Core(h, z, p, v)
  <2>1. CASE h.pending_newline
    <3>1. LineAt(h, z, p.style, rest)
      BY <1>2, <2>1 DEF LineAt
    <3>. QED
      BY <1>5, <3>1
  <2>2. CASE ~h.pending_newline
    <3>1. SettledAt(h, v)
      BY <1>7, <2>2, IdleSettled
    <3>. QED
      BY <1>3, <3>1, Settles
  <2>. QED
    BY <2>1, <2>2
<1>. QED
  BY <1>6, <1>7

(* Line breaks that start what is below.                                     *)
Breaks(b) == b = <<>> \/ b = Break \/ b = Break \o Break

LEMMA BreaksStart ==
    ASSUME NEW b, Breaks(b)
    PROVE  /\ b \in Seq(AnsiByte) /\ Ends(b)
           /\ \A chart, z : Started(z, chart) => Started(b \o z, chart)
<1>. DEFINE none == <<>>
<1>1. none \in Seq(AnsiByte) /\ Ends(none) /\ Break \in Seq(AnsiByte) /\ Ends(Break)
  BY EndsIs
<1>2. Break \o Break \in Seq(AnsiByte) /\ Ends(Break \o Break)
  BY <1>1, EndsIs
<1>3. \A z \in Seq(AnsiByte) : none \o z = z /\ (Break \o Break) \o z = Break \o (Break \o z)
  BY <1>1, AnsiConcat
<1>4. \A chart, z : Started(z, chart) => z \in Seq(AnsiByte) /\ Started(Break \o z, chart)
  BY StartedIs
<1>. HIDE DEF none
<1>5. \A chart, z : Started(z, chart) => Started((Break \o Break) \o z, chart) /\ Started(none \o z, chart)
  BY <1>3, <1>4
<1>. QED
  BY <1>1, <1>2, <1>4, <1>5 DEF Breaks, none

LEMMA BreaksFeed ==
    ASSUME NEW h, Bridge(h), NEW p, NEW v, Core(h, <<>>, p, v), NEW z, Started(z, h.chart),
           NEW b, Breaks(b), OpenIn(v) => b # <<>>
    PROVE  Core(h, b \o z, p, v)
<1>. DEFINE none == <<>>
<1>1. z \in Seq(AnsiByte) /\ Break \in Seq(AnsiByte)
  BY StartedIs, BreakIs
<1>2. none \o z = z /\ (Break \o Break) \o z = Break \o (Break \o z)
  BY <1>1, AnsiConcat
<1>3. Started(Break \o z, h.chart)
  BY StartedIs
<1>4. /\ OpenIn(v) => Core(h, Break \o z, p, v) /\ Core(h, Break \o (Break \o z), p, v)
      /\ ~OpenIn(v) => Core(h, z, p, v)
  BY <1>3, FeedsCore
<1>5. Started(b \o z, h.chart)
  BY BreaksStart
<1>6. CASE OpenIn(v)
  BY <1>2, <1>4, <1>6 DEF Breaks
<1>7. CASE ~OpenIn(v)
  BY <1>5, <1>7, FeedsCore
<1>. QED
  BY <1>6, <1>7

LEMMA OneByOne ==
    ASSUME NEW S, NEW s \in Seq(S), NEW t \in Seq(S)
    PROVE  Len(s) = 1 /\ Len(t) = 1 =>
             s \o t \in Seq(S) /\ Len(s \o t) = 2 /\ (s \o t)[1] = s[1] /\ (s \o t)[2] = t[1]
<1>. DEFINE w == s \o t
<1>1. /\ w \in Seq(S) /\ Len(w) = Len(s) + Len(t) /\ Len(s) \in Nat /\ Len(t) \in Nat
      /\ \A i \in 1 .. Len(s) : w[i] = s[i]
      /\ \A i \in 1 .. Len(t) : w[Len(s) + i] = t[i]
  BY Joined
<1>. HIDE DEF w
<1>2. ASSUME Len(s) = 1, Len(t) = 1
      PROVE  w \in Seq(S) /\ Len(w) = 2 /\ w[1] = s[1] /\ w[2] = t[1]
  <2>1. 1 \in 1 .. Len(s) /\ 1 \in 1 .. Len(t) /\ Len(s) + 1 = 2 /\ Len(s) + Len(t) = 2
    BY <1>2
  <2>. QED
    BY <1>1, <2>1
<1>. QED
  BY <1>2 DEF w

LEMMA BelowBreaks ==
    ASSUME NEW newlines, newlines \in Below \/ newlines = <<>>
    PROVE  Breaks(Bytes(newlines, FALSE)) /\ (newlines \in Below /\ OpenIn(given) => Bytes(newlines, FALSE) # <<>>)
<1>. DEFINE none == <<>>
            no == FALSE
            one == <<Newline>>
            two == <<Newline, Newline>>
            item == [c |-> Newline, lead |-> no]
<1>1. newlines \in Below => newlines = one \/ newlines = two \/ (newlines = none /\ ~OpenIn(given))
  BY DEF Below, LineOpen, OpenIn
<1>2. Bytes(none, no) = none
  BY DEF Bytes
<1>3. Bytes(one, no) = Break
  BY DEF Break
<1>4. one \in Seq(Strings) /\ two \in Seq(Strings) /\ no \in BOOLEAN
  <2>1. Newline \in Strings
    BY Named
  <2>. QED
    BY <2>1
<1>5. Len(one) = 1 /\ one[1] = Newline /\ Len(two) = 2 /\ two[1] = Newline /\ two[2] = Newline
  OBVIOUS
<1>6. Bytes(two, no) = Break \o Break /\ Break # none /\ Break \o Break # none
  <2>. DEFINE b == Bytes(two, no)
              d == Break \o Break
  <2>. HIDE DEF one, two, no, item
  <2>1. Break \in Seq(AnsiByte) /\ Len(Break) = 1 /\ Break[1] = item
    <3>1. Bytes(one, no) \in Seq(AnsiByte) /\ Len(Bytes(one, no)) = Len(one)
          /\ \A i \in 1 .. Len(one) : Bytes(one, no)[i] = [c |-> one[i], lead |-> no]
      BY <1>4, BytesAre
    <3>2. 1 \in 1 .. Len(one)
      BY <1>5
    <3>. QED
      BY <1>3, <1>5, <3>1, <3>2 DEF item
  <2>2. b \in Seq(AnsiByte) /\ Len(b) = 2 /\ b[1] = item /\ b[2] = item
    <3>1. b \in Seq(AnsiByte) /\ Len(b) = Len(two)
          /\ \A i \in 1 .. Len(two) : b[i] = [c |-> two[i], lead |-> no]
      BY <1>4, BytesAre
    <3>2. 1 \in 1 .. Len(two) /\ 2 \in 1 .. Len(two)
      BY <1>5
    <3>. QED
      BY <1>5, <3>1, <3>2 DEF item
  <2>3. d \in Seq(AnsiByte) /\ Len(d) = 2 /\ d[1] = item /\ d[2] = item
    BY <2>1, OneByOne
  <2>. HIDE DEF b, d
  <2>4. \A i \in 1 .. Len(b) : b[i] = d[i]
    <3>1. 1 .. Len(b) = {1, 2}
      BY <2>2
    <3>. QED
      BY <2>2, <2>3, <3>1
  <2>5. b = d
    BY <2>2, <2>3, <2>4, SeqEqual
  <2>6. Break # none /\ d # none
    BY <2>1, <2>3
  <2>. QED
    BY <2>5, <2>6 DEF b, d
<1>. HIDE DEF none, no, one, two, item
<1>8. newlines = none \/ newlines = one \/ newlines = two
  BY <1>1 DEF none
<1>9. Breaks(Bytes(newlines, no))
  BY <1>2, <1>3, <1>6, <1>8 DEF Breaks, none
<1>10. newlines \in Below /\ OpenIn(given) => Bytes(newlines, no) # none
  BY <1>1, <1>3, <1>6
<1>. QED
  BY <1>9, <1>10 DEF no, none

-----------------------------------------------------------------------------
(* Where every character is, in every state.                                 *)
Pens == [style : Styles, link : LinkNames]
EndsLines == phase \in {"chart", "table", "ending"} => Ends(ansi) /\ (ansi = <<>> => ~OpenIn(given))

TextInv ==
    /\ Core(html, ansi, pen, given)
    /\ pen \in Pens
    /\ EndsLines

LEMMA NoteIs ==
    ASSUME TagsInv, TextInv, Reads
    PROVE  \E x \in Given : /\ Note(Byte) = Append(given, x) /\ x.c = Byte /\ x.lead = Head(ansi).lead
                            /\ x.style = pen.style /\ x.link = pen.link /\ (x.box <=> Ready.chart # "none")
<1>. DEFINE lead == Head(ansi).lead
            box == phase = "chart"
            x == [c |-> Byte, lead |-> lead, style |-> pen.style, link |-> pen.link, box |-> box]
<1>1. Byte \in Strings /\ Kept(html, Ready)
  BY TagsReads
<1>2. pen.style \in Styles /\ pen.link \in Links \cup {NoLink}
  BY DEF TextInv, Pens, LinkNames
<1>3. ansi \in Seq(AnsiByte) /\ ansi # <<>>
  BY DEF TagsInv, Reads
<1>4. Head(ansi) \in AnsiByte
  BY <1>3, Split
<1>5. lead \in BOOLEAN /\ box \in BOOLEAN
  BY <1>4 DEF AnsiByte
<1>6. [Item(Byte, box) EXCEPT !.lead = lead] = x
  BY DEF Item
<1>7. box <=> Ready.chart # "none"
  BY <1>1 DEF TagsInv, Kept
<1>8. Note(Byte) = Append(given, x)
  BY <1>6 DEF Note
<1>. HIDE DEF lead, box
<1>9. x \in Given /\ x.c = Byte /\ x.lead = lead /\ x.style = pen.style /\ x.link = pen.link /\ x.box = box
  BY <1>1, <1>2, <1>5 DEF Given
<1>. HIDE DEF x
<1>. QED
  BY <1>7, <1>8, <1>9 DEF lead

LEMMA TextReads ==
    ASSUME TagsInv, TextInv, Reads
    PROVE  Core(Ready, ansi, pen, given) /\ ansi # <<>>
<1>1. Bridge(html) /\ Opens(html) /\ Ready = ReadyOf(html)
  BY TagsReads
<1>. QED
  BY <1>1, ReadyCore DEF TextInv, Reads

(* A byte that ends what is written of a chart, a table or the document is a *)
(* newline.                                                                  *)
LEMMA TextStep ==
    ASSUME TagsInv, TextInv, Reads, NEW h, Step(h), Core(h, Tail(ansi), pen', given'), pen' \in Pens,
           Byte = Newline => ~OpenIn(given')
    PROVE  TextInv'
<1>1. ansi' = Tail(ansi) /\ html' = h /\ phase' = phase
  BY DEF Step
<1>2. ansi \in Seq(AnsiByte) /\ ansi # <<>>
  BY DEF TagsInv, Reads
<1>3. Ends(ansi) => IF Tail(ansi) = <<>> THEN Head(ansi).c = Newline ELSE Ends(Tail(ansi))
  BY <1>2, EndsIs
<1>4. Ends(<<>>)
  BY EndsIs
<1>5. EndsLines'
  BY <1>1, <1>3, <1>4 DEF TextInv, EndsLines, Byte
<1>. QED
  BY <1>1, <1>5 DEF TextInv

LEMMA TextWriteNewline == ASSUME TagsInv, TextInv, WriteNewline PROVE TextInv'
<1>. DEFINE e == Clear(FlushLine(Ready, FALSE))
            p == [Ready EXCEPT !.pending_newline = TRUE]
            empty == Ready.stream = "none" /\ LineText(Ready) = <<>>
            h == IF empty THEN e ELSE p
<1>1. Reads /\ Step(h) /\ Byte = Newline /\ given' = Note(Newline) /\ pen' = pen
  BY DEF WriteNewline
<1>2. Bridge(Ready) /\ Opens(Ready) /\ ~Ready.pending_newline
  BY <1>1, TagsReads
<1>3. Core(Ready, ansi, pen, given) /\ ansi # <<>> /\ Head(ansi).c = Newline
  BY <1>1, TextReads DEF Byte
<1>4. PICK x \in Given : /\ Note(Byte) = Append(given, x) /\ x.c = Byte /\ x.lead = Head(ansi).lead
                         /\ x.style = pen.style /\ x.link = pen.link /\ (x.box <=> Ready.chart # "none")
  BY <1>1, NoteIs
<1>5. given \in Seq(Given)
  BY <1>3 DEF Core
<1>6. given' = Append(given, x) /\ x.c = Newline /\ ~OpenIn(given')
  BY <1>1, <1>4, <1>5, OpenAppend
<1>7. ~x.lead
  BY <1>2, <1>3, <1>4, AtNewline
<1>8. empty <=> Ready.stream = "none" /\ TextOf(Ready.segments) = <<>>
  BY LineTextIs
<1>9. empty => Core(e, Tail(ansi), pen, Append(given, x))
  BY <1>2, <1>3, <1>4, <1>6, <1>7, <1>8, BreakAlone
<1>10. ~empty => Core(p, Tail(ansi), pen, Append(given, x))
  BY <1>2, <1>3, <1>4, <1>6, <1>7, <1>8, BreakPends
<1>. HIDE DEF e, p, empty
<1>11. Core(h, Tail(ansi), pen', given')
  BY <1>1, <1>6, <1>9, <1>10
<1>12. pen' \in Pens
  BY <1>1 DEF TextInv
<1>. HIDE DEF h
<1>. QED
  BY <1>1, <1>6, <1>11, <1>12, TextStep

LEMMA TextWriteStyle == ASSUME TagsInv, TextInv, WriteStyle PROVE TextInv'
<1>. DEFINE h == [Ready EXCEPT !.style = Byte]
            c == Head(ansi).c
<1>1. Reads /\ Step(h) /\ Byte \in Styles /\ given' = given /\ pen' = [pen EXCEPT !.style = Byte]
  BY DEF WriteStyle
<1>2. Bridge(Ready) /\ Opens(Ready) /\ ~Ready.pending_newline
  BY <1>1, TagsReads
<1>3. Core(Ready, ansi, pen, given) /\ ansi # <<>> /\ c = Byte /\ pen \in Pens
  BY <1>1, TextReads DEF Byte, TextInv
<1>4. Ready.link \in LinkNames /\ h = Restyled(Ready, c, Ready.link) /\ Ready.link = pen.link
  BY <1>2, <1>3 DEF Bridge, HtmlState, Restyled, Core
<1>5. pen' \in Pens /\ pen'.style = c /\ pen'.link = Ready.link
  BY <1>1, <1>3, <1>4 DEF Pens
<1>6. c \in Styles /\ c \in Escapes /\ c # Newline
  BY <1>1, <1>3, EscapeAssumption DEF Escapes
<1>. HIDE DEF h
<1>7. Core(h, Tail(ansi), pen', given)
  BY <1>2, <1>3, <1>4, <1>5, <1>6, EscapeRead
<1>8. Core(h, Tail(ansi), pen', given')
  BY <1>1, <1>7
<1>. QED
  BY <1>1, <1>3, <1>5, <1>6, <1>8, TextStep

LEMMA TextWriteLink == ASSUME TagsInv, TextInv, WriteLink PROVE TextInv'
<1>. DEFINE link == IF Byte # NoLink /\ Safe(Byte) THEN Byte ELSE NoLink
            h == [Ready EXCEPT !.link = link]
            c == Head(ansi).c
<1>1. Reads /\ Step(h) /\ Byte \in Links \cup {NoLink} /\ given' = given /\ pen' = [pen EXCEPT !.link = link]
  BY DEF WriteLink, LinkOf
<1>2. Bridge(Ready) /\ Opens(Ready) /\ ~Ready.pending_newline
  BY <1>1, TagsReads
<1>3. Core(Ready, ansi, pen, given) /\ ansi # <<>> /\ c = Byte /\ pen \in Pens
  BY <1>1, TextReads DEF Byte, TextInv
<1>4. link \in LinkNames
  BY <1>1 DEF LinkNames
<1>. HIDE DEF link
<1>5. Ready.style \in Styles /\ h = Restyled(Ready, Ready.style, link) /\ Ready.style = pen.style
  BY <1>2, <1>3 DEF Bridge, HtmlState, Restyled, Core
<1>6. pen' \in Pens /\ pen'.style = Ready.style /\ pen'.link = link
  BY <1>1, <1>3, <1>4, <1>5 DEF Pens
<1>7. c \notin Styles /\ c \in Escapes /\ c # Newline
  BY <1>1, <1>3, EscapeAssumption, LinkAssumption DEF Escapes
<1>. HIDE DEF h
<1>8. Core(h, Tail(ansi), pen', given)
  BY <1>2, <1>3, <1>4, <1>5, <1>6, <1>7, EscapeRead
<1>9. Core(h, Tail(ansi), pen', given')
  BY <1>1, <1>8
<1>. QED
  BY <1>1, <1>3, <1>6, <1>7, <1>9, TextStep

LEMMA TextWriteByte == ASSUME TagsInv, TextInv, WriteByte PROVE TextInv'
<1>. DEFINE e == EmitByte(Ready, Byte)
            a == AppendByte(Ready, Byte)
            m == MaybeStart(a)
            h == IF Ready.stream # "none" THEN e ELSE m
            c == Head(ansi).c
<1>1. Reads /\ Step(h) /\ Byte \notin Styles \cup Links \cup {NoLink, Newline} /\ given' = Note(Byte) /\ pen' = pen
  BY DEF WriteByte
<1>2. Bridge(Ready) /\ Opens(Ready) /\ ~Ready.pending_newline /\ Byte \in Strings
  BY <1>1, TagsReads
<1>3. Core(Ready, ansi, pen, given) /\ ansi # <<>> /\ c = Byte
  BY <1>1, TextReads DEF Byte
<1>4. PICK x \in Given : /\ Note(Byte) = Append(given, x) /\ x.c = Byte /\ x.lead = Head(ansi).lead
                         /\ x.style = pen.style /\ x.link = pen.link /\ (x.box <=> Ready.chart # "none")
  BY <1>1, NoteIs
<1>5. c \in Strings /\ c \notin Escapes /\ c # Newline
  BY <1>1, <1>2, <1>3 DEF Escapes
<1>6. Ready.stream # "none" => Core(e, Tail(ansi), pen, Append(given, x))
  BY <1>2, <1>3, <1>4, <1>5, ByteStreamed
<1>7. Ready.stream = "none" => Core(a, Tail(ansi), pen, Append(given, x))
  BY <1>2, <1>3, <1>4, <1>5, ByteCollected
<1>8. Ready.stream = "none" => Bridge(a) /\ Opens(a) /\ a.stream = "none" /\ ~a.pending_newline
  BY <1>2, CollectIs
<1>. HIDE DEF a
<1>9. Ready.stream = "none" => m = a \/ Begun(a, m)
  BY <1>8, MaybeStartIs
<1>10. Ready.stream = "none" => Core(m, Tail(ansi), pen, Append(given, x))
  BY <1>7, <1>8, <1>9, BegunCore
<1>. HIDE DEF e, m
<1>11. Core(h, Tail(ansi), pen', given')
  BY <1>1, <1>4, <1>6, <1>10
<1>12. pen' \in Pens
  BY <1>1 DEF TextInv
<1>. HIDE DEF h
<1>. QED
  BY <1>1, <1>3, <1>5, <1>11, <1>12, TextStep

-----------------------------------------------------------------------------
LEMMA NothingStarts ==
    \A chart : Started(<<>>, chart) /\ \A L : Lined(L, chart) => Started(LineBytes(L), chart)
<1>. TAKE chart
<1>. DEFINE none == <<>>
<1>1. none \in Fed(chart)
  BY FedIs
<1>2. Started(none, chart)
  BY <1>1, StartedIs
<1>3. ASSUME NEW L, Lined(L, chart)
      PROVE  Started(LineBytes(L), chart)
  <2>1. LineBytes(L) \in Seq(AnsiByte)
    BY <1>3, BytesOfLine
  <2>2. LineBytes(L) \o none = LineBytes(L)
    BY <2>1, AnsiConcat
  <2>. HIDE DEF none
  <2>3. Started(LineBytes(L) \o none, chart)
    BY <1>1, <1>3, StartedIs
  <2>. QED
    BY <2>2, <2>3
<1>. QED
  BY <1>2, <1>3

LEMMA BreaksAlone ==
    ASSUME NEW h, Bridge(h), NEW p, NEW v, Core(h, <<>>, p, v), NEW b, Breaks(b), OpenIn(v) => b # <<>>
    PROVE  Core(h, b, p, v)
<1>. DEFINE none == <<>>
<1>1. Started(none, h.chart)
  BY NothingStarts
<1>2. b \in Seq(AnsiByte)
  BY BreaksStart
<1>3. b \o none = b
  BY <1>2, AnsiConcat
<1>4. Core(h, none, p, v)
  OBVIOUS
<1>. HIDE DEF none
<1>5. Core(h, b \o none, p, v)
  BY <1>1, <1>4, BreaksFeed DEF none
<1>. QED
  BY <1>3, <1>5

(* A token begins.                                                           *)
LEMMA TokenCore ==
    ASSUME NEW h, Bridge(h), Opens(h), NEW a, NEW p, NEW v, Core(h, a, p, v)
    PROVE  /\ Core(BeginToken(h), a, p, v) /\ Bridge(BeginToken(h)) /\ Opens(BeginToken(h))
           /\ Alike(h, BeginToken(h))
<1>. DEFINE g == BeginToken(h)
            no == FALSE
<1>1. /\ Bridge(g) /\ Opens(g) /\ Gains(h, g, <<>>, no)
      /\ g.segments = h.segments /\ g.pending_newline = h.pending_newline /\ g.style = h.style
      /\ g.link = h.link /\ g.stream = h.stream /\ g.utf8 = h.utf8 /\ g.chart = h.chart
  BY BeginTokenIs
<1>2. h.page \in Page
  BY DEF Bridge, HtmlState
<1>. HIDE DEF g, no
<1>3. g.page.text = h.page.text
  BY <1>1, <1>2, GainsAlike
<1>4. Alike(h, g)
  BY <1>1, <1>3 DEF Alike
<1>5. Core(g, a, p, v)
  BY <1>4, AlikeCore
<1>. QED
  BY <1>1, <1>4, <1>5 DEF g

LEMMA TextWriteLine == ASSUME TagsInv, TextInv, WriteLine PROVE TextInv'
<1>. DEFINE g == BeginToken(html)
<1>1. PICK line \in Lines, newlines \in Below : ansi' = Bytes(newlines, FALSE) \o LineBytes(line)
  BY DEF WriteLine
<1>2. ansi = <<>> /\ phase = "text" /\ html' = g /\ phase' = phase /\ pen' = pen /\ given' = given
  BY DEF WriteLine, Begins
<1>3. Lined(line, "none")
  BY BlocksAssumption DEF IsLine, LineOf, Lined
<1>4. Bridge(html) /\ Opens(html) /\ html.chart = "none"
  BY <1>2 DEF TagsInv
<1>5. Core(html, <<>>, pen, given)
  BY <1>2 DEF TextInv
<1>6. Core(g, <<>>, pen, given) /\ Bridge(g) /\ Alike(html, g)
  BY <1>4, <1>5, TokenCore
<1>. DEFINE b == Bytes(newlines, FALSE)
            z == LineBytes(line)
<1>7. Started(z, g.chart)
  BY <1>3, <1>4, <1>6, NothingStarts DEF Alike
<1>8. Breaks(b) /\ (OpenIn(given) => b # <<>>)
  BY BelowBreaks
<1>9. ansi' = b \o z
  BY <1>1
<1>. HIDE DEF g, b, z
<1>10. Core(g, b \o z, pen, given)
  BY <1>6, <1>7, <1>8, BreaksFeed
<1>. QED
  BY <1>2, <1>9, <1>10 DEF TextInv, EndsLines

LEMMA TextBeginTable == ASSUME TagsInv, TextInv, BeginTable PROVE TextInv'
<1>1. ansi = <<>> /\ phase = "text" /\ phase' = "table" /\ html' = html /\ pen' = pen /\ given' = given
  BY DEF BeginTable, Begins
<1>2. PICK newlines \in Below : ansi' = Bytes(newlines, FALSE)
  BY DEF BeginTable
<1>3. Breaks(ansi') /\ (OpenIn(given) => ansi' # <<>>)
  BY <1>2, BelowBreaks
<1>4. Ends(ansi')
  BY <1>3, BreaksStart
<1>5. Bridge(html) /\ Core(html, <<>>, pen, given)
  BY <1>1 DEF TagsInv, TextInv
<1>6. Core(html, ansi', pen, given)
  BY <1>3, <1>5, BreaksAlone
<1>. QED
  BY <1>1, <1>3, <1>4, <1>6 DEF TextInv, EndsLines

LEMMA TextFinish == ASSUME TagsInv, TextInv, Finish PROVE TextInv'
<1>1. /\ ansi = <<>> /\ phase' = "ending" /\ html' = html /\ pen' = pen /\ given' = given
      /\ ansi' = When(LineOpen, Break)
  BY DEF Finish, Break
<1>2. LineOpen <=> OpenIn(given)
  BY DEF LineOpen, OpenIn
<1>3. Break # <<>>
  BY EndsIs
<1>4. Breaks(ansi') /\ (OpenIn(given) <=> ansi' # <<>>)
  BY <1>1, <1>2, <1>3 DEF When, Breaks
<1>5. Ends(ansi')
  BY <1>4, BreaksStart
<1>6. Bridge(html) /\ Core(html, <<>>, pen, given)
  BY <1>1 DEF TagsInv, TextInv
<1>7. Core(html, ansi', pen, given)
  BY <1>4, <1>6, BreaksAlone
<1>. QED
  BY <1>1, <1>4, <1>5, <1>7 DEF TextInv, EndsLines

LEMMA RestsCore ==
    ASSUME TextInv, NEW h, SettledAt(h, given), h.style = html.style, h.link = html.link
    PROVE  Core(h, <<>>, pen, given)
<1>. DEFINE none == <<>>
<1>1. html.style = pen.style /\ html.link = pen.link /\ pen.style \in Styles
  BY DEF TextInv, Core, Pens
<1>2. Started(none, h.chart)
  BY NothingStarts
<1>. HIDE DEF none
<1>3. Core(h, none, pen, given)
  BY <1>1, <1>2, Settles
<1>. QED
  BY <1>3 DEF none

LEMMA TextEndChart == ASSUME TagsInv, TextInv, EndChart PROVE TextInv'
<1>. DEFINE f == FlushPending(html, FALSE)
<1>1. /\ ansi = <<>> /\ phase = "chart" /\ phase' = "text" /\ ansi' = ansi /\ pen' = pen /\ given' = given
      /\ html' = [Emit(f, <<Close("chart")>>) EXCEPT !.chart = "none"]
  BY DEF EndChart
<1>2. Bridge(html) /\ Opens(html) /\ html.chart # "none"
  BY <1>1 DEF TagsInv
<1>3. ~OpenIn(given) /\ Core(html, ansi, pen, given)
  BY <1>1 DEF TextInv, EndsLines
<1>4. SettledAt(f, given)
  BY <1>2, <1>3, FlushSettled
<1>5. Bridge(f) /\ Opens(f) /\ Kept(html, f)
  BY <1>2, FlushPendingKeeps
<1>. HIDE DEF f
<1>6. ~f.pending_newline /\ TextOf(f.segments) = <<>> /\ f.chart # "none"
  BY <1>2, <1>4, <1>5, TextOfAppend DEF SettledAt, Kept
<1>7. /\ html'.chart = "none" /\ html'.style = f.style /\ html'.link = f.link
      /\ html'.stream = "none" /\ ~html'.pending_newline /\ html'.segments = <<>> /\ html'.utf8 = <<>>
      /\ html'.page.text = f.page.text
  BY <1>1, <1>5, <1>6, CloseChartIs
<1>8. SettledAt(html', given)
  BY <1>4, <1>7 DEF SettledAt
<1>9. Core(html', <<>>, pen, given)
  BY <1>5, <1>7, <1>8, RestsCore DEF Kept
<1>. QED
  BY <1>1, <1>9 DEF TextInv, EndsLines

LEMMA TextEndTable == ASSUME TagsInv, TextInv, EndTable PROVE TextInv'
<1>. DEFINE f == FlushPending(html, FALSE)
            no == FALSE
<1>1. ansi = <<>> /\ phase = "table" /\ phase' = "text" /\ ansi' = ansi /\ pen' = pen /\ given' = given
  BY DEF EndTable
<1>2. PICK follows \in BOOLEAN : html' = WithTable(f, html.footer_needs_newline, follows)
  <2>1. PICK by \in BOOLEAN : html' = WithTable(f, html.footer_needs_newline, ~by)
    BY Zenon DEF EndTable, WithTable
  <2>2. by = TRUE \/ by = FALSE
    OBVIOUS
  <2>3. (~by) \in BOOLEAN
    BY <2>2, Zenon
  <2>. QED
    BY <2>1, <2>3
<1>3. Bridge(html) /\ Opens(html) /\ html.footer_needs_newline \in BOOLEAN
  BY <1>1 DEF TagsInv, Bridge, HtmlState
<1>4. ~OpenIn(given) /\ Core(html, ansi, pen, given)
  BY <1>1 DEF TextInv, EndsLines
<1>5. SettledAt(f, given)
  BY <1>3, <1>4, FlushSettled
<1>6. Bridge(f) /\ Opens(f) /\ Kept(html, f) /\ f.page \in Page
  BY <1>3, FlushPendingKeeps DEF Bridge, HtmlState
<1>. HIDE DEF f
<1>7. /\ Gains(f, html', <<>>, no)
      /\ html'.segments = f.segments /\ html'.pending_newline = f.pending_newline /\ html'.style = f.style
      /\ html'.link = f.link /\ html'.stream = f.stream /\ html'.utf8 = f.utf8
  BY <1>2, <1>3, <1>6, AddTableIs
<1>. HIDE DEF no
<1>8. html'.page.text = f.page.text
  BY <1>6, <1>7, GainsAlike
<1>9. SettledAt(html', given)
  BY <1>5, <1>7, <1>8 DEF SettledAt
<1>10. Core(html', <<>>, pen, given)
  BY <1>6, <1>7, <1>9, RestsCore DEF Kept
<1>. QED
  BY <1>1, <1>10 DEF TextInv, EndsLines

Pends(h, v) ==
    \E L, rest, done : /\ On(h, rest, L, Len(AllOf(L))) /\ WaitingOf(h) = Whole(h)
                       /\ AgreeAll(rest, Whole(h), h.chart # "none")
                       /\ done \in Seq(Given) /\ v = done \o rest
                       /\ FitsGiven(h.page.text, Shows(done))

LEMMA PendingParts ==
    ASSUME NEW h, Bridge(h), Opens(h), h.pending_newline, NEW a, NEW p, NEW v, Core(h, a, p, v)
    PROVE  Pends(h, v)
  BY PendingSettles DEF Pends

(* The open line is ended before a chart.                                    *)
LEMMA LineEnded ==
    ASSUME NEW h, Bridge(h), Opens(h), h.chart = "none", NEW p, p.style \in Styles, p.link \in LinkNames,
           NEW v, Core(h, <<>>, p, v), OpenIn(v), ~QuotePrefixOnly(h),
           NEW x \in Given, x.c = Newline, ~x.lead, ~x.box
    PROVE  SettledAt(EndLineForChart(h), Append(v, x))
<1>. DEFINE g == [h EXCEPT !.pending_newline = TRUE]
            e == EndLineForChart(h)
            none == <<>>
            w == Append(v, x)
            b == Break \o none
            box == h.chart # "none"
            no == FALSE
            held == Held(h.segments)
<1>1. ~h.pending_newline /\ ~(h.stream = "none" /\ TextOf(h.segments) = <<>>)
  BY DEF Core
<1>2. Started(none, h.chart)
  BY NothingStarts
<1>3. Core(h, none, p, v)
  OBVIOUS
<1>4. b # <<>> /\ Head(b).c = Newline
  <2>1. none \in Seq(AnsiByte)
    OBVIOUS
  <2>. HIDE DEF none
  <2>. QED
    BY <2>1, BreakIs
<1>. HIDE DEF none
<1>5. Core(h, b, p, v)
  BY <1>2, <1>3, FeedsCore DEF none
<1>. HIDE DEF b, g
<1>6. Core(g, Tail(b), p, w)
  BY <1>1, <1>4, <1>5, BreakPends DEF g
<1>7. /\ Bridge(g) /\ Opens(g) /\ Kept(h, g) /\ g.pending_newline
      /\ g.page = h.page /\ g.segments = h.segments /\ g.stream = h.stream
  BY <1>1, PendIs DEF g
<1>. HIDE DEF w
<1>8. PICK L, more, done : /\ On(g, more, L, Len(AllOf(L))) /\ WaitingOf(g) = Whole(g)
                           /\ AgreeAll(more, Whole(g), g.chart # "none")
                           /\ done \in Seq(Given) /\ w = done \o more
                           /\ FitsGiven(g.page.text, Shows(done))
  <2>. DEFINE rests == Tail(b)
  <2>. HIDE DEF rests
  <2>1. Core(g, rests, p, w)
    BY <1>6 DEF rests
  <2>2. Pends(g, w)
    BY <1>7, <2>1, PendingParts
  <2>. QED
    BY <2>2, Zenon DEF Pends
<1>. DEFINE m == Mark(L)
            out == Rest(Whole(g), m)
<1>9. PICK style :
             /\ IsContentStyle(g, style)
             /\ g.stream = "none" => m = LeftOut(TextOf(g.segments), g.chart, style)
             /\ g.stream # "none" => Rest(Held(g.segments), m) = <<>> /\ g.chart = "none"
             /\ m \in 0 .. Len(Held(g.segments))
             /\ out = Rest(Held(g.segments), m) \o <<LineBreak>>
  BY <1>7, <1>8, LineOut
<1>10. g.chart = h.chart
  BY <1>7 DEF Kept
<1>11. IsContentStyle(h, style)
  BY <1>7, <1>9, <1>10, Zenon DEF IsContentStyle
<1>12. Ending(no) = <<LineBreak>>
  BY EndingIs
<1>13. Gains(h, e, out, box)
  <2>. DEFINE drop == LeftOut(TextOf(h.segments), h.chart, style)
  <2>1. h.stream # "none" => Gains(h, e, Ending(no), no)
    BY <1>11, EndLineIs
  <2>2. h.stream = "none" => Gains(h, e, Rest(held, drop) \o Ending(no), box)
    BY <1>1, <1>11, EndLineIs
  <2>3. h.stream # "none" => out = Ending(no)
    <3>1. ASSUME h.stream # "none" PROVE out = none \o <<LineBreak>>
      BY <1>7, <1>9, <3>1 DEF none
    <3>2. none \o <<LineBreak>> = <<LineBreak>>
      BY DEF none
    <3>. QED
      BY <1>12, <3>1, <3>2
  <2>4. h.stream = "none" => out = Rest(held, drop) \o Ending(no)
    BY <1>7, <1>9, <1>10, <1>12
  <2>5. box = no
    OBVIOUS
  <2>. HIDE DEF e, out, held, drop, no, box
  <2>. QED
    BY <2>1, <2>2, <2>3, <2>4, <2>5
<1>14. m \in 0 .. Len(more) /\ Leads(more, m)
  <2>1. held \in Seq(Char)
    BY HeldType DEF Bridge, HtmlState
  <2>. HIDE DEF held
  <2>2. Len(held \o <<LineBreak>>) = Len(held) + 1 /\ Len(held) \in Nat
    BY <2>1
  <2>3. Len(more) = Len(held) + 1
    BY <1>7, <1>8, <2>2 DEF AgreeAll, Whole, held
  <2>4. m \in 0 .. Len(held)
    BY <1>7, <1>9 DEF held
  <2>5. Leads(more, m)
    BY <1>8 DEF On
  <2>. HIDE DEF m
  <2>. QED
    BY <2>2, <2>3, <2>4, <2>5
<1>15. AgreeAll(more, Whole(g), box) /\ FitsGiven(h.page.text, Shows(done))
  BY <1>7, <1>8, <1>10
<1>. HIDE DEF m, out, box
<1>16. FitsGiven(e.page.text, Shows(w))
  <2>. HIDE DEF e
  <2>. QED
    BY <1>8, <1>13, <1>14, <1>15, GainsGiven DEF out
<1>17. Bridge(e) /\ e.stream = "none" /\ ~e.pending_newline /\ TextOf(e.segments) = <<>>
  BY <1>11, EndLineIs
<1>18. w \in Seq(Given) /\ ~OpenIn(w)
  BY OpenAppend DEF Core, w
<1>. HIDE DEF e
<1>19. e.segments = <<>> /\ e.utf8 = <<>>
  BY <1>17 DEF Bridge
<1>. QED
  BY <1>16, <1>17, <1>18, <1>19 DEF SettledAt, e, w

LEMMA LineWasEnded ==
    ASSUME NEW h, Bridge(h), Opens(h), NEW p, NEW v, Core(h, <<>>, p, v), ~OpenIn(v), ~QuotePrefixOnly(h)
    PROVE  SettledAt(EndLineForChart(h), v)
<1>. DEFINE f == FlushPending(h, FALSE)
<1>1. SettledAt(f, v)
  BY FlushSettled
<1>2. f.stream = "none"
  BY <1>1 DEF SettledAt
<1>3. EndLineForChart(h) = f
  BY <1>2 DEF EndLineForChart
<1>. QED
  BY <1>1, <1>3

LEMMA FrontIs ==
    \A s, t \in Seq(Given) : SubSeq(s \o t, 1, Len(s \o t) - Len(t)) = s
<1>. TAKE s, t \in Seq(Given)
<1>. DEFINE all == s \o t
<1>1. all \in Seq(Given) /\ Len(all) = Len(s) + Len(t) /\ Len(s) \in Nat /\ Len(t) \in Nat
      /\ (\A i \in 1 .. Len(s) : all[i] = s[i]) /\ \A i \in 1 .. Len(t) : all[Len(s) + i] = t[i]
  BY Joined
<1>. HIDE DEF all
<1>2. Len(all) - Len(t) = Len(s)
  BY <1>1
<1>. DEFINE part == SubSeq(all, 1, Len(s))
<1>3. part \in Seq(Given) /\ Len(part) = Len(s) /\ \A i \in 1 .. Len(s) : part[i] = all[i]
  BY <1>1
<1>. HIDE DEF part
<1>4. part = s
  BY <1>1, <1>3, SeqEqual
<1>. QED
  BY <1>2, <1>4 DEF all, part

(* A quote marker is taken back.                                             *)
LEMMA QuoteTaken ==
    ASSUME NEW h, Bridge(h), Opens(h), NEW p, NEW v, Core(h, <<>>, p, v), QuotePrefixOnly(h)
    PROVE  SettledAt(EndLineForChart(h), SubSeq(v, 1, Len(v) - Len(LineText(h))))
<1>. DEFINE e == EndLineForChart(h)
            held == Held(h.segments)
            none == <<>>
<1>1. h.stream = "none" /\ ~h.pending_newline /\ TextOf(h.segments) # <<>>
  BY QuotePrefixIs
<1>2. PICK done, rest : Parts(h, <<>>, p.style, v, done, rest)
  BY DEF Core
<1>3. /\ done \in Seq(Given) /\ v = done \o rest /\ FitsGiven(h.page.text, Shows(done)) /\ ~OpenIn(done)
      /\ rest \in Seq(Given) /\ Len(rest) = Len(WaitingOf(h))
  BY <1>1, <1>2 DEF Parts, AgreeAll
<1>4. held \in Seq(Char) /\ Len(held) = Len(TextOf(h.segments))
  BY HeldType, HeldLength DEF Bridge, HtmlState
<1>5. WaitingOf(h) = held
  <2>1. \A s \in Seq(Char) : s \o <<>> = s
    OBVIOUS
  <2>2. h.utf8 = <<>>
    BY <1>1 DEF Bridge
  <2>3. WaitingOf(h) = held \o <<>>
    BY <1>1, <2>2 DEF WaitingOf, When
  <2>. HIDE DEF held
  <2>. QED
    BY <1>4, <2>1, <2>3
<1>6. Len(LineText(h)) = Len(rest)
  BY <1>3, <1>4, <1>5, LineTextIs
<1>7. SubSeq(v, 1, Len(v) - Len(rest)) = done
  BY <1>3, FrontIs
<1>8. PICK style : IsContentStyle(h, style)
  BY ContentStyle
<1>9. /\ Bridge(e) /\ e.stream = "none" /\ ~e.pending_newline /\ TextOf(e.segments) = <<>>
      /\ e.page = h.page
  BY <1>8, EndLineIs
<1>. HIDE DEF e
<1>10. e.segments = <<>> /\ e.utf8 = <<>>
  BY <1>9 DEF Bridge
<1>11. SettledAt(e, done)
  BY <1>3, <1>9, <1>10 DEF SettledAt
<1>. QED
  BY <1>6, <1>7, <1>11 DEF e

LEMMA TextBeginChart == ASSUME TagsInv, TextInv, BeginChart PROVE TextInv'
<1>. DEFINE g == BeginToken(html)
            e == EndLineForChart(g)
            no == FALSE
            x == Item(Newline, no)
            none == <<>>
<1>1. PICK chart \in Charts :
        /\ html' = [Emit(e, <<Open("chart", "")>>) EXCEPT !.chart = chart.kind]
        /\ \E newlines \in IF QuotePrefixOnly(html) THEN {<<>>} ELSE Below :
              ansi' = Bytes(newlines, FALSE) \o RowsOf(chart.rows)
  BY Zenon DEF BeginChart, RowsOf, RowBytes
<1>2. PICK newlines : /\ newlines \in Below \/ newlines = <<>>
                      /\ ansi' = Bytes(newlines, FALSE) \o RowsOf(chart.rows)
  BY <1>1
<1>3. /\ ansi = <<>> /\ phase = "text" /\ phase' = "chart" /\ pen' = pen
      /\ given' = IF QuotePrefixOnly(html)
                  THEN SubSeq(given, 1, Len(given) - Len(LineText(html)))
                  ELSE given \o When(LineOpen, <<x>>)
  BY DEF BeginChart, Begins
<1>4. Bridge(html) /\ Opens(html) /\ html.chart = "none" /\ Core(html, none, pen, given) /\ pen \in Pens
  BY <1>3 DEF TagsInv, TextInv
<1>. HIDE DEF none
<1>5. Core(g, none, pen, given) /\ Bridge(g) /\ Opens(g) /\ Alike(html, g)
  BY <1>4, TokenCore
<1>. HIDE DEF g
<1>6. /\ g.chart = "none" /\ LineText(g) = LineText(html)
      /\ QuotePrefixOnly(g) <=> QuotePrefixOnly(html)
  <2>1. g.chart = "none" /\ g.segments = html.segments /\ g.pending_newline = html.pending_newline
    BY <1>4, <1>5 DEF Alike
  <2>2. LineText(g) = LineText(html)
    BY <2>1, Zenon DEF LineText
  <2>3. QuotePrefixOnly(g) <=> QuotePrefixOnly(html)
    BY <2>1, <2>2, Zenon DEF QuotePrefixOnly
  <2>. QED
    BY <2>1, <2>2, <2>3
<1>7. SettledAt(e, given')
  <2>0. given \in Seq(Given) /\ (LineOpen <=> OpenIn(given))
    BY <1>4 DEF Core, LineOpen, OpenIn
  <2>1. CASE QuotePrefixOnly(html)
    BY <1>3, <1>5, <1>6, <2>1, QuoteTaken DEF none
  <2>2. CASE ~QuotePrefixOnly(html) /\ OpenIn(given)
    <3>1. x \in Given /\ x.c = Newline /\ ~x.lead /\ ~x.box
      <4>1. Newline \in Strings
        BY Named
      <4>. QED
        BY <1>4, <4>1 DEF Item, Given, Pens, LinkNames
    <3>. HIDE DEF x, e
    <3>2. given' = Append(given, x)
      <4>1. given' = given \o <<x>>
        BY <1>3, <2>0, <2>2 DEF When
      <4>. QED
        BY <2>0, <3>1, <4>1, GivenSeq
    <3>3. pen.style \in Styles /\ pen.link \in LinkNames
      BY <1>4 DEF Pens
    <3>4. SettledAt(EndLineForChart(g), Append(given, x))
      BY <1>5, <1>6, <2>2, <3>1, <3>3, LineEnded DEF none
    <3>. QED
      BY <3>2, <3>4 DEF e
  <2>3. CASE ~QuotePrefixOnly(html) /\ ~OpenIn(given)
    <3>1. given' = given \o none
      BY <1>3, <2>0, <2>3 DEF When, none
    <3>2. given' = given
      BY <2>0, <3>1, GivenSeq DEF none
    <3>. QED
      BY <1>5, <1>6, <2>3, <3>2, LineWasEnded DEF none
  <2>. QED
    BY <2>1, <2>2, <2>3
<1>8. PICK style : IsContentStyle(g, style)
  BY ContentStyle
<1>9. Bridge(e) /\ Opens(e) /\ Kept(g, e) /\ e.stream = "none" /\ ~e.pending_newline /\ TextOf(e.segments) = <<>>
  BY <1>5, <1>8, EndLineIs
<1>. HIDE DEF e, x
<1>. DEFINE kind == chart.kind
<1>10. kind \in STRING /\ kind # "none" /\ chart.rows \in Seq(LineOf) /\ \A i \in DOMAIN chart.rows : IsLine(chart.rows[i], kind)
  BY ChartsAre
<1>. HIDE DEF kind
<1>11. /\ html'.chart = kind /\ html'.style = e.style /\ html'.link = e.link
       /\ html'.stream = "none" /\ ~html'.pending_newline /\ html'.segments = <<>> /\ html'.utf8 = <<>>
       /\ html'.page.text = e.page.text
  <2>1. html' = [Emit(e, <<Open("chart", "")>>) EXCEPT !.chart = kind]
    BY <1>1 DEF kind
  <2>2. e.chart = "none"
    BY <1>6, <1>9 DEF Kept
  <2>. QED
    BY <1>9, <1>10, <2>1, <2>2, OpenChartIs
<1>12. SettledAt(html', given')
  BY <1>7, <1>11 DEF SettledAt
<1>. DEFINE b == Bytes(newlines, FALSE)
            z == RowsOf(chart.rows)
<1>13. z \in Seq(AnsiByte) /\ Ends(z) /\ Started(z, kind)
  <2>1. /\ z \in Seq(AnsiByte) /\ Ends(z)
        /\ \A y : Started(y, kind) => Started(z \o y, kind)
    BY <1>10, ChartStarts
  <2>2. Started(none, kind)
    BY NothingStarts DEF none
  <2>3. z \o none = z
    BY <2>1, AnsiConcat DEF none
  <2>. HIDE DEF z
  <2>. QED
    BY <2>1, <2>2, <2>3
<1>14. Breaks(b)
  BY <1>2, BelowBreaks
<1>15. ansi' = b \o z
  BY <1>2
<1>. HIDE DEF b, z
<1>16. Started(ansi', kind)
  BY <1>13, <1>14, <1>15, BreaksStart
<1>17. Ends(ansi')
  BY <1>13, <1>14, <1>15, BreaksStart, EndsIs
<1>18. Core(html', ansi', pen, given')
  <2>1. html'.style = pen.style /\ html'.link = pen.link /\ pen.style \in Styles
    BY <1>4, <1>5, <1>9, <1>11 DEF Core, Kept, Alike, Pens
  <2>. QED
    BY <1>11, <1>12, <1>16, <2>1, Settles
<1>19. ~OpenIn(given')
  BY <1>12 DEF SettledAt
<1>. QED
  BY <1>3, <1>4, <1>17, <1>18, <1>19 DEF TextInv, EndsLines

(* The last line's end is the footer's.                                      *)
LEMMA FooterCore ==
    ASSUME NEW h, Bridge(h), Opens(h), h.chart = "none", h.pending_newline,
           NEW a, NEW p, NEW v, Core(h, a, p, v),
           NEW g, g = Emit(FlushPending(h, TRUE), Text(<<Newline>>))
    PROVE  SettledAt(g, v) /\ Kept(h, g)
<1>. DEFINE yes == TRUE
            box == h.chart # "none"
            f == FlushPending(h, yes)
            tags == Text(<<Newline>>)
            held == Held(h.segments)
            end == <<LineBreak>>
<1>1. PICK L, rest, done : /\ On(h, rest, L, Len(AllOf(L)))
                           /\ AgreeAll(rest, Whole(h), box)
                           /\ done \in Seq(Given) /\ v = done \o rest
                           /\ FitsGiven(h.page.text, Shows(done))
  <2>1. Pends(h, v)
    BY PendingParts
  <2>. QED
    BY <2>1, Zenon DEF Pends
<1>. DEFINE m == Mark(L)
            out == Rest(Whole(h), m)
<1>2. m \in 0 .. Len(held) /\ out = Rest(held, m) \o end
  BY <1>1, LineOut
<1>3. /\ Cleared(h, f) /\ Gains(h, f, Rest(held, m) \o Ending(yes), box)
      /\ f.page.stack \in {<<>>, LineIn(<<>>)}
  <2>1. yes \in BOOLEAN /\ (yes => h.chart = "none") /\ BoxOf(h.chart) = <<>>
    BY DEF BoxOf
  <2>. HIDE DEF yes
  <2>. QED
    BY <1>1, <2>1, FlushOut
<1>4. held \in Seq(Char)
  BY HeldType DEF Bridge, HtmlState
<1>. HIDE DEF f, held, m
<1>5. Gains(h, f, Rest(held, m), box)
  <2>1. Ending(yes) = <<>>
    BY EndingIs
  <2>2. Rest(held, m) \in Seq(Char)
    BY <1>2, <1>4, RestIs
  <2>3. Rest(held, m) \o <<>> = Rest(held, m)
    BY <2>2
  <2>. QED
    BY <1>3, <2>1, <2>3
<1>6. g = Emit(f, tags)
  BY DEF f
<1>7. Beside(f, g) /\ Gains(f, g, end, box)
  <2>. DEFINE st == f.page.stack
              no == FALSE
  <2>1. st \in Seq(Opened) /\ ("chart" \in Within(st) <=> FALSE)
    BY <1>3, OpenLineIs
  <2>2. f \in HtmlState
    BY <1>3 DEF Cleared
  <2>. HIDE DEF st
  <2>3. Puts(st, tags, end, no, st)
    BY <2>1, PutsLineEnd
  <2>. HIDE DEF tags, end, no
  <2>4. Beside(f, g) /\ Gains(f, g, end, no)
    BY <1>6, <2>2, <2>3, EmitBeside DEF st
  <2>5. box = no
    BY DEF no
  <2>. QED
    BY <2>4, <2>5
<1>8. Gains(h, g, out, box)
  <2>1. h.page \in Page
    BY DEF Bridge, HtmlState
  <2>. HIDE DEF out, end, box
  <2>. QED
    BY <1>2, <1>5, <1>7, <2>1, GainsThen
<1>9. m \in 0 .. Len(rest) /\ Leads(rest, m)
  <2>2. Len(held \o <<LineBreak>>) = Len(held) + 1 /\ Len(held) \in Nat
    BY <1>4
  <2>3. Len(rest) = Len(held) + 1
    BY <1>1, <2>2 DEF AgreeAll, Whole, held
  <2>4. Leads(rest, m)
    BY <1>1 DEF On, m
  <2>. QED
    BY <1>2, <2>2, <2>3, <2>4
<1>. HIDE DEF out, box
<1>10. FitsGiven(g.page.text, Shows(done \o rest))
  BY <1>1, <1>8, <1>9, GainsGiven DEF out
<1>11. v \in Seq(Given) /\ ~OpenIn(v)
  BY DEF Core
<1>. QED
  BY <1>1, <1>3, <1>7, <1>10, <1>11 DEF SettledAt, Cleared, Beside, Kept

LEMMA TextWriteFooter == ASSUME TagsInv, TextInv, WriteFooter PROVE TextInv'
<1>. DEFINE mute == When(~html.body_emitted \/ html.footer_needs_newline, Added(<<Newline>>))
            no == FALSE
            none == <<>>
<1>1. /\ ansi = <<>> /\ phase = "ending" /\ phase' = "finished" /\ ansi' = ansi /\ pen' = pen /\ given' = given
      /\ html' = IF Unfinished(html) THEN Emit(FlushPending(html, TRUE), Text(<<Newline>>)) ELSE Emit(html, mute)
  BY DEF WriteFooter
<1>2. Bridge(html) /\ Opens(html) /\ html.chart = "none"
  BY <1>1 DEF TagsInv
<1>3. ~OpenIn(given) /\ Core(html, ansi, pen, given)
  BY <1>1 DEF TextInv, EndsLines
<1>4. CASE Unfinished(html)
  <2>1. html.pending_newline
    BY <1>2, <1>3, <1>4 DEF Unfinished, Core, Bridge
  <2>2. html' = Emit(FlushPending(html, TRUE), Text(<<Newline>>))
    BY <1>1, <1>4
  <2>3. SettledAt(html', given) /\ Kept(html, html')
    BY <1>2, <1>3, <2>1, <2>2, FooterCore
  <2>4. Core(html', <<>>, pen, given)
    BY <2>3, RestsCore DEF Kept
  <2>. QED
    BY <1>1, <2>4 DEF TextInv, EndsLines
<1>5. CASE ~Unfinished(html)
  <2>1. html.page.stack \in Seq(Opened) /\ (~html.body_emitted \/ html.footer_needs_newline) \in BOOLEAN
    BY <1>2, Zenon DEF Bridge, HtmlState, Page
  <2>2. Writes(html.page.stack, mute, <<>>, html.page.stack)
    BY <2>1, MuteIs
  <2>3. html' = Emit(html, mute)
    BY <1>1, <1>5
  <2>. HIDE DEF mute
  <2>4. Puts(html.page.stack, mute, none, no, html.page.stack)
    BY <2>2, PutsNothing
  <2>. HIDE DEF none, no
  <2>5. Beside(html, html') /\ Gains(html, html', none, no) /\ html.page \in Page
    BY <1>2, <2>3, <2>4, EmitInside DEF Bridge, HtmlState
  <2>6. html'.page.text = html.page.text
    BY <2>5, GainsAlike DEF none
  <2>7. Alike(html, html')
    BY <2>5, <2>6 DEF Alike, Beside, Kept
  <2>8. Core(html', ansi, pen, given)
    BY <1>3, <2>7, AlikeCore
  <2>. QED
    BY <1>1, <2>8 DEF TextInv, EndsLines
<1>. QED
  BY <1>4, <1>5

LEMMA TextInit == Init => TextInv
<1>. SUFFICES ASSUME Init PROVE TextInv
  OBVIOUS
<1>. DEFINE none == <<>>
<1>1. /\ html.segments = none /\ ~html.pending_newline /\ html.style = Plain /\ html.link = NoLink
      /\ html.stream = "none" /\ html.utf8 = none /\ html.page.text = none
      /\ ansi = none /\ given = none /\ phase = "text" /\ pen = [style |-> Plain, link |-> NoLink]
  BY DEF Init, EmptyPage
<1>2. pen \in Pens /\ html.style = pen.style /\ html.link = pen.link /\ pen.style \in Styles
  BY <1>1, StyleAssumption DEF Pens, LinkNames
<1>3. FitsGiven(none, Shows(none))
  BY FitsNothing
<1>4. none \in Seq(Given) /\ ~OpenIn(none)
  BY DEF OpenIn
<1>5. Started(none, html.chart)
  BY NothingStarts
<1>. HIDE DEF none
<1>6. SettledAt(html, none)
  BY <1>1, <1>3, <1>4 DEF SettledAt, none
<1>7. Core(html, none, pen, none)
  BY <1>2, <1>5, <1>6, Settles
<1>. QED
  BY <1>1, <1>2, <1>7 DEF TextInv, EndsLines

LEMMA TextNext == ASSUME TagsInv, TextInv, [Next]_vars PROVE TextInv'
<1>1. CASE UNCHANGED vars
  BY <1>1 DEF TextInv, EndsLines, vars
<1>. QED
  BY <1>1, TextWriteNewline, TextWriteStyle, TextWriteLink, TextWriteByte, TextWriteLine, TextBeginChart,
     TextEndChart, TextBeginTable, TextEndTable, TextFinish, TextWriteFooter DEF Next

(* TextInv, which says which line's bytes are read, which of its characters  *)
(* are held and how what was given is what was shown and what is held, holds *)
(* in every document.                                                        *)
THEOREM TextInvariance == Spec => []TextInv
<1>1. TagsInv /\ TextInv /\ [Next]_vars => TextInv'
  BY TextNext
<1>2. Init => TextInv
  BY TextInit
<1>3. Spec => []TagsInv
  BY TagsInvariance
<1>. QED
  BY <1>1, <1>2, <1>3, PTL DEF Spec

(* What waits is what is held.                                               *)
LEMMA WaitingIs ==
    ASSUME TagsInv, TextInv
    PROVE  /\ Waiting \in Seq(Strings) /\ Len(Waiting) = Len(WaitingOf(html))
           /\ \A i \in 1 .. Len(Waiting) : Waiting[i] = WaitingOf(html)[i].c
<1>. DEFINE none == <<>>
            s == TextOf(html.segments)
            held == Held(html.segments)
            end == When(html.pending_newline, <<Newline>>)
            break == When(html.pending_newline, <<LineBreak>>)
<1>1. Bridge(html) /\ html \in HtmlState
  BY DEF TagsInv, Bridge
<1>2. Waiting = s \o html.utf8 \o end
  BY LineTextIs DEF Waiting
<1>3. s \in Seq(Strings) /\ held \in Seq(Char) /\ Len(held) = Len(s) /\ \A i \in 1 .. Len(s) : held[i].c = s[i]
  BY <1>1, HeldType, HeldLength DEF HtmlState
<1>4. Newline \in Strings /\ LineBreak \in Char /\ LineBreak.c = Newline
  BY Named, StyleAssumption DEF LineBreak, Char
<1>5. CASE html.utf8 # none
  <2>1. html.utf8 = <<Mid>>
    BY <1>1, <1>5 DEF HtmlState, Mid
  <2>2. html.segments = none
    BY <1>1, <1>5 DEF Bridge
  <2>3. ~html.pending_newline
    BY <1>5 DEF TextInv, Core, Parts, LineAt
  <2>4. s = none
    BY <2>2, TextOfAppend
  <2>5. Waiting = <<Mid>>
    <3>1. none \o <<Mid>> \o none = <<Mid>>
      OBVIOUS
    <3>2. end = none
      BY <2>3 DEF When
    <3>. QED
      BY <1>2, <2>1, <2>4, <3>1, <3>2
  <2>6. WaitingOf(html) = <<AsChar(html, Mid)>>
    BY <1>5 DEF WaitingOf, LeadOf
  <2>7. AsChar(html, Mid).c = Mid
    BY DEF AsChar
  <2>8. Mid \in Strings
    BY Named DEF Mid
  <2>9. \A y \in Strings : \A x : x.c = y => <<y>> \in Seq(Strings) /\ Len(<<y>>) = Len(<<x>>)
        /\ \A i \in 1 .. Len(<<y>>) : <<y>>[i] = <<x>>[i].c
    OBVIOUS
  <2>. QED
    BY <2>5, <2>6, <2>7, <2>8, <2>9
<1>6. CASE html.utf8 = none
  <2>0. WaitingOf(html) = held \o break /\ s \o none = s
    BY <1>3, <1>6 DEF WaitingOf
  <2>1. CASE html.pending_newline
    <3>. DEFINE w == Append(s, Newline)
                f == Append(held, LineBreak)
                n == Len(s)
    <3>1. Waiting = s \o <<Newline>> /\ WaitingOf(html) = held \o <<LineBreak>>
      BY <1>2, <1>6, <2>0, <2>1 DEF When
    <3>2. \A t \in Seq(Strings) : t \o <<Newline>> = Append(t, Newline)
      BY <1>4
    <3>3. \A t \in Seq(Char) : t \o <<LineBreak>> = Append(t, LineBreak)
      BY <1>4
    <3>4. Waiting = w /\ WaitingOf(html) = f
      BY <1>3, <3>1, <3>2, <3>3
    <3>. HIDE DEF s, held
    <3>5. w \in Seq(Strings) /\ Len(w) = n + 1 /\ w[n + 1] = Newline /\ n \in Nat /\ \A i \in 1 .. n : w[i] = s[i]
      BY <1>3, <1>4
    <3>6. Len(f) = n + 1 /\ f[n + 1] = LineBreak /\ \A i \in 1 .. n : f[i] = held[i]
      BY <1>3, <1>4
    <3>. HIDE DEF w, f, n
    <3>7. ASSUME NEW i \in 1 .. Len(w) PROVE w[i] = f[i].c
      <4>1. CASE i \in 1 .. n
        BY <1>3, <3>5, <3>6, <4>1 DEF n
      <4>2. CASE i = n + 1
        BY <1>4, <3>5, <3>6, <4>2
      <4>. QED
        BY <3>5, <4>1, <4>2
    <3>. QED
      BY <3>4, <3>5, <3>6, <3>7
  <2>2. CASE ~html.pending_newline
    <3>1. Waiting = s \o none /\ WaitingOf(html) = held \o none
      BY <1>2, <1>6, <2>0, <2>2 DEF When
    <3>2. held \o none = held
      BY <1>3
    <3>. HIDE DEF s, held
    <3>. QED
      BY <1>3, <2>0, <3>1, <3>2
  <2>. QED
    BY <2>1, <2>2
<1>. QED
  BY <1>5, <1>6

LEMMA WrittenIs ==
    ASSUME TagsInv, TextInv
    PROVE  /\ \A i \in 1 .. Len(Waiting) : given[Len(given) - Len(Waiting) + i].c = Waiting[i]
           /\ FitsGiven(html.page.text, Written)
<1>1. PICK done, rest : Parts(html, ansi, pen.style, given, done, rest)
  BY DEF TextInv, Core
<1>2. /\ done \in Seq(Given) /\ given = done \o rest /\ FitsGiven(html.page.text, Shows(done))
      /\ AgreeAll(rest, WaitingOf(html), html.chart # "none")
  BY <1>1 DEF Parts
<1>3. rest \in Seq(Given) /\ Len(rest) = Len(Waiting) /\ \A i \in 1 .. Len(Waiting) : rest[i].c = Waiting[i]
  BY <1>2, WaitingIs DEF AgreeAll, Agrees
<1>4. SubSeq(given, 1, Len(given) - Len(Waiting)) = done
  BY <1>2, <1>3, FrontIs
<1>5. Written = Shows(done)
  BY <1>4 DEF Written
<1>6. Len(given) = Len(done) + Len(rest) /\ Len(done) \in Nat /\ Len(rest) \in Nat
      /\ \A i \in 1 .. Len(rest) : given[Len(done) + i] = rest[i]
  <2>1. \A f, g \in Seq(Given) : Len(f \o g) = Len(f) + Len(g) /\ Len(f) \in Nat /\ Len(g) \in Nat
        /\ \A i \in 1 .. Len(g) : (f \o g)[Len(f) + i] = g[i]
    OBVIOUS
  <2>2. done \in Seq(Given) /\ rest \in Seq(Given)
    BY <1>2, <1>3
  <2>3. Len(done \o rest) = Len(done) + Len(rest) /\ Len(done) \in Nat /\ Len(rest) \in Nat
        /\ \A i \in 1 .. Len(rest) : (done \o rest)[Len(done) + i] = rest[i]
    BY <2>1, <2>2
  <2>. QED
    BY <1>2, <2>3
<1>7. Len(given) - Len(Waiting) = Len(done)
  BY <1>3, <1>6
<1>. QED
  BY <1>2, <1>3, <1>5, <1>6, <1>7

(* Every character of the document is in the page once and in the order of   *)
(* the document, a chart's in its box, or it waits in the bridge in that     *)
(* order: html_flush_line, the streamed lines, the charts and the tables     *)
(* neither lose a line nor write one twice or out of its place.              *)
THEOREM TextOrdered == Spec => []TextInOrder
<1>1. TagsInv /\ TextInv => TextInOrder
  <2>. SUFFICES ASSUME TagsInv, TextInv PROVE TextInOrder
    OBVIOUS
  <2>1. /\ \A i \in 1 .. Len(Waiting) : given[Len(given) - Len(Waiting) + i].c = Waiting[i]
        /\ FitsGiven(html.page.text, Written)
    BY WrittenIs
  <2>2. DOMAIN Waiting = 1 .. Len(Waiting)
    <3>1. Waiting \in Seq(Strings)
      BY WaitingIs
    <3>. QED
      BY <3>1
  <2>3. /\ Len(html.page.text) = Len(Written) /\ DOMAIN html.page.text = 1 .. Len(Written)
        /\ \A i \in 1 .. Len(Written) : /\ html.page.text[i].c = Written[i].c
                                        /\ "chart" \in html.page.text[i].within <=> Written[i].box
    BY <2>1 DEF FitsGiven, FitsItem
  <2>. QED
    BY <2>1, <2>2, <2>3 DEF TextInOrder
<1>2. Spec => []TagsInv
  BY TagsInvariance
<1>3. Spec => []TextInv
  BY TextInvariance
<1>. QED
  BY <1>1, <1>2, <1>3, PTL

(* Every character is shown in the style and with the link that were         *)
(* selected when it was written, however its line reached the page: as it    *)
(* came, collected, as a heading, a chart's row or under a link of its own.  *)
THEOREM TextDressed == Spec => []DressedAsWritten
<1>1. TagsInv /\ TextInv => DressedAsWritten
  <2>. SUFFICES ASSUME TagsInv, TextInv PROVE DressedAsWritten
    OBVIOUS
  <2>1. FitsGiven(html.page.text, Written)
    BY WrittenIs
  <2>2. DOMAIN Written = 1 .. Len(Written)
    BY <2>1 DEF FitsGiven
  <2>3. \A i \in 1 .. Len(Written) :
          /\ html.page.text[i].c = Written[i].c
          /\ \/ Written[i].c = Newline \/ "heading" \in html.page.text[i].within
             \/ /\ html.page.text[i].style = Written[i].style
                /\ \/ html.page.text[i].link = LinkShown(Written[i].link)
                   \/ "prefix" \in html.page.text[i].within /\ Written[i].link = NoLink
    BY <2>1 DEF FitsGiven, FitsItem
  <2>. QED
    BY <2>2, <2>3 DEF DressedAsWritten, LinkShown
<1>2. Spec => []TagsInv
  BY TagsInvariance
<1>3. Spec => []TextInv
  BY TextInvariance
<1>. QED
  BY <1>1, <1>2, <1>3, PTL

=============================================================================
