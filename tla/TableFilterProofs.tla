-------------------------- MODULE TableFilterProofs -------------------------
(***************************************************************************)
(* Proofs about TableFilter, for any texts, options and limits and         *)
(* documents of any length: the filter hands on what it was fed, in order  *)
(* and without loss, and its count of retained bytes is what it holds.     *)
(***************************************************************************)
EXTENDS TableFilter, SequenceLemmas

Pos   == 1 .. Len(fed)
Kinds == {"text", "table", "gap"}

TypeOK ==
    /\ options \in Options
    /\ fed \in Seq(Pieces)
    /\ delivered \in Seq([n : Pos, as : Kinds])
    /\ phase \in {"open", "finished", "failed"}
    /\ state \in {"pass", "prelude", "candidate", "header", "table"}
    /\ line_start \in BOOLEAN
    /\ line \in Seq(Pos)
    /\ line_chunks \in Nat
    /\ header \in Seq(Pos)
    /\ delimiter \in Seq(Pos)
    /\ rows \in Seq(Seq(Pos))
    /\ quote_prefix \in BOOLEAN
    /\ has_header \in BOOLEAN
    /\ row_layout_ready \in BOOLEAN
    /\ retained_bytes \in Int

(* The line is what was fed last, since the last newline at most. *)
LineOK ==
    /\ line = [i \in 1 .. Len(line) |-> Len(fed) - Len(line) + i]
    /\ \A i \in DOMAIN line : fed[line[i]] # "newline"
    /\ line = << >> => line_chunks = 0
    /\ state = "pass" => line = << >>
    /\ state \in {"prelude", "candidate"} => line # << >>

(* A stored line: not empty, and its newline was fed. *)
Closed(s) == s # << >> /\ Last(s) + 1 \in Pos

(* What is stored of a candidate, in each state. *)
StoredOK ==
    /\ state \notin {"header", "table"} => header = << >>
    /\ state # "table" =>
         delimiter = << >> /\ rows = << >> /\ ~has_header /\ ~row_layout_ready
    /\ state \in {"header", "table"} => Closed(header)
    /\ state = "header" => Cells(header) # 0
    /\ has_header => Closed(delimiter)
    /\ \A i \in DOMAIN rows : Closed(rows[i])
    /\ row_layout_ready => RowMode

FilterOK == phase = "open" => LineOK /\ StoredOK

IInv == TypeOK /\ FilterOK /\ RetainedIsHeld /\ Conservation
-----------------------------------------------------------------------------
(* Sequences of positions *)

(* NoQuotes for the pieces f. *)
Drop(f, s) ==
    FlattenSeq([i \in DOMAIN s |-> IF f[s[i]] = "quote" THEN << >> ELSE <<s[i]>>])

(* Drop makes a sequence of the same positions. *)
LEMMA DropType ==
    ASSUME NEW S, NEW f, NEW s \in Seq(S)
    PROVE  /\ [i \in DOMAIN s |-> IF f[s[i]] = "quote" THEN << >> ELSE <<s[i]>>] \in Seq(Seq(S))
           /\ Drop(f, s) \in Seq(S)
<1>. DEFINE g(i) == IF f[s[i]] = "quote" THEN << >> ELSE <<s[i]>>
            q    == [i \in DOMAIN s |-> g(i)]
<1>1. DOMAIN s = 1 .. Len(s) /\ Len(s) \in Nat
  OBVIOUS
<1>2. \A i \in 1 .. Len(s) : g(i) \in Seq(S)
  OBVIOUS
<1>3. q \in Seq(Seq(S))
  <2>. HIDE DEF g
  <2>. QED
    BY <1>1, <1>2, IsASeq
<1>4. FlattenSeq(q) \in Seq(S)
  <2>. HIDE DEF q
  <2>. QED
    BY <1>3, FlattenAppend, EmptySeq
<1>. QED
  BY <1>3, <1>4 DEF Drop

(* It is taken from a sequence part by part. *)
LEMMA DropConcat ==
    \A f, S : \A s, t \in Seq(S) : Drop(f, s \o t) = Drop(f, s) \o Drop(f, t)
<1>. SUFFICES ASSUME NEW S, NEW f, NEW s \in Seq(S), NEW t \in Seq(S)
              PROVE  Drop(f, s \o t) = Drop(f, s) \o Drop(f, t)
  OBVIOUS
<1>. DEFINE g(r) == [i \in DOMAIN r |-> IF f[r[i]] = "quote" THEN << >> ELSE <<r[i]>>]
<1>1. s \o t \in Seq(S)
  OBVIOUS
<1>2. g(s) \in Seq(Seq(S)) /\ g(t) \in Seq(Seq(S)) /\ g(s \o t) \in Seq(Seq(S))
  <2>. HIDE DEF g
  <2>. QED
    BY <1>1, DropType DEF g
<1>3. g(s \o t) = g(s) \o g(t)
  <2>. DEFINE x == g(s)
              y == g(t)
              z == g(s \o t)
  <2>1. /\ Len(x) = Len(s) /\ Len(y) = Len(t) /\ Len(z) = Len(s) + Len(t)
        /\ Len(s) \in Nat /\ Len(t) \in Nat
    OBVIOUS
  <2>2. ASSUME NEW i \in 1 .. Len(s) + Len(t)
        PROVE  z[i] = IF i <= Len(s) THEN x[i] ELSE y[i - Len(s)]
    <3>1. CASE i <= Len(s)
      <4>1. i \in 1 .. Len(s) /\ (s \o t)[i] = s[i]
        BY <3>1
      <4>. QED
        BY <3>1, <4>1
    <3>2. CASE ~(i <= Len(s))
      <4>1. i - Len(s) \in 1 .. Len(t) /\ (s \o t)[i] = t[i - Len(s)]
        BY <3>2
      <4>. QED
        BY <3>2, <4>1
    <3>. QED
      BY <3>1, <3>2
  <2>3. x \in Seq(Seq(S)) /\ y \in Seq(Seq(S)) /\ z \in Seq(Seq(S))
    BY <1>2
  <2>. HIDE DEF x, y, z
  <2>4. /\ x \o y \in Seq(Seq(S))
        /\ Len(x \o y) = Len(x) + Len(y)
        /\ \A i \in 1 .. Len(x) + Len(y) :
              (x \o y)[i] = IF i <= Len(x) THEN x[i] ELSE y[i - Len(x)]
    BY <2>3, ConcatProperties
  <2>5. \A i \in 1 .. Len(z) : z[i] = (x \o y)[i]
    BY <2>1, <2>2, <2>4
  <2>6. z = x \o y
    BY <2>1, <2>3, <2>4, <2>5, SeqEqual
  <2>. QED
    BY <2>6 DEF x, y, z
<1>. HIDE DEF g
<1>4. FlattenSeq(g(s) \o g(t)) = FlattenSeq(g(s)) \o FlattenSeq(g(t))
  BY <1>2, FlattenConcat
<1>. QED
  BY <1>3, <1>4 DEF Drop, g

(* Of a single position, and of none. *)
LEMMA DropOne ==
    ASSUME NEW f, NEW n
    PROVE  /\ Drop(f, << >>) = << >>
           /\ Drop(f, <<n>>) = IF f[n] = "quote" THEN << >> ELSE <<n>>
<1>. DEFINE e == IF f[n] = "quote" THEN << >> ELSE <<n>>
<1>1. Drop(f, << >>) = << >>
  BY FlattenEmpty DEF Drop
<1>2. e \in Seq({n})
  <2>1. << >> \in Seq({n}) /\ <<n>> \in Seq({n})
    OBVIOUS
  <2>. QED
    BY <2>1, Zenon
<1>3. [i \in DOMAIN <<n>> |-> IF f[<<n>>[i]] = "quote" THEN << >> ELSE <<(<<n>>[i])>>] = <<e>>
  OBVIOUS
<1>. HIDE DEF e
<1>4. FlattenSeq(<<e>>) = e
  <2>1. << >> \in Seq(Seq({n})) /\ Append(<< >>, e) = <<e>> /\ << >> \o e = e
    BY <1>2
  <2>. QED
    BY <1>2, <2>1, FlattenAppend, FlattenEmpty
<1>5. Drop(f, <<n>>) = e
  BY <1>3, <1>4 DEF Drop
<1>. QED
  BY <1>1, <1>5 DEF e

(* It depends on the pieces at the positions only. *)
LEMMA DropSame ==
    ASSUME NEW S, NEW s \in Seq(S), NEW f, NEW g, \A n \in S : f[n] = g[n]
    PROVE  Drop(f, s) = Drop(g, s)
<1>1. \A i \in DOMAIN s : f[s[i]] = g[s[i]]
  OBVIOUS
<1>2. [i \in DOMAIN s |-> IF f[s[i]] = "quote" THEN << >> ELSE <<s[i]>>]
        = [i \in DOMAIN s |-> IF g[s[i]] = "quote" THEN << >> ELSE <<s[i]>>]
  BY <1>1, Zenon
<1>. QED
  BY <1>2, Zenon DEF Drop

(* Items number what they were made of. *)
LEMMA ItemsNumbered ==
    ASSUME NEW S, NEW K, NEW s \in Seq(S), NEW k \in K
    PROVE  Items(s, k) \in Seq([n : S, as : K]) /\ Numbers(Items(s, k)) = s
<1>1. Items(s, k) \in Seq([n : S, as : K]) /\ Len(Items(s, k)) = Len(s)
  <2>1. DOMAIN s = 1 .. Len(s) /\ Len(s) \in Nat
    OBVIOUS
  <2>2. \A i \in 1 .. Len(s) : [n |-> s[i], as |-> k] \in [n : S, as : K]
    OBVIOUS
  <2>3. Items(s, k) = [i \in 1 .. Len(s) |-> [n |-> s[i], as |-> k]]
    BY <2>1 DEF Items
  <2>4. Items(s, k) \in Seq([n : S, as : K])
    BY <2>1, <2>2, <2>3, IsASeq
  <2>. QED
    BY <2>1, <2>3, <2>4, LenProperties
<1>2. \A i \in 1 .. Len(s) : Items(s, k)[i].n = s[i]
  BY DEF Items
<1>3. s = [i \in 1 .. Len(s) |-> s[i]] /\ DOMAIN Items(s, k) = 1 .. Len(s)
  BY DEF Items
<1>. QED
  BY <1>1, <1>2, <1>3 DEF Numbers

(* Items joined are numbered by their numbers joined. *)
LEMMA NumbersConcat ==
    \A I : \A a, b \in Seq(I) : Numbers(a \o b) = Numbers(a) \o Numbers(b)
<1>. SUFFICES ASSUME NEW I, NEW a \in Seq(I), NEW b \in Seq(I)
              PROVE  Numbers(a \o b) = Numbers(a) \o Numbers(b)
  OBVIOUS
<1>. DEFINE S == {r.n : r \in I}
<1>1. ASSUME NEW r \in Seq(I)
      PROVE  /\ Numbers(r) \in Seq(S)
             /\ Len(Numbers(r)) = Len(r)
             /\ \A i \in 1 .. Len(r) : Numbers(r)[i] = r[i].n
  <2>1. \A i \in 1 .. Len(r) : r[i] \in I
    BY ElementOfSeq
  <2>2. \A i \in 1 .. Len(r) : r[i].n \in S
    BY <2>1
  <2>3. DOMAIN r = 1 .. Len(r) /\ Len(r) \in Nat
    OBVIOUS
  <2>. HIDE DEF S
  <2>. QED
    BY <2>2, <2>3 DEF Numbers
<1>. HIDE DEF S
<1>2. /\ a \o b \in Seq(I)
      /\ Len(a \o b) = Len(a) + Len(b)
      /\ \A i \in 1 .. Len(a) + Len(b) :
            (a \o b)[i] = IF i <= Len(a) THEN a[i] ELSE b[i - Len(a)]
      /\ Len(a) \in Nat /\ Len(b) \in Nat
  BY ConcatProperties
<1>. DEFINE x == Numbers(a)
            y == Numbers(b)
            z == Numbers(a \o b)
<1>3. /\ x \in Seq(S) /\ y \in Seq(S) /\ z \in Seq(S)
      /\ Len(x) = Len(a) /\ Len(y) = Len(b)
      /\ Len(z) = Len(a) + Len(b)
      /\ \A i \in 1 .. Len(a) : x[i] = a[i].n
      /\ \A i \in 1 .. Len(b) : y[i] = b[i].n
      /\ \A i \in 1 .. Len(a) + Len(b) : z[i] = (a \o b)[i].n
  BY <1>1, <1>2
<1>. HIDE DEF x, y, z
<1>4. /\ x \o y \in Seq(S)
      /\ Len(x \o y) = Len(x) + Len(y)
      /\ \A i \in 1 .. Len(x) + Len(y) :
            (x \o y)[i] = IF i <= Len(x) THEN x[i] ELSE y[i - Len(x)]
  <2>1. x \in Seq(S) /\ y \in Seq(S)
    BY <1>3
  <2>. QED
    BY <2>1, ConcatProperties
<1>5. ASSUME NEW i \in 1 .. Len(z)
      PROVE  z[i] = (x \o y)[i]
  <2>1. CASE i <= Len(a)
    BY <1>2, <1>3, <1>4, <2>1
  <2>2. CASE ~(i <= Len(a))
    <3>1. i - Len(a) \in 1 .. Len(b)
      BY <1>2, <1>3, <2>2
    <3>. QED
      BY <1>2, <1>3, <1>4, <2>2, <3>1
  <2>. QED
    BY <2>1, <2>2
<1>6. z = x \o y
  BY <1>3, <1>4, <1>5, SeqEqual
<1>. QED
  BY <1>6 DEF x, y, z

(* The numbers of items are a sequence of positions. *)
LEMMA NumbersType ==
    \A S, K : \A a \in Seq([n : S, as : K]) : Numbers(a) \in Seq(S)
<1>. SUFFICES ASSUME NEW S, NEW K, NEW a \in Seq([n : S, as : K])
              PROVE  Numbers(a) \in Seq(S)
  OBVIOUS
<1>1. \A i \in 1 .. Len(a) : a[i] \in [n : S, as : K]
  BY ElementOfSeq
<1>2. \A i \in 1 .. Len(a) : a[i].n \in S
  BY <1>1
<1>3. DOMAIN a = 1 .. Len(a) /\ Len(a) \in Nat
  OBVIOUS
<1>. QED
  BY <1>2, <1>3 DEF Numbers

-----------------------------------------------------------------------------
(* Pieces and positions *)

(* Cells for the pieces f. *)
CellsIn(f, s) ==
    IF s = << >> \/ Last(s) \notin DOMAIN f \/ f[Last(s)] \notin Texts
       \/ TextCells[f[Last(s)]] = 0
    THEN 0
    ELSE TextCells[f[Last(s)]] + IF s # << >> /\ f[s[1]] = "quote" THEN 1 ELSE 0

(* Cells, for the pieces that were fed. *)
LEMMA CellsAreIn == \A s : Cells(s) = CellsIn(fed, s)
  BY Zenon DEF Cells, CellsIn, Quoted

(* It depends on the pieces at the positions only. *)
LEMMA CellsSame ==
    ASSUME NEW f, NEW g, NEW S, S \subseteq DOMAIN f, S \subseteq DOMAIN g,
           \A n \in S : f[n] = g[n], NEW s \in Seq(S)
    PROVE  CellsIn(f, s) = CellsIn(g, s)
<1>1. CASE s = << >>
  BY <1>1 DEF CellsIn
<1>2. CASE s # << >>
  <2>1. Last(s) \in S /\ s[1] \in S
    BY <1>2 DEF Last
  <2>2. f[Last(s)] = g[Last(s)] /\ f[s[1]] = g[s[1]]
    BY <2>1
  <2>3. Last(s) \in DOMAIN f /\ Last(s) \in DOMAIN g
    BY <2>1
  <2>. QED
    BY <2>2, <2>3, Zenon DEF CellsIn
<1>. QED
  BY <1>1, <1>2

(* A piece arrives: the positions are those so far and the next. *)
LEMMA Feeding ==
    ASSUME TypeOK, NEW x \in Pieces, Arrives(x)
    PROVE  /\ phase = "open"
           /\ Len(fed) \in Nat
           /\ Here = Len(fed) + 1
           /\ fed' \in Seq(Pieces)
           /\ Len(fed') = Here
           /\ Pos' = 1 .. Here
           /\ Here \in Pos'
           /\ Pos \subseteq Pos'
           /\ DOMAIN fed = Pos
           /\ DOMAIN fed' = Pos'
           /\ \A n \in Pos : fed'[n] = fed[n]
           /\ fed'[Here] = x
           /\ AllFed \in Seq(Pos)
           /\ AllFed' = AllFed \o <<Here>>
           /\ options' = options
<1>1. /\ phase = "open" /\ fed' = Append(fed, x) /\ options' = options
      /\ fed \in Seq(Pieces)
  BY DEF Arrives, TypeOK
<1>2. Len(fed) \in Nat /\ Here = Len(fed) + 1
  BY <1>1 DEF Here
<1>3. /\ fed' \in Seq(Pieces)
      /\ Len(fed') = Here
      /\ Pos' = 1 .. Here
      /\ Here \in Pos'
      /\ Pos \subseteq Pos'
      /\ DOMAIN fed = Pos
      /\ DOMAIN fed' = Pos'
      /\ \A n \in Pos : fed'[n] = fed[n]
      /\ fed'[Here] = x
  BY <1>1, <1>2 DEF Pos
<1>4. AllFed \in Seq(Pos) /\ AllFed = [i \in 1 .. Len(fed) |-> i]
  BY <1>2, <1>3 DEF AllFed, Pos
<1>5. AllFed' = [i \in 1 .. Here |-> i]
  BY <1>3 DEF AllFed
<1>6. AllFed \o <<Here>> = [i \in 1 .. Here |-> i]
  BY <1>2, <1>4
<1>. QED
  BY <1>1, <1>2, <1>3, <1>4, <1>5, <1>6

(* Sequences of positions stay ones. *)
LEMMA TypesGrow ==
    ASSUME NEW S, NEW T, S \subseteq T
    PROVE  /\ \A s \in Seq(S) : s \in Seq(T)
           /\ \A s \in Seq(Seq(S)) : s \in Seq(Seq(T))
           /\ \A s \in Seq([n : S, as : Kinds]) : s \in Seq([n : T, as : Kinds])
<1>1. Seq(S) \subseteq Seq(T)
  BY SeqMonotonic
<1>2. Seq(Seq(S)) \subseteq Seq(Seq(T))
  BY <1>1, SeqMonotonic
<1>3. [n : S, as : Kinds] \subseteq [n : T, as : Kinds]
  OBVIOUS
<1>4. Seq([n : S, as : Kinds]) \subseteq Seq([n : T, as : Kinds])
  <2>. DEFINE A == [n : S, as : Kinds]
              B == [n : T, as : Kinds]
  <2>1. A \subseteq B
    BY <1>3
  <2>. HIDE DEF A, B
  <2>2. Seq(A) \subseteq Seq(B)
    BY <2>1, SeqMonotonic
  <2>. QED
    BY <2>2 DEF A, B
<1>. QED
  BY <1>1, <1>2, <1>4

(* A line with its newline. *)
LEMMA EndedType ==
    ASSUME NEW s \in Seq(Pos), Closed(s)
    PROVE  Ended(s) \in Seq(Pos)
  BY DEF Ended, Closed, Pos

-----------------------------------------------------------------------------
(* What is held *)

(* What will be handed on before the line. *)
Before == CASE state = "header" -> Ended(header)
            [] state = "table"  -> Unrendered
            [] OTHER            -> << >>

EndedRows == [i \in DOMAIN rows |-> Ended(rows[i])]

(* What is held before the line is a sequence of positions. *)
LEMMA BeforeType ==
    ASSUME TypeOK, StoredOK
    PROVE  /\ Pending = Before \o line
           /\ EndedRows \in Seq(Seq(Pos))
           /\ FlattenSeq(EndedRows) \in Seq(Pos)
           /\ Before \in Seq(Pos)
<1>1. Pending = Before \o line
  BY DEF Pending, Before
<1>2. EndedRows \in Seq(Seq(Pos))
  <2>1. DOMAIN rows = 1 .. Len(rows) /\ Len(rows) \in Nat
    BY DEF TypeOK
  <2>2. \A i \in 1 .. Len(rows) : rows[i] \in Seq(Pos) /\ Closed(rows[i])
    BY <2>1, ElementOfSeq DEF TypeOK, StoredOK
  <2>3. \A i \in 1 .. Len(rows) : Ended(rows[i]) \in Seq(Pos)
    BY <2>2, EndedType
  <2>4. EndedRows = [i \in 1 .. Len(rows) |-> Ended(rows[i])]
    BY <2>1 DEF EndedRows
  <2>. QED
    BY <2>1, <2>3, <2>4, IsASeq
<1>3. FlattenSeq(EndedRows) \in Seq(Pos)
  BY <1>2, FlattenAppend, EmptySeq
<1>4. CASE state = "header"
  <2>1. Ended(header) \in Seq(Pos)
    BY <1>4, EndedType DEF TypeOK, StoredOK
  <2>2. Before = Ended(header)
    BY <1>4 DEF Before
  <2>. QED
    BY <1>1, <1>2, <1>3, <2>1, <2>2
<1>5. CASE state = "table"
  <2>1. Ended(header) \in Seq(Pos)
    BY <1>5, EndedType DEF TypeOK, StoredOK
  <2>2. has_header => Ended(delimiter) \in Seq(Pos)
    BY EndedType DEF TypeOK, StoredOK
  <2>3. Before = IF row_layout_ready THEN << >>
                 ELSE (IF has_header THEN Ended(header) \o Ended(delimiter) ELSE << >>)
                      \o FlattenSeq(EndedRows)
    BY <1>5 DEF Before, Unrendered, EndedRows
  <2>4. << >> \in Seq(Pos)
    OBVIOUS
  <2>5. has_header => Ended(header) \o Ended(delimiter) \in Seq(Pos)
    BY <2>1, <2>2
  <2>6. (IF has_header THEN Ended(header) \o Ended(delimiter) ELSE << >>) \in Seq(Pos)
    BY <2>4, <2>5
  <2>7. (IF has_header THEN Ended(header) \o Ended(delimiter) ELSE << >>)
           \o FlattenSeq(EndedRows) \in Seq(Pos)
    BY <1>3, <2>6, ConcatProperties
  <2>8. Before \in Seq(Pos)
    BY <2>3, <2>4, <2>7
  <2>. QED
    BY <1>1, <1>2, <1>3, <2>8
<1>6. CASE state \notin {"header", "table"}
  <2>1. Before = << >>
    BY <1>6 DEF Before
  <2>. QED
    BY <1>1, <1>2, <1>3, <2>1
<1>. QED
  BY <1>4, <1>5, <1>6

(* The parts that retained_bytes counts are numbers. *)
LEMMA HeldType ==
    ASSUME TypeOK
    PROVE  /\ FlattenSeq(rows) \in Seq(Pos)
           /\ Len(header) \in Nat /\ Len(delimiter) \in Nat /\ Len(line) \in Nat
           /\ Len(FlattenSeq(rows)) \in Nat
           /\ LineBytes = Len(line) + line_chunks
           /\ Boundary \in {0, 1} /\ BoundaryBytes = Boundary
<1>1. FlattenSeq(rows) \in Seq(Pos)
  BY FlattenAppend, EmptySeq DEF TypeOK
<1>. QED
  BY <1>1 DEF TypeOK, LineBytes, Boundary, BoundaryBytes

(* An open document's input: what it handed on and what it holds. *)
Whole == NoQuotes(Numbers(delivered) \o Pending) = NoQuotes(AllFed)

(* The same of any sequences. *)
LEMMA DropMoves ==
    \A f, S : \A d, b, l, h \in Seq(S) :
        Drop(f, (d \o (b \o l)) \o h) = Drop(f, d \o (b \o (l \o h)))
<1>. SUFFICES ASSUME NEW f, NEW S, NEW d \in Seq(S), NEW b \in Seq(S), NEW l \in Seq(S),
                     NEW h \in Seq(S)
              PROVE  Drop(f, (d \o (b \o l)) \o h) = Drop(f, d \o (b \o (l \o h)))
  OBVIOUS
<1>1. (d \o (b \o l)) \o h = d \o (b \o (l \o h))
  OBVIOUS
<1>. QED
  BY <1>1, Zenon

(* What a step adds, without quote marks, is what the input grew by.        *)
LEMMA DropGrows ==
    ASSUME NEW S, NEW f, NEW d \in Seq(S), NEW b \in Seq(S), NEW l \in Seq(S),
           NEW h \in Seq(S), NEW a \in Seq(S), NEW e \in Seq(S),
           Drop(f, d \o (b \o l)) = Drop(f, a),
           Drop(f, e) = Drop(f, l \o h)
    PROVE  Drop(f, d \o (b \o e)) = Drop(f, a \o h)
<1>. DEFINE be  == b \o e
            lh  == l \o h
            blh == b \o lh
            dbl == d \o (b \o l)
<1>1. be \in Seq(S) /\ lh \in Seq(S) /\ blh \in Seq(S) /\ dbl \in Seq(S)
  OBVIOUS
<1>2. Drop(f, dbl \o h) = Drop(f, d \o blh)
  BY DropMoves
<1>3. Drop(f, be) = Drop(f, b) \o Drop(f, e)
  BY DropConcat
<1>. HIDE DEF lh
<1>4. Drop(f, blh) = Drop(f, b) \o Drop(f, lh)
  BY <1>1, DropConcat
<1>. HIDE DEF be, blh, dbl
<1>5. Drop(f, a \o h) = Drop(f, a) \o Drop(f, h)
  BY DropConcat
<1>6. Drop(f, dbl \o h) = Drop(f, dbl) \o Drop(f, h)
  BY <1>1, DropConcat
<1>7. Drop(f, d \o blh) = Drop(f, d) \o Drop(f, blh)
  BY <1>1, DropConcat
<1>8. Drop(f, d \o be) = Drop(f, d) \o Drop(f, be)
  BY <1>1, DropConcat
<1>9. Drop(f, be) = Drop(f, blh)
  BY <1>3, <1>4 DEF lh
<1>10. Drop(f, a \o h) = Drop(f, dbl \o h)
  BY <1>5, <1>6 DEF dbl
<1>11. Drop(f, d \o be) = Drop(f, a \o h)
  BY <1>2, <1>7, <1>8, <1>9, <1>10
<1>. QED
  BY <1>11 DEF be

(* A step that appends to what it handed on and holds what the line and the  *)
(* new piece are without quote marks keeps it so.                            *)
LEMMA WholeGrows ==
    ASSUME TypeOK, StoredOK, Whole, NEW x \in Pieces, Arrives(x),
           NEW e \in Seq(Pos'), Drop(fed', e) = Drop(fed', line \o <<Here>>),
           (Numbers(delivered) \o Pending)' = Numbers(delivered) \o (Before \o e)
    PROVE  Whole'
<1>. DEFINE d == Numbers(delivered)
            h == <<Here>>
            W == d \o (Before \o line)
            F == fed'
<1>1. /\ d \in Seq(Pos) /\ Before \in Seq(Pos) /\ line \in Seq(Pos) /\ AllFed \in Seq(Pos)
      /\ Pending = Before \o line
  BY BeforeType, NumbersType, Feeding DEF TypeOK
<1>2. /\ d \in Seq(Pos') /\ Before \in Seq(Pos') /\ line \in Seq(Pos') /\ h \in Seq(Pos')
      /\ AllFed \in Seq(Pos') /\ AllFed' = AllFed \o h
  <2>1. Pos \subseteq Pos' /\ Here \in Pos' /\ AllFed' = AllFed \o h
    BY Feeding
  <2>2. \A s \in Seq(Pos) : s \in Seq(Pos')
    BY <2>1, TypesGrow
  <2>. HIDE DEF d
  <2>. QED
    BY <1>1, <2>1, <2>2
<1>3. W \in Seq(Pos) /\ W \in Seq(Pos')
  <2>. HIDE DEF d
  <2>. QED
    BY <1>1, <1>2
<1>4. Drop(F, W) = Drop(F, AllFed)
  <2>1. Drop(fed, W) = Drop(fed, AllFed)
    BY <1>1, Zenon DEF Whole, NoQuotes, Drop
  <2>2. \A n \in Pos : F[n] = fed[n]
    BY Feeding
  <2>. HIDE DEF F, W
  <2>3. Drop(F, W) = Drop(fed, W) /\ Drop(F, AllFed) = Drop(fed, AllFed)
    BY <1>1, <1>3, <2>2, DropSame
  <2>. QED
    BY <2>1, <2>3
<1>5. Drop(F, d \o (Before \o e)) = Drop(F, AllFed')
  <2>. DEFINE S == Pos'
              b == Before
              l == line
              a == AllFed
  <2>1. /\ d \in Seq(S) /\ b \in Seq(S) /\ l \in Seq(S) /\ h \in Seq(S) /\ a \in Seq(S)
        /\ e \in Seq(S) /\ Drop(F, d \o (b \o l)) = Drop(F, a) /\ Drop(F, e) = Drop(F, l \o h)
    BY <1>2, <1>4
  <2>. HIDE DEF S, b, l, h, a, F, d
  <2>2. Drop(F, d \o (b \o e)) = Drop(F, a \o h)
    BY <2>1, DropGrows
  <2>. QED
    BY <1>2, <2>2 DEF b, a
<1>6. Drop(F, (Numbers(delivered) \o Pending)') = Drop(F, AllFed')
  BY <1>5
<1>. QED
  BY <1>6, Zenon DEF Whole, NoQuotes, Drop

-----------------------------------------------------------------------------
(* What the steps have in common *)

(* While the document is open, the invariant is its parts. *)
LEMMA OpenInvariant ==
    ASSUME phase' = "open", TypeOK', LineOK', StoredOK', RetainedIsHeld', Whole'
    PROVE  IInv'
  BY DEF IInv, FilterOK, Conservation, Whole

(* And what they say there. *)
LEMMA OpenFacts ==
    ASSUME IInv, phase = "open"
    PROVE  /\ TypeOK /\ LineOK /\ StoredOK /\ Whole
           /\ retained_bytes = Len(line) + line_chunks + Held
           /\ state = "pass" => retained_bytes = 0
  BY DEF IInv, FilterOK, Conservation, Whole, RetainedIsHeld

(* No line is held. *)
LEMMA EmptyLine ==
    ASSUME line' = << >>, line_chunks' = 0, state' \notin {"prelude", "candidate"}
    PROVE  LineOK'
  BY DEF LineOK

(* A sequence that counts on from a. *)
LEMMA RunOfNumbers ==
    ASSUME NEW S, NEW q \in Seq(S), NEW a, \A i \in 1 .. Len(q) : q[i] = a + i
    PROVE  q = [i \in 1 .. Len(q) |-> a + i]
<1>1. q = [i \in 1 .. Len(q) |-> q[i]]
  OBVIOUS
<1>. QED
  BY <1>1, Zenon

(* The line grows by the piece that came. *)
LEMMA LineGrows ==
    ASSUME TypeOK, LineOK, NEW x \in Pieces, x # "newline", Arrives(x),
           line' = Append(line, Here), state' # "pass"
    PROVE  LineOK' /\ line' \in Seq(Pos') /\ Len(line') = Len(line) + 1
<1>. DEFINE k == Len(line)
<1>1. /\ line \in Seq(Pos) /\ k \in Nat /\ Len(fed) \in Nat /\ Here = Len(fed) + 1
      /\ Len(fed') = Here /\ Here \in Pos' /\ Pos \subseteq Pos' /\ fed'[Here] = x
      /\ \A n \in Pos : fed'[n] = fed[n]
  BY Feeding DEF TypeOK
<1>2. line \in Seq(Pos')
  BY <1>1, TypesGrow
<1>3. /\ line' \in Seq(Pos') /\ Len(line') = k + 1 /\ line' # << >>
      /\ DOMAIN line' = 1 .. k + 1
      /\ line'[k + 1] = Here
      /\ \A i \in 1 .. k : line'[i] = line[i]
  BY <1>1, <1>2
<1>4. \A i \in 1 .. k : line[i] = Len(fed) - k + i /\ line[i] \in Pos /\ i \in DOMAIN line
  BY <1>1 DEF LineOK
<1>5. \A i \in 1 .. k + 1 : line'[i] = Here - (k + 1) + i
  BY <1>1, <1>3, <1>4
<1>6. line' = [i \in 1 .. Len(line') |-> (Len(fed') - Len(line')) + i]
  <2>. DEFINE q == line'
              S == Pos'
              a == Here - (k + 1)
  <2>1. q \in Seq(S) /\ Len(q) = k + 1 /\ Len(fed') - Len(q) = a
        /\ \A i \in 1 .. Len(q) : q[i] = a + i
    BY <1>1, <1>3, <1>5
  <2>. HIDE DEF q, S, a
  <2>2. q = [i \in 1 .. Len(q) |-> a + i]
    BY <2>1, RunOfNumbers
  <2>. QED
    BY <2>1, <2>2 DEF q
<1>7. \A i \in DOMAIN line' : fed'[line'[i]] # "newline"
  <2>1. \A i \in 1 .. k : fed'[line'[i]] # "newline"
    BY <1>1, <1>3, <1>4 DEF LineOK
  <2>2. fed'[line'[k + 1]] # "newline"
    BY <1>1, <1>3
  <2>. QED
    BY <1>1, <1>3, <2>1, <2>2
<1>. QED
  BY <1>3, <1>6, <1>7 DEF LineOK

(* A stored line stays one. *)
LEMMA ClosedStays ==
    ASSUME TypeOK, NEW x \in Pieces, Arrives(x), NEW s, Closed(s)
    PROVE  s # << >> /\ Last(s) + 1 \in Pos'
  BY Feeding DEF Closed

(* What is stored of a candidate stays while a line is read. *)
LEMMA StoredStays ==
    ASSUME TypeOK, StoredOK, NEW x \in Pieces, Arrives(x), KeepCandidate,
           \/ state' = state
           \/ {state, state'} \subseteq {"pass", "prelude", "candidate"}
    PROVE  StoredOK'
<1>1. /\ header' = header /\ delimiter' = delimiter /\ rows' = rows
      /\ has_header' = has_header /\ row_layout_ready' = row_layout_ready
      /\ options' = options
  BY Feeding DEF KeepCandidate
<1>2. state' \notin {"header", "table"} => header' = << >>
  BY <1>1 DEF StoredOK
<1>3. state' # "table" =>
        delimiter' = << >> /\ rows' = << >> /\ ~has_header' /\ ~row_layout_ready'
  BY <1>1 DEF StoredOK
<1>4. state' \in {"header", "table"} => Closed(header)'
  BY <1>1, ClosedStays DEF StoredOK, Closed
<1>5. state' = "header" => Cells(header)' # 0
  <2>1. SUFFICES ASSUME state' = "header"
                 PROVE  Cells(header)' # 0
    OBVIOUS
  <2>2. state = "header"
    BY <2>1
  <2>3. CellsIn(fed, header) # 0
    BY <2>2, CellsAreIn DEF StoredOK
  <2>4. CellsIn(fed', header) = CellsIn(fed, header)
    <3>. DEFINE g == fed'
                S == Pos
    <3>1. header \in Seq(S) /\ S \subseteq DOMAIN fed /\ S \subseteq DOMAIN g
          /\ \A n \in S : fed[n] = g[n]
      BY Feeding DEF TypeOK
    <3>. HIDE DEF g, S
    <3>2. CellsIn(fed, header) = CellsIn(g, header)
      BY <3>1, CellsSame
    <3>. QED
      BY <3>2 DEF g
  <2>5. Cells(header)' = CellsIn(fed', header')
    BY Zenon DEF Cells, CellsIn, Quoted
  <2>. QED
    BY <1>1, <2>3, <2>4, <2>5
<1>6. has_header' => Closed(delimiter)'
  BY <1>1, ClosedStays DEF StoredOK, Closed
<1>7. \A i \in DOMAIN rows' : Closed(rows[i])'
  BY <1>1, ClosedStays DEF StoredOK, Closed
<1>8. row_layout_ready' => RowMode'
  BY <1>1 DEF StoredOK, RowMode
<1>. QED
  BY <1>2, <1>3, <1>4, <1>5, <1>6, <1>7, <1>8 DEF StoredOK

(* And all of the state keeps its type when it stays. *)
LEMMA StaysTyped ==
    ASSUME TypeOK, NEW x \in Pieces, Arrives(x)
    PROVE  /\ \A s \in Seq(Pos) : s \in Seq(Pos')
           /\ delivered \in Seq([n : Pos', as : Kinds])
           /\ line \in Seq(Pos') /\ header \in Seq(Pos') /\ delimiter \in Seq(Pos')
           /\ rows \in Seq(Seq(Pos'))
           /\ fed' \in Seq(Pieces) /\ options' \in Options
<1>1. Pos \subseteq Pos' /\ fed' \in Seq(Pieces) /\ options' = options
  BY Feeding
<1>. DEFINE S == Pos
            T == Pos'
<1>2. /\ delivered \in Seq([n : S, as : Kinds])
      /\ line \in Seq(S) /\ header \in Seq(S) /\ delimiter \in Seq(S)
      /\ rows \in Seq(Seq(S)) /\ S \subseteq T
  BY <1>1 DEF TypeOK
<1>. HIDE DEF S, T
<1>3. /\ delivered \in Seq([n : T, as : Kinds])
      /\ line \in Seq(T) /\ header \in Seq(T) /\ delimiter \in Seq(T)
      /\ rows \in Seq(Seq(T)) /\ \A s \in Seq(S) : s \in Seq(T)
  BY <1>2, TypesGrow
<1>. QED
  BY <1>1, <1>3 DEF S, T, TypeOK

(* Nothing is stored after ResetCandidate. *)
LEMMA ResetStored ==
    ASSUME IInv, phase = "open", ResetCandidate
    PROVE  /\ state' = "pass"
           /\ line' = << >> /\ line_chunks' = 0 /\ header' = << >> /\ delimiter' = << >>
           /\ rows' = << >> /\ quote_prefix' = FALSE /\ has_header' = FALSE
           /\ row_layout_ready' = FALSE
           /\ retained_bytes' = 0
           /\ Pending' = << >>
           /\ LineOK' /\ StoredOK' /\ RetainedIsHeld'
<1>1. /\ state' = "pass"
      /\ line' = << >> /\ line_chunks' = 0 /\ header' = << >> /\ delimiter' = << >>
      /\ rows' = << >> /\ quote_prefix' = FALSE /\ has_header' = FALSE
      /\ row_layout_ready' = FALSE
      /\ retained_bytes' = (retained_bytes - Held) - LineBytes
  BY DEF ResetCandidate, ResetLine
<1>2. TypeOK /\ retained_bytes = Len(line) + line_chunks + Held
  BY OpenFacts
<1>3. retained_bytes' = 0
  <2>1. Held \in Nat /\ Len(line) \in Nat /\ LineBytes = Len(line) + line_chunks
        /\ line_chunks \in Nat
    BY <1>2, HeldType DEF Held, TypeOK
  <2>. QED
    BY <1>1, <1>2, <2>1
<1>4. Held' = 0
  BY <1>1, FlattenEmpty DEF Held
<1>5. Pending' = << >>
  BY <1>1 DEF Pending
<1>6. LineOK'
  BY <1>1, EmptyLine
<1>7. StoredOK'
  BY <1>1 DEF StoredOK
<1>8. RetainedIsHeld'
  BY <1>1, <1>3, <1>4 DEF RetainedIsHeld
<1>. QED
  BY <1>1, <1>3, <1>5, <1>6, <1>7, <1>8

(* Sequences with an empty part. *)
LEMMA EmptyParts ==
    \A S : \A d, b, s \in Seq(S) :
        /\ d \o << >> = d
        /\ << >> \o d = d
        /\ (d \o s) \o << >> = d \o (<< >> \o s)
        /\ (d \o (b \o s)) \o << >> = d \o (b \o s)
        /\ d \o ((b \o s) \o << >>) = d \o (b \o s)
<1>. SUFFICES ASSUME NEW S, NEW d \in Seq(S), NEW b \in Seq(S), NEW s \in Seq(S)
              PROVE  /\ d \o << >> = d
                     /\ << >> \o d = d
                     /\ (d \o s) \o << >> = d \o (<< >> \o s)
                     /\ (d \o (b \o s)) \o << >> = d \o (b \o s)
                     /\ d \o ((b \o s) \o << >>) = d \o (b \o s)
  OBVIOUS
<1>1. d \o << >> = d /\ << >> \o d = d /\ (d \o s) \o << >> = d \o (<< >> \o s)
  OBVIOUS
<1>2. (d \o (b \o s)) \o << >> = d \o (b \o s)
  OBVIOUS
<1>3. d \o ((b \o s) \o << >>) = d \o (b \o s)
  OBVIOUS
<1>. QED
  BY <1>1, <1>2, <1>3

(* Regrouping three sequences, the last of them followed by nothing.        *)
LEMMA RegroupEmpty ==
    \A S : \A d, b, s \in Seq(S) : (d \o (b \o s)) \o << >> = (d \o b) \o s
  OBVIOUS

(* Handing on items. *)
LEMMA HandedOn ==
    ASSUME TypeOK, NEW x \in Pieces, Arrives(x),
           NEW s \in Seq(Pos'), NEW k \in Kinds, Handed(Items(s, k))
    PROVE  /\ delivered' \in Seq([n : Pos', as : Kinds])
           /\ Numbers(delivered)' = Numbers(delivered) \o s
           /\ Numbers(delivered) \in Seq(Pos')
<1>. DEFINE T == Pos'
            t == Items(s, k)
<1>1. delivered \in Seq([n : T, as : Kinds]) /\ delivered' = delivered \o t
  BY StaysTyped DEF Handed
<1>2. t \in Seq([n : T, as : Kinds]) /\ Numbers(t) = s
  <2>1. s \in Seq(T)
    OBVIOUS
  <2>. HIDE DEF T
  <2>. QED
    BY <2>1, ItemsNumbered
<1>3. Numbers(delivered)' = Numbers(delivered')
  BY DEF Numbers
<1>. HIDE DEF T, t
<1>4. /\ Numbers(delivered) \in Seq(T)
      /\ delivered \o t \in Seq([n : T, as : Kinds])
      /\ Numbers(delivered \o t) = Numbers(delivered) \o Numbers(t)
  <2>. DEFINE d == delivered
              I == [n : T, as : Kinds]
  <2>1. d \in Seq(I) /\ t \in Seq(I)
    BY <1>1, <1>2
  <2>2. Numbers(d) \in Seq(T)
    BY <2>1, NumbersType
  <2>. HIDE DEF d, I
  <2>3. d \o t \in Seq(I)
    BY <2>1
  <2>4. Numbers(d \o t) = Numbers(d) \o Numbers(t)
    BY <2>1, NumbersConcat
  <2>. QED
    BY <2>2, <2>3, <2>4 DEF d, I
<1>. QED
  BY <1>1, <1>2, <1>3, <1>4 DEF T

(* When nothing is handed on, the numbers stay. *)
LEMMA NothingHanded ==
    ASSUME TypeOK, NEW x \in Pieces, Arrives(x), delivered' = delivered
    PROVE  /\ delivered' \in Seq([n : Pos', as : Kinds])
           /\ Numbers(delivered)' = Numbers(delivered)
           /\ Numbers(delivered) \in Seq(Pos')
<1>. DEFINE T == Pos'
<1>1. delivered \in Seq([n : T, as : Kinds])
  BY StaysTyped
<1>2. Numbers(delivered)' = Numbers(delivered)
  BY DEF Numbers
<1>. HIDE DEF T
<1>3. Numbers(delivered) \in Seq(T)
  BY <1>1, NumbersType
<1>. QED
  BY <1>1, <1>2, <1>3 DEF T

(* What a completed line contributes, with its newline: the line, but for a  *)
(* quote mark.                                                               *)
LEMMA Completed ==
    ASSUME TypeOK, LineOK, Arrives("newline"),
           NEW c \in {line, Unquoted(line)}, c # << >>
    PROVE  /\ c \in Seq(Pos) /\ c \in Seq(Pos') /\ Len(c) \in Nat
           /\ Last(c) + 1 \in Pos'
           /\ Ended(c) = Append(c, Here)
           /\ Ended(c) \in Seq(Pos')
           /\ Drop(fed', Ended(c)) = Drop(fed', line \o <<Here>>)
<1>. DEFINE x == "newline"
            k == Len(line)
<1>1. x \in Pieces
  BY DEF Pieces
<1>2. /\ line \in Seq(Pos) /\ k \in Nat /\ Len(fed) \in Nat /\ Here = Len(fed) + 1
      /\ Here \in Pos' /\ Pos \subseteq Pos' /\ \A n \in Pos : fed'[n] = fed[n]
      /\ \A s \in Seq(Pos) : s \in Seq(Pos')
  BY <1>1, Feeding, StaysTyped DEF TypeOK
<1>3. \A i \in 1 .. k : line[i] = Len(fed) - k + i
  BY <1>2 DEF LineOK
<1>4. line # << >>
  BY DEF Unquoted, Quoted
<1>5. k \in 1 .. k /\ 1 \in 1 .. k
  BY <1>2, <1>4
<1>6. c = line \/ (c = Tail(line) /\ fed[line[1]] = "quote")
  BY DEF Unquoted, Quoted
<1>7. c \in Seq(Pos) /\ Last(c) = Len(fed)
  <2>1. CASE c = line
    BY <1>2, <1>3, <1>4, <1>5, <2>1 DEF Last
  <2>2. CASE c = Tail(line)
    <3>1. /\ c \in Seq(Pos) /\ Len(c) = k - 1
          /\ \A i \in 1 .. Len(c) : c[i] = line[i + 1]
      BY <1>2, <1>4, <2>2, HeadTailProperties
    <3>2. Len(c) \in 1 .. Len(c) /\ Len(c) + 1 = k
      BY <1>2, <3>1
    <3>3. c[Len(c)] = line[k]
      BY <3>1, <3>2
    <3>. QED
      BY <1>2, <1>3, <1>5, <3>1, <3>3 DEF Last
  <2>. QED
    BY <1>6, <2>1, <2>2
<1>8. Ended(c) = Append(c, Here) /\ Last(c) + 1 \in Pos'
  BY <1>2, <1>7 DEF Ended
<1>9. c \in Seq(Pos') /\ line \in Seq(Pos') /\ <<Here>> \in Seq(Pos') /\ Ended(c) \in Seq(Pos')
      /\ Ended(c) = c \o <<Here>>
  <2>. DEFINE S == Pos'
              n == Here
  <2>1. c \in Seq(S) /\ line \in Seq(S) /\ n \in S /\ Ended(c) = Append(c, n)
    BY <1>2, <1>7, <1>8
  <2>. HIDE DEF S, n
  <2>2. \A T : \A s \in Seq(T), e \in T :
          Append(s, e) \in Seq(T) /\ <<e>> \in Seq(T) /\ Append(s, e) = s \o <<e>>
    OBVIOUS
  <2>3. Append(c, n) \in Seq(S) /\ <<n>> \in Seq(S) /\ Append(c, n) = c \o <<n>>
    BY <2>1, <2>2
  <2>. QED
    BY <2>1, <2>3 DEF S, n
<1>10. Drop(fed', Ended(c)) = Drop(fed', line \o <<Here>>)
  <2>1. CASE c = line
    BY <1>9, <2>1
  <2>2. CASE c = Tail(line) /\ fed[line[1]] = "quote"
    <3>. DEFINE S == Pos'
                F == fed'
                q == <<line[1]>>
                h == <<Here>>
                l == line
    <3>1. line[1] \in Pos /\ F[line[1]] = "quote"
      <4>1. line[1] \in Pos
        BY <1>2, <1>5, ElementOfSeq
      <4>. QED
        BY <1>2, <2>2, <4>1
    <3>2. Drop(F, q) = << >>
      <4>. HIDE DEF F
      <4>. QED
        BY <3>1, DropOne
    <3>3. q \in Seq(S) /\ l \in Seq(S) /\ h \in Seq(S) /\ c \in Seq(S) /\ l = q \o c
      BY <1>2, <1>4, <1>9, <2>2, <3>1
    <3>. HIDE DEF F, q, S, h, l
    <3>4. Drop(F, l) = Drop(F, q) \o Drop(F, c)
      BY <3>3, DropConcat
    <3>5. Drop(F, c) \in Seq(S)
      BY <3>3, DropType
    <3>6. Drop(F, l) = Drop(F, c)
      BY <3>2, <3>4, <3>5
    <3>7. Drop(F, c \o h) = Drop(F, c) \o Drop(F, h)
      BY <3>3, DropConcat
    <3>8. Drop(F, l \o h) = Drop(F, l) \o Drop(F, h)
      BY <3>3, DropConcat
    <3>. QED
      BY <1>9, <3>6, <3>7, <3>8 DEF F, h, l
  <2>. QED
    BY <1>6, <2>1, <2>2
<1>. QED
  BY <1>7, <1>8, <1>9, <1>10

-----------------------------------------------------------------------------
(* The steps *)

(* A document that fails hands nothing on. *)
LEMMA FailedKeeps ==
    ASSUME IInv, NEW x \in Pieces, LimitExceeded(x) \/ Breaks(x)
    PROVE  IInv'
<1>1. TypeOK /\ Arrives(x) /\ phase' = "failed"
  BY DEF IInv, LimitExceeded, Breaks
<1>2. /\ delivered' = delivered /\ line_start' = line_start /\ state' = state
      /\ line' = line /\ line_chunks' = line_chunks /\ header' = header
      /\ delimiter' = delimiter /\ rows' = rows /\ quote_prefix' = quote_prefix
      /\ has_header' = has_header /\ row_layout_ready' = row_layout_ready
      /\ retained_bytes' = retained_bytes
  BY DEF LimitExceeded, Breaks, held
<1>3. TypeOK'
  BY <1>1, <1>2, StaysTyped DEF TypeOK
<1>. QED
  BY <1>1, <1>3 DEF IInv, FilterOK, RetainedIsHeld, Conservation

(* A piece that goes straight on. *)
LEMMA PassOnKeeps ==
    ASSUME IInv, NEW x \in Pieces, PassOn(x)
    PROVE  IInv'
<1>1. /\ Arrives(x) /\ phase = "open" /\ phase' = "open" /\ state = "pass"
      /\ Handed(Items(<<Here>>, "text")) /\ line_start' = (x = "newline")
      /\ state' = state
      /\ line' = line /\ line_chunks' = line_chunks /\ header' = header
      /\ delimiter' = delimiter /\ rows' = rows /\ quote_prefix' = quote_prefix
      /\ has_header' = has_header /\ row_layout_ready' = row_layout_ready
      /\ retained_bytes' = retained_bytes
  BY DEF PassOn, Feeds, Arrives, held
<1>2. /\ TypeOK /\ LineOK /\ StoredOK /\ Whole
      /\ retained_bytes = Len(line) + line_chunks + Held
      /\ retained_bytes = 0
      /\ line = << >> /\ line_chunks = 0
  BY <1>1, OpenFacts DEF LineOK
<1>3. /\ <<Here>> \in Seq(Pos') /\ << >> \in Seq(Pos')
  BY <1>1, <1>2, Feeding
<1>4. /\ delivered' \in Seq([n : Pos', as : Kinds])
      /\ Numbers(delivered)' = Numbers(delivered) \o <<Here>>
      /\ Numbers(delivered) \in Seq(Pos')
  BY <1>1, <1>2, <1>3, HandedOn DEF Kinds
<1>5. TypeOK'
  BY <1>1, <1>2, <1>4, StaysTyped DEF TypeOK
<1>6. LineOK'
  BY <1>1, <1>2, EmptyLine
<1>7. StoredOK'
  BY <1>1, <1>2, StoredStays DEF KeepCandidate
<1>8. RetainedIsHeld'
  BY <1>1, <1>2 DEF RetainedIsHeld, Held
<1>9. Whole'
  <2>1. Pending' = << >> /\ Before = << >>
    BY <1>1, <1>2 DEF Pending, Before
  <2>2. (Numbers(delivered) \o Pending)' = (Numbers(delivered) \o <<Here>>) \o << >>
    BY <1>4, <2>1
  <2>3. (Numbers(delivered) \o Pending)' = Numbers(delivered) \o (Before \o <<Here>>)
    BY <1>3, <1>4, <2>1, <2>2, EmptyParts
  <2>4. <<Here>> = line \o <<Here>>
    BY <1>2, <1>3
  <2>. QED
    BY <1>1, <1>2, <1>3, <2>3, <2>4, WholeGrows
<1>. QED
  BY <1>1, <1>5, <1>6, <1>7, <1>8, <1>9, OpenInvariant

(* A step that only adds to the line. *)
LEMMA HoldingKeeps ==
    ASSUME IInv, phase = "open", phase' = "open",
           NEW x \in Pieces, x # "newline", Arrives(x),
           line' = Append(line, Here), delivered' = delivered,
           line_start' = line_start, KeepCandidate,
           line_chunks' \in Nat,
           retained_bytes' = retained_bytes + (line_chunks' - line_chunks) + 1,
           state' \in {"prelude", "candidate", "header", "table"},
           \/ state' = state
           \/ {state, state'} \subseteq {"pass", "prelude", "candidate"}
    PROVE  IInv'
<1>1. /\ TypeOK /\ LineOK /\ StoredOK /\ Whole
      /\ retained_bytes = Len(line) + line_chunks + Held
  BY OpenFacts
<1>2. /\ header' = header /\ delimiter' = delimiter /\ rows' = rows
      /\ quote_prefix' = quote_prefix /\ has_header' = has_header
      /\ row_layout_ready' = row_layout_ready
  BY DEF KeepCandidate
<1>3. LineOK' /\ line' \in Seq(Pos') /\ Len(line') = Len(line) + 1
  BY <1>1, LineGrows
<1>4. /\ delivered' \in Seq([n : Pos', as : Kinds])
      /\ Numbers(delivered)' = Numbers(delivered)
      /\ Numbers(delivered) \in Seq(Pos')
  BY <1>1, NothingHanded
<1>5. TypeOK'
  <2>1. retained_bytes' \in Int
    BY <1>1 DEF TypeOK
  <2>. QED
    BY <1>1, <1>2, <1>3, <1>4, <2>1, StaysTyped DEF TypeOK
<1>6. StoredOK'
  BY <1>1, StoredStays
<1>7. RetainedIsHeld'
  <2>1. Held' = Held /\ Held \in Nat /\ Len(line) \in Nat /\ line_chunks \in Nat
    BY <1>1, <1>2, HeldType DEF Held, TypeOK
  <2>2. retained_bytes' = Len(line') + line_chunks' + Held'
    BY <1>1, <1>3, <2>1
  <2>. QED
    BY <2>2 DEF RetainedIsHeld
<1>8. Whole'
  <2>1. line' = line \o <<Here>>
    <3>1. line \in Seq(Pos') /\ Here \in Pos'
      BY <1>1, Feeding, StaysTyped
    <3>. QED
      BY <3>1, AppendIsConcat
  <2>2. Pending' = Before \o line'
    BY <1>2 DEF Pending, Before, Unrendered
  <2>3. (Numbers(delivered) \o Pending)' = Numbers(delivered) \o (Before \o (line \o <<Here>>))
    BY <1>4, <2>1, <2>2
  <2>4. line \o <<Here>> \in Seq(Pos')
    BY <1>3, <2>1
  <2>. QED
    BY <1>1, <2>3, <2>4, WholeGrows
<1>. QED
  BY <1>3, <1>5, <1>6, <1>7, <1>8, OpenInvariant

(* The first piece of a line. *)
LEMMA StartLineKeeps ==
    ASSUME IInv, NEW x \in Pieces, StartLine(x)
    PROVE  IInv'
<1>1. /\ Arrives(x) /\ phase = "open" /\ phase' = "open" /\ state = "pass"
      /\ line_start /\ x # "newline" /\ line_chunks' = line_chunks /\ KeepCandidate
  BY DEF StartLine, Feeds, Arrives
<1>2. /\ TypeOK /\ LineOK /\ StoredOK /\ Whole
      /\ retained_bytes = Len(line) + line_chunks + Held
      /\ retained_bytes = 0
      /\ line = << >> /\ line_chunks = 0
  BY <1>1, OpenFacts DEF LineOK
<1>3. <<Here>> \in Seq(Pos') /\ Here \in Pos'
  BY <1>1, <1>2, Feeding
<1>4. CASE x \in Barred \cup Marks
  <2>1. /\ state' \in {"prelude", "candidate"}
        /\ line' = <<Here>> /\ retained_bytes' = retained_bytes + 1
        /\ delivered' = delivered /\ line_start' = line_start
    BY <1>4 DEF StartLine
  <2>2. line' = Append(line, Here)
    BY <1>2, <1>3, <2>1
  <2>3. /\ retained_bytes' = retained_bytes + (line_chunks' - line_chunks) + 1
        /\ line_chunks' \in Nat
    BY <1>1, <1>2, <2>1
  <2>. QED
    BY <1>1, <2>1, <2>2, <2>3, HoldingKeeps
<1>5. CASE x \notin Barred \cup Marks
  <2>1. /\ Handed(Items(<<Here>>, "text")) /\ line_start' = FALSE
        /\ state' = state /\ line' = line /\ retained_bytes' = retained_bytes
    BY <1>5 DEF StartLine
  <2>2. /\ header' = header /\ delimiter' = delimiter /\ rows' = rows
        /\ quote_prefix' = quote_prefix /\ has_header' = has_header
        /\ row_layout_ready' = row_layout_ready
    BY <1>1 DEF KeepCandidate
  <2>3. /\ delivered' \in Seq([n : Pos', as : Kinds])
        /\ Numbers(delivered)' = Numbers(delivered) \o <<Here>>
        /\ Numbers(delivered) \in Seq(Pos')
    BY <1>1, <1>2, <1>3, <2>1, HandedOn DEF Kinds
  <2>4. TypeOK'
    BY <1>1, <1>2, <2>1, <2>2, <2>3, StaysTyped DEF TypeOK
  <2>5. LineOK'
    BY <1>1, <1>2, <2>1, EmptyLine
  <2>6. StoredOK'
    BY <1>1, <1>2, <2>1, StoredStays
  <2>7. RetainedIsHeld'
    BY <1>1, <1>2, <2>1, <2>2 DEF RetainedIsHeld, Held
  <2>8. Whole'
    <3>1. Pending' = << >> /\ Before = << >>
      BY <1>1, <1>2, <2>1 DEF Pending, Before
    <3>2. (Numbers(delivered) \o Pending)' = (Numbers(delivered) \o <<Here>>) \o << >>
      BY <2>3, <3>1
    <3>3. << >> \in Seq(Pos')
      OBVIOUS
    <3>4. (Numbers(delivered) \o Pending)' = Numbers(delivered) \o (Before \o <<Here>>)
      BY <1>3, <2>3, <3>1, <3>2, <3>3, EmptyParts
    <3>5. <<Here>> = line \o <<Here>>
      BY <1>2, <1>3
    <3>. QED
      BY <1>1, <1>2, <1>3, <3>4, <3>5, WholeGrows
  <2>. QED
    BY <1>1, <2>4, <2>5, <2>6, <2>7, <2>8, OpenInvariant
<1>. QED
  BY <1>4, <1>5

(* A piece of a line that is held. *)
LEMMA GrowLineKeeps ==
    ASSUME IInv, NEW x \in Pieces, GrowLine(x)
    PROVE  IInv'
<1>1. /\ Arrives(x) /\ phase = "open" /\ phase' = "open"
      /\ state \in {"candidate", "header", "table"} /\ x # "newline"
      /\ line' = Append(line, Here) /\ line_chunks' = line_chunks + Boundary
      /\ retained_bytes' = retained_bytes + BoundaryBytes + 1
      /\ delivered' = delivered /\ state' = state /\ line_start' = line_start
      /\ KeepCandidate
  BY DEF GrowLine, Feeds, Arrives
<1>2. /\ Boundary \in {0, 1} /\ BoundaryBytes = Boundary /\ line_chunks \in Nat
      /\ retained_bytes \in Int
  BY HeldType DEF IInv, TypeOK
<1>3. /\ retained_bytes' = retained_bytes + (line_chunks' - line_chunks) + 1
      /\ line_chunks' \in Nat
  BY <1>1, <1>2
<1>. QED
  BY <1>1, <1>3, HoldingKeeps

(* A step that hands on what there is and stores nothing. *)
LEMMA ResettingKeeps ==
    ASSUME IInv, phase = "open", phase' = "open",
           NEW x \in Pieces, Arrives(x), ResetCandidate,
           line_start' \in BOOLEAN,
           delivered' \in Seq([n : Pos', as : Kinds]),
           Numbers(delivered)' = Numbers(delivered) \o (Before \o (line \o <<Here>>))
    PROVE  IInv'
<1>1. /\ state' = "pass"
      /\ line' = << >> /\ line_chunks' = 0 /\ header' = << >> /\ delimiter' = << >>
      /\ rows' = << >> /\ quote_prefix' = FALSE /\ has_header' = FALSE
      /\ row_layout_ready' = FALSE
      /\ retained_bytes' = 0
      /\ Pending' = << >>
      /\ LineOK' /\ StoredOK' /\ RetainedIsHeld'
  BY ResetStored
<1>2. TypeOK /\ LineOK /\ StoredOK /\ Whole
  BY OpenFacts
<1>3. << >> \in Seq(Pos') /\ << >> \in Seq(Seq(Pos'))
  OBVIOUS
<1>4. TypeOK'
  <2>1. fed' \in Seq(Pieces) /\ options' \in Options
    BY <1>2, StaysTyped
  <2>2. /\ line' \in Seq(Pos') /\ header' \in Seq(Pos') /\ delimiter' \in Seq(Pos')
        /\ rows' \in Seq(Seq(Pos'))
    BY <1>1, <1>3
  <2>3. /\ phase' \in {"open", "finished", "failed"}
        /\ state' \in {"pass", "prelude", "candidate", "header", "table"}
        /\ line_chunks' \in Nat /\ retained_bytes' \in Int
    BY <1>1
  <2>4. /\ quote_prefix' \in BOOLEAN /\ has_header' \in BOOLEAN
        /\ row_layout_ready' \in BOOLEAN
    BY <1>1, Zenon
  <2>. QED
    BY <2>1, <2>2, <2>3, <2>4, Zenon DEF TypeOK
<1>5. Whole'
  <2>1. Numbers(delivered)' \in Seq(Pos')
    <3>. DEFINE T == Pos'
    <3>1. delivered' \in Seq([n : T, as : Kinds])
      OBVIOUS
    <3>. HIDE DEF T
    <3>2. Numbers(delivered') \in Seq(T)
      BY <3>1, NumbersType
    <3>. QED
      BY <3>2 DEF T, Numbers
  <2>2. (Numbers(delivered) \o Pending)' = Numbers(delivered)'
    BY <1>1, <2>1, EmptyParts
  <2>3. line \o <<Here>> \in Seq(Pos')
    BY <1>2, Feeding, StaysTyped
  <2>. QED
    BY <1>2, <2>2, <2>3, WholeGrows
<1>. QED
  BY <1>1, <1>4, <1>5, OpenInvariant

(* The piece after a prefix. *)
LEMMA GrowPreludeKeeps ==
    ASSUME IInv, NEW x \in Pieces, GrowPrelude(x)
    PROVE  IInv'
<1>1. /\ Arrives(x) /\ phase = "open" /\ phase' = "open" /\ state = "prelude"
      /\ KeepCandidate
  BY DEF GrowPrelude, Feeds, Arrives
<1>2. /\ TypeOK /\ LineOK /\ StoredOK /\ line # << >>
      /\ Boundary \in {0, 1} /\ BoundaryBytes = Boundary /\ line_chunks \in Nat
      /\ retained_bytes \in Int
      /\ retained_bytes = Len(line) + line_chunks + Held
  BY <1>1, OpenFacts, HeldType DEF LineOK, TypeOK
<1>3. CASE x \in Barred
  <2>1. /\ state' = "candidate" /\ line' = Append(line, Here)
        /\ line_chunks' = line_chunks + Boundary
        /\ retained_bytes' = retained_bytes + BoundaryBytes + 1
        /\ delivered' = delivered /\ line_start' = line_start
    BY <1>3 DEF GrowPrelude
  <2>2. /\ retained_bytes' = retained_bytes + (line_chunks' - line_chunks) + 1
        /\ line_chunks' \in Nat
    BY <1>2, <2>1
  <2>3. x # "newline"
    BY <1>3 DEF Barred
  <2>. QED
    BY <1>1, <2>1, <2>2, <2>3, HoldingKeeps
<1>4. CASE x \notin Barred
  <2>1. /\ state' = "pass" /\ Handed(Items(Append(line, Here), "text"))
        /\ line_start' = (x = "newline") /\ ResetLine(retained_bytes)
    BY <1>4 DEF GrowPrelude
  (* Nothing is stored yet, so this is what ResetCandidate does. *)
  <2>2. /\ header = << >> /\ delimiter = << >> /\ rows = << >>
        /\ has_header = FALSE /\ row_layout_ready = FALSE /\ Held = 0
    BY <1>1, <1>2, FlattenEmpty DEF StoredOK, Held
  <2>3. /\ header' = header /\ delimiter' = delimiter /\ rows' = rows
        /\ quote_prefix' = quote_prefix /\ has_header' = has_header
        /\ row_layout_ready' = row_layout_ready
        /\ line' = << >> /\ line_chunks' = 0 /\ retained_bytes' = retained_bytes - LineBytes
    BY <1>1, <2>1 DEF KeepCandidate, ResetLine
  <2>4. Append(line, Here) \in Seq(Pos') /\ Append(line, Here) = line \o <<Here>>
        /\ line \o <<Here>> \in Seq(Pos') /\ << >> \in Seq(Pos')
    <3>1. line \in Seq(Pos') /\ Here \in Pos'
      BY <1>1, <1>2, Feeding, StaysTyped
    <3>. QED
      BY <3>1, AppendIsConcat
  <2>5. /\ delivered' \in Seq([n : Pos', as : Kinds])
        /\ Numbers(delivered)' = Numbers(delivered) \o (line \o <<Here>>)
        /\ Numbers(delivered) \in Seq(Pos')
    BY <1>1, <1>2, <2>1, <2>4, HandedOn DEF Kinds
  <2>6. retained_bytes' = 0
    <3>1. Len(line) \in Nat /\ LineBytes = Len(line) + line_chunks
      BY <1>2, HeldType
    <3>. QED
      BY <1>2, <2>2, <2>3, <3>1
  <2>7. TypeOK'
    BY <1>1, <1>2, <2>1, <2>3, <2>4, <2>5, <2>6, StaysTyped DEF TypeOK
  <2>8. LineOK'
    BY <2>1, <2>3, EmptyLine
  <2>9. StoredOK'
    BY <1>1, <1>2, <2>1, StoredStays
  <2>10. RetainedIsHeld'
    <3>1. Held' = 0
      BY <2>2, <2>3, FlattenEmpty DEF Held
    <3>. QED
      BY <2>3, <2>6, <3>1 DEF RetainedIsHeld
  <2>11. Whole'
    <3>1. Pending' = << >> /\ Before = << >>
      BY <1>1, <2>1, <2>3 DEF Pending, Before
    <3>2. (Numbers(delivered) \o Pending)' = (Numbers(delivered) \o (line \o <<Here>>)) \o << >>
      BY <2>5, <3>1
    <3>3. (Numbers(delivered) \o Pending)' = Numbers(delivered) \o (Before \o (line \o <<Here>>))
      BY <2>4, <2>5, <3>1, <3>2, EmptyParts
    <3>. QED
      BY <1>1, <1>2, <2>4, <3>3, OpenFacts, WholeGrows
  <2>. QED
    BY <1>1, <2>7, <2>8, <2>9, <2>10, <2>11, OpenInvariant
<1>. QED
  BY <1>3, <1>4

(* A header, or a line with no cells. *)
LEMMA CompleteCandidateKeeps ==
    ASSUME IInv, CompleteCandidate
    PROVE  IInv'
<1>1. /\ Arrives("newline") /\ phase = "open" /\ phase' = "open" /\ state = "candidate"
      /\ "newline" \in Pieces
  BY DEF CompleteCandidate, Feeds, Arrives, Pieces
<1>2. /\ TypeOK /\ LineOK /\ StoredOK /\ Whole /\ line # << >>
      /\ retained_bytes = Len(line) + line_chunks + Held
      /\ Before = << >>
  BY <1>1, OpenFacts DEF LineOK, Before
<1>3. /\ line \in Seq(Pos') /\ Here \in Pos' /\ line \o <<Here>> \in Seq(Pos')
      /\ Append(line, Here) = line \o <<Here>> /\ << >> \in Seq(Pos')
  <2>1. line \in Seq(Pos') /\ Here \in Pos'
    BY <1>1, <1>2, Feeding, StaysTyped
  <2>. QED
    BY <2>1, AppendIsConcat
<1>4. CASE Cells(Unquoted(line)) = 0
  <2>1. /\ Handed(Items(Ended(line), "text")) /\ ResetCandidate /\ line_start' = TRUE
    BY <1>4 DEF CompleteCandidate
  <2>2. Ended(line) = line \o <<Here>>
    BY <1>1, <1>2, <1>3, Completed
  <2>3. /\ delivered' \in Seq([n : Pos', as : Kinds])
        /\ Numbers(delivered)' = Numbers(delivered) \o (line \o <<Here>>)
    BY <1>1, <1>2, <1>3, <2>1, <2>2, HandedOn DEF Kinds
  <2>4. Numbers(delivered)' = Numbers(delivered) \o (Before \o (line \o <<Here>>))
    BY <1>2, <1>3, <2>3, EmptyParts
  <2>. QED
    BY <1>1, <2>1, <2>3, <2>4, ResettingKeeps
<1>5. CASE Cells(Unquoted(line)) # 0
  <2>. DEFINE c == Unquoted(line)
  <2>1. /\ state' = "header" /\ header' = c /\ quote_prefix' = Quoted(line)
        /\ ResetLine(retained_bytes + Len(c))
        /\ delivered' = delivered /\ line_start' = line_start /\ delimiter' = delimiter
        /\ rows' = rows /\ has_header' = has_header /\ row_layout_ready' = row_layout_ready
    BY <1>5 DEF CompleteCandidate
  <2>2. /\ line' = << >> /\ line_chunks' = 0
        /\ retained_bytes' = (retained_bytes + Len(c)) - LineBytes
    BY <2>1 DEF ResetLine
  <2>3. c # << >>
    BY <1>5 DEF Cells
  <2>4. /\ c \in Seq(Pos) /\ c \in Seq(Pos') /\ Len(c) \in Nat
        /\ Last(c) + 1 \in Pos'
        /\ Ended(c) \in Seq(Pos')
        /\ Drop(fed', Ended(c)) = Drop(fed', line \o <<Here>>)
    BY <1>1, <1>2, <2>3, Completed
  <2>5. /\ header = << >> /\ delimiter = << >> /\ rows = << >>
        /\ ~has_header /\ ~row_layout_ready /\ Held = 0
    BY <1>1, <1>2, FlattenEmpty DEF StoredOK, Held
  <2>6. /\ delivered' \in Seq([n : Pos', as : Kinds])
        /\ Numbers(delivered)' = Numbers(delivered)
        /\ Numbers(delivered) \in Seq(Pos')
    BY <1>1, <1>2, <2>1, NothingHanded
  <2>7. retained_bytes' = Len(c)
    <3>1. Len(line) \in Nat /\ line_chunks \in Nat /\ LineBytes = Len(line) + line_chunks
      BY <1>2, HeldType DEF TypeOK
    <3>. QED
      BY <1>2, <2>2, <2>4, <2>5, <3>1
  <2>8. TypeOK'
    <3>1. quote_prefix' \in BOOLEAN
      BY <2>1, Zenon DEF Quoted
    <3>2. retained_bytes' \in Int
      BY <2>4, <2>7
    <3>. QED
      BY <1>1, <1>2, <1>3, <2>1, <2>2, <2>4, <2>6, <3>1, <3>2, StaysTyped DEF TypeOK
  <2>9. LineOK'
    BY <2>1, <2>2, EmptyLine
  <2>10. StoredOK'
    <3>1. Cells(header)' # 0
      <4>1. CellsIn(fed, c) # 0
        BY <1>5, CellsAreIn
      <4>2. CellsIn(fed', c) = CellsIn(fed, c)
        <5>. DEFINE g == fed'
                    S == Pos
        <5>1. /\ c \in Seq(S) /\ S \subseteq DOMAIN fed /\ S \subseteq DOMAIN g
              /\ \A n \in S : fed[n] = g[n]
          BY <1>1, <1>2, <2>4, Feeding
        <5>. HIDE DEF g, S, c
        <5>2. CellsIn(fed, c) = CellsIn(g, c)
          BY <5>1, CellsSame
        <5>. QED
          BY <5>2 DEF g
      <4>3. Cells(header)' = CellsIn(fed', header')
        BY Zenon DEF Cells, CellsIn, Quoted
      <4>. QED
        BY <2>1, <4>1, <4>2, <4>3
    <3>2. Closed(header)'
      BY <2>1, <2>3, <2>4 DEF Closed
    <3>. QED
      BY <2>1, <2>5, <3>1, <3>2 DEF StoredOK
  <2>11. RetainedIsHeld'
    <3>1. Held' = Len(c)
      <4>1. Len(header') = Len(c) /\ Len(delimiter') = 0 /\ FlattenSeq(rows') = << >>
        BY <2>1, <2>5, FlattenEmpty
      <4>. QED
        BY <2>4, <4>1 DEF Held
    <3>. QED
      BY <2>1, <2>2, <2>4, <2>7, <3>1 DEF RetainedIsHeld
  <2>12. Whole'
    <3>1. Pending' = Ended(c) \o << >>
      BY <2>1, <2>2 DEF Pending, Ended
    <3>2. (Numbers(delivered) \o Pending)' = Numbers(delivered) \o (Before \o Ended(c))
      BY <1>2, <2>4, <2>6, <3>1, EmptyParts
    <3>. QED
      BY <1>1, <1>2, <2>4, <3>2, WholeGrows
  <2>. QED
    BY <1>1, <2>8, <2>9, <2>10, <2>11, <2>12, OpenInvariant
<1>. QED
  BY <1>4, <1>5

(* What state 2 knows, and a line that is completed in it. *)
LEMMA HeaderFacts ==
    ASSUME IInv, phase = "open", state = "header", Arrives("newline")
    PROVE  /\ TypeOK /\ LineOK /\ StoredOK /\ Whole
           /\ retained_bytes = Len(line) + line_chunks + Held
           /\ Before = Ended(header) /\ Ended(header) \in Seq(Pos')
           /\ Closed(header) /\ Len(header) \in Nat /\ Cells(header) # 0
           /\ delimiter = << >> /\ rows = << >> /\ ~has_header /\ ~row_layout_ready
           /\ Held = Len(header)
           /\ "newline" \in Pieces
           /\ Content(line) \in {line, Unquoted(line)}
           /\ Len(line) \in Nat /\ line_chunks \in Nat
           /\ LineBytes = Len(line) + line_chunks
           /\ << >> \in Seq(Pos')
<1>1. /\ TypeOK /\ LineOK /\ StoredOK /\ Whole
      /\ retained_bytes = Len(line) + line_chunks + Held
  BY OpenFacts
<1>2. "newline" \in Pieces /\ Content(line) \in {line, Unquoted(line)}
  BY DEF Pieces, Content
<1>3. /\ Before = Ended(header) /\ Closed(header) /\ Cells(header) # 0
      /\ delimiter = << >> /\ rows = << >> /\ ~has_header /\ ~row_layout_ready
  BY <1>1 DEF Before, StoredOK
<1>4. /\ Len(header) \in Nat /\ Len(line) \in Nat /\ line_chunks \in Nat
      /\ LineBytes = Len(line) + line_chunks
  BY <1>1, HeldType DEF TypeOK
<1>5. Held = Len(header)
  <2>1. FlattenSeq(rows) = << >>
    BY <1>3, FlattenEmpty
  <2>. QED
    BY <1>3, <1>4, <2>1 DEF Held
<1>6. Ended(header) \in Seq(Pos')
  <2>1. header \in Seq(Pos)
    BY <1>1 DEF TypeOK
  <2>2. Ended(header) \in Seq(Pos)
    BY <1>3, <2>1, EndedType
  <2>. QED
    BY <1>1, <1>2, <2>2, StaysTyped
<1>7. << >> \in Seq(Pos')
  OBVIOUS
<1>. QED
  BY <1>1, <1>2, <1>3, <1>4, <1>5, <1>6, <1>7

(* The delimiter is stored, and the table has a header. *)
LEMMA CompleteDelimiterKeeps ==
    ASSUME IInv, CompleteDelimiter
    PROVE  IInv'
<1>. DEFINE c == Content(line)
<1>1. /\ Arrives("newline") /\ phase = "open" /\ phase' = "open" /\ state = "header"
      /\ IsDelimiter(c)
      /\ state' = "table" /\ delimiter' = c /\ has_header' = TRUE
      /\ ResetLine(retained_bytes + Len(c))
      /\ delivered' = delivered /\ line_start' = line_start /\ header' = header
      /\ rows' = rows /\ quote_prefix' = quote_prefix /\ row_layout_ready' = row_layout_ready
  BY DEF CompleteDelimiter, Feeds, Arrives
<1>2. /\ TypeOK /\ LineOK /\ StoredOK /\ Whole
      /\ retained_bytes = Len(line) + line_chunks + Len(header)
      /\ Before = Ended(header) /\ Ended(header) \in Seq(Pos')
      /\ Closed(header) /\ Len(header) \in Nat
      /\ delimiter = << >> /\ rows = << >> /\ ~row_layout_ready
      /\ "newline" \in Pieces
      /\ c \in {line, Unquoted(line)}
      /\ Len(line) \in Nat /\ line_chunks \in Nat
      /\ LineBytes = Len(line) + line_chunks
      /\ << >> \in Seq(Pos')
  BY <1>1, HeaderFacts
<1>3. /\ line' = << >> /\ line_chunks' = 0
      /\ retained_bytes' = (retained_bytes + Len(c)) - LineBytes
  BY <1>1 DEF ResetLine
<1>4. c # << >>
  BY <1>1 DEF IsDelimiter
<1>. HIDE DEF c
<1>5. /\ c \in Seq(Pos') /\ Len(c) \in Nat
      /\ Last(c) + 1 \in Pos'
      /\ Ended(c) \in Seq(Pos')
      /\ Drop(fed', Ended(c)) = Drop(fed', line \o <<Here>>)
  BY <1>1, <1>2, <1>4, Completed
<1>6. /\ delivered' \in Seq([n : Pos', as : Kinds])
      /\ Numbers(delivered)' = Numbers(delivered)
      /\ Numbers(delivered) \in Seq(Pos')
  BY <1>1, <1>2, NothingHanded
<1>7. retained_bytes' = Len(header) + Len(c)
  BY <1>2, <1>3, <1>5
<1>8. TypeOK'
  <2>1. retained_bytes' \in Int
    BY <1>2, <1>5, <1>7
  <2>. QED
    BY <1>1, <1>2, <1>3, <1>5, <1>6, <2>1, StaysTyped DEF TypeOK
<1>9. LineOK'
  BY <1>1, <1>3, EmptyLine
<1>10. StoredOK'
  <2>1. Closed(header)'
    BY <1>1, <1>2, ClosedStays DEF Closed
  <2>2. Closed(delimiter)'
    BY <1>1, <1>4, <1>5 DEF Closed
  <2>. QED
    BY <1>1, <1>2, <2>1, <2>2 DEF StoredOK
<1>11. RetainedIsHeld'
  <2>1. Held' = Len(header) + Len(c)
    <3>1. FlattenSeq(rows') = << >>
      BY <1>1, <1>2, FlattenEmpty
    <3>2. Held' = Len(header) + Len(c) + Len(<< >>)
      BY <1>1, <3>1, Zenon DEF Held
    <3>3. Len(<< >>) = 0
      OBVIOUS
    <3>. QED
      BY <1>2, <1>5, <3>2, <3>3
  <2>. QED
    BY <1>1, <1>2, <1>3, <1>5, <1>7, <2>1 DEF RetainedIsHeld
<1>12. Whole'
  <2>1. Unrendered' = (Ended(header) \o Ended(c)) \o << >>
    <3>1. FlattenSeq([i \in DOMAIN rows' |-> Ended(rows'[i])]) = << >>
      <4>1. [i \in DOMAIN rows' |-> Ended(rows'[i])] = << >>
        BY <1>1, <1>2
      <4>. QED
        BY <4>1, FlattenEmpty
    <3>2. Unrendered' = (IF has_header' THEN Ended(header)' \o Ended(delimiter)' ELSE << >>)
                        \o FlattenSeq([i \in DOMAIN rows' |-> Ended(rows'[i])])
      BY <1>1, <1>2 DEF Unrendered, Ended
    <3>3. Ended(header)' = Ended(header) /\ Ended(delimiter)' = Ended(c)
      BY <1>1 DEF Ended
    <3>. QED
      BY <1>1, <3>1, <3>2, <3>3
  <2>2. Pending' = Unrendered' \o << >>
    BY <1>1, <1>3 DEF Pending
  <2>3. Ended(header) \o Ended(c) \in Seq(Pos')
    BY <1>2, <1>5
  <2>4. Pending' = Ended(header) \o Ended(c)
    BY <2>1, <2>2, <2>3, EmptyParts
  <2>5. (Numbers(delivered) \o Pending)' = Numbers(delivered) \o (Before \o Ended(c))
    BY <1>2, <1>6, <2>4
  <2>. QED
    BY <1>1, <1>2, <1>5, <2>5, WholeGrows
<1>. QED
  BY <1>1, <1>8, <1>9, <1>10, <1>11, <1>12, OpenInvariant

(* The second line of a table without a header: both are rendered, or stored. *)
LEMMA CompleteHeaderlessKeeps ==
    ASSUME IInv, CompleteHeaderless
    PROVE  IInv'
<1>. DEFINE c == Content(line)
<1>1. /\ Arrives("newline") /\ phase = "open" /\ phase' = "open" /\ state = "header"
      /\ Cells(c) = Cells(header)
      /\ state' = "table" /\ delimiter' = delimiter /\ has_header' = has_header
      /\ line_start' = line_start /\ header' = header /\ quote_prefix' = quote_prefix
  BY DEF CompleteHeaderless, Feeds, Arrives
<1>2. /\ TypeOK /\ LineOK /\ StoredOK /\ Whole
      /\ retained_bytes = Len(line) + line_chunks + Len(header)
      /\ Before = Ended(header) /\ Ended(header) \in Seq(Pos')
      /\ Closed(header) /\ Len(header) \in Nat /\ Cells(header) # 0
      /\ delimiter = << >> /\ rows = << >> /\ ~has_header /\ ~row_layout_ready
      /\ "newline" \in Pieces
      /\ c \in {line, Unquoted(line)}
      /\ Len(line) \in Nat /\ line_chunks \in Nat
      /\ LineBytes = Len(line) + line_chunks
      /\ << >> \in Seq(Pos')
  BY <1>1, HeaderFacts
<1>3. c # << >>
  <2>. HIDE DEF c
  <2>1. Cells(<< >>) = 0
    BY DEF Cells
  <2>. QED
    BY <1>1, <1>2, <2>1
<1>4. \/ /\ RowMode
         /\ Handed(Items(Ended(header) \o Ended(c), "table"))
         /\ row_layout_ready' = TRUE /\ ResetLine(retained_bytes) /\ rows' = rows
      \/ /\ rows' = <<header, c>>
         /\ ResetLine(retained_bytes + Len(header) + Len(c))
         /\ delivered' = delivered /\ row_layout_ready' = row_layout_ready
  BY DEF CompleteHeaderless
<1>. HIDE DEF c
<1>5. /\ c \in Seq(Pos') /\ Len(c) \in Nat
      /\ Last(c) + 1 \in Pos'
      /\ Ended(c) \in Seq(Pos')
      /\ Drop(fed', Ended(c)) = Drop(fed', line \o <<Here>>)
  BY <1>1, <1>2, <1>3, Completed
<1>6. Ended(header)' = Ended(header) /\ Ended(header) \o Ended(c) \in Seq(Pos')
  BY <1>1, <1>2, <1>5 DEF Ended
<1>7. header \in Seq(Pos') /\ Closed(header)'
  <2>1. header \in Seq(Pos')
    BY <1>1, <1>2, StaysTyped
  <2>. QED
    BY <1>1, <1>2, <2>1, ClosedStays DEF Closed
<1>8. CASE /\ RowMode
           /\ Handed(Items(Ended(header) \o Ended(c), "table"))
           /\ row_layout_ready' = TRUE /\ ResetLine(retained_bytes) /\ rows' = rows
  <2>1. /\ line' = << >> /\ line_chunks' = 0
        /\ retained_bytes' = retained_bytes - LineBytes
    BY <1>8 DEF ResetLine
  <2>2. /\ delivered' \in Seq([n : Pos', as : Kinds])
        /\ Numbers(delivered)' = Numbers(delivered) \o (Ended(header) \o Ended(c))
        /\ Numbers(delivered) \in Seq(Pos')
    BY <1>1, <1>2, <1>6, <1>8, HandedOn DEF Kinds
  <2>3. retained_bytes' = Len(header)
    BY <1>2, <2>1
  <2>4. TypeOK'
    BY <1>1, <1>2, <1>8, <2>1, <2>2, <2>3, StaysTyped DEF TypeOK
  <2>5. LineOK'
    BY <1>1, <2>1, EmptyLine
  <2>6. StoredOK'
    <3>1. RowMode'
      BY <1>1, <1>2, <1>8, Feeding DEF RowMode
    <3>. QED
      BY <1>1, <1>2, <1>7, <1>8, <3>1 DEF StoredOK
  <2>7. RetainedIsHeld'
    <3>1. Held' = Len(header)
      <4>1. FlattenSeq(rows') = << >>
        BY <1>2, <1>8, FlattenEmpty
      <4>. QED
        BY <1>1, <1>2, <4>1 DEF Held
    <3>. QED
      BY <1>1, <1>2, <2>1, <2>3, <3>1 DEF RetainedIsHeld
  <2>8. Whole'
    <3>1. Pending' = << >> \o << >>
      BY <1>1, <1>8, <2>1 DEF Pending, Unrendered
    <3>2. Pending' = << >>
      BY <1>2, <3>1, EmptyParts
    <3>3. (Numbers(delivered) \o Pending)' = Numbers(delivered) \o (Before \o Ended(c))
      BY <1>2, <1>5, <2>2, <3>2, EmptyParts
    <3>. QED
      BY <1>1, <1>2, <1>5, <3>3, WholeGrows
  <2>. QED
    BY <1>1, <2>4, <2>5, <2>6, <2>7, <2>8, OpenInvariant
<1>9. CASE /\ rows' = <<header, c>>
           /\ ResetLine(retained_bytes + Len(header) + Len(c))
           /\ delivered' = delivered /\ row_layout_ready' = row_layout_ready
  <2>1. /\ line' = << >> /\ line_chunks' = 0
        /\ retained_bytes' = (retained_bytes + Len(header) + Len(c)) - LineBytes
    BY <1>9 DEF ResetLine
  <2>2. /\ delivered' \in Seq([n : Pos', as : Kinds])
        /\ Numbers(delivered)' = Numbers(delivered)
        /\ Numbers(delivered) \in Seq(Pos')
    BY <1>1, <1>2, <1>9, NothingHanded
  <2>3. retained_bytes' = Len(header) + (Len(header) + Len(c))
    BY <1>2, <1>5, <2>1
  <2>4. rows' \in Seq(Seq(Pos'))
    BY <1>5, <1>7, <1>9
  <2>5. TypeOK'
    <3>1. retained_bytes' \in Int
      BY <1>2, <1>5, <2>3
    <3>. QED
      BY <1>1, <1>2, <1>9, <2>1, <2>2, <2>4, <3>1, StaysTyped DEF TypeOK
  <2>6. LineOK'
    BY <1>1, <2>1, EmptyLine
  <2>7. StoredOK'
    <3>1. \A i \in DOMAIN rows' : Closed(rows[i])'
      BY <1>1, <1>3, <1>5, <1>7, <1>9 DEF Closed
    <3>. QED
      BY <1>1, <1>2, <1>7, <1>9, <3>1 DEF StoredOK
  <2>8. RetainedIsHeld'
    <3>1. FlattenSeq(rows') = header \o c
      BY <1>5, <1>7, <1>9, FlattenTwo
    <3>2. Len(header \o c) = Len(header) + Len(c)
      BY <1>5, <1>7, ConcatLen
    <3>3. Held' = Len(header) + Len(<< >>) + Len(header \o c)
      BY <1>1, <1>2, <3>1, Zenon DEF Held
    <3>4. Held' = Len(header) + (Len(header) + Len(c))
      <4>1. Len(<< >>) = 0
        OBVIOUS
      <4>. QED
        BY <1>2, <1>5, <3>2, <3>3, <4>1
    <3>. QED
      BY <1>1, <1>2, <1>5, <2>1, <2>3, <3>4 DEF RetainedIsHeld
  <2>9. Whole'
    <3>1. [i \in DOMAIN rows' |-> Ended(rows'[i])] = <<Ended(header), Ended(c)>>
      <4>. DEFINE a == Ended(header)
                  b == Ended(c)
      <4>1. DOMAIN rows' = 1 .. 2 /\ rows'[1] = header /\ rows'[2] = c
        BY <1>9
      <4>2. [i \in 1 .. 2 |-> Ended(rows'[i])] = <<Ended(rows'[1]), Ended(rows'[2])>>
        OBVIOUS
      <4>. QED
        BY <4>1, <4>2
    <3>2. FlattenSeq([i \in DOMAIN rows' |-> Ended(rows'[i])]) = Ended(header) \o Ended(c)
      BY <1>2, <1>5, <3>1, FlattenTwo
    <3>3. Unrendered' = << >> \o FlattenSeq([i \in DOMAIN rows' |-> Ended(rows'[i])])
      BY <1>1, <1>2, <1>9 DEF Unrendered, Ended
    <3>4. Pending' = Unrendered' \o << >>
      BY <1>1, <2>1 DEF Pending
    <3>5. Pending' = Ended(header) \o Ended(c)
      BY <1>6, <3>2, <3>3, <3>4, EmptyParts
    <3>6. (Numbers(delivered) \o Pending)' = Numbers(delivered) \o (Before \o Ended(c))
      BY <1>2, <2>2, <3>5
    <3>. QED
      BY <1>1, <1>2, <1>5, <3>6, WholeGrows
  <2>. QED
    BY <1>1, <2>5, <2>6, <2>7, <2>8, <2>9, OpenInvariant
<1>. QED
  BY <1>4, <1>8, <1>9

(* The header and the line after it are handed on. *)
LEMMA RejectHeaderKeeps ==
    ASSUME IInv, RejectHeader
    PROVE  IInv'
<1>1. /\ Arrives("newline") /\ phase = "open" /\ phase' = "open" /\ state = "header"
      /\ Handed(Items(Replayed, "text")) /\ ResetCandidate /\ line_start' = TRUE
  BY DEF RejectHeader, Feeds, Arrives
<1>2. /\ TypeOK /\ Before = Ended(header) /\ Ended(header) \in Seq(Pos')
      /\ "newline" \in Pieces
  BY <1>1, HeaderFacts
<1>3. Append(line, Here) = line \o <<Here>> /\ line \o <<Here>> \in Seq(Pos')
  <2>1. line \in Seq(Pos') /\ Here \in Pos'
    BY <1>1, <1>2, Feeding, StaysTyped
  <2>. QED
    BY <2>1, AppendIsConcat
<1>4. /\ Replayed = Before \o (line \o <<Here>>) /\ Replayed \in Seq(Pos')
  BY <1>2, <1>3 DEF Replayed
<1>5. /\ delivered' \in Seq([n : Pos', as : Kinds])
      /\ Numbers(delivered)' = Numbers(delivered) \o (Before \o (line \o <<Here>>))
  BY <1>1, <1>2, <1>4, HandedOn DEF Kinds
<1>. QED
  BY <1>1, <1>2, <1>5, ResettingKeeps

(* What state 3 knows, and a line that is completed in it. *)
LEMMA TableFacts ==
    ASSUME IInv, phase = "open", state = "table", Arrives("newline")
    PROVE  /\ TypeOK /\ LineOK /\ StoredOK /\ Whole
           /\ retained_bytes = Len(line) + line_chunks
                               + (Len(header) + Len(delimiter) + Len(FlattenSeq(rows)))
           /\ Before = Unrendered /\ Unrendered \in Seq(Pos')
           /\ FlattenSeq(rows) \in Seq(Pos') /\ rows \in Seq(Seq(Pos'))
           /\ Len(FlattenSeq(rows)) \in Nat
           /\ Len(header) \in Nat /\ Len(delimiter) \in Nat
           /\ "newline" \in Pieces
           /\ Content(line) \in {line, Unquoted(line)}
           /\ Len(line) \in Nat /\ line_chunks \in Nat
           /\ LineBytes = Len(line) + line_chunks
           /\ << >> \in Seq(Pos') /\ << >> \in Seq(Seq(Pos'))
<1>1. /\ TypeOK /\ LineOK /\ StoredOK /\ Whole
      /\ retained_bytes = Len(line) + line_chunks + Held
  BY OpenFacts
<1>2. "newline" \in Pieces /\ Content(line) \in {line, Unquoted(line)}
  BY DEF Pieces, Content
<1>3. Before = Unrendered
  BY DEF Before
<1>4. /\ Len(header) \in Nat /\ Len(delimiter) \in Nat /\ Len(line) \in Nat
      /\ line_chunks \in Nat /\ LineBytes = Len(line) + line_chunks
      /\ FlattenSeq(rows) \in Seq(Pos) /\ Len(FlattenSeq(rows)) \in Nat
  BY <1>1, HeldType DEF TypeOK
<1>5. Unrendered \in Seq(Pos') /\ FlattenSeq(rows) \in Seq(Pos')
  <2>1. Unrendered \in Seq(Pos)
    BY <1>1, <1>3, BeforeType
  <2>2. \A s \in Seq(Pos) : s \in Seq(Pos')
    BY <1>1, <1>2, StaysTyped
  <2>. QED
    BY <1>4, <2>1, <2>2, Zenon
<1>6. rows \in Seq(Seq(Pos'))
  BY <1>1, <1>2, StaysTyped
<1>7. << >> \in Seq(Pos') /\ << >> \in Seq(Seq(Pos'))
  OBVIOUS
<1>8. Held = Len(header) + Len(delimiter) + Len(FlattenSeq(rows))
  BY DEF Held
<1>. QED
  BY <1>1, <1>2, <1>3, <1>4, <1>5, <1>6, <1>7, <1>8

(* A row is rendered with what was stored before it, or stored too.         *)
LEMMA AddRowKeeps ==
    ASSUME IInv, AddRow
    PROVE  IInv'
<1>. DEFINE c == Content(line)
<1>1. /\ Arrives("newline") /\ phase = "open" /\ phase' = "open" /\ state = "table"
      /\ Cells(c) > 0
      /\ state' = "table" /\ delimiter' = delimiter /\ has_header' = has_header
      /\ line_start' = line_start /\ header' = header /\ quote_prefix' = quote_prefix
  BY DEF AddRow, Feeds, Arrives
<1>2. /\ TypeOK /\ LineOK /\ StoredOK /\ Whole
      /\ retained_bytes = Len(line) + line_chunks
                          + (Len(header) + Len(delimiter) + Len(FlattenSeq(rows)))
      /\ Before = Unrendered /\ Unrendered \in Seq(Pos')
      /\ FlattenSeq(rows) \in Seq(Pos') /\ rows \in Seq(Seq(Pos'))
      /\ Len(FlattenSeq(rows)) \in Nat
      /\ Len(header) \in Nat /\ Len(delimiter) \in Nat
      /\ "newline" \in Pieces
      /\ c \in {line, Unquoted(line)}
      /\ Len(line) \in Nat /\ line_chunks \in Nat
      /\ LineBytes = Len(line) + line_chunks
      /\ << >> \in Seq(Pos') /\ << >> \in Seq(Seq(Pos'))
  BY <1>1, TableFacts
<1>3. c # << >>
  <2>. HIDE DEF c
  <2>1. Cells(<< >>) = 0
    BY DEF Cells
  <2>. QED
    BY <1>1, <2>1
<1>4. \/ /\ RowMode
         /\ Handed(Items(Unrendered \o Ended(c), "table"))
         /\ rows' = << >> /\ row_layout_ready' = TRUE
         /\ ResetLine(retained_bytes - Len(FlattenSeq(rows)))
      \/ /\ ~(RowMode /\ row_layout_ready)
         /\ rows' = Append(rows, c)
         /\ ResetLine(retained_bytes + Len(c))
         /\ delivered' = delivered /\ row_layout_ready' = row_layout_ready
  BY DEF AddRow
<1>. HIDE DEF c
<1>5. /\ c \in Seq(Pos') /\ Len(c) \in Nat
      /\ Last(c) + 1 \in Pos'
      /\ Ended(c) \in Seq(Pos')
      /\ Drop(fed', Ended(c)) = Drop(fed', line \o <<Here>>)
  BY <1>1, <1>2, <1>3, Completed
<1>6. /\ header \in Seq(Pos') /\ delimiter \in Seq(Pos')
      /\ Closed(header)' /\ (has_header => Closed(delimiter)')
      /\ \A i \in DOMAIN rows : rows[i] # << >> /\ Last(rows[i]) + 1 \in Pos'
  <2>1. header \in Seq(Pos') /\ delimiter \in Seq(Pos') /\ Pos \subseteq Pos'
    BY <1>1, <1>2, StaysTyped, Feeding
  <2>. QED
    BY <1>1, <1>2, <2>1 DEF StoredOK, Closed
<1>7. Unrendered \o Ended(c) \in Seq(Pos')
  BY <1>2, <1>5, ConcatProperties
<1>8. CASE /\ RowMode
           /\ Handed(Items(Unrendered \o Ended(c), "table"))
           /\ rows' = << >> /\ row_layout_ready' = TRUE
           /\ ResetLine(retained_bytes - Len(FlattenSeq(rows)))
  <2>1. /\ line' = << >> /\ line_chunks' = 0
        /\ retained_bytes' = (retained_bytes - Len(FlattenSeq(rows))) - LineBytes
    BY <1>8 DEF ResetLine
  <2>2. /\ delivered' \in Seq([n : Pos', as : Kinds])
        /\ Numbers(delivered)' = Numbers(delivered) \o (Unrendered \o Ended(c))
        /\ Numbers(delivered) \in Seq(Pos')
    BY <1>1, <1>2, <1>7, <1>8, HandedOn DEF Kinds
  <2>3. retained_bytes' = Len(header) + Len(delimiter)
    BY <1>2, <2>1
  <2>4. TypeOK'
    <3>1. retained_bytes' \in Int
      BY <1>2, <2>3
    <3>. QED
      BY <1>1, <1>2, <1>8, <2>1, <2>2, <3>1, StaysTyped DEF TypeOK
  <2>5. LineOK'
    BY <1>1, <2>1, EmptyLine
  <2>6. StoredOK'
    <3>1. RowMode'
      BY <1>1, <1>2, <1>8, Feeding DEF RowMode
    <3>. QED
      BY <1>1, <1>6, <1>8, <3>1 DEF StoredOK
  <2>7. RetainedIsHeld'
    <3>1. Held' = Len(header) + Len(delimiter)
      <4>1. FlattenSeq(rows') = << >>
        BY <1>8, FlattenEmpty
      <4>. QED
        BY <1>1, <1>2, <4>1 DEF Held
    <3>. QED
      BY <1>1, <1>2, <2>1, <2>3, <3>1 DEF RetainedIsHeld
  <2>8. Whole'
    <3>1. Pending' = << >> \o << >>
      BY <1>1, <1>8, <2>1 DEF Pending, Unrendered
    <3>2. Pending' = << >>
      BY <1>2, <3>1, EmptyParts
    <3>3. (Numbers(delivered) \o Pending)' = Numbers(delivered) \o (Before \o Ended(c))
      <4>1. Numbers(delivered) \in Seq(Pos')
        BY <2>2
      <4>2. Numbers(delivered)' \in Seq(Pos')
        BY <1>7, <2>2, ConcatProperties
      <4>3. (Numbers(delivered) \o Pending)' = Numbers(delivered)' \o << >>
        BY <3>2
      <4>. QED
        BY <1>2, <2>2, <4>2, <4>3, EmptyParts
    <3>. QED
      BY <1>1, <1>2, <1>5, <3>3, WholeGrows
  <2>. QED
    BY <1>1, <2>4, <2>5, <2>6, <2>7, <2>8, OpenInvariant
<1>9. CASE /\ ~(RowMode /\ row_layout_ready)
           /\ rows' = Append(rows, c)
           /\ ResetLine(retained_bytes + Len(c))
           /\ delivered' = delivered /\ row_layout_ready' = row_layout_ready
  <2>1. /\ line' = << >> /\ line_chunks' = 0
        /\ retained_bytes' = (retained_bytes + Len(c)) - LineBytes
    BY <1>9 DEF ResetLine
  <2>2. /\ delivered' \in Seq([n : Pos', as : Kinds])
        /\ Numbers(delivered)' = Numbers(delivered)
        /\ Numbers(delivered) \in Seq(Pos')
    BY <1>1, <1>2, <1>9, NothingHanded
  <2>3. retained_bytes' = Len(header) + Len(delimiter) + Len(FlattenSeq(rows)) + Len(c)
    BY <1>2, <1>5, <2>1
  <2>4. ~row_layout_ready /\ ~row_layout_ready'
    BY <1>2, <1>9 DEF StoredOK
  <2>5. rows' \in Seq(Seq(Pos')) /\ DOMAIN rows' = 1 .. Len(rows) + 1 /\ Len(rows) \in Nat
        /\ DOMAIN rows = 1 .. Len(rows)
        /\ (\A i \in 1 .. Len(rows) : rows'[i] = rows[i]) /\ rows'[Len(rows) + 1] = c
    <3>. DEFINE S == Seq(Pos')
    <3>1. c \in S /\ rows \in Seq(S) /\ rows' = Append(rows, c)
      BY <1>2, <1>5, <1>9
    <3>. HIDE DEF S
    <3>2. rows' \in Seq(S) /\ DOMAIN rows' = 1 .. Len(rows) + 1 /\ Len(rows) \in Nat
          /\ DOMAIN rows = 1 .. Len(rows)
          /\ (\A i \in 1 .. Len(rows) : rows'[i] = rows[i]) /\ rows'[Len(rows) + 1] = c
      BY <3>1
    <3>. QED
      BY <3>2 DEF S
  <2>6. TypeOK'
    <3>1. retained_bytes' \in Int
      BY <1>2, <1>5, <2>3
    <3>. QED
      BY <1>1, <1>2, <1>9, <2>1, <2>2, <2>5, <3>1, StaysTyped DEF TypeOK
  <2>7. LineOK'
    BY <1>1, <2>1, EmptyLine
  <2>8. StoredOK'
    <3>1. \A i \in DOMAIN rows' : Closed(rows[i])'
      <4>1. SUFFICES ASSUME NEW i \in 1 .. Len(rows) + 1
                     PROVE  rows'[i] # << >> /\ Last(rows'[i]) + 1 \in Pos'
        BY <2>5 DEF Closed
      <4>2. CASE i = Len(rows) + 1
        BY <1>3, <1>5, <2>5, <4>2
      <4>3. CASE i # Len(rows) + 1
        <5>1. i \in DOMAIN rows /\ rows'[i] = rows[i]
          BY <2>5, <4>3
        <5>. QED
          BY <1>6, <5>1
      <4>. QED
        BY <4>2, <4>3
    <3>. QED
      BY <1>1, <1>6, <2>4, <3>1 DEF StoredOK
  <2>9. RetainedIsHeld'
    <3>1. FlattenSeq(rows') = FlattenSeq(rows) \o c
      <4>. DEFINE S == Pos'
      <4>1. rows \in Seq(Seq(S)) /\ c \in Seq(S) /\ rows' = Append(rows, c)
        BY <1>2, <1>5, <1>9
      <4>. HIDE DEF S
      <4>. QED
        BY <4>1, FlattenAppend
    <3>2. Len(FlattenSeq(rows')) = Len(FlattenSeq(rows)) + Len(c)
      BY <1>2, <1>5, <3>1, ConcatLen
    <3>3. Held' = Len(header) + Len(delimiter) + Len(FlattenSeq(rows'))
      BY <1>1, Zenon DEF Held
    <3>4. retained_bytes' = Held'
      BY <1>2, <1>5, <2>3, <3>2, <3>3
    <3>5. retained_bytes' = Len(line') + line_chunks' + Held'
      <4>1. Held' \in Int
        BY <1>2, <1>5, <3>2, <3>3
      <4>2. Len(line') = 0 /\ line_chunks' = 0
        BY <2>1
      <4>3. \A h \in Int : h = 0 + 0 + h
        OBVIOUS
      <4>. QED
        BY <3>4, <4>1, <4>2, <4>3, Zenon
    <3>6. state' # "pass"
      BY <1>1
    <3>. QED
      BY <3>5, <3>6, Zenon DEF RetainedIsHeld
  <2>10. Whole'
    <3>. DEFINE R == FlattenSeq(EndedRows)
                P == IF has_header THEN Ended(header) \o Ended(delimiter) ELSE << >>
                S == Pos'
    <3>1. EndedRows \in Seq(Seq(S)) /\ R \in Seq(S) /\ P \in Seq(S)
      <4>1. EndedRows \in Seq(Seq(Pos)) /\ R \in Seq(Pos) /\ Pos \subseteq S
        BY <1>1, <1>2, BeforeType, Feeding
      <4>2. EndedRows \in Seq(Seq(S)) /\ R \in Seq(S)
        <5>. DEFINE T == Pos
        <5>1. EndedRows \in Seq(Seq(T)) /\ R \in Seq(T) /\ T \subseteq S
          BY <4>1
        <5>. HIDE DEF S, T, R
        <5>. QED
          BY <5>1, TypesGrow
      <4>3. P \in Seq(S)
        <5>1. has_header => Ended(header) \in Seq(Pos) /\ Ended(delimiter) \in Seq(Pos)
          BY <1>1, <1>2, EndedType DEF TypeOK, StoredOK
        <5>2. \A s \in Seq(Pos) : s \in Seq(S)
          BY <1>1, <1>2, StaysTyped
        <5>3. has_header => Ended(header) \o Ended(delimiter) \in Seq(S)
          BY <5>1, <5>2, ConcatProperties
        <5>. QED
          BY <1>2, <5>3
      <4>. QED
        BY <4>2, <4>3
    <3>2. [i \in DOMAIN rows' |-> Ended(rows'[i])] = Append(EndedRows, Ended(c))
      <4>. DEFINE new == [i \in DOMAIN rows' |-> Ended(rows'[i])]
      <4>1. Append(EndedRows, Ended(c)) =
              [i \in 1 .. Len(EndedRows) + 1 |->
                  IF i = Len(EndedRows) + 1 THEN Ended(c) ELSE EndedRows[i]]
        <5>. DEFINE q == EndedRows
                    e == Ended(c)
        <5>1. q \in Seq(Seq(S)) /\ e \in Seq(S)
          BY <1>5, <3>1
        <5>. HIDE DEF q, e, S
        <5>2. Append(q, e) = [i \in 1 .. Len(q) + 1 |-> IF i = Len(q) + 1 THEN e ELSE q[i]]
          <6>. DEFINE a == Append(q, e)
          <6>1. /\ a \in Seq(Seq(S)) /\ Len(a) = Len(q) + 1
                /\ \A i \in 1 .. Len(q) : a[i] = q[i]
                /\ a[Len(q) + 1] = e
                /\ Len(q) \in Nat
            BY <5>1, AppendProperties
          <6>. HIDE DEF a
          <6>2. a = [i \in 1 .. Len(q) + 1 |-> a[i]]
            BY <6>1
          <6>3. \A i \in 1 .. Len(q) + 1 :
                  a[i] = IF i = Len(q) + 1 THEN e ELSE q[i]
            <7>1. TAKE i \in 1 .. Len(q) + 1
            <7>2. CASE i = Len(q) + 1
              BY <6>1, <7>2
            <7>3. CASE i # Len(q) + 1
              <8>1. i \in 1 .. Len(q)
                BY <6>1, <7>3
              <8>2. a[i] = q[i]
                BY <6>1, <8>1
              <8>. QED
                BY <7>3, <8>2
            <7>. QED
              BY <7>2, <7>3
          <6>. QED
            BY <6>2, <6>3 DEF a
        <5>. QED
          BY <5>2 DEF q, e
      <4>2. Len(EndedRows) = Len(rows)
        BY <2>5, <3>1 DEF EndedRows
      <4>3. \A i \in 1 .. Len(rows) + 1 :
              Ended(rows'[i]) = IF i = Len(rows) + 1 THEN Ended(c) ELSE EndedRows[i]
        <5>1. TAKE i \in 1 .. Len(rows) + 1
        <5>2. CASE i = Len(rows) + 1
          BY <2>5, <5>2
        <5>3. CASE i # Len(rows) + 1
          <6>1. i \in 1 .. Len(rows) /\ rows'[i] = rows[i]
            BY <2>5, <5>3
          <6>2. EndedRows[i] = Ended(rows[i])
            BY <2>5, <6>1 DEF EndedRows
          <6>. QED
            BY <5>3, <6>1, <6>2
        <5>. QED
          BY <5>2, <5>3
      <4>. QED
        BY <2>5, <4>1, <4>2, <4>3
    <3>3. FlattenSeq([i \in DOMAIN rows' |-> Ended(rows'[i])]) = R \o Ended(c)
      <4>1. EndedRows \in Seq(Seq(S)) /\ Ended(c) \in Seq(S)
        BY <1>5, <3>1
      <4>. HIDE DEF S
      <4>. QED
        BY <3>2, <4>1, FlattenAppend
    <3>4. Unrendered = P \o R
      BY <2>4 DEF Unrendered, EndedRows
    <3>5. Unrendered' = P \o (R \o Ended(c))
      <4>1. Unrendered' = (IF has_header' THEN Ended(header)' \o Ended(delimiter)' ELSE << >>)
                          \o FlattenSeq([i \in DOMAIN rows' |-> Ended(rows'[i])])
        BY <2>4 DEF Unrendered, Ended
      <4>2. Ended(header)' = Ended(header) /\ Ended(delimiter)' = Ended(delimiter)
        BY <1>1 DEF Ended
      <4>. QED
        BY <1>1, <3>3, <4>1, <4>2
    <3>6. Pending' = Unrendered' \o << >>
      BY <1>1, <2>1 DEF Pending
    <3>7. Pending' = Before \o Ended(c)
      <4>. DEFINE e == Ended(c)
      <4>1. P \in Seq(S) /\ R \in Seq(S) /\ e \in Seq(S)
            /\ Pending' = (P \o (R \o e)) \o << >> /\ Before = P \o R
        BY <1>2, <1>5, <3>1, <3>4, <3>5, <3>6
      <4>. HIDE DEF P, R, S, e
      <4>2. (P \o (R \o e)) \o << >> = (P \o R) \o e
        BY <4>1, RegroupEmpty
      <4>. QED
        BY <4>1, <4>2 DEF e
    <3>8. (Numbers(delivered) \o Pending)' = Numbers(delivered) \o (Before \o Ended(c))
      BY <2>2, <3>7
    <3>. QED
      BY <1>1, <1>2, <1>5, <3>8, WholeGrows
  <2>. QED
    BY <1>1, <2>6, <2>7, <2>8, <2>9, <2>10, OpenInvariant
<1>. QED
  BY <1>4, <1>8, <1>9

(* What ends a table, with the piece that does. *)
LEMMA EndingHanded ==
    ASSUME IInv, phase = "open", Arrives("newline")
    PROVE  /\ Ending \in Seq([n : Pos', as : Kinds])
           /\ Numbers(Ending) = line \o <<Here>>
<1>. DEFINE S == Pos'
<1>1. line \in Seq(S) /\ Here \in S
  BY OpenFacts, Feeding, StaysTyped DEF Pieces
<1>. HIDE DEF S
<1>2. CASE line = << >>
  <2>1. Ending = Items(<<Here>>, "gap") /\ <<Here>> \in Seq(S) /\ "gap" \in Kinds
    BY <1>1, <1>2 DEF Ending, Kinds
  <2>2. Ending \in Seq([n : S, as : Kinds]) /\ Numbers(Ending) = <<Here>>
    BY <2>1, ItemsNumbered
  <2>3. line \o <<Here>> = <<Here>>
    BY <1>2, <2>1, EmptyParts
  <2>. QED
    BY <2>2, <2>3 DEF S
<1>3. CASE line # << >>
  <2>1. Ending = Items(Append(line, Here), "text") /\ "text" \in Kinds
    BY <1>3 DEF Ending, Kinds
  <2>2. Append(line, Here) = line \o <<Here>> /\ Append(line, Here) \in Seq(S)
    BY <1>1, AppendIsConcat
  <2>3. Ending \in Seq([n : S, as : Kinds]) /\ Numbers(Ending) = Append(line, Here)
    <3>. DEFINE a == Append(line, Here)
    <3>1. a \in Seq(S) /\ "text" \in Kinds /\ Ending = Items(a, "text")
      BY <2>1, <2>2
    <3>. HIDE DEF a
    <3>2. Items(a, "text") \in Seq([n : S, as : Kinds]) /\ Numbers(Items(a, "text")) = a
      BY <3>1, ItemsNumbered
    <3>. QED
      BY <3>1, <3>2 DEF a
  <2>. QED
    BY <2>2, <2>3 DEF S
<1>. QED
  BY <1>2, <1>3

(* The table's rows go to the renderer, the line that ended it to the parser. *)
LEMMA EndTableKeeps ==
    ASSUME IInv, EndTable
    PROVE  IInv'
<1>1. /\ Arrives("newline") /\ phase = "open" /\ phase' = "open" /\ state = "table"
      /\ Handed(Items(Unrendered, "table") \o Ending) /\ ResetCandidate /\ line_start' = TRUE
  BY DEF EndTable, Feeds, Arrives
<1>2. /\ TypeOK /\ Before = Unrendered /\ Unrendered \in Seq(Pos') /\ "newline" \in Pieces
  BY <1>1, TableFacts
<1>. DEFINE S == Pos'
            I == [n : S, as : Kinds]
            t == Items(Unrendered, "table")
            e == Ending
            h == line \o <<Here>>
<1>3. e \in Seq(I) /\ Numbers(e) = h
  BY <1>1, EndingHanded
<1>4. delivered \in Seq(I) /\ delivered' = delivered \o (t \o e) /\ Unrendered \in Seq(S)
      /\ "table" \in Kinds
  BY <1>1, <1>2, StaysTyped DEF Handed, Kinds
<1>. HIDE DEF S, h
<1>5. t \in Seq(I) /\ Numbers(t) = Unrendered
  <2>. HIDE DEF I
  <2>. QED
    BY <1>4, ItemsNumbered DEF I
<1>. HIDE DEF t, e, I
<1>6. t \o e \in Seq(I) /\ delivered' \in Seq(I)
  BY <1>3, <1>4, <1>5, ConcatProperties
<1>7. Numbers(t \o e) = Unrendered \o h
  BY <1>3, <1>5, NumbersConcat
<1>8. Numbers(delivered \o (t \o e)) = Numbers(delivered) \o Numbers(t \o e)
  BY <1>4, <1>6, NumbersConcat
<1>9. Numbers(delivered)' = Numbers(delivered) \o (Before \o h)
  <2>1. Numbers(delivered)' = Numbers(delivered')
    BY DEF Numbers
  <2>. QED
    BY <1>2, <1>4, <1>7, <1>8, <2>1
<1>. QED
  BY <1>1, <1>2, <1>6, <1>9, ResettingKeeps DEF I, S, h

-----------------------------------------------------------------------------
(* The end of the document *)

(* What comes before the same end is the same. *)
LEMMA Cancel ==
    \A S : \A a, b, c \in Seq(S) : a \o c = b \o c => a = b
<1>. SUFFICES ASSUME NEW S, NEW a \in Seq(S), NEW b \in Seq(S), NEW c \in Seq(S),
                     a \o c = b \o c
              PROVE  a = b
  OBVIOUS
<1>1. Len(a \o c) = Len(a) + Len(c) /\ Len(b \o c) = Len(b) + Len(c)
  BY ConcatLen
<1>2. Len(a) = Len(b) /\ Len(a) \in Nat /\ Len(c) \in Nat
  BY <1>1
<1>3. ASSUME NEW i \in 1 .. Len(a)
      PROVE  a[i] = b[i]
  <2>1. (a \o c)[i] = a[i] /\ (b \o c)[i] = b[i]
    BY <1>2, ConcatProperties
  <2>. QED
    BY <2>1
<1>. QED
  BY <1>2, <1>3, SeqEqual

(* A sequence is a prefix of what begins with it. *)
LEMMA PrefixOfConcat ==
    \A S : \A a, b \in Seq(S) : IsPrefix(a, a \o b)
<1>. SUFFICES ASSUME NEW S, NEW a \in Seq(S), NEW b \in Seq(S)
              PROVE  IsPrefix(a, a \o b)
  OBVIOUS
<1>1. /\ a \o b \in Seq(S) /\ Len(a \o b) = Len(a) + Len(b)
      /\ \A i \in 1 .. Len(a) : (a \o b)[i] = a[i]
      /\ Len(a) \in Nat /\ Len(b) \in Nat
  BY ConcatProperties
<1>. DEFINE c == a \o b
<1>. HIDE DEF c
<1>2. SubSeq(a, 1, Len(a)) = [i \in 1 .. Len(a) |-> a[i]]
  BY <1>1
<1>3. SubSeq(c, 1, Len(a)) = [i \in 1 .. Len(a) |-> c[i]]
  BY <1>1 DEF c
<1>4. \A i \in 1 .. Len(a) : c[i] = a[i]
  BY <1>1 DEF c
<1>5. SubSeq(a, 1, Len(a)) = SubSeq(c, 1, Len(a))
  BY <1>2, <1>3, <1>4
<1>6. Len(a) <= Len(c)
  BY <1>1 DEF c
<1>. QED
  BY <1>5, <1>6 DEF IsPrefix, c

(* Of three parts the first is a prefix. *)
LEMMA PrefixOfThree ==
    \A S : \A a, b, c \in Seq(S) : IsPrefix(a, (a \o b) \o c)
<1>. SUFFICES ASSUME NEW S, NEW a \in Seq(S), NEW b \in Seq(S), NEW c \in Seq(S)
              PROVE  IsPrefix(a, (a \o b) \o c)
  OBVIOUS
<1>1. (a \o b) \o c = a \o (b \o c) /\ b \o c \in Seq(S)
  OBVIOUS
<1>. QED
  BY <1>1, PrefixOfConcat

(* The positions up to p, and those after it. *)
UpTo(p) == [i \in 1 .. p |-> i]

(* The positions up to q are those up to p and those after it.              *)
LEMMA UpToParts ==
    ASSUME NEW p \in Nat, NEW q \in Nat, p <= q
    PROVE  /\ UpTo(p) \in Seq(1 .. q) /\ [i \in 1 .. q - p |-> p + i] \in Seq(1 .. q)
           /\ UpTo(q) = UpTo(p) \o [i \in 1 .. q - p |-> p + i]
<1>. DEFINE a == UpTo(p)
            b == [i \in 1 .. q - p |-> p + i]
            c == UpTo(q)
            S == 1 .. q
<1>1. a \in Seq(S) /\ Len(a) = p /\ \A i \in 1 .. p : a[i] = i
  BY DEF UpTo
<1>2. b \in Seq(S) /\ Len(b) = q - p /\ \A i \in 1 .. q - p : b[i] = p + i
  OBVIOUS
<1>3. c \in Seq(S) /\ Len(c) = q /\ \A i \in 1 .. q : c[i] = i
  BY DEF UpTo
<1>. HIDE DEF a, b, c, S
<1>4. /\ a \o b \in Seq(S) /\ Len(a \o b) = q
      /\ \A i \in 1 .. q : (a \o b)[i] = IF i <= p THEN a[i] ELSE b[i - p]
  <2>1. /\ a \o b \in Seq(S) /\ Len(a \o b) = Len(a) + Len(b)
        /\ \A i \in 1 .. Len(a) + Len(b) :
              (a \o b)[i] = IF i <= Len(a) THEN a[i] ELSE b[i - Len(a)]
    BY <1>1, <1>2, ConcatProperties
  <2>2. Len(a) = p /\ Len(a) + Len(b) = q
    BY <1>1, <1>2
  <2>. QED
    BY <2>1, <2>2
<1>5. ASSUME NEW i \in 1 .. q
      PROVE  c[i] = (a \o b)[i]
  <2>1. CASE i <= p
    BY <1>1, <1>3, <1>4, <2>1
  <2>2. CASE ~(i <= p)
    <3>1. i - p \in 1 .. q - p /\ p + (i - p) = i
      BY <2>2
    <3>. QED
      BY <1>2, <1>3, <1>4, <2>2, <3>1
  <2>. QED
    BY <2>1, <2>2
<1>6. c = a \o b
  BY <1>3, <1>4, <1>5, SeqEqual
<1>. QED
  BY <1>1, <1>2, <1>6 DEF a, b, c, S

(* What was handed on ends before the line that was begun, or with it; the   *)
(* input up to a position before that line is a prefix of it.                *)
LEMMA ResolvedPrefix ==
    ASSUME NEW f, NEW S, NEW w \in Seq(S), NEW l \in Seq(S), NEW a \in Seq(S),
           NEW m \in Seq(S), NEW r \in Seq(S), NEW e \in Seq(S),
           a = m \o r,
           Drop(f, w \o l) = Drop(f, a \o l)
    PROVE  IsPrefix(Drop(f, m), Drop(f, w \o e))
<1>1. /\ Drop(f, w \o l) = Drop(f, w) \o Drop(f, l)
      /\ Drop(f, a \o l) = Drop(f, a) \o Drop(f, l)
      /\ Drop(f, a) = Drop(f, m) \o Drop(f, r)
      /\ Drop(f, w \o e) = Drop(f, w) \o Drop(f, e)
  BY DropConcat
<1>. DEFINE W == Drop(f, w)
            L == Drop(f, l)
            A == Drop(f, a)
            M == Drop(f, m)
            R == Drop(f, r)
            E == Drop(f, e)
            Z == Drop(f, w \o e)
<1>2. /\ W \in Seq(S) /\ L \in Seq(S) /\ A \in Seq(S)
      /\ M \in Seq(S) /\ R \in Seq(S) /\ E \in Seq(S)
  BY DropType
<1>3. W \o L = A \o L /\ A = M \o R /\ Z = W \o E
  BY <1>1
<1>. HIDE DEF W, L, A, M, R, E, Z
<1>4. W = A
  BY <1>2, <1>3, Cancel
<1>5. Z = (M \o R) \o E
  BY <1>3, <1>4
<1>6. IsPrefix(M, (M \o R) \o E)
  BY <1>2, PrefixOfThree
<1>. QED
  BY <1>5, <1>6 DEF M, Z

(* The input is the completed lines and the line begun after them. *)
LEMMA InputParts ==
    ASSUME TypeOK, LineOK
    PROVE  /\ Len(fed) - Len(line) \in Nat
           /\ AllFed = UpTo(Len(fed) - Len(line)) \o line
           /\ \A m \in DOMAIN fed : fed[m] = "newline" => m <= Len(fed) - Len(line)
<1>. DEFINE n == Len(fed)
            k == Len(line)
            p == n - k
<1>1. /\ n \in Nat /\ k \in Nat /\ DOMAIN fed = 1 .. n /\ DOMAIN line = 1 .. k
      /\ line \in Seq(1 .. n)
  BY DEF TypeOK, Pos
<1>2. line = [i \in 1 .. k |-> p + i]
  BY DEF LineOK
<1>3. p \in Nat
  <2>1. CASE k = 0
    BY <1>1, <2>1
  <2>2. CASE k # 0
    <3>1. 1 \in 1 .. k /\ line[1] \in 1 .. n /\ line[1] = p + 1
      BY <1>1, <1>2, <2>2
    <3>. QED
      BY <1>1, <3>1
  <2>. QED
    BY <2>1, <2>2
<1>4. AllFed = UpTo(p) \o line
  <2>1. AllFed = UpTo(n)
    BY <1>1 DEF AllFed, UpTo
  <2>2. UpTo(n) = UpTo(p) \o [i \in 1 .. n - p |-> p + i]
    <3>1. n \in Nat /\ p <= n
      BY <1>1, <1>3
    <3>. HIDE DEF n, p
    <3>. QED
      BY <1>3, <3>1, UpToParts
  <2>3. n - p = k
    BY <1>1
  <2>. QED
    BY <1>2, <2>1, <2>2, <2>3
<1>5. ASSUME NEW m \in DOMAIN fed, fed[m] = "newline"
      PROVE  m <= p
  <2>1. SUFFICES ASSUME ~(m <= p)
                 PROVE  FALSE
    OBVIOUS
  <2>2. m - p \in 1 .. k /\ line[m - p] = m
    BY <1>1, <1>2, <1>3, <2>1
  <2>3. fed[line[m - p]] # "newline"
    BY <1>1, <2>2 DEF LineOK
  <2>. QED
    BY <1>5, <2>2, <2>3
<1>. QED
  BY <1>3, <1>4, <1>5

(* Handing on items at the end, when nothing is fed. *)
LEMMA HandedAtEof ==
    ASSUME TypeOK, NEW s \in Seq(Pos), NEW k \in Kinds, Handed(Items(s, k))
    PROVE  /\ delivered' \in Seq([n : Pos, as : Kinds])
           /\ Numbers(delivered)' = Numbers(delivered) \o s
<1>. DEFINE T == Pos
            I == [n : T, as : Kinds]
            t == Items(s, k)
<1>1. delivered \in Seq(I) /\ delivered' = delivered \o t
  BY DEF Handed, TypeOK
<1>2. t \in Seq(I) /\ Numbers(t) = s
  <2>1. s \in Seq(T)
    OBVIOUS
  <2>. HIDE DEF T
  <2>. QED
    BY <2>1, ItemsNumbered
<1>3. Numbers(delivered)' = Numbers(delivered')
  BY DEF Numbers
<1>. HIDE DEF I, t
<1>4. delivered \o t \in Seq(I) /\ Numbers(delivered \o t) = Numbers(delivered) \o Numbers(t)
  BY <1>1, <1>2, NumbersConcat, ConcatProperties
<1>. QED
  BY <1>1, <1>2, <1>3, <1>4 DEF I

(* The end of the document hands on what is complete. *)
LEMMA FinishKeeps ==
    ASSUME IInv, FinishDocument
    PROVE  IInv'
<1>. DEFINE d == Numbers(delivered)
<1>1. /\ phase = "open" /\ phase' = "finished" /\ ResetCandidate
      /\ options' = options /\ fed' = fed /\ line_start' = line_start
  BY DEF FinishDocument
<1>2. /\ TypeOK /\ LineOK /\ StoredOK /\ Whole
      /\ Pending = Before \o line /\ Before \in Seq(Pos) /\ line \in Seq(Pos)
      /\ d \in Seq(Pos)
  BY <1>1, OpenFacts, BeforeType, NumbersType DEF TypeOK
<1>3. /\ state' = "pass"
      /\ line' = << >> /\ line_chunks' = 0 /\ header' = << >> /\ delimiter' = << >>
      /\ rows' = << >> /\ quote_prefix' = FALSE /\ has_header' = FALSE
      /\ row_layout_ready' = FALSE
      /\ retained_bytes' = 0
      /\ RetainedIsHeld'
  BY <1>1, ResetStored
<1>. HIDE DEF d
<1>4. /\ delivered' \in Seq([n : Pos, as : Kinds])
      /\ \E e \in Seq(Pos) : Numbers(delivered)' = d \o (Before \o e)
  <2>1. CASE state = "header"
    <3>1. Handed(Items(HeaderAtEof, "text"))
      BY <2>1 DEF FinishDocument
    <3>2. HeaderAtEof = Before \o line
      BY <2>1 DEF HeaderAtEof, Before
    <3>3. HeaderAtEof \in Seq(Pos)
      BY <1>2, <3>2, ConcatProperties
    <3>4. /\ delivered' \in Seq([n : Pos, as : Kinds])
          /\ Numbers(delivered)' = d \o HeaderAtEof
      BY <1>2, <3>1, <3>3, HandedAtEof DEF Kinds, d
    <3>. QED
      BY <1>2, <3>2, <3>4
  <2>2. CASE state = "table"
    <3>1. Handed(Items(Unrendered, "table")) /\ Unrendered = Before
      BY <2>2 DEF FinishDocument, Before
    <3>2. /\ delivered' \in Seq([n : Pos, as : Kinds])
          /\ Numbers(delivered)' = d \o Before
      BY <1>2, <3>1, HandedAtEof DEF Kinds, d
    <3>3. Before \o << >> = Before /\ << >> \in Seq(Pos)
      BY <1>2, EmptyParts
    <3>. QED
      BY <3>2, <3>3
  <2>3. CASE state \notin {"header", "table"}
    <3>1. Handed(Items(line, "text")) /\ Before = << >>
      BY <2>3 DEF FinishDocument, Before
    <3>2. /\ delivered' \in Seq([n : Pos, as : Kinds])
          /\ Numbers(delivered)' = d \o line
      BY <1>2, <3>1, HandedAtEof DEF Kinds, d
    <3>3. Before \o line = line
      BY <1>2, <3>1, EmptyParts
    <3>. QED
      BY <1>2, <3>2, <3>3
  <2>. QED
    BY <2>1, <2>2, <2>3
<1>5. TypeOK'
  <2>1. << >> \in Seq(Pos) /\ << >> \in Seq(Seq(Pos)) /\ Pos' = Pos
    BY <1>1 DEF Pos
  <2>2. /\ fed' \in Seq(Pieces) /\ options' \in Options /\ line_start' \in BOOLEAN
    BY <1>1, <1>2 DEF TypeOK
  <2>3. /\ line' \in Seq(Pos) /\ header' \in Seq(Pos) /\ delimiter' \in Seq(Pos)
        /\ rows' \in Seq(Seq(Pos))
    BY <1>3, <2>1
  <2>4. /\ phase' \in {"open", "finished", "failed"}
        /\ state' \in {"pass", "prelude", "candidate", "header", "table"}
        /\ line_chunks' \in Nat /\ retained_bytes' \in Int
    BY <1>1, <1>3
  <2>5. /\ quote_prefix' \in BOOLEAN /\ has_header' \in BOOLEAN
        /\ row_layout_ready' \in BOOLEAN
    BY <1>3, Zenon
  <2>6. /\ delivered' \in Seq([n : Pos', as : Kinds])
        /\ line' \in Seq(Pos') /\ header' \in Seq(Pos') /\ delimiter' \in Seq(Pos')
        /\ rows' \in Seq(Seq(Pos'))
    BY <1>4, <2>1, <2>3, Zenon
  <2>. QED
    BY <2>2, <2>4, <2>5, <2>6, Zenon DEF TypeOK
<1>6. ASSUME NEW m \in DOMAIN fed, fed[m] = "newline"
      PROVE  IsPrefix(Drop(fed, UpTo(m)), Drop(fed, Numbers(delivered)'))
  <2>. DEFINE p == Len(fed) - Len(line)
              S == Pos
              r == [i \in 1 .. p - m |-> m + i]
              b == Before
  <2>1. /\ p \in Nat /\ AllFed = UpTo(p) \o line /\ m <= p /\ m \in Nat
        /\ p <= Len(fed) /\ Len(fed) \in Nat
    <3>1. p \in Nat /\ AllFed = UpTo(p) \o line /\ m <= p
      BY <1>2, <1>6, InputParts
    <3>2. Len(fed) \in Nat /\ Len(line) \in Nat /\ DOMAIN fed = 1 .. Len(fed)
      BY <1>2 DEF TypeOK
    <3>3. m \in Nat /\ p <= Len(fed)
      BY <1>6, <3>2
    <3>. QED
      BY <3>1, <3>2, <3>3
  <2>2. UpTo(m) \in Seq(S) /\ r \in Seq(S) /\ UpTo(p) \in Seq(S) /\ UpTo(p) = UpTo(m) \o r
    <3>1. \A i \in 1 .. m : i \in S
      BY <2>1 DEF Pos
    <3>2. \A i \in 1 .. p - m : m + i \in S
      BY <2>1 DEF Pos
    <3>3. \A i \in 1 .. p : i \in S
      BY <2>1 DEF Pos
    <3>4. UpTo(p) = UpTo(m) \o r
      BY <2>1, UpToParts
    <3>5. p - m \in Nat
      BY <2>1
    <3>. HIDE DEF S, p
    <3>6. UpTo(m) \in Seq(S)
      BY <2>1, <3>1, IsASeq DEF UpTo
    <3>7. UpTo(p) \in Seq(S)
      BY <2>1, <3>3, IsASeq DEF UpTo
    <3>8. r \in Seq(S)
      BY <3>2, <3>5, IsASeq
    <3>. QED
      BY <3>4, <3>6, <3>7, <3>8
  <2>3. PICK e \in Seq(S) : Numbers(delivered)' = d \o (b \o e)
    BY <1>4
  <2>4. d \in Seq(S) /\ b \in Seq(S) /\ line \in Seq(S)
    BY <1>2
  <2>5. Drop(fed, d \o (b \o line)) = Drop(fed, UpTo(p) \o line)
    BY <1>2, <2>1, Zenon DEF Whole, NoQuotes, Drop, d
  <2>. HIDE DEF p, S, r, b
  <2>6. /\ d \o b \in Seq(S)
        /\ (d \o b) \o line = d \o (b \o line) /\ (d \o b) \o e = d \o (b \o e)
    BY <2>4
  <2>7. IsPrefix(Drop(fed, UpTo(m)), Drop(fed, (d \o b) \o e))
    <3>1. Drop(fed, (d \o b) \o line) = Drop(fed, UpTo(p) \o line)
      BY <2>5, <2>6
    <3>. QED
      BY <2>2, <2>4, <2>6, <3>1, ResolvedPrefix
  <2>. QED
    BY <2>3, <2>6, <2>7
<1>7. Conservation'
  <2>1. SUFFICES ASSUME NEW m \in DOMAIN fed, fed[m] = "newline"
                 PROVE  IsPrefix(NoQuotes([i \in 1 .. m |-> i]), NoQuotes(Numbers(delivered)))'
    BY <1>1, Zenon DEF Conservation
  <2>2. IsPrefix(Drop(fed, UpTo(m)), Drop(fed, Numbers(delivered)'))
    BY <1>6, <2>1
  <2>. QED
    BY <1>1, <2>2, Zenon DEF NoQuotes, Drop, UpTo
<1>8. FilterOK'
  BY <1>1 DEF FilterOK
<1>. QED
  BY <1>3, <1>5, <1>7, <1>8 DEF IInv

(* A step that changes nothing. *)
LEMMA Stutter ==
    ASSUME IInv, UNCHANGED vars
    PROVE  IInv'
<1>1. /\ options' = options /\ fed' = fed /\ delivered' = delivered /\ phase' = phase
      /\ state' = state /\ line_start' = line_start /\ line' = line
      /\ line_chunks' = line_chunks /\ header' = header /\ delimiter' = delimiter
      /\ rows' = rows /\ quote_prefix' = quote_prefix /\ has_header' = has_header
      /\ row_layout_ready' = row_layout_ready /\ retained_bytes' = retained_bytes
  BY DEF vars, held
<1>2. TypeOK' /\ FilterOK'
  BY <1>1, Zenon DEF IInv, TypeOK, Pos, Pieces, Kinds, FilterOK, LineOK, StoredOK, Closed,
                     Cells, Quoted, RowMode
<1>3. RetainedIsHeld'
  <2>1. Held' = Held
    BY <1>1, Zenon DEF Held
  <2>. QED
    BY <1>1, <2>1, Zenon DEF IInv, RetainedIsHeld
<1>4. Conservation'
  <2>1. Numbers(delivered)' = Numbers(delivered) /\ AllFed' = AllFed
    BY <1>1, Zenon DEF Numbers, AllFed
  <2>2. Unrendered' = Unrendered /\ Ended(header)' = Ended(header)
    BY <1>1, Zenon DEF Unrendered, Ended
  <2>3. Pending' = Pending
    BY <1>1, <2>2, Zenon DEF Pending
  <2>4. CASE phase = "open"
    <3>1. phase' # "finished" /\ phase' = "open"
      BY <1>1, <2>4
    <3>2. NoQuotes(Numbers(delivered) \o Pending) = NoQuotes(AllFed)
      BY <2>4, Zenon DEF IInv, Conservation
    <3>3. (NoQuotes(Numbers(delivered) \o Pending) = NoQuotes(AllFed))'
      BY <1>1, <2>1, <2>3, <3>2, Zenon DEF NoQuotes
    <3>. QED
      BY <3>1, <3>3, Zenon DEF Conservation
  <2>5. CASE phase = "finished"
    <3>1. phase' # "open"
      BY <1>1, <2>5
    <3>2. \A m \in DOMAIN fed : fed[m] = "newline" =>
            IsPrefix(NoQuotes([i \in 1 .. m |-> i]), NoQuotes(Numbers(delivered)))
      BY <2>5, Zenon DEF IInv, Conservation
    <3>3. (\A m \in DOMAIN fed : fed[m] = "newline" =>
            IsPrefix(NoQuotes([i \in 1 .. m |-> i]), NoQuotes(Numbers(delivered))))'
      BY <1>1, <2>1, <3>2, Zenon DEF NoQuotes
    <3>. QED
      BY <3>1, <3>3, Zenon DEF Conservation
  <2>6. CASE phase \notin {"open", "finished"}
    BY <1>1, <2>6, Zenon DEF Conservation
  <2>. QED
    BY <2>4, <2>5, <2>6
<1>. QED
  BY <1>2, <1>3, <1>4 DEF IInv

-----------------------------------------------------------------------------
(* The filter's invariant *)

(* An empty filter. *)
LEMMA InitInv == Init => IInv
<1>. SUFFICES ASSUME Init
              PROVE  IInv
  OBVIOUS
<1>1. /\ options \in Options /\ fed = << >> /\ delivered = << >> /\ phase = "open"
      /\ state = "pass" /\ line_start = TRUE /\ line = << >> /\ line_chunks = 0
      /\ header = << >> /\ delimiter = << >> /\ rows = << >> /\ quote_prefix = FALSE
      /\ has_header = FALSE /\ row_layout_ready = FALSE /\ retained_bytes = 0
  BY DEF Init
<1>2. TypeOK
  <2>1. /\ fed \in Seq(Pieces) /\ delivered \in Seq([n : Pos, as : Kinds])
        /\ line \in Seq(Pos) /\ header \in Seq(Pos) /\ delimiter \in Seq(Pos)
        /\ rows \in Seq(Seq(Pos)) /\ line_chunks \in Nat /\ retained_bytes \in Int
    BY <1>1
  <2>. QED
    BY <1>1, <2>1 DEF TypeOK
<1>3. LineOK /\ StoredOK
  BY <1>1 DEF LineOK, StoredOK
<1>4. RetainedIsHeld
  <2>1. Held = 0
    BY <1>1, FlattenEmpty DEF Held
  <2>. QED
    BY <1>1, <2>1 DEF RetainedIsHeld
<1>5. Conservation
  <2>1. Pending = << >>
    BY <1>1 DEF Pending
  <2>2. Numbers(delivered) = << >> /\ AllFed = << >>
    BY <1>1 DEF Numbers, AllFed
  <2>3. Numbers(delivered) \o Pending = AllFed
    BY <2>1, <2>2
  <2>. QED
    BY <1>1, <2>3, Zenon DEF Conservation
<1>. QED
  BY <1>2, <1>3, <1>4, <1>5 DEF IInv, FilterOK

(* Every step of the filter keeps the invariant. *)
LEMMA NextKeeps == IInv /\ [Next]_vars => IInv'
<1>. SUFFICES ASSUME IInv, [Next]_vars
              PROVE  IInv'
  OBVIOUS
<1>1. CASE UNCHANGED vars
  BY <1>1, Stutter
<1>2. ASSUME NEW x \in Pieces, LimitExceeded(x)
      PROVE  IInv'
  BY <1>2, FailedKeeps
<1>3. ASSUME NEW x \in Pieces, Breaks(x)
      PROVE  IInv'
  BY <1>3, FailedKeeps
<1>4. ASSUME NEW x \in Pieces, PassOn(x)
      PROVE  IInv'
  BY <1>4, PassOnKeeps
<1>5. ASSUME NEW x \in Pieces, StartLine(x)
      PROVE  IInv'
  BY <1>5, StartLineKeeps
<1>6. ASSUME NEW x \in Pieces, GrowPrelude(x)
      PROVE  IInv'
  BY <1>6, GrowPreludeKeeps
<1>7. ASSUME NEW x \in Pieces, GrowLine(x)
      PROVE  IInv'
  BY <1>7, GrowLineKeeps
<1>8. CASE CompleteCandidate
  BY <1>8, CompleteCandidateKeeps
<1>9. CASE CompleteDelimiter
  BY <1>9, CompleteDelimiterKeeps
<1>10. CASE CompleteHeaderless
  BY <1>10, CompleteHeaderlessKeeps
<1>11. CASE RejectHeader
  BY <1>11, RejectHeaderKeeps
<1>12. CASE AddRow
  BY <1>12, AddRowKeeps
<1>13. CASE EndTable
  BY <1>13, EndTableKeeps
<1>14. CASE FinishDocument
  BY <1>14, FinishKeeps
<1>. QED
  BY <1>1, <1>2, <1>3, <1>4, <1>5, <1>6, <1>7, <1>8, <1>9, <1>10, <1>11, <1>12, <1>13,
     <1>14 DEF Next

(* Whatever is fed, in whatever pieces, the filter's account is in order.    *)
THEOREM Invariance == Spec => []IInv
  BY InitInv, NextKeeps, PTL DEF Spec

(* struct table_filter keeps its types: what it holds are positions of the   *)
(* input.                                                                    *)
THEOREM TypeCorrect == Spec => []TypeOK
<1>1. IInv => TypeOK
  BY DEF IInv
<1>. QED
  BY <1>1, Invariance, PTL

(* retained_bytes is what the line, its chunk boundaries, the header, the    *)
(* delimiter and the rows amount to, and nothing when nothing is held: the   *)
(* limit of an incremental document is checked against the real amount.      *)
THEOREM RetainedCorrect == Spec => []RetainedIsHeld
<1>1. IInv => RetainedIsHeld
  BY DEF IInv
<1>. QED
  BY <1>1, Invariance, PTL

(* However lines were held back, rejected, replayed or rendered, the parser  *)
(* and the table renderer were handed the input in order, once each, and the *)
(* end of the document resolves all complete lines.                          *)
THEOREM InputConserved == Spec => []Conservation
<1>1. IInv => Conservation
  BY DEF IInv
<1>. QED
  BY <1>1, Invariance, PTL

=============================================================================
