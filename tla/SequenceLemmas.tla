--------------------------- MODULE SequenceLemmas ---------------------------
(***************************************************************************)
(* What the proofs of several modules need to know about sequences: the    *)
(* least element of a set of numbers, which is how a fact about sequences  *)
(* of every length is proved here, and how FlattenSeq, whose definition is *)
(* recursive, deals with the empty sequence, Append and \o.                *)
(***************************************************************************)
EXTENDS Integers, Sequences, SequencesExt, SequenceTheorems, WellFoundedInduction, TLAPS

(* Numbers that have a property have a least one among them. *)
LEMMA LeastOf ==
    ASSUME NEW S \in SUBSET Nat, S # {}
    PROVE  \E n \in S : \A m \in S : n <= m
<1>. DEFINE R == OpToRel(<, Nat)
<1>1. IsWellFoundedOn(R, Nat)
  BY NatLessThanWellFounded
<1>2. ASSUME NEW m \in Nat, NEW n \in Nat, m < n
      PROVE  <<m, n>> \in R
  BY <1>2 DEF OpToRel
<1>. HIDE DEF R
<1>3. PICK n \in S : \A m \in S : ~(<<m, n>> \in R)
  BY <1>1, WFMin
<1>4. \A m \in S : ~(m < n)
  BY <1>2, <1>3
<1>5. \A m \in S : n <= m
  BY <1>4
<1>. QED
  BY <1>5

(* The function that the definition of FlattenSeq chooses: the first i       *)
(* sequences, one after the other.                                           *)
Flat(seqs, f) ==
    f = [i \in 1 .. Len(seqs) |-> IF i = 1 THEN seqs[i] ELSE f[i - 1] \o seqs[i]]

(* There is only one. *)
LEMMA FlatUnique ==
    ASSUME NEW seqs, Len(seqs) \in Nat, NEW f, NEW g, Flat(seqs, f), Flat(seqs, g)
    PROVE  f = g
<1>. DEFINE D == {i \in 1 .. Len(seqs) : f[i] # g[i]}
<1>1. D \in SUBSET Nat
  OBVIOUS
<1>2. /\ f = [i \in 1 .. Len(seqs) |-> f[i]]
      /\ g = [i \in 1 .. Len(seqs) |-> g[i]]
      /\ \A i \in 1 .. Len(seqs) : f[i] = IF i = 1 THEN seqs[i] ELSE f[i - 1] \o seqs[i]
      /\ \A i \in 1 .. Len(seqs) : g[i] = IF i = 1 THEN seqs[i] ELSE g[i - 1] \o seqs[i]
  BY Zenon DEF Flat
<1>3. D = {}
  <2>1. SUFFICES ASSUME D # {}
                 PROVE  FALSE
    OBVIOUS
  <2>2. PICK n \in D : \A m \in D : n <= m
    <3>. HIDE DEF D
    <3>. QED
      BY <1>1, <2>1, LeastOf
  <2>3. n \in 1 .. Len(seqs)
    OBVIOUS
  <2>4. CASE n = 1
    BY <1>2, <2>3, <2>4
  <2>5. CASE n # 1
    <3>1. n - 1 \in 1 .. Len(seqs) /\ ~(n <= n - 1)
      BY <2>3, <2>5
    <3>2. f[n - 1] = g[n - 1]
      BY <2>2, <3>1
    <3>3. f[n] = g[n]
      BY <1>2, <2>3, <2>5, <3>2
    <3>. QED
      BY <3>3
  <2>. QED
    BY <2>4, <2>5
<1>4. \A i \in 1 .. Len(seqs) : f[i] = g[i]
  BY <1>3
<1>5. [i \in 1 .. Len(seqs) |-> f[i]] = [i \in 1 .. Len(seqs) |-> g[i]]
  BY <1>4, Zenon
<1>. QED
  BY <1>2, <1>5, Zenon

(* So it gives what FlattenSeq returns. *)
LEMMA FlattenIs ==
    ASSUME NEW seqs, Len(seqs) \in Nat \ {0}, NEW f, Flat(seqs, f)
    PROVE  FlattenSeq(seqs) = f[Len(seqs)]
<1>. DEFINE flatten == CHOOSE g : g = [i \in 1 .. Len(seqs) |->
                                         IF i = 1 THEN seqs[i] ELSE g[i - 1] \o seqs[i]]
<1>1. Len(seqs) # 0 /\ Len(seqs) \in Nat
  OBVIOUS
<1>2. FlattenSeq(seqs) = flatten[Len(seqs)]
  BY <1>1, Zenon DEF FlattenSeq
<1>3. Flat(seqs, flatten)
  BY Zenon DEF Flat
<1>4. flatten = f
  <2>. HIDE DEF flatten
  <2>. QED
    BY <1>1, <1>3, FlatUnique
<1>. QED
  BY <1>2, <1>4

(* One more sequence at the end: what there was, and then that one. *)
LEMMA FlatExtends ==
    ASSUME NEW S, NEW seqs \in Seq(Seq(S)), NEW e \in Seq(S),
           NEW f \in [1 .. Len(seqs) -> Seq(S)], Flat(seqs, f)
    PROVE  \E g \in [1 .. Len(Append(seqs, e)) -> Seq(S)] :
               /\ Flat(Append(seqs, e), g)
               /\ g[Len(seqs) + 1] = IF seqs = << >> THEN e ELSE f[Len(seqs)] \o e
<1>. DEFINE more == Append(seqs, e)
            n    == Len(seqs)
            last == IF seqs = << >> THEN e ELSE f[n] \o e
            g    == [i \in 1 .. n + 1 |-> IF i = n + 1 THEN last ELSE f[i]]
<1>1. /\ Len(more) = n + 1
      /\ n \in Nat
      /\ seqs = << >> <=> n = 0
      /\ more[n + 1] = e
      /\ \A i \in 1 .. n : more[i] = seqs[i]
  OBVIOUS
<1>2. last \in Seq(S)
  BY <1>1
<1>3. g \in [1 .. n + 1 -> Seq(S)]
  BY <1>1, <1>2
<1>4. \A i \in 1 .. n : f[i] = IF i = 1 THEN seqs[i] ELSE f[i - 1] \o seqs[i]
  BY Zenon DEF Flat
<1>5. ASSUME NEW i \in 1 .. n + 1
      PROVE  g[i] = IF i = 1 THEN more[i] ELSE g[i - 1] \o more[i]
  <2>. HIDE DEF more
  <2>1. CASE i = n + 1 /\ n = 0
    BY <1>1, <2>1
  <2>2. CASE i = n + 1 /\ n # 0
    <3>1. n \in 1 .. n + 1 /\ n # n + 1 /\ i # 1 /\ i - 1 = n
      BY <1>1, <2>2
    <3>2. g[i] = last /\ g[i - 1] = f[n]
      BY <2>2, <3>1
    <3>3. last = f[n] \o e
      BY <1>1, <2>2
    <3>4. more[i] = e
      BY <1>1, <2>2
    <3>. HIDE DEF last, g
    <3>. QED
      BY <3>1, <3>2, <3>3, <3>4
  <2>3. CASE i # n + 1
    <3>1. i \in 1 .. n /\ (i # 1 => i - 1 \in 1 .. n + 1 /\ i - 1 # n + 1)
      BY <1>1, <2>3
    <3>2. g[i] = f[i] /\ (i # 1 => g[i - 1] = f[i - 1])
      BY <2>3, <3>1
    <3>. QED
      BY <1>1, <1>4, <3>1, <3>2
  <2>. QED
    BY <2>1, <2>2, <2>3
<1>6. Flat(more, g)
  <2>1. g = [i \in 1 .. n + 1 |-> g[i]]
    BY Zenon
  <2>2. [i \in 1 .. n + 1 |-> g[i]]
          = [i \in 1 .. n + 1 |-> IF i = 1 THEN more[i] ELSE g[i - 1] \o more[i]]
    <3>. HIDE DEF g, more
    <3>. QED
      BY <1>5, Zenon
  <2>3. 1 .. Len(more) = 1 .. n + 1
    BY <1>1
  <2>. HIDE DEF g, more
  <2>. QED
    BY <2>1, <2>2, <2>3, Zenon DEF Flat
<1>7. g[n + 1] = last
  BY <1>1
<1>. HIDE DEF g
<1>. QED
  BY <1>1, <1>3, <1>6, <1>7

(* And there always is one. *)
LEMMA FlatExists ==
    ASSUME NEW S, NEW seqs \in Seq(Seq(S))
    PROVE  \E f \in [1 .. Len(seqs) -> Seq(S)] : Flat(seqs, f)
<1>. DEFINE Has(s) == \E f \in [1 .. Len(s) -> Seq(S)] : Flat(s, f)
            D      == {n \in Nat : \E s \in Seq(Seq(S)) : Len(s) = n /\ ~Has(s)}
<1>1. D = {}
  <2>1. SUFFICES ASSUME D # {}
                 PROVE  FALSE
    OBVIOUS
  <2>2. PICK n \in D : \A m \in D : n <= m
    <3>1. D \in SUBSET Nat
      OBVIOUS
    <3>. HIDE DEF D
    <3>. QED
      BY <2>1, <3>1, LeastOf
  <2>3. PICK s \in Seq(Seq(S)) : Len(s) = n /\ ~Has(s)
    BY <2>2
  <2>4. CASE n = 0
    <3>. DEFINE f == [i \in 1 .. 0 |-> << >>]
    <3>1. f \in [1 .. Len(s) -> Seq(S)]
      BY <2>3, <2>4
    <3>2. Flat(s, f)
      BY <2>3, <2>4 DEF Flat
    <3>. QED
      BY <2>3, <3>1, <3>2
  <2>5. CASE n # 0
    <3>. DEFINE t == SubSeq(s, 1, n - 1)
    <3>1. /\ t \in Seq(Seq(S))
          /\ Len(t) = n - 1
          /\ s[n] \in Seq(S)
          /\ s = Append(t, s[n])
          /\ n - 1 \in Nat
          /\ ~(n <= n - 1)
      BY <2>3, <2>5
    <3>2. Has(t)
      <4>. HIDE DEF Has, t
      <4>. QED
        BY <2>2, <3>1
    <3>3. PICK f \in [1 .. Len(t) -> Seq(S)] : Flat(t, f)
      BY <3>2
    <3>4. \E g \in [1 .. Len(Append(t, s[n])) -> Seq(S)] : Flat(Append(t, s[n]), g)
      <4>. HIDE DEF t
      <4>. QED
        BY <3>1, <3>3, FlatExtends
    <3>. HIDE DEF t
    <3>. QED
      BY <2>3, <3>1, <3>4
  <2>. QED
    BY <2>4, <2>5
<1>. QED
  BY <1>1

(* FlattenSeq of nothing. *)
LEMMA FlattenEmpty == FlattenSeq(<< >>) = << >>
  BY DEF FlattenSeq

(* FlattenSeq returns a sequence of the elements, and what is appended to    *)
(* its argument comes last.                                                  *)
LEMMA FlattenAppend ==
    ASSUME NEW S, NEW seqs \in Seq(Seq(S)), NEW e \in Seq(S)
    PROVE  /\ FlattenSeq(seqs) \in Seq(S)
           /\ FlattenSeq(Append(seqs, e)) = FlattenSeq(seqs) \o e
<1>1. PICK f \in [1 .. Len(seqs) -> Seq(S)] : Flat(seqs, f)
  BY FlatExists
<1>2. PICK g \in [1 .. Len(Append(seqs, e)) -> Seq(S)] :
         /\ Flat(Append(seqs, e), g)
         /\ g[Len(seqs) + 1] = IF seqs = << >> THEN e ELSE f[Len(seqs)] \o e
  BY <1>1, FlatExtends
<1>3. /\ Len(seqs) \in Nat
      /\ Len(Append(seqs, e)) = Len(seqs) + 1
      /\ Len(Append(seqs, e)) \in Nat \ {0}
      /\ seqs # << >> => Len(seqs) \in Nat \ {0} /\ Len(seqs) \in 1 .. Len(seqs)
  OBVIOUS
<1>4. FlattenSeq(Append(seqs, e)) = g[Len(seqs) + 1]
  <2>1. FlattenSeq(Append(seqs, e)) = g[Len(Append(seqs, e))]
    BY <1>2, <1>3, FlattenIs
  <2>. QED
    BY <1>3, <2>1
<1>5. CASE seqs = << >>
  <2>1. g[Len(seqs) + 1] = e
    BY <1>2, <1>5
  <2>2. FlattenSeq(seqs) = << >>
    BY <1>5, FlattenEmpty
  <2>3. << >> \o e = e /\ << >> \in Seq(S)
    OBVIOUS
  <2>. QED
    BY <1>4, <2>1, <2>2, <2>3
<1>6. CASE seqs # << >>
  <2>1. FlattenSeq(seqs) = f[Len(seqs)]
    BY <1>1, <1>3, <1>6, FlattenIs
  <2>2. f[Len(seqs)] \in Seq(S)
    BY <1>1, <1>3, <1>6
  <2>3. g[Len(seqs) + 1] = f[Len(seqs)] \o e
    BY <1>2, <1>6
  <2>. QED
    BY <1>4, <2>1, <2>2, <2>3
<1>. QED
  BY <1>5, <1>6

(* FlattenSeq of two sequences. *)
LEMMA FlattenTwo ==
    \A S : \A a, b \in Seq(S) : FlattenSeq(<<a, b>>) = a \o b
<1>. SUFFICES ASSUME NEW S, NEW a \in Seq(S), NEW b \in Seq(S)
              PROVE  FlattenSeq(<<a, b>>) = a \o b
  OBVIOUS
<1>. DEFINE f == [i \in 1 .. 2 |-> IF i = 1 THEN a ELSE a \o b]
            t == <<a, b>>
<1>1. Len(t) = 2 /\ t[1] = a /\ t[2] = b
  OBVIOUS
<1>2. \A i \in 1 .. 2 : f[i] = IF i = 1 THEN t[i] ELSE f[i - 1] \o t[i]
  OBVIOUS
<1>3. f = [i \in 1 .. 2 |-> f[i]] /\ f[2] = a \o b
  OBVIOUS
<1>. HIDE DEF f, t
<1>4. Flat(t, f)
  <2>1. [i \in 1 .. 2 |-> f[i]] = [i \in 1 .. 2 |-> IF i = 1 THEN t[i] ELSE f[i - 1] \o t[i]]
    BY <1>2, Zenon
  <2>. QED
    BY <1>1, <1>3, <2>1, Zenon DEF Flat
<1>5. FlattenSeq(t) = f[2]
  <2>1. Len(t) \in Nat \ {0}
    BY <1>1
  <2>2. FlattenSeq(t) = f[Len(t)]
    BY <1>4, <2>1, FlattenIs
  <2>. QED
    BY <1>1, <2>2
<1>. QED
  BY <1>3, <1>5 DEF t

(* The length of two sequences joined. *)
LEMMA ConcatLen == \A S : \A s, t \in Seq(S) : Len(s \o t) = Len(s) + Len(t)
  OBVIOUS

(* \o and Append. *)
LEMMA ConcatAppend ==
    ASSUME NEW S, NEW s \in Seq(S), NEW t \in Seq(S), NEW e \in S
    PROVE  /\ s \o t \in Seq(S)
           /\ s \o Append(t, e) = Append(s \o t, e)
  OBVIOUS

(* A sequence that is not empty ends with an element. *)
LEMMA FrontAndLast ==
    ASSUME NEW S, NEW s \in Seq(S), s # << >>
    PROVE  \E t \in Seq(S) : \E e \in S : s = Append(t, e) /\ Len(s) = Len(t) + 1
<1>1. PICK t \in Seq(S), e \in S : s = Append(t, e)
  BY SequenceEmptyOrAppend
<1>. QED
  BY <1>1

(* One more sequence on the right of a join. *)
LEMMA FlattenConcatStep ==
    ASSUME NEW S, NEW r \in Seq(Seq(S)), NEW t \in Seq(Seq(S)), NEW e \in Seq(S),
           FlattenSeq(r \o t) = FlattenSeq(r) \o FlattenSeq(t)
    PROVE  FlattenSeq(r \o Append(t, e)) = FlattenSeq(r) \o FlattenSeq(Append(t, e))
<1>. DEFINE a == FlattenSeq(r)
            b == FlattenSeq(t)
<1>1. r \o t \in Seq(Seq(S)) /\ r \o Append(t, e) = Append(r \o t, e)
  BY ConcatAppend
<1>2. a \in Seq(S) /\ b \in Seq(S)
  BY FlattenAppend
<1>3. FlattenSeq(Append(r \o t, e)) = FlattenSeq(r \o t) \o e
  BY <1>1, FlattenAppend
<1>4. FlattenSeq(Append(t, e)) = b \o e
  BY FlattenAppend
<1>. HIDE DEF a, b
<1>5. (a \o b) \o e = a \o (b \o e)
  BY <1>2, ConcatAssociative
<1>. QED
  BY <1>1, <1>3, <1>4, <1>5 DEF a, b

(* FlattenSeq distributes over \o. *)
LEMMA FlattenConcat ==
    ASSUME NEW S, NEW r \in Seq(Seq(S)), NEW seqs \in Seq(Seq(S))
    PROVE  FlattenSeq(r \o seqs) = FlattenSeq(r) \o FlattenSeq(seqs)
<1>. DEFINE Has(s) == FlattenSeq(r \o s) = FlattenSeq(r) \o FlattenSeq(s)
            D      == {n \in Nat : \E s \in Seq(Seq(S)) : Len(s) = n /\ ~Has(s)}
<1>1. D = {}
  <2>1. SUFFICES ASSUME D # {}
                 PROVE  FALSE
    OBVIOUS
  <2>2. PICK n \in D : \A m \in D : n <= m
    <3>1. D \in SUBSET Nat
      OBVIOUS
    <3>. HIDE DEF D
    <3>. QED
      BY <2>1, <3>1, LeastOf
  <2>3. PICK s \in Seq(Seq(S)) : Len(s) = n /\ ~Has(s)
    BY <2>2
  <2>4. CASE s = << >>
    <3>1. FlattenSeq(r) \in Seq(S)
      BY FlattenAppend, EmptySeq
    <3>2. r \o s = r
      BY <2>4
    <3>. QED
      BY <2>3, <2>4, <3>1, <3>2, FlattenEmpty
  <2>5. CASE s # << >>
    <3>1. PICK t \in Seq(Seq(S)), e \in Seq(S) : s = Append(t, e) /\ Len(s) = Len(t) + 1
      BY <2>5, FrontAndLast
    <3>2. Len(t) \in Nat /\ ~(n <= Len(t))
      BY <2>3, <3>1
    <3>3. Has(t)
      <4>. HIDE DEF Has
      <4>. QED
        BY <2>2, <3>2
    <3>. QED
      BY <2>3, <3>1, <3>3, FlattenConcatStep
  <2>. QED
    BY <2>4, <2>5
<1>2. Has(seqs)
  <2>. HIDE DEF Has
  <2>1. Len(seqs) \in Nat
    OBVIOUS
  <2>. QED
    BY <1>1, <2>1
<1>. QED
  BY <1>2

-----------------------------------------------------------------------------
(* A set that holds 0 and with a number the next holds all numbers. *)
LEMMA NatInduct ==
    ASSUME NEW P \in SUBSET Nat, 0 \in P, \A n \in P : n + 1 \in P
    PROVE  P = Nat
<1>1. SUFFICES ASSUME Nat \ P # {}
               PROVE  FALSE
  OBVIOUS
<1>2. PICK n \in Nat \ P : \A m \in Nat \ P : n <= m
  <2>. DEFINE D == Nat \ P
  <2>1. D \in SUBSET Nat /\ D # {}
    BY <1>1
  <2>. HIDE DEF D
  <2>2. \E n \in D : \A m \in D : n <= m
    BY <2>1, LeastOf
  <2>. QED
    BY <2>2 DEF D
<1>3. n # 0
  OBVIOUS
<1>4. n - 1 \in P
  BY <1>2, <1>3
<1>5. n = (n - 1) + 1
  BY <1>2
<1>. QED
  BY <1>2, <1>4, <1>5

(* What a loop over a sequence has reached after each of its elements. *)
Steps(op, start, seq, f) ==
    f = [i \in 0 .. Len(seq) |-> IF i = 0 THEN start ELSE op[<<f[i - 1], seq[i]>>]]

(* There is such a function, *)
LEMMA StepsExist ==
    ASSUME NEW S, NEW T, NEW op \in [S \X T -> S], NEW start \in S, NEW seq \in Seq(T)
    PROVE  \E f \in [0 .. Len(seq) -> S] : Steps(op, start, seq, f)
<1>. DEFINE Next(f, i) == IF i = 0 THEN start ELSE op[<<f[i - 1], seq[i]>>]
            Has(n) == \E f \in [0 .. n -> S] : \A i \in 0 .. n : f[i] = Next(f, i)
            P == {n \in Nat : n <= Len(seq) => Has(n)}
<1>1. 0 \in P
  <2>. DEFINE f == [i \in 0 .. 0 |-> start]
  <2>1. f \in [0 .. 0 -> S] /\ \A i \in 0 .. 0 : f[i] = Next(f, i)
    OBVIOUS
  <2>. QED
    BY <2>1
<1>2. ASSUME NEW n \in P
      PROVE  n + 1 \in P
  <2>1. n \in Nat
    OBVIOUS
  <2>2. ASSUME n + 1 <= Len(seq)
        PROVE  Has(n + 1)
    <3>1. PICK f \in [0 .. n -> S] : \A i \in 0 .. n : f[i] = Next(f, i)
      BY <2>1, <2>2
    <3>. DEFINE last == op[<<f[n], seq[n + 1]>>]
                g == [i \in 0 .. n + 1 |-> IF i = n + 1 THEN last ELSE f[i]]
    <3>2. n \in 0 .. n /\ n + 1 \in 1 .. Len(seq)
      BY <2>1, <2>2
    <3>3. f[n] \in S /\ seq[n + 1] \in T
      BY <3>2
    <3>4. last \in S
      BY <3>3
    <3>5. g \in [0 .. n + 1 -> S]
      <4>. HIDE DEF last
      <4>. QED
        BY <2>1, <3>4
    <3>6. ASSUME NEW i \in 0 .. n + 1
          PROVE  g[i] = Next(g, i)
      <4>1. CASE i = n + 1
        <5>1. i # 0 /\ i - 1 = n /\ g[n] = f[n] /\ g[i] = last
          BY <2>1, <4>1
        <5>. QED
          BY <4>1, <5>1
      <4>2. CASE i # n + 1
        <5>1. i \in 0 .. n /\ g[i] = f[i] /\ (i # 0 => g[i - 1] = f[i - 1])
          BY <2>1, <4>2
        <5>2. f[i] = Next(f, i)
          BY <3>1, <5>1
        <5>. QED
          BY <5>1, <5>2
      <4>. QED
        BY <4>1, <4>2
    <3>. HIDE DEF g
    <3>. QED
      BY <3>5, <3>6
  <2>. HIDE DEF Has
  <2>. QED
    BY <2>1, <2>2
<1>3. P = Nat
  <2>. HIDE DEF P
  <2>1. P \in SUBSET Nat
    BY DEF P
  <2>. QED
    BY <1>1, <1>2, <2>1, NatInduct
<1>4. Len(seq) \in Nat
  OBVIOUS
<1>5. Has(Len(seq))
  <2>. HIDE DEF Has
  <2>. QED
    BY <1>3, <1>4
<1>6. PICK f \in [0 .. Len(seq) -> S] : \A i \in 0 .. Len(seq) : f[i] = Next(f, i)
  BY <1>5
<1>7. f = [i \in 0 .. Len(seq) |-> f[i]]
  OBVIOUS
<1>8. [i \in 0 .. Len(seq) |-> f[i]] = [i \in 0 .. Len(seq) |-> Next(f, i)]
  BY <1>6, Zenon
<1>. QED
  BY <1>6, <1>7, <1>8, Zenon DEF Steps

(* only one, *)
LEMMA StepsUnique ==
    ASSUME NEW op, NEW start, NEW seq, Len(seq) \in Nat,
           NEW f, NEW g, Steps(op, start, seq, f), Steps(op, start, seq, g)
    PROVE  f = g
<1>. DEFINE n == Len(seq)
            Next(h, i) == IF i = 0 THEN start ELSE op[<<h[i - 1], seq[i]>>]
            P == {i \in Nat : i <= n => f[i] = g[i]}
<1>0. f = [i \in 0 .. n |-> f[i]] /\ g = [i \in 0 .. n |-> g[i]]
  BY Zenon DEF Steps
<1>1. /\ \A i \in 0 .. n : f[i] = Next(f, i)
      /\ \A i \in 0 .. n : g[i] = Next(g, i)
  BY Zenon DEF Steps
<1>2. 0 \in P
  <2>1. 0 \in 0 .. n
    OBVIOUS
  <2>2. f[0] = start /\ g[0] = start
    BY <1>1, <2>1, Zenon
  <2>. QED
    BY <2>2
<1>3. ASSUME NEW i \in P
      PROVE  i + 1 \in P
  <2>1. i \in Nat
    OBVIOUS
  <2>2. ASSUME i + 1 <= n
        PROVE  f[i + 1] = g[i + 1]
    <3>1. f[i] = g[i] /\ i + 1 \in 0 .. n /\ i + 1 # 0 /\ (i + 1) - 1 = i
      BY <2>1, <2>2
    <3>. QED
      BY <1>1, <3>1
  <2>. QED
    BY <2>1, <2>2
<1>4. P = Nat
  <2>. HIDE DEF P
  <2>1. P \in SUBSET Nat
    BY DEF P
  <2>. QED
    BY <1>2, <1>3, <2>1, NatInduct
<1>5. \A i \in 0 .. n : f[i] = g[i]
  BY <1>4
<1>6. [i \in 0 .. n |-> f[i]] = [i \in 0 .. n |-> g[i]]
  BY <1>5, Zenon
<1>. QED
  BY <1>0, <1>6, Zenon

(* and it takes one step for each element. *)
LEMMA StepsAre ==
    ASSUME NEW op, NEW start, NEW seq, Len(seq) \in Nat, NEW f, Steps(op, start, seq, f)
    PROVE  /\ f[0] = start
           /\ \A i \in 1 .. Len(seq) : f[i] = op[<<f[i - 1], seq[i]>>]
  BY DEF Steps

(* A set of sequences that holds the empty one and with a sequence every one *)
(* that is longer by an element holds all of them.                           *)
LEMMA SeqInduct ==
    ASSUME NEW S, NEW P \in SUBSET Seq(S), <<>> \in P, \A t \in P, e \in S : Append(t, e) \in P
    PROVE  P = Seq(S)
<1>. DEFINE Has(t) == t \in P
            Q == {n \in Nat : \A t \in Seq(S) : Len(t) = n => Has(t)}
<1>1. 0 \in Q
  <2>1. ASSUME NEW t \in Seq(S), Len(t) = 0
        PROVE  Has(t)
    <3>1. t = <<>>
      BY <2>1
    <3>. QED
      BY <3>1
  <2>. HIDE DEF Has
  <2>. QED
    BY <2>1
<1>2. ASSUME NEW n \in Q
      PROVE  n + 1 \in Q
  <2>1. n \in Nat /\ \A t \in Seq(S) : Len(t) = n => Has(t)
    OBVIOUS
  <2>2. ASSUME NEW t \in Seq(S), Len(t) = n + 1
        PROVE  Has(t)
    <3>1. PICK u \in Seq(S), e \in S : t = Append(u, e) /\ Len(t) = Len(u) + 1
      <4>1. t # <<>>
        BY <2>1, <2>2
      <4>. QED
        BY <4>1, FrontAndLast
    <3>2. Len(u) = n
      BY <2>1, <2>2, <3>1
    <3>3. u \in P
      BY <2>1, <3>2
    <3>. QED
      BY <3>1, <3>3
  <2>. HIDE DEF Has
  <2>. QED
    BY <2>1, <2>2
<1>3. Q = Nat
  <2>. HIDE DEF Q
  <2>1. Q \in SUBSET Nat
    BY DEF Q
  <2>. QED
    BY <1>1, <1>2, <2>1, NatInduct
<1>4. \A t \in Seq(S) : Has(t)
  <2>1. \A t \in Seq(S) : Len(t) \in Nat
    OBVIOUS
  <2>. HIDE DEF Has
  <2>. QED
    BY <1>3, <2>1
<1>. QED
  BY <1>4

(* A function of each element of a sequence. *)
Mapped(F, seq) == [i \in DOMAIN seq |-> F[seq[i]]]

LEMMA MapAppend ==
    ASSUME NEW S, NEW F, NEW s \in Seq(S), NEW c \in S
    PROVE  Mapped(F, Append(s, c)) = Append(Mapped(F, s), F[c])
<1>. DEFINE T == {F[e] : e \in S}
            more == Append(s, c)
            n == Len(s)
<1>1. n \in Nat /\ Len(more) = n + 1 /\ more[n + 1] = c /\ \A i \in 1 .. n : more[i] = s[i]
  OBVIOUS
<1>2. /\ Mapped(F, s) \in Seq(T) /\ Len(Mapped(F, s)) = n
      /\ Mapped(F, more) \in Seq(T) /\ Len(Mapped(F, more)) = n + 1
  BY DEF Mapped
<1>3. F[c] \in T
  OBVIOUS
<1>4. \A i \in 1 .. n + 1 : Mapped(F, more)[i] = F[more[i]]
  BY <1>1 DEF Mapped
<1>5. \A i \in 1 .. n : Mapped(F, s)[i] = F[s[i]]
  BY <1>1 DEF Mapped
<1>. HIDE DEF more, T
<1>6. Append(Mapped(F, s), F[c]) \in Seq(T) /\ Len(Append(Mapped(F, s), F[c])) = n + 1
  BY <1>2, <1>3
<1>7. \A i \in 1 .. n + 1 : Mapped(F, more)[i] = Append(Mapped(F, s), F[c])[i]
  BY <1>1, <1>2, <1>3, <1>4, <1>5
<1>8. Mapped(F, more) = Append(Mapped(F, s), F[c])
  BY <1>1, <1>2, <1>6, <1>7, SeqEqual
<1>. QED
  BY <1>8 DEF more

(* A part of a sequence. *)
LEMMA PartOf ==
    ASSUME NEW S, NEW s \in Seq(S), NEW m \in Nat \ {0}, NEW n \in Int, n <= Len(s)
    PROVE  /\ SubSeq(s, m, n) \in Seq(S)
           /\ n < m => Len(SubSeq(s, m, n)) = 0
           /\ n >= m => Len(SubSeq(s, m, n)) = n - m + 1
           /\ \A i \in 1 .. (n - m + 1) : SubSeq(s, m, n)[i] = s[m + i - 1]
<1>1. Len(s) \in Nat
  OBVIOUS
<1>2. CASE n < m
  <2>1. SubSeq(s, m, n) = <<>>
    BY <1>2
  <2>2. <<>> \in Seq(S) /\ Len(<<>>) = 0 /\ \A i \in 1 .. (n - m + 1) : FALSE
    BY <1>2
  <2>. QED
    BY <1>2, <2>1, <2>2
<1>3. CASE ~(n < m)
  <2>1. m \in 1 .. Len(s) /\ n \in 1 .. Len(s)
    BY <1>1, <1>3
  <2>. QED
    BY <1>1, <1>3, <2>1
<1>. QED
  BY <1>2, <1>3

(* A part of two sequences joined is a part of each. *)
Lesser(a, b)  == IF a <= b THEN a ELSE b
Greater(a, b) == IF a <= b THEN b ELSE a

LEMMA PartOfConcat ==
    ASSUME NEW S, NEW s \in Seq(S), NEW t \in Seq(S), NEW m \in Nat, NEW n \in Nat
    PROVE  SubSeq(s \o t, m + 1, Lesser(n, Len(s \o t)))
             = SubSeq(s, m + 1, Lesser(n, Len(s)))
                 \o SubSeq(t, Greater(m - Len(s), 0) + 1, Lesser(n - Len(s), Len(t)))
<1>. DEFINE a == Len(s)
            b == Len(t)
            k == Greater(m - a, 0)
            x == SubSeq(s \o t, m + 1, Lesser(n, a + b))
            y == SubSeq(s, m + 1, Lesser(n, a))
            z == SubSeq(t, k + 1, Lesser(n - a, b))
<1>1. /\ a \in Nat /\ b \in Nat /\ s \o t \in Seq(S) /\ Len(s \o t) = a + b
      /\ \A i \in 1 .. a : (s \o t)[i] = s[i]
      /\ \A i \in 1 .. b : (s \o t)[a + i] = t[i]
  OBVIOUS
<1>. HIDE DEF a, b
<1>2. /\ k \in Nat /\ (m <= a => k = 0) /\ (m > a => k = m - a)
      /\ Lesser(n, a + b) \in Nat /\ Lesser(n, a) \in Nat /\ Lesser(n - a, b) \in Int
      /\ Lesser(n, a + b) <= a + b /\ Lesser(n, a) <= a /\ Lesser(n - a, b) <= b
  BY <1>1 DEF Lesser, Greater
<1>. HIDE DEF k
<1>. DEFINE p == Lesser(n, a + b)
            q == Lesser(n, a)
            r == Lesser(n - a, b)
<1>3. /\ x \in Seq(S)
      /\ p < m + 1 => Len(x) = 0
      /\ p >= m + 1 => Len(x) = p - (m + 1) + 1
      /\ \A i \in 1 .. (p - (m + 1) + 1) : x[i] = (s \o t)[m + 1 + i - 1]
  <2>1. m + 1 \in Nat \ {0} /\ p \in Int /\ p <= Len(s \o t)
    BY <1>1, <1>2
  <2>. HIDE DEF p
  <2>. QED
    BY <1>1, <2>1, PartOf DEF p
<1>4. /\ y \in Seq(S)
      /\ q < m + 1 => Len(y) = 0
      /\ q >= m + 1 => Len(y) = q - (m + 1) + 1
      /\ \A i \in 1 .. (q - (m + 1) + 1) : y[i] = s[m + 1 + i - 1]
  <2>1. m + 1 \in Nat \ {0} /\ q \in Int /\ q <= Len(s)
    BY <1>1, <1>2 DEF a
  <2>. HIDE DEF q
  <2>. QED
    BY <1>1, <2>1, PartOf DEF q
<1>5. /\ z \in Seq(S)
      /\ r < k + 1 => Len(z) = 0
      /\ r >= k + 1 => Len(z) = r - (k + 1) + 1
      /\ \A i \in 1 .. (r - (k + 1) + 1) : z[i] = t[k + 1 + i - 1]
  <2>1. k + 1 \in Nat \ {0} /\ r \in Int /\ r <= Len(t)
    BY <1>1, <1>2 DEF b
  <2>. HIDE DEF r
  <2>. QED
    BY <1>1, <2>1, PartOf DEF r
<1>6. /\ p \in Nat /\ q \in Nat /\ r \in Int
      /\ (n <= a + b => p = n) /\ (n > a + b => p = a + b)
      /\ (n <= a => q = n) /\ (n > a => q = a)
      /\ (n - a <= b => r = n - a) /\ (n - a > b => r = b)
  BY <1>1, <1>2 DEF Lesser
<1>. HIDE DEF x, y, z, p, q, r
<1>7. Len(x) = Len(y) + Len(z) /\ Len(y) \in Nat /\ Len(z) \in Nat
  <2>1. Len(x) \in Nat /\ Len(y) \in Nat /\ Len(z) \in Nat
    BY <1>3, <1>4, <1>5
  <2>2. /\ (p < m + 1 => Len(x) = 0) /\ (p >= m + 1 => Len(x) = p - m)
        /\ (q < m + 1 => Len(y) = 0) /\ (q >= m + 1 => Len(y) = q - m)
        /\ (r < k + 1 => Len(z) = 0) /\ (r >= k + 1 => Len(z) = r - k)
    <3>1. p - (m + 1) + 1 = p - m /\ q - (m + 1) + 1 = q - m /\ r - (k + 1) + 1 = r - k
      BY <1>2, <1>6
    <3>. QED
      BY <3>1, <1>3, <1>4, <1>5
  <2>3. a \in Nat /\ b \in Nat /\ k \in Nat /\ (m <= a => k = 0) /\ (m > a => k = m - a)
    BY <1>1, <1>2
  <2>4. CASE n <= a
    BY <1>6, <2>1, <2>2, <2>3, <2>4
  <2>5. CASE n > a
    BY <1>6, <2>1, <2>2, <2>3, <2>5
  <2>. QED
    BY <2>1, <2>3, <2>4, <2>5
<1>8. /\ y \o z \in Seq(S) /\ Len(y \o z) = Len(y) + Len(z)
      /\ \A i \in 1 .. Len(y) : (y \o z)[i] = y[i]
      /\ \A i \in 1 .. Len(z) : (y \o z)[Len(y) + i] = z[i]
  BY <1>4, <1>5
<1>9. ASSUME NEW i \in 1 .. Len(x)
      PROVE  x[i] = (y \o z)[i]
  <2>0. /\ i \in Nat /\ i >= 1 /\ i <= Len(x) /\ Len(x) \in Nat
        /\ (p < m + 1 => Len(x) = 0) /\ (p >= m + 1 => Len(x) = p - m)
        /\ (q < m + 1 => Len(y) = 0) /\ (q >= m + 1 => Len(y) = q - m)
        /\ (r < k + 1 => Len(z) = 0) /\ (r >= k + 1 => Len(z) = r - k)
        /\ p - (m + 1) + 1 = p - m /\ q - (m + 1) + 1 = q - m /\ r - (k + 1) + 1 = r - k
        /\ a \in Nat /\ b \in Nat /\ k \in Nat /\ (m <= a => k = 0) /\ (m > a => k = m - a)
    BY <1>1, <1>2, <1>3, <1>4, <1>5, <1>6
  <2>1. x[i] = (s \o t)[m + i]
    <3>1. i \in 1 .. (p - (m + 1) + 1) /\ m + 1 + i - 1 = m + i
      BY <1>6, <2>0
    <3>. QED
      BY <1>3, <3>1
  <2>2. CASE i <= Len(y)
    <3>1. /\ i \in 1 .. (q - (m + 1) + 1) /\ m + 1 + i - 1 = m + i /\ m + i \in 1 .. a
          /\ i \in 1 .. Len(y)
      BY <1>6, <2>0, <2>2
    <3>2. (y \o z)[i] = y[i] /\ y[i] = s[m + i] /\ (s \o t)[m + i] = s[m + i]
      BY <1>1, <1>4, <1>8, <3>1
    <3>. QED
      BY <2>1, <3>2
  <2>3. CASE i > Len(y)
    <3>. DEFINE j == i - Len(y)
    <3>1. j \in 1 .. Len(z) /\ i = Len(y) + j
      BY <1>7, <2>0, <2>3
    <3>2. /\ j \in 1 .. (r - (k + 1) + 1) /\ k + 1 + j - 1 = k + j /\ k + j \in 1 .. b
      BY <1>6, <1>7, <2>0, <3>1
    <3>3. n > a
      BY <1>6, <1>7, <2>0, <3>2
    <3>4. m + i = a + (k + j)
      BY <1>6, <1>7, <2>0, <2>3, <3>1, <3>3
    <3>. HIDE DEF j
    <3>5. (y \o z)[i] = z[j] /\ z[j] = t[k + j] /\ (s \o t)[a + (k + j)] = t[k + j]
      BY <1>1, <1>5, <1>8, <3>1, <3>2
    <3>. QED
      BY <2>1, <3>4, <3>5
  <2>. QED
    BY <1>7, <2>0, <2>2, <2>3
<1>10. x = y \o z
  BY <1>3, <1>7, <1>8, <1>9, SeqEqual
<1>11. Lesser(n, Len(s \o t)) = Lesser(n, a + b)
  BY <1>1
<1>. QED
  BY <1>10, <1>11 DEF x, y, z, a, b, k

LEMMA MapType ==
    ASSUME NEW S, NEW T, NEW F \in [S -> T], NEW s \in Seq(S)
    PROVE  Mapped(F, s) \in Seq(T)
  BY DEF Mapped

(* A sequence made from each element, and these sequences one after the other. *)
FlatMaps(S, T, F) ==
    /\ FlattenSeq(Mapped(F, <<>>)) = <<>>
    /\ \A s \in Seq(S) : FlattenSeq(Mapped(F, s)) \in Seq(T)
    /\ \A s \in Seq(S), e \in S :
         FlattenSeq(Mapped(F, Append(s, e))) = FlattenSeq(Mapped(F, s)) \o F[e]

LEMMA FlatMapAppend ==
    ASSUME NEW S, NEW T, NEW F \in [S -> Seq(T)]
    PROVE  FlatMaps(S, T, F)
<1>0. FlattenSeq(Mapped(F, <<>>)) = <<>>
  <2>1. Mapped(F, <<>>) = <<>>
    BY DEF Mapped
  <2>. QED
    BY <2>1, FlattenEmpty
<1>a. ASSUME NEW s \in Seq(S)
      PROVE  Mapped(F, s) \in Seq(Seq(T)) /\ FlattenSeq(Mapped(F, s)) \in Seq(T)
  <2>. DEFINE R == Seq(T)
  <2>1. F \in [S -> R]
    OBVIOUS
  <2>. HIDE DEF R
  <2>2. Mapped(F, s) \in Seq(R)
    BY <2>1, MapType
  <2>3. Mapped(F, s) \in Seq(Seq(T)) /\ <<>> \in Seq(T)
    BY <2>2 DEF R
  <2>. QED
    BY <2>3, FlattenAppend
<1>b. ASSUME NEW s \in Seq(S), NEW e \in S
      PROVE  FlattenSeq(Mapped(F, Append(s, e))) = FlattenSeq(Mapped(F, s)) \o F[e]
  <2>1. Mapped(F, s) \in Seq(Seq(T)) /\ F[e] \in Seq(T)
    BY <1>a
  <2>2. Mapped(F, Append(s, e)) = Append(Mapped(F, s), F[e])
    BY MapAppend
  <2>3. FlattenSeq(Append(Mapped(F, s), F[e])) = FlattenSeq(Mapped(F, s)) \o F[e]
    BY <2>1, FlattenAppend
  <2>. QED
    BY <2>2, <2>3
<1>. QED
  BY <1>0, <1>a, <1>b DEF FlatMaps
=============================================================================
