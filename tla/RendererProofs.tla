--------------------------- MODULE RendererProofs ---------------------------
(***************************************************************************)
(* What a renderer keeps: its memory (MemoryPool) and its sessions         *)
(* (Session).  The two share no state; each has its own specification and  *)
(* invariant, PoolSpec and PoolInv, Spec and IInv.                         *)
(***************************************************************************)
EXTENDS MemoryPool, Session, TLAPS

(***************************************************************************)
(* The invariants of MemoryPool hold for every set of blocks and clients,  *)
(* every set of request sizes and every value of the options.              *)
(*                                                                         *)
(* The proof follows the code: what mdf_memory_alloc_cb and                *)
(* mdf_memory_free_cb do to a pool is stated once, on an explicit pool p   *)
(* and the set H of blocks that are handed out, and each action of the     *)
(* specification is one or two of those steps.                             *)
(***************************************************************************)
ListedIn(p) == {p.list[i] : i \in DOMAIN p.list}

PoolType == [list : Seq(Blocks), retained : Nat, cap : [Blocks -> Nat]]

(* The counter is the sum of the listed capacities, said without a fold:     *)
(* f[i] is the capacity of the first i listed blocks.                        *)
Sums(p, f) ==
    /\ f \in [0 .. Len(p.list) -> Nat]
    /\ f[0] = 0
    /\ \A i \in 1 .. Len(p.list) : f[i] = f[i - 1] + p.cap[p.list[i]]
    /\ \A i, j \in 0 .. Len(p.list) : i <= j => f[i] <= f[j]
    /\ p.retained = f[Len(p.list)]

Distinct(list) == \A i, j \in DOMAIN list : list[i] = list[j] => i = j

(* A pool in order while the blocks in H are handed out. *)
PoolOK(p, H) ==
    /\ p \in PoolType
    /\ H \subseteq Blocks
    /\ Distinct(p.list)
    /\ \A b \in Blocks : p.cap[b] # 0 <=> b \in H \cup ListedIn(p)
    /\ H \cap ListedIn(p) = {}
    /\ p.retained <= MaxRetained
    /\ \A b \in ListedIn(p) : p.cap[b] <= MaxReusableBlock
    /\ \E f : Sums(p, f)

-----------------------------------------------------------------------------
(* The list *)

LEMMA UnlinkProperties ==
    ASSUME NEW list \in Seq(Blocks), NEW i \in 1 .. Len(list)
    PROVE  /\ Unlink(list, i) \in Seq(Blocks)
           /\ Len(Unlink(list, i)) = Len(list) - 1
           /\ DOMAIN Unlink(list, i) = 1 .. Len(list) - 1
           /\ \A j \in 1 .. Len(list) - 1 :
                  Unlink(list, i)[j] = IF j < i THEN list[j] ELSE list[j + 1]
<1>1. \A j \in 1 .. Len(list) - 1 : (IF j < i THEN list[j] ELSE list[j + 1]) \in Blocks
  OBVIOUS
<1> QED
  BY <1>1 DEF Unlink

LEMMA PushProperties ==
    ASSUME NEW list \in Seq(Blocks), NEW b \in Blocks
    PROVE  /\ Push(list, b) \in Seq(Blocks)
           /\ Len(Push(list, b)) = Len(list) + 1
           /\ DOMAIN Push(list, b) = 1 .. Len(list) + 1
           /\ \A j \in 1 .. Len(list) + 1 :
                  Push(list, b)[j] = IF j = 1 THEN b ELSE list[j - 1]
<1>1. \A j \in 1 .. Len(list) + 1 : (IF j = 1 THEN b ELSE list[j - 1]) \in Blocks
  OBVIOUS
<1> QED
  BY <1>1 DEF Push

(* Unlinking removes exactly the i-th block from a list of distinct blocks. *)
LEMMA UnlinkRemoves ==
    ASSUME NEW list \in Seq(Blocks), NEW i \in 1 .. Len(list), Distinct(list)
    PROVE  /\ Distinct(Unlink(list, i))
           /\ {Unlink(list, i)[j] : j \in DOMAIN Unlink(list, i)}
                = {list[j] : j \in DOMAIN list} \ {list[i]}
<1> DEFINE u == Unlink(list, i)
<1>1. /\ DOMAIN u = 1 .. Len(list) - 1
      /\ \A j \in 1 .. Len(list) - 1 : u[j] = IF j < i THEN list[j] ELSE list[j + 1]
  BY UnlinkProperties
<1>2. Distinct(u)
  BY SMTT(20), <1>1 DEF Distinct
<1>3. ASSUME NEW j \in DOMAIN u
      PROVE  u[j] \in {list[k] : k \in DOMAIN list} \ {list[i]}
  BY <1>1, <1>3 DEF Distinct
<1>4. ASSUME NEW k \in DOMAIN list, list[k] # list[i]
      PROVE  \E j \in DOMAIN u : u[j] = list[k]
  <2>1. CASE k < i
    BY <1>1, <2>1
  <2>2. CASE k > i
    <3>1. k - 1 \in DOMAIN u /\ u[k - 1] = list[k]
      BY <1>1, <2>2
    <3> QED
      BY <3>1
  <2> QED
    BY <1>4, <2>1, <2>2
<1> QED
  BY <1>2, <1>3, <1>4

LEMMA PushAdds ==
    ASSUME NEW list \in Seq(Blocks), NEW b \in Blocks, Distinct(list),
           b \notin {list[j] : j \in DOMAIN list}
    PROVE  /\ Distinct(Push(list, b))
           /\ {Push(list, b)[j] : j \in DOMAIN Push(list, b)}
                = {list[j] : j \in DOMAIN list} \cup {b}
<1> DEFINE u == Push(list, b)
<1>1. /\ DOMAIN u = 1 .. Len(list) + 1
      /\ \A j \in 1 .. Len(list) + 1 : u[j] = IF j = 1 THEN b ELSE list[j - 1]
  BY PushProperties
<1>2. Distinct(u)
  BY <1>1 DEF Distinct
<1>3. ASSUME NEW j \in DOMAIN u
      PROVE  u[j] \in {list[k] : k \in DOMAIN list} \cup {b}
  BY <1>1, <1>3
<1>4. ASSUME NEW k \in DOMAIN list
      PROVE  k + 1 \in DOMAIN u /\ u[k + 1] = list[k]
  BY <1>1, <1>4
<1>5. 1 \in DOMAIN u /\ u[1] = b
  BY <1>1
<1> QED
  BY <1>2, <1>3, <1>4, <1>5

-----------------------------------------------------------------------------
(* The two halves of a call *)

LEMMA LimitsType == MaxRetained \in Nat /\ MaxReusableBlock \in Nat
BY PoolOptionsAssumption DEF MaxRetained, MaxReusableBlock

(* The counter after unlinking: the sums beyond i lose the i-th capacity. *)
LEMMA UnlinkSums ==
    ASSUME NEW p \in PoolType, NEW f, Sums(p, f), NEW i \in 1 .. Len(p.list),
           NEW q \in PoolType,
           q = [p EXCEPT !.list     = Unlink(p.list, i),
                         !.retained = p.retained - p.cap[p.list[i]]]
    PROVE  \E g : Sums(q, g)
<1> DEFINE n == Len(p.list)
           c == p.cap[p.list[i]]
           g == [j \in 0 .. n - 1 |-> IF j < i THEN f[j] ELSE f[j + 1] - c]
<1>1. /\ p.list \in Seq(Blocks) /\ n \in Nat /\ p.cap \in [Blocks -> Nat] /\ c \in Nat
      /\ i \in 1 .. n
      /\ \A j \in 1 .. n : p.cap[p.list[j]] \in Nat
  BY DEF PoolType
<1>2. /\ f \in [0 .. n -> Nat] /\ f[0] = 0
      /\ \A j \in 1 .. n : f[j] = f[j - 1] + p.cap[p.list[j]]
      /\ \A j, k \in 0 .. n : j <= k => f[j] <= f[k]
      /\ p.retained = f[n]
  BY DEF Sums
<1>3. f[i] = f[i - 1] + c
  BY <1>2
<1>4. /\ q.list = Unlink(p.list, i) /\ q.retained = p.retained - c /\ q.cap = p.cap
  BY DEF PoolType
<1>5. /\ Len(q.list) = n - 1
      /\ \A j \in 1 .. n - 1 :
             q.list[j] = IF j < i THEN p.list[j] ELSE p.list[j + 1]
  BY <1>1, <1>4, UnlinkProperties
<1> HIDE DEF n, c
<1>6. \A j \in 0 .. n - 1 : g[j] \in Nat
  <2> SUFFICES ASSUME NEW j \in 0 .. n - 1, ~ j < i PROVE f[j + 1] - c \in Nat
    BY <1>1, <1>2
  <2>1. i \in 0 .. n /\ j + 1 \in 0 .. n /\ i - 1 \in 0 .. n /\ i <= j + 1
    BY <1>1
  <2>2. f[i] <= f[j + 1]
    BY <1>2, <2>1
  <2>3. f[i] \in Nat /\ f[i - 1] \in Nat /\ f[j + 1] \in Nat
    BY <1>2, <2>1
  <2> DEFINE x == f[i - 1]  y == f[i]  z == f[j + 1]
  <2>4. x \in Nat /\ y \in Nat /\ z \in Nat /\ c \in Nat
    BY <1>1, <2>3
  <2>5. y = x + c /\ y <= z
    BY <1>3, <2>2
  <2> HIDE DEF x, y, z
  <2>6. z - c \in Nat
    BY <2>4, <2>5
  <2> QED
    BY <2>6 DEF z
<1>7. g \in [0 .. n - 1 -> Nat]
  BY <1>6
<1>8. g[0] = 0
  BY <1>1, <1>2
<1>0. \A j \in 0 .. n - 1 : g[j] = IF j < i THEN f[j] ELSE f[j + 1] - c
  OBVIOUS
<1> HIDE DEF g
<1>9. ASSUME NEW j \in 1 .. n - 1
      PROVE  g[j] = g[j - 1] + q.cap[q.list[j]]
  <2>0. /\ j \in 0 .. n - 1 /\ j - 1 \in 0 .. n - 1 /\ j + 1 \in 1 .. n /\ j \in 1 .. n
        /\ j \in 0 .. n /\ j - 1 \in 0 .. n /\ j + 1 \in 0 .. n
        /\ i \in 1 .. n /\ (j + 1) - 1 = j /\ (j - 1) + 1 = j
        /\ i \in Int /\ j \in Int
    BY SMTT(20), <1>1
  <2>1. p.cap[p.list[j]] \in Nat /\ p.cap[p.list[j + 1]] \in Nat
    BY <1>1, <2>0
  <2>2. f[j] \in Nat /\ f[j - 1] \in Nat /\ f[j + 1] \in Nat
    BY <1>2, <2>0
  <2>3. f[j] = f[j - 1] + p.cap[p.list[j]] /\ f[j + 1] = f[j] + p.cap[p.list[j + 1]]
    BY <1>2, <2>0
  <2>4. CASE j < i
    <3>1. g[j] = f[j] /\ g[j - 1] = f[j - 1]
      BY <1>0, <2>0, <2>4
    <3>2. q.list[j] = p.list[j]
      BY <1>5, <2>4
    <3> QED
      BY <1>4, <2>3, <3>1, <3>2
  <2>5. CASE j = i
    <3>1. g[j] = f[j + 1] - c /\ g[j - 1] = f[j - 1]
      BY <1>0, <2>0, <2>5
    <3>2. q.list[j] = p.list[j + 1]
      BY <1>5, <2>5
    <3>3. f[j] = f[j - 1] + c
      BY <1>3, <2>5
    <3>4. f[j + 1] - c = f[j - 1] + p.cap[p.list[j + 1]]
      <4> DEFINE x == f[j - 1]  y == f[j]  z == f[j + 1]  d == p.cap[p.list[j + 1]]
      <4>1. x \in Nat /\ y \in Nat /\ z \in Nat /\ d \in Nat /\ c \in Nat
        BY <1>1, <2>1, <2>2
      <4>2. y = x + c
        BY <3>3
      <4>3. z = y + d
        BY <2>3
      <4> HIDE DEF x, y, z, d
      <4>4. z - c = x + d
        BY <4>1, <4>2, <4>3
      <4> QED
        BY <4>4 DEF x, z, d
    <3> QED
      BY <1>4, <3>1, <3>2, <3>4
  <2>6. CASE j > i
    <3>1. ~ j < i /\ ~ j - 1 < i
      BY <2>0, <2>6
    <3>2. g[j] = f[j + 1] - c /\ g[j - 1] = f[j] - c
      BY <1>0, <2>0, <3>1
    <3>3. q.list[j] = p.list[j + 1]
      BY <1>5, <3>1
    <3>4. f[j + 1] - c = (f[j] - c) + p.cap[p.list[j + 1]]
      <4> DEFINE y == f[j]  z == f[j + 1]  d == p.cap[p.list[j + 1]]
      <4>1. y \in Nat /\ z \in Nat /\ d \in Nat /\ c \in Nat /\ z = y + d
        BY <1>1, <2>1, <2>2, <2>3
      <4> HIDE DEF y, z, d
      <4>2. z - c = (y - c) + d
        BY <4>1
      <4> QED
        BY <4>2 DEF y, z, d
    <3> QED
      BY <1>4, <3>2, <3>3, <3>4
  <2> QED
    BY <2>0, <2>4, <2>5, <2>6
<1>10. ASSUME NEW j \in 0 .. n - 1, NEW k \in 0 .. n - 1, j <= k
       PROVE  g[j] <= g[k]
  <2>0. /\ i \in 1 .. n /\ i - 1 \in 0 .. n /\ i \in 0 .. n
        /\ j \in 0 .. n /\ k \in 0 .. n /\ j + 1 \in 0 .. n /\ k + 1 \in 0 .. n
    BY SMTT(20), <1>1
  <2>1. /\ f[j] \in Nat /\ f[k] \in Nat /\ f[j + 1] \in Nat /\ f[k + 1] \in Nat
        /\ f[i] \in Nat /\ f[i - 1] \in Nat
    BY <1>2, <2>0
  <2>2. CASE k < i
    <3>1. g[j] = f[j] /\ g[k] = f[k]
      BY <1>0, <1>10, <2>0, <2>2
    <3> QED
      BY <1>2, <1>10, <2>0, <3>1
  <2>3. CASE j < i /\ ~ k < i
    <3>1. g[j] = f[j] /\ g[k] = f[k + 1] - c
      BY <1>0, <2>3
    <3>2. f[j] <= f[i - 1]
      BY <1>2, <2>0, <2>3
    <3>3. f[i] <= f[k + 1]
      <4>1. i <= k + 1
        BY <2>0, <2>3
      <4> QED
        BY <1>2, <2>0, <4>1
    <3> QED
      <4> DEFINE x == f[i - 1]  y == f[i]  z == f[k + 1]  d == f[j]
      <4>1. /\ x \in Nat /\ y \in Nat /\ z \in Nat /\ d \in Nat /\ c \in Nat
            /\ y = x + c /\ d <= x /\ y <= z
        BY <1>1, <1>3, <2>1, <3>2, <3>3
      <4> HIDE DEF x, y, z, d
      <4>2. d <= z - c
        BY <4>1
      <4> QED
        BY <3>1, <4>2 DEF z, d
  <2>4. CASE ~ j < i
    <3>1. g[j] = f[j + 1] - c /\ g[k] = f[k + 1] - c
      BY <1>0, <1>10, <2>0, <2>4
    <3>2. f[j + 1] <= f[k + 1]
      <4>1. j + 1 <= k + 1
        BY <1>10, <2>0
      <4> QED
        BY <1>2, <2>0, <4>1
    <3> QED
      BY <1>1, <2>1, <3>1, <3>2
  <2> QED
    BY <2>0, <2>2, <2>3, <2>4
<1>11. q.retained = g[n - 1]
  <2>1. n - 1 \in 0 .. n - 1 /\ (n - 1) + 1 = n /\ i \in 1 .. n
    BY <1>1
  <2>2. CASE n - 1 < i
    <3>1. i = n /\ g[n - 1] = f[n - 1]
      BY <1>0, <1>1, <2>1, <2>2
    <3>2. f[n - 1] \in Nat
      BY <1>1, <1>2, <2>1
    <3> QED
      BY <1>1, <1>2, <1>3, <1>4, <3>1, <3>2
  <2>3. CASE ~ n - 1 < i
    <3>1. g[n - 1] = f[n] - c
      BY <1>0, <2>1, <2>3
    <3> QED
      BY <1>2, <1>4, <3>1
  <2> QED
    BY <2>2, <2>3
<1> QED
  BY <1>5, <1>7, <1>8, <1>9, <1>10, <1>11 DEF Sums

(* Pushing a block puts its capacity before every sum. *)
LEMMA PushSums ==
    ASSUME NEW p \in PoolType, NEW f, Sums(p, f), NEW b \in Blocks,
           NEW q \in PoolType,
           q = [p EXCEPT !.list = Push(p.list, b), !.retained = p.retained + p.cap[b]]
    PROVE  \E g : Sums(q, g)
<1> DEFINE n == Len(p.list)
           c == p.cap[b]
           g == [j \in 0 .. n + 1 |-> IF j = 0 THEN 0 ELSE c + f[j - 1]]
<1>1. /\ p.list \in Seq(Blocks) /\ n \in Nat /\ p.cap \in [Blocks -> Nat] /\ c \in Nat
      /\ \A j \in 1 .. n : p.cap[p.list[j]] \in Nat
  BY SMTT(60) DEF PoolType
<1>2. /\ f \in [0 .. n -> Nat] /\ f[0] = 0
      /\ \A j \in 1 .. n : f[j] = f[j - 1] + p.cap[p.list[j]]
      /\ \A j, k \in 0 .. n : j <= k => f[j] <= f[k]
      /\ p.retained = f[n]
  BY DEF Sums
<1>3. q.list = Push(p.list, b) /\ q.retained = p.retained + c /\ q.cap = p.cap
  BY DEF PoolType
<1>4. /\ Len(q.list) = n + 1
      /\ \A j \in 1 .. n + 1 : q.list[j] = IF j = 1 THEN b ELSE p.list[j - 1]
  <2>1. /\ Len(Push(p.list, b)) = Len(p.list) + 1
        /\ \A j \in 1 .. Len(p.list) + 1 :
               Push(p.list, b)[j] = IF j = 1 THEN b ELSE p.list[j - 1]
    BY <1>1, PushProperties
  <2> QED
    BY <1>3, <2>1
<1>5. q.cap[b] = c
  BY <1>3
<1> HIDE DEF n, c
<1>6. g \in [0 .. n + 1 -> Nat]
  BY <1>1, <1>2
<1>7. \A j \in 0 .. n + 1 : g[j] = IF j = 0 THEN 0 ELSE c + f[j - 1]
  OBVIOUS
<1> HIDE DEF g
<1>8. ASSUME NEW j \in 1 .. n + 1
      PROVE  g[j] = g[j - 1] + q.cap[q.list[j]]
  <2>1. CASE j = 1
    <3>1. 1 \in 0 .. n + 1 /\ 0 \in 0 .. n + 1 /\ 1 - 1 = 0 /\ 1 \in 1 .. n + 1
      BY <1>1
    <3>2. g[1] = c + f[0] /\ g[0] = 0
      BY <1>7, <3>1
    <3>3. q.list[1] = b
      BY <1>4, <3>1
    <3> QED
      BY <1>1, <1>2, <1>5, <2>1, <3>1, <3>2, <3>3
  <2>2. CASE j # 1
    <3>1. j - 1 \in 1 .. n /\ (j - 1) - 1 \in 0 .. n /\ j - 1 \in 0 .. n /\ j - 1 # 0
      BY <1>1, <2>2
    <3>2. g[j] = c + f[j - 1] /\ g[j - 1] = c + f[(j - 1) - 1]
      BY SMTT(20), <1>1, <1>7, <3>1
    <3>3. q.cap[q.list[j]] = p.cap[p.list[j - 1]]
      BY <1>3, <1>4, <2>2
    <3> DEFINE x == f[j - 1]  y == f[(j - 1) - 1]  d == p.cap[p.list[j - 1]]
    <3>4. x \in Nat /\ y \in Nat /\ d \in Nat /\ x = y + d /\ c \in Nat
      BY <1>1, <1>2, <3>1
    <3> HIDE DEF x, y, d
    <3>5. c + x = (c + y) + d
      BY <3>4
    <3> QED
      BY <3>2, <3>3, <3>5 DEF x, y, d
  <2> QED
    BY <2>1, <2>2
<1>9. ASSUME NEW j \in 0 .. n + 1, NEW k \in 0 .. n + 1, j <= k
      PROVE  g[j] <= g[k]
  <2>1. CASE j = 0
    BY <1>1, <1>6, <1>7, <2>1
  <2>2. CASE j # 0
    <3>1. /\ j - 1 \in 0 .. n /\ k - 1 \in 0 .. n /\ k # 0 /\ j - 1 <= k - 1
      BY <1>1, <1>9, <2>2
    <3>2. g[j] = c + f[j - 1] /\ g[k] = c + f[k - 1]
      BY <1>7, <2>2, <3>1
    <3> DEFINE x == f[j - 1]  y == f[k - 1]
    <3>3. x \in Nat /\ y \in Nat /\ x <= y /\ c \in Nat
      BY <1>1, <1>2, <3>1
    <3> HIDE DEF x, y
    <3>4. c + x <= c + y
      BY <3>3
    <3> QED
      BY <3>2, <3>4 DEF x, y
  <2> QED
    BY <2>1, <2>2
<1>10. q.retained = g[n + 1]
  <2>1. g[n + 1] = c + f[n]
    <3>1. n + 1 \in 0 .. n + 1 /\ n + 1 # 0 /\ (n + 1) - 1 = n
      BY <1>1
    <3> QED
      BY <1>7, <3>1
  <2>2. f[n] \in Nat
    BY <1>1, <1>2
  <2> QED
    BY <1>1, <1>2, <1>3, <2>1, <2>2
<1>11. g[0] = 0
  BY <1>1, <1>7
<1> QED
  BY <1>4, <1>6, <1>8, <1>9, <1>10, <1>11 DEF Sums

(* mdf_memory_alloc_cb hands out a block that nobody holds, large enough, and *)
(* touches no other block.                                                    *)
LEMMA ReuseOK ==
    ASSUME NEW p, NEW H, PoolOK(p, H), NEW n \in Nat \ {0}, NEW t \in Reuse(p, n)
    PROVE  /\ t.block \in Blocks \ H
           /\ PoolOK(t.pool, H \cup {t.block})
           /\ t.pool.cap[t.block] >= n
           /\ \A b \in Blocks \ {t.block} : t.pool.cap[b] = p.cap[b]
<1>1. PICK i \in FirstFit(p, n) :
         t = [block |-> p.list[i],
              pool  |-> [p EXCEPT !.list     = Unlink(p.list, i),
                                  !.retained = p.retained - p.cap[p.list[i]]]]
  BY DEF Reuse
<1>2. /\ p.list \in Seq(Blocks) /\ p.retained \in Nat /\ p.cap \in [Blocks -> Nat]
      /\ p \in PoolType
  BY DEF PoolOK, PoolType
<1>3. i \in 1 .. Len(p.list) /\ p.cap[p.list[i]] >= n
  BY <1>2 DEF FirstFit, Fits
<1> DEFINE b == p.list[i]
           q == [p EXCEPT !.list = Unlink(p.list, i), !.retained = p.retained - p.cap[b]]
<1>4. t.block = b /\ t.pool = q
  BY <1>1
<1>5. b \in Blocks /\ b \in ListedIn(p)
  BY <1>2, <1>3 DEF ListedIn
<1>6. PICK f : Sums(p, f)
  BY DEF PoolOK
<1>7. p.retained - p.cap[b] \in Nat
  <2>1. /\ p.retained = f[Len(p.list)] /\ f[i] <= f[Len(p.list)]
        /\ f[i] = f[i - 1] + p.cap[b]
        /\ f[i] \in Nat /\ f[i - 1] \in Nat /\ p.cap[b] \in Nat
    <3>1. /\ i \in 0 .. Len(p.list) /\ i - 1 \in 0 .. Len(p.list)
          /\ Len(p.list) \in 0 .. Len(p.list) /\ i <= Len(p.list)
      BY <1>2, <1>3
    <3>2. /\ p.retained = f[Len(p.list)] /\ f \in [0 .. Len(p.list) -> Nat]
          /\ f[i] = f[i - 1] + p.cap[p.list[i]]
          /\ \A j, k \in 0 .. Len(p.list) : j <= k => f[j] <= f[k]
      BY <1>3, <1>6 DEF Sums
    <3> QED
      BY <1>2, <1>5, <3>1, <3>2
  <2> DEFINE x == f[i - 1]  y == f[i]  d == p.cap[b]  r == p.retained
  <2>2. x \in Nat /\ y = x + d /\ d \in Nat /\ y <= r /\ r \in Nat
    BY <1>2, <2>1
  <2> HIDE DEF x, y, d, r
  <2>3. r - d \in Nat
    BY <2>2
  <2> QED
    BY <2>3 DEF r, d
<1>8. q.list = Unlink(p.list, i) /\ q.retained = p.retained - p.cap[b] /\ q.cap = p.cap
  BY <1>2 DEF PoolType
<1>9. q \in PoolType
  BY <1>2, <1>3, <1>7, UnlinkProperties DEF PoolType
<1>10. ListedIn(q) = ListedIn(p) \ {b} /\ Distinct(q.list)
  <2>1. Distinct(p.list)
    BY DEF PoolOK
  <2>2. /\ Distinct(Unlink(p.list, i))
        /\ {Unlink(p.list, i)[j] : j \in DOMAIN Unlink(p.list, i)}
             = {p.list[j] : j \in DOMAIN p.list} \ {p.list[i]}
    BY <1>2, <1>3, <2>1, UnlinkRemoves
  <2> HIDE DEF q
  <2> QED
    BY <1>8, <2>2 DEF ListedIn
<1>11. \E g : Sums(q, g)
  BY <1>2, <1>3, <1>6, <1>9, UnlinkSums
<1>12. q.retained <= MaxRetained
  <2> DEFINE r == p.retained  d == p.cap[b]
  <2>1. r \in Nat /\ d \in Nat /\ r <= MaxRetained /\ MaxRetained \in Nat
    BY <1>2, <1>5, LimitsType DEF PoolOK
  <2> HIDE DEF r, d
  <2>2. r - d <= MaxRetained
    BY <2>1
  <2> QED
    BY <1>8, <2>2 DEF r, d
<1> HIDE DEF q, b
<1>13. PoolOK(q, H \cup {b})
  BY <1>5, <1>8, <1>9, <1>10, <1>11, <1>12 DEF PoolOK
<1> QED
  BY <1>3, <1>4, <1>5, <1>8, <1>13 DEF PoolOK, b

LEMMA FromBackingOK ==
    ASSUME NEW p, NEW H, PoolOK(p, H), NEW n \in Nat \ {0}, NEW t \in FromBacking(p, n)
    PROVE  /\ t.block \in Blocks \ H
           /\ PoolOK(t.pool, H \cup {t.block})
           /\ t.pool.cap[t.block] >= n
           /\ \A b \in Blocks \ {t.block} : t.pool.cap[b] = p.cap[b]
<1>1. PICK x \in Blocks : /\ p.cap[x] = 0
                          /\ t = [block |-> x, pool |-> [p EXCEPT !.cap[x] = n]]
  BY DEF FromBacking
<1> DEFINE q == [p EXCEPT !.cap[x] = n]
<1>2. t.block = x /\ t.pool = q
  BY <1>1
<1>3. /\ p.list \in Seq(Blocks) /\ p.retained \in Nat /\ p.cap \in [Blocks -> Nat]
      /\ p \in PoolType
  BY DEF PoolOK, PoolType
<1>4. /\ q.list = p.list /\ q.retained = p.retained
      /\ q.cap = [p.cap EXCEPT ![x] = n] /\ q \in PoolType
  BY <1>3 DEF PoolType
<1>5. x \notin H /\ x \notin ListedIn(p)
  BY <1>1 DEF PoolOK
<1>6. ListedIn(q) = ListedIn(p) /\ ListedIn(p) \subseteq Blocks
  BY <1>3, <1>4 DEF ListedIn
<1>7. q.cap[x] = n /\ \A b \in Blocks \ {x} : q.cap[b] = p.cap[b]
  BY <1>3, <1>4
<1>8. \E g : Sums(q, g)
  <2>1. PICK f : Sums(p, f)
    BY DEF PoolOK
  <2>2. \A i \in 1 .. Len(p.list) : q.cap[p.list[i]] = p.cap[p.list[i]]
    <3> SUFFICES ASSUME NEW i \in 1 .. Len(p.list) PROVE p.list[i] \in Blocks \ {x}
      BY <1>7
    <3> QED
      BY <1>3, <1>5 DEF ListedIn
  <2> HIDE DEF q
  <2>3. Sums(q, f)
    BY <1>4, <2>1, <2>2 DEF Sums
  <2> QED
    BY <2>3
<1> HIDE DEF q
<1>9. PoolOK(q, H \cup {x})
  <2>1. \A b \in Blocks : q.cap[b] # 0 <=> b \in (H \cup {x}) \cup ListedIn(q)
    BY <1>5, <1>6, <1>7 DEF PoolOK
  <2>2. \A b \in ListedIn(q) : q.cap[b] <= MaxReusableBlock
    BY <1>5, <1>6, <1>7 DEF PoolOK
  <2> QED
    BY <1>4, <1>5, <1>6, <1>8, <2>1, <2>2 DEF PoolOK
<1> QED
  BY <1>2, <1>5, <1>7, <1>9

LEMMA TakeOK ==
    ASSUME NEW p, NEW H, PoolOK(p, H), NEW n \in Nat \ {0}, NEW t \in Take(p, n)
    PROVE  /\ t.block \in Blocks \ H
           /\ PoolOK(t.pool, H \cup {t.block})
           /\ t.pool.cap[t.block] >= n
           /\ \A b \in Blocks \ {t.block} : t.pool.cap[b] = p.cap[b]
<1>1. CASE t \in Reuse(p, n)
  BY ZenonT(60), <1>1, ReuseOK
<1>2. CASE t \in FromBacking(p, n)
  BY <1>2, FromBackingOK
<1> QED
  BY <1>1, <1>2 DEF Take

(* mdf_memory_free_cb takes back exactly the block it is given, whether it    *)
(* lists it or returns it to the backing allocator.                           *)
LEMMA GiveBackOK ==
    ASSUME NEW p, NEW H, PoolOK(p, H), NEW b \in H
    PROVE  /\ PoolOK(GiveBack(p, b), H \ {b})
           /\ \A d \in H \ {b} : GiveBack(p, b).cap[d] = p.cap[d]
<1> DEFINE q == GiveBack(p, b)
<1>1. /\ p.list \in Seq(Blocks) /\ p.retained \in Nat /\ p.cap \in [Blocks -> Nat]
      /\ p \in PoolType /\ H \subseteq Blocks /\ b \in Blocks
      /\ b \notin ListedIn(p) /\ p.cap[b] \in Nat /\ p.cap[b] # 0 /\ Distinct(p.list)
  BY DEF PoolOK, PoolType
<1>2. PICK f : Sums(p, f)
  BY DEF PoolOK
<1>3. CASE Retainable(p, b)
  <2>1. q = [p EXCEPT !.list = Push(p.list, b), !.retained = p.retained + p.cap[b]]
    BY <1>3 DEF GiveBack
  <2>2. /\ q.list = Push(p.list, b) /\ q.retained = p.retained + p.cap[b]
        /\ q.cap = p.cap
    BY <1>1, <2>1 DEF PoolType
  <2>3. q \in PoolType
    <3>1. Push(p.list, b) \in Seq(Blocks)
      BY <1>1, PushProperties
    <3>2. p.retained + p.cap[b] \in Nat
      BY <1>1
    <3> QED
      BY <1>1, <2>1, <3>1, <3>2 DEF PoolType
  <2>4. \E g : Sums(q, g)
    BY <1>1, <1>2, <2>1, <2>3, PushSums
  <2>5. ListedIn(q) = ListedIn(p) \cup {b} /\ Distinct(q.list)
    <3>1. /\ Distinct(Push(p.list, b))
          /\ {Push(p.list, b)[j] : j \in DOMAIN Push(p.list, b)}
               = {p.list[j] : j \in DOMAIN p.list} \cup {b}
      BY <1>1, PushAdds DEF ListedIn
    <3> HIDE DEF q
    <3> QED
      BY <2>2, <3>1 DEF ListedIn
  <2>6. q.retained <= MaxRetained /\ p.cap[b] <= MaxReusableBlock
    <3> DEFINE r == p.retained  d == p.cap[b]
    <3>1. /\ r \in Nat /\ d \in Nat /\ MaxRetained \in Nat /\ d <= MaxRetained - r
          /\ d <= MaxReusableBlock
      BY <1>1, <1>3, LimitsType DEF Retainable
    <3> HIDE DEF r, d
    <3>2. r + d <= MaxRetained
      BY <3>1
    <3> HIDE DEF q
    <3> QED
      BY <2>2, <3>1, <3>2 DEF r, d
  <2> HIDE DEF q
  <2>7. PoolOK(q, H \ {b})
    <3>1. \A d \in Blocks : q.cap[d] # 0 <=> d \in (H \ {b}) \cup ListedIn(q)
      BY <1>1, <2>2, <2>5 DEF PoolOK
    <3>2. \A d \in ListedIn(q) : q.cap[d] <= MaxReusableBlock
      BY <2>2, <2>5, <2>6 DEF PoolOK
    <3>3. (H \ {b}) \cap ListedIn(q) = {}
      BY <1>1, <2>5 DEF PoolOK
    <3> QED
      BY <1>1, <2>3, <2>4, <2>5, <2>6, <3>1, <3>2, <3>3 DEF PoolOK
  <2> QED
    BY <2>2, <2>7 DEF q
<1>4. CASE ~ Retainable(p, b)
  <2>1. q = [p EXCEPT !.cap[b] = 0]
    BY <1>4 DEF GiveBack
  <2>2. /\ q.list = p.list /\ q.retained = p.retained
        /\ q.cap = [p.cap EXCEPT ![b] = 0] /\ q \in PoolType
    <3>1. [p.cap EXCEPT ![b] = 0] \in [Blocks -> Nat]
      BY <1>1
    <3> HIDE DEF q
    <3> QED
      BY <1>1, <2>1, <3>1 DEF PoolType
  <2> HIDE DEF q
  <2>3. q.cap[b] = 0 /\ \A d \in Blocks \ {b} : q.cap[d] = p.cap[d]
    BY <1>1, <2>2
  <2>4. ListedIn(q) = ListedIn(p) /\ ListedIn(p) \subseteq Blocks
    BY <1>1, <2>2 DEF ListedIn
  <2>5. Sums(q, f)
    <3>1. \A i \in 1 .. Len(p.list) : q.cap[p.list[i]] = p.cap[p.list[i]]
      <4> SUFFICES ASSUME NEW i \in 1 .. Len(p.list) PROVE p.list[i] \in Blocks \ {b}
        BY <2>3
      <4> QED
        BY <1>1 DEF ListedIn
    <3> QED
      BY <1>2, <2>2, <3>1 DEF Sums
  <2>6. PoolOK(q, H \ {b})
    <3>1. \A d \in Blocks : q.cap[d] # 0 <=> d \in (H \ {b}) \cup ListedIn(q)
      BY <1>1, <2>3, <2>4 DEF PoolOK
    <3>2. \A d \in ListedIn(q) : q.cap[d] <= MaxReusableBlock
      BY <1>1, <2>3, <2>4 DEF PoolOK
    <3> QED
      BY <1>1, <2>2, <2>4, <2>5, <3>1, <3>2 DEF PoolOK
  <2> QED
    BY <1>1, <2>3, <2>6 DEF q
<1> QED
  BY <1>3, <1>4

-----------------------------------------------------------------------------
(* The inductive invariant: the pool is in order while exactly the blocks of  *)
(* the clients are handed out.  Ownership alone is not inductive: that the    *)
(* counter stays a natural number needs it to be the sum of the capacities.   *)

PoolInv ==
    /\ PoolOK(Pool, Held)
    /\ bytes \in [Blocks -> Clients \cup {Unwritten}]
    /\ ptr \in [Clients -> Blocks \cup {NULL}]
    /\ requested \in [Clients -> Nat]
    /\ \A c, d \in Clients : ptr[c] = ptr[d] /\ ptr[c] # NULL => c = d
    /\ LargeEnough

LEMMA PoolIs ==
    ASSUME NEW q \in PoolType, Becomes(q)
    PROVE  Pool' = q
BY DEF Becomes, Pool, PoolType

(* The blocks held once client c's pointer is v. *)
LEMMA HeldAfter ==
    ASSUME NEW c \in Clients, NEW v \in Blocks \cup {NULL},
           ptr \in [Clients -> Blocks \cup {NULL}],
           \A a, d \in Clients : ptr[a] = ptr[d] /\ ptr[a] # NULL => a = d,
           v \notin Held \ {ptr[c]},
           ptr' = [ptr EXCEPT ![c] = v]
    PROVE  /\ Held' = ((Held \ {ptr[c]}) \cup {v}) \ {NULL}
           /\ ptr' \in [Clients -> Blocks \cup {NULL}]
           /\ \A a, d \in Clients : ptr'[a] = ptr'[d] /\ ptr'[a] # NULL => a = d
<1>1. \A a \in Clients : ptr'[a] = IF a = c THEN v ELSE ptr[a]
  OBVIOUS
<1>2. \A a \in Clients \ {c} : ptr[a] # NULL => ptr[a] \in Held \ {ptr[c]}
  BY DEF Held
<1>3. ASSUME NEW a \in Clients, NEW d \in Clients, ptr'[a] = ptr'[d], ptr'[a] # NULL
      PROVE  a = d
  BY <1>1, <1>2, <1>3
<1>4. Held' = ((Held \ {ptr[c]}) \cup {v}) \ {NULL}
  <2>1. Held' \subseteq ((Held \ {ptr[c]}) \cup {v}) \ {NULL}
    BY <1>1, <1>2 DEF Held
  <2>2. ASSUME NEW x \in Held \ {ptr[c]} PROVE x \in Held'
    <3>1. PICK a \in Clients : ptr[a] = x /\ x # NULL
      BY DEF Held
    <3>2. a # c
      BY <3>1
    <3> QED
      BY <1>1, <3>1, <3>2 DEF Held
  <2>3. v # NULL => v \in Held'
    BY <1>1 DEF Held
  <2> QED
    BY <2>1, <2>2, <2>3
<1> QED
  BY <1>3, <1>4

LEMMA PoolInitInvariant == PoolInit => PoolInv
<1> SUFFICES ASSUME PoolInit PROVE PoolInv
  OBVIOUS
<1>1. Held = {}
  BY DEF PoolInit, Held
<1>2. /\ free_list = << >> /\ retained_bytes = 0 /\ cap = [b \in Blocks |-> 0]
      /\ Len(free_list) = 0 /\ free_list \in Seq(Blocks)
  BY DEF PoolInit
<1>3. ListedIn(Pool) = {}
  BY <1>2 DEF ListedIn, Pool
<1>4. Sums(Pool, [i \in 0 .. 0 |-> 0])
  BY <1>2 DEF Sums, Pool
<1>5. Distinct(Pool.list) /\ Pool \in PoolType
  BY <1>2 DEF Distinct, Pool, PoolType
<1>6. PoolOK(Pool, {})
  <2>1. \A b \in Blocks : Pool.cap[b] = 0
    BY <1>2 DEF Pool
  <2>2. Pool.retained <= MaxRetained
    BY <1>2, LimitsType DEF Pool
  <2> QED
    BY <1>3, <1>4, <1>5, <2>1, <2>2 DEF PoolOK
<1> QED
  BY <1>1, <1>6 DEF PoolInit, PoolInv, LargeEnough

LEMMA AllocInvariant ==
    ASSUME PoolInv, NEW c \in Clients, NEW n \in Sizes, Alloc(c, n)
    PROVE  PoolInv'
<1>1. PICK t \in Take(Pool, n) : Becomes(t.pool) /\ ptr' = [ptr EXCEPT ![c] = t.block]
  BY DEF Alloc
<1>2. n \in Nat \ {0} /\ PoolOK(Pool, Held) /\ ptr[c] = NULL
  BY SizesAssumption DEF PoolInv, Alloc
<1>3. /\ t.block \in Blocks \ Held
      /\ PoolOK(t.pool, Held \cup {t.block})
      /\ t.pool.cap[t.block] >= n
      /\ \A b \in Blocks \ {t.block} : t.pool.cap[b] = Pool.cap[b]
  BY ZenonT(60), <1>2, TakeOK
<1>4. Pool' = t.pool
  BY <1>1, <1>3, PoolIs DEF PoolOK
<1>5. /\ Held' = Held \cup {t.block}
      /\ ptr' \in [Clients -> Blocks \cup {NULL}]
      /\ \A a, d \in Clients : ptr'[a] = ptr'[d] /\ ptr'[a] # NULL => a = d
  <2>1. NULL \notin Held
    BY DEF Held
  <2> DEFINE v == t.block
  <2>2. /\ v \in Blocks \cup {NULL} /\ v # NULL /\ v \notin Held
        /\ ptr' = [ptr EXCEPT ![c] = v]
        /\ ptr \in [Clients -> Blocks \cup {NULL}]
        /\ \A a, d \in Clients : ptr[a] = ptr[d] /\ ptr[a] # NULL => a = d
    BY <1>1, <1>3, NullAssumption DEF PoolInv
  <2> HIDE DEF v
  <2>3. /\ Held' = ((Held \ {ptr[c]}) \cup {v}) \ {NULL}
        /\ ptr' \in [Clients -> Blocks \cup {NULL}]
        /\ \A a, d \in Clients : ptr'[a] = ptr'[d] /\ ptr'[a] # NULL => a = d
    BY <2>2, HeldAfter
  <2>4. Held' = Held \cup {v}
    BY <1>2, <2>1, <2>2, <2>3
  <2> QED
    BY <2>3, <2>4 DEF v
<1>6. requested' \in [Clients -> Nat] /\ bytes' \in [Blocks -> Clients \cup {Unwritten}]
  BY <1>2 DEF PoolInv, Alloc
<1>7. LargeEnough'
  <2> SUFFICES ASSUME NEW a \in Clients, ptr'[a] # NULL
               PROVE  cap'[ptr'[a]] >= requested'[a]
    BY DEF LargeEnough
  <2>1. CASE a = c
    BY <1>1, <1>3, <2>1 DEF Alloc, PoolInv, Becomes
  <2>2. CASE a # c
    <3>1. ptr'[a] = ptr[a] /\ requested'[a] = requested[a] /\ ptr[a] \in Held
      BY <1>1, <2>2 DEF Alloc, PoolInv, Held
    <3>2. ptr[a] \in Blocks \ {t.block}
      BY <1>3, <3>1 DEF PoolInv, PoolOK
    <3>3. cap'[ptr[a]] = cap[ptr[a]]
      BY <1>1, <1>3, <3>2 DEF Becomes, Pool
    <3> QED
      BY <3>1, <3>3 DEF PoolInv, LargeEnough
  <2> QED
    BY <2>1, <2>2
<1> QED
  BY <1>3, <1>4, <1>5, <1>6, <1>7 DEF PoolInv

LEMMA ReallocMoveInvariant ==
    ASSUME PoolInv, NEW c \in Clients, NEW n \in Sizes, ReallocMove(c, n)
    PROVE  PoolInv'
<1>1. PICK t \in Take(Pool, n) :
          /\ Becomes(GiveBack(t.pool, ptr[c]))
          /\ bytes' = Copied(t.block, ptr[c])
          /\ ptr' = [ptr EXCEPT ![c] = t.block]
  BY DEF ReallocMove
<1>2. n \in Nat \ {0} /\ PoolOK(Pool, Held) /\ ptr[c] # NULL /\ ptr[c] \in Held
  BY SizesAssumption DEF PoolInv, ReallocMove, Held
<1>3. /\ t.block \in Blocks \ Held
      /\ PoolOK(t.pool, Held \cup {t.block})
      /\ t.pool.cap[t.block] >= n
      /\ \A b \in Blocks \ {t.block} : t.pool.cap[b] = Pool.cap[b]
  BY <1>2, TakeOK
<1> DEFINE H == Held \cup {t.block}
           q == GiveBack(t.pool, ptr[c])
<1>4. PoolOK(q, H \ {ptr[c]}) /\ \A d \in H \ {ptr[c]} : q.cap[d] = t.pool.cap[d]
  <2> DEFINE b == ptr[c]  p == t.pool
  <2>1. PoolOK(p, H) /\ b \in H
    BY <1>2, <1>3
  <2> HIDE DEF b, p, H
  <2>2. PoolOK(GiveBack(p, b), H \ {b}) /\ \A d \in H \ {b} : GiveBack(p, b).cap[d] = p.cap[d]
    BY <2>1, GiveBackOK
  <2> QED
    BY <2>2 DEF b, p
<1>5. Pool' = q
  BY <1>1, <1>4, PoolIs DEF PoolOK
<1>6. /\ Held' = H \ {ptr[c]}
      /\ ptr' \in [Clients -> Blocks \cup {NULL}]
      /\ \A a, d \in Clients : ptr'[a] = ptr'[d] /\ ptr'[a] # NULL => a = d
  <2>1. NULL \notin Held /\ t.block # ptr[c] /\ t.block # NULL
    BY <1>2, <1>3, NullAssumption DEF Held
  <2> DEFINE v == t.block
  <2>2. /\ v \in Blocks \cup {NULL} /\ v # NULL /\ v \notin Held \ {ptr[c]}
        /\ ptr' = [ptr EXCEPT ![c] = v]
        /\ ptr \in [Clients -> Blocks \cup {NULL}]
        /\ \A a, d \in Clients : ptr[a] = ptr[d] /\ ptr[a] # NULL => a = d
    BY <1>1, <1>3, <2>1 DEF PoolInv
  <2> HIDE DEF v
  <2>3. /\ Held' = ((Held \ {ptr[c]}) \cup {v}) \ {NULL}
        /\ ptr' \in [Clients -> Blocks \cup {NULL}]
        /\ \A a, d \in Clients : ptr'[a] = ptr'[d] /\ ptr'[a] # NULL => a = d
    BY <2>2, HeldAfter
  <2>4. Held' = (Held \cup {v}) \ {ptr[c]}
    <3>1. v # ptr[c] /\ NULL \notin Held
      BY <2>1 DEF v
    <3> QED
      BY <2>2, <2>3, <3>1
  <2> QED
    BY <2>3, <2>4 DEF v
<1>7. requested' \in [Clients -> Nat] /\ bytes' \in [Blocks -> Clients \cup {Unwritten}]
  <2>1. ptr[c] \in Blocks
    BY <1>2 DEF PoolOK
  <2> QED
    BY <1>1, <1>2, <2>1 DEF PoolInv, ReallocMove, Copied
<1>8. LargeEnough'
  <2> SUFFICES ASSUME NEW a \in Clients, ptr'[a] # NULL
               PROVE  cap'[ptr'[a]] >= requested'[a]
    BY DEF LargeEnough
  <2>1. CASE a = c
    <3>1. ptr'[a] = t.block /\ requested'[a] = n
      BY <1>1, <2>1 DEF ReallocMove, PoolInv
    <3>2. t.block \in H \ {ptr[c]}
      BY <1>2, <1>3
    <3>3. cap'[t.block] = t.pool.cap[t.block]
      BY <1>1, <1>4, <3>2 DEF Becomes
    <3> QED
      BY <1>3, <3>1, <3>3
  <2>2. CASE a # c
    <3>1. ptr'[a] = ptr[a] /\ requested'[a] = requested[a] /\ ptr[a] \in Held
      BY <1>1, <2>2 DEF ReallocMove, PoolInv, Held
    <3>2. ptr[a] \in Blocks \ {t.block} /\ ptr[a] \in H \ {ptr[c]}
      BY <1>2, <1>3, <2>2, <3>1 DEF PoolInv, PoolOK
    <3>3. cap'[ptr[a]] = cap[ptr[a]]
      BY <1>1, <1>3, <1>4, <3>2 DEF Becomes, Pool
    <3> QED
      BY <3>1, <3>3 DEF PoolInv, LargeEnough
  <2> QED
    BY <2>1, <2>2
<1> QED
  BY <1>4, <1>5, <1>6, <1>7, <1>8 DEF PoolInv

LEMMA FreeInvariant ==
    ASSUME PoolInv, NEW c \in Clients, Free(c)
    PROVE  PoolInv'
<1>1. /\ Becomes(GiveBack(Pool, ptr[c])) /\ ptr' = [ptr EXCEPT ![c] = NULL]
      /\ ptr[c] # NULL /\ ptr[c] \in Held
  BY DEF Free, Held
<1> DEFINE q == GiveBack(Pool, ptr[c])
<1>2. PoolOK(q, Held \ {ptr[c]}) /\ \A d \in Held \ {ptr[c]} : q.cap[d] = Pool.cap[d]
  <2> DEFINE b == ptr[c]  p == Pool  H == Held
  <2>1. PoolOK(p, H) /\ b \in H
    BY <1>1 DEF PoolInv
  <2> HIDE DEF b, p, H
  <2>2. PoolOK(GiveBack(p, b), H \ {b}) /\ \A d \in H \ {b} : GiveBack(p, b).cap[d] = p.cap[d]
    BY <2>1, GiveBackOK
  <2> QED
    BY <2>2 DEF b, p, H
<1>3. Pool' = q
  BY <1>1, <1>2, PoolIs DEF PoolOK
<1>4. /\ Held' = Held \ {ptr[c]}
      /\ ptr' \in [Clients -> Blocks \cup {NULL}]
      /\ \A a, d \in Clients : ptr'[a] = ptr'[d] /\ ptr'[a] # NULL => a = d
  <2>1. NULL \notin Held
    BY DEF Held
  <2> DEFINE v == NULL
  <2>2. /\ v \in Blocks \cup {NULL} /\ v \notin Held \ {ptr[c]}
        /\ ptr' = [ptr EXCEPT ![c] = v]
        /\ ptr \in [Clients -> Blocks \cup {NULL}]
        /\ \A a, d \in Clients : ptr[a] = ptr[d] /\ ptr[a] # NULL => a = d
    BY <1>1, <2>1 DEF PoolInv
  <2> HIDE DEF v
  <2>3. /\ Held' = ((Held \ {ptr[c]}) \cup {v}) \ {NULL}
        /\ ptr' \in [Clients -> Blocks \cup {NULL}]
        /\ \A a, d \in Clients : ptr'[a] = ptr'[d] /\ ptr'[a] # NULL => a = d
    BY <2>2, HeldAfter
  <2> QED
    BY <2>1, <2>3 DEF v
<1>5. LargeEnough'
  <2> SUFFICES ASSUME NEW a \in Clients, ptr'[a] # NULL
               PROVE  cap'[ptr'[a]] >= requested'[a]
    BY DEF LargeEnough
  <2>1. a # c /\ ptr'[a] = ptr[a] /\ requested'[a] = requested[a] /\ ptr[a] \in Held
    BY <1>1 DEF Free, PoolInv, Held
  <2>2. ptr[a] # ptr[c]
    BY <1>1, <2>1 DEF PoolInv
  <2>3. cap'[ptr[a]] = cap[ptr[a]]
    BY <1>1, <1>2, <2>1, <2>2 DEF Becomes, Pool
  <2> QED
    BY <2>1, <2>3 DEF PoolInv, LargeEnough
<1>6. requested' \in [Clients -> Nat] /\ bytes' \in [Blocks -> Clients \cup {Unwritten}]
  BY DEF PoolInv, Free
<1> QED
  BY <1>2, <1>3, <1>4, <1>5, <1>6 DEF PoolInv

LEMMA ReallocInPlaceInvariant ==
    ASSUME PoolInv, NEW c \in Clients, NEW n \in Sizes, ReallocInPlace(c, n)
    PROVE  PoolInv'
<1>1. Pool' = Pool /\ Held' = Held /\ ptr' = ptr /\ bytes' = bytes
  BY DEF ReallocInPlace, Pool, Held
<1>2. requested' \in [Clients -> Nat]
  BY SizesAssumption DEF ReallocInPlace, PoolInv
<1>3. ASSUME NEW a \in Clients, ptr[a] # NULL PROVE cap[ptr[a]] >= requested'[a]
  <2>1. CASE a = c
    <3>1. requested'[a] = n /\ n <= cap[ptr[a]]
      BY <2>1 DEF ReallocInPlace, Roomy, PoolInv
    <3>2. cap[ptr[a]] \in Nat /\ n \in Nat
      BY <1>3, SizesAssumption DEF PoolInv, PoolOK, PoolType, Pool
    <3> QED
      BY <3>1, <3>2
  <2>2. CASE a # c
    BY <1>3, <2>2 DEF ReallocInPlace, PoolInv, LargeEnough
  <2> QED
    BY <2>1, <2>2
<1>4. LargeEnough'
  BY <1>3 DEF LargeEnough, ReallocInPlace
<1> QED
  BY <1>1, <1>2, <1>4 DEF PoolInv

LEMMA WriteInvariant ==
    ASSUME PoolInv, NEW c \in Clients, Write(c)
    PROVE  PoolInv'
<1>1. Pool' = Pool /\ Held' = Held /\ ptr' = ptr /\ requested' = requested /\ cap' = cap
  BY DEF Write, Pool, Held
<1>2. bytes' \in [Blocks -> Clients \cup {Unwritten}]
  BY DEF Write, PoolInv
<1> QED
  BY <1>1, <1>2 DEF PoolInv, LargeEnough

LEMMA DestroyInvariant ==
    ASSUME PoolInv, Destroy
    PROVE  PoolInv'
<1>1. Held = {} /\ Held' = {} /\ ptr' = ptr /\ requested' = requested /\ bytes' = bytes
  BY DEF Destroy, Held
<1>2. /\ free_list' = << >> /\ retained_bytes' = 0 /\ Len(free_list') = 0
      /\ free_list' \in Seq(Blocks)
  BY DEF Destroy
<1>3. cap' = [b \in Blocks |-> 0]
  BY <1>1 DEF Destroy, PoolInv, PoolOK, PoolType, ListedIn, Pool
<1>4. ListedIn(Pool') = {}
  BY <1>2 DEF ListedIn, Pool
<1>5. Sums(Pool', [i \in 0 .. 0 |-> 0])
  BY <1>2 DEF Sums, Pool
<1>6. Distinct((Pool').list) /\ Pool' \in PoolType
  BY <1>2, <1>3 DEF Distinct, Pool, PoolType
<1>7. PoolOK(Pool', {})
  <2>1. \A b \in Blocks : (Pool').cap[b] = 0
    BY <1>3 DEF Pool
  <2>2. (Pool').retained <= MaxRetained
    BY <1>2, LimitsType DEF Pool
  <2> QED
    BY <1>4, <1>5, <1>6, <2>1, <2>2 DEF PoolOK
<1>8. LargeEnough'
  BY <1>1 DEF LargeEnough, Destroy
<1> QED
  BY <1>1, <1>7, <1>8 DEF PoolInv

(* The invariant holds of every behaviour of the pool. *)
THEOREM PoolInvariance == PoolSpec => []PoolInv
<1>1. PoolInit => PoolInv
  BY PoolInitInvariant
<1>2. PoolInv /\ [PoolNext]_pool_vars => PoolInv'
  <2> SUFFICES ASSUME PoolInv, [PoolNext]_pool_vars PROVE PoolInv'
    OBVIOUS
  <2>1. ASSUME NEW c \in Clients, Free(c) PROVE PoolInv'
    BY <2>1, FreeInvariant
  <2>2. ASSUME NEW c \in Clients, Write(c) PROVE PoolInv'
    BY <2>2, WriteInvariant
  <2>3. ASSUME NEW c \in Clients, NEW n \in Sizes, Alloc(c, n) PROVE PoolInv'
    BY <2>3, AllocInvariant
  <2>4. ASSUME NEW c \in Clients, NEW n \in Sizes, ReallocInPlace(c, n) PROVE PoolInv'
    BY <2>4, ReallocInPlaceInvariant
  <2>5. ASSUME NEW c \in Clients, NEW n \in Sizes, ReallocMove(c, n) PROVE PoolInv'
    BY <2>5, ReallocMoveInvariant
  <2>6. CASE Destroy
    BY <2>6, DestroyInvariant
  <2>7. CASE UNCHANGED pool_vars
    BY <2>7 DEF pool_vars, PoolInv, Pool, Held, LargeEnough
  <2> QED
    BY <2>1, <2>2, <2>3, <2>4, <2>5, <2>6, <2>7 DEF PoolNext
<1> QED
  BY <1>1, <1>2, PTL DEF PoolSpec

(* Every variable keeps its type: in particular the counter never wraps. *)
THEOREM PoolTypeCorrect == PoolSpec => []PoolTypeOK
<1>1. PoolInv => PoolTypeOK
  BY DEF PoolInv, PoolOK, PoolType, Pool, PoolTypeOK
<1> QED
  BY <1>1, PoolInvariance, PTL

(* No block is ever handed out twice, freed while in use, or lost. *)
THEOREM OwnershipHolds == PoolSpec => []Ownership
<1>1. PoolInv => Ownership
  BY DEF PoolInv, PoolOK, Pool, Ownership, Listed, ListedIn, Distinct
<1> QED
  BY <1>1, PoolInvariance, PTL

(* Every client has at least the capacity it asked for. *)
THEOREM LargeEnoughHolds == PoolSpec => []LargeEnough
<1>1. PoolInv => LargeEnough
  BY DEF PoolInv
<1> QED
  BY <1>1, PoolInvariance, PTL

(* The memory retained, added up over the free list, is what retained_bytes   *)
(* says and respects both limits of mdf_memory_options.                       *)
THEOREM RetentionBoundedHolds == PoolSpec => []RetentionBounded
<1>1. ASSUME PoolInv PROVE RetentionBounded
  <2>1. PICK f : Sums(Pool, f)
    BY <1>1 DEF PoolInv, PoolOK
  <2>2. /\ free_list \in Seq(Blocks) /\ Len(free_list) \in Nat
        /\ f \in [0 .. Len(free_list) -> Nat] /\ f[0] = 0
        /\ \A i \in 1 .. Len(free_list) : f[i] = f[i - 1] + cap[free_list[i]]
        /\ \A i, j \in 0 .. Len(free_list) : i <= j => f[i] <= f[j]
        /\ retained_bytes = f[Len(free_list)]
    BY <1>1, <2>1 DEF PoolInv, PoolOK, PoolType, Pool, Sums
  <2>3. retained_bytes <= MaxRetained /\ MaxRetained \in Nat
    BY <1>1, LimitsType DEF PoolInv, PoolOK, Pool
  <2>4. f \in [0 .. Len(free_list) -> 0 .. MaxRetained]
    <3>1. ASSUME NEW i \in 0 .. Len(free_list) PROVE f[i] \in 0 .. MaxRetained
      BY <2>2, <2>3, <3>1
    <3> QED
      BY <2>2, <3>1
  <2>5. \A b \in Listed : cap[b] <= MaxReusableBlock
    BY <1>1 DEF PoolInv, PoolOK, Pool, Listed, ListedIn
  <2> QED
    BY <2>2, <2>4, <2>5 DEF RetentionBounded
<1> QED
  BY <1>1, PoolInvariance, PTL

-----------------------------------------------------------------------------
(* The pool implements Heap.  A step is followed one client at a time: the    *)
(* object of client c changes as Heap says and the others' stay.              *)

Object(c) == [size |-> requested[c], data |-> bytes[ptr[c]]]

LEMMA ObjectsAre ==
    ASSUME PoolInv
    PROVE  /\ \A c \in Clients : ptr[c] = NULL => Objects[c] = NULL
           /\ \A c \in Clients : ptr[c] # NULL => Objects[c] = Object(c) /\ Object(c) # NULL
           /\ Objects = [c \in Clients |-> Objects[c]]
<1>1. ASSUME NEW c \in Clients, ptr[c] # NULL
      PROVE  Object(c) \in [size : Nat, data : Clients \cup {"unwritten"}]
  BY <1>1 DEF PoolInv, Object, Unwritten
<1> QED
  BY <1>1, NoObjectAssumption DEF Objects, Object

(* The object of a client that is not c is untouched when its pointer, its    *)
(* size and the bytes of its block are.                                       *)
LEMMA OthersStay ==
    ASSUME NEW c \in Clients, NEW new,
           \A a \in Clients \ {c} : /\ ptr'[a] = ptr[a]
                                    /\ requested'[a] = requested[a]
                                    /\ ptr[a] # NULL => bytes'[ptr[a]] = bytes[ptr[a]],
           (Objects')[c] = new
    PROVE  Objects' = [Objects EXCEPT ![c] = new]
<1>1. \A a \in Clients \ {c} : (Objects')[a] = Objects[a]
  BY DEF Objects
<1>2. /\ Objects = [a \in Clients |-> Objects[a]]
      /\ Objects' = [a \in Clients |-> (Objects')[a]]
  BY DEF Objects
<1> QED
  BY <1>1, <1>2

LEMMA AllocRefines ==
    ASSUME PoolInv, PoolInv', NEW c \in Clients, NEW n \in Sizes, Alloc(c, n)
    PROVE  HeapView!Allocate(c, n)
<1>1. PICK t \in Take(Pool, n) : ptr' = [ptr EXCEPT ![c] = t.block]
  BY DEF Alloc
<1>2. n \in Nat \ {0} /\ PoolOK(Pool, Held)
  BY SizesAssumption DEF PoolInv
<1>3. t.block \in Blocks
  BY <1>2, TakeOK
<1> DEFINE d == bytes[t.block]
<1>4. d \in HeapView!Data
  BY <1>3 DEF PoolInv, HeapView!Data, HeapView!Unwritten, Unwritten
<1>5. (Objects')[c] = [size |-> n, data |-> d]
  <2>1. ptr'[c] = t.block /\ requested'[c] = n /\ bytes' = bytes /\ ptr'[c] # NULL
    BY <1>1, <1>3, NullAssumption DEF Alloc, PoolInv
  <2> QED
    BY <2>1 DEF Objects
<1>6. Objects' = [Objects EXCEPT ![c] = [size |-> n, data |-> d]]
  <2> DEFINE new == [size |-> n, data |-> d]
  <2>1. (Objects')[c] = new
    BY <1>5
  <2>2. \A a \in Clients \ {c} : /\ ptr'[a] = ptr[a]
                                 /\ requested'[a] = requested[a]
                                 /\ ptr[a] # NULL => bytes'[ptr[a]] = bytes[ptr[a]]
    BY <1>1 DEF Alloc, PoolInv
  <2> HIDE DEF new
  <2>3. Objects' = [Objects EXCEPT ![c] = new]
    BY <2>1, <2>2, OthersStay
  <2> QED
    BY <2>3 DEF new
<1>7. Objects[c] = NULL
  BY ObjectsAre DEF Alloc
<1> QED
  BY <1>4, <1>6, <1>7 DEF HeapView!Allocate

LEMMA FreeRefines ==
    ASSUME PoolInv, NEW c \in Clients, Free(c)
    PROVE  HeapView!Release(c)
<1>1. (Objects')[c] = NULL
  BY DEF Free, PoolInv, Objects
<1>2. \A a \in Clients \ {c} : /\ ptr'[a] = ptr[a]
                               /\ requested'[a] = requested[a]
                               /\ ptr[a] # NULL => bytes'[ptr[a]] = bytes[ptr[a]]
  BY DEF Free, PoolInv
<1>3. Objects' = [Objects EXCEPT ![c] = NULL]
  BY <1>1, <1>2, OthersStay
<1>4. Objects[c] # NULL
  BY ObjectsAre DEF Free
<1> QED
  BY <1>3, <1>4 DEF HeapView!Release

LEMMA WriteRefines ==
    ASSUME PoolInv, NEW c \in Clients, Write(c)
    PROVE  HeapView!Write(c)
<1>1. /\ Objects[c] = Object(c) /\ Objects[c] # NULL /\ ptr[c] # NULL
      /\ ptr[c] \in Blocks
  BY ObjectsAre DEF Write, PoolInv
<1> DEFINE new == [Objects[c] EXCEPT !.data = c]
<1>2. (Objects')[c] = new
  <2>1. /\ ptr' = ptr /\ requested' = requested /\ bytes' = [bytes EXCEPT ![ptr[c]] = c]
        /\ bytes'[ptr[c]] = c
    BY <1>1 DEF Write, PoolInv
  <2>2. (Objects')[c] = [size |-> requested[c], data |-> c]
    BY <1>1, <2>1 DEF Objects
  <2>3. new = [size |-> requested[c], data |-> c]
    BY <1>1 DEF Object
  <2> QED
    BY <2>2, <2>3
<1>3. \A a \in Clients \ {c} : /\ ptr'[a] = ptr[a]
                               /\ requested'[a] = requested[a]
                               /\ ptr[a] # NULL => bytes'[ptr[a]] = bytes[ptr[a]]
  BY <1>1 DEF Write, PoolInv
<1> HIDE DEF new
<1>4. Objects' = [Objects EXCEPT ![c] = new]
  BY <1>2, <1>3, OthersStay
<1> QED
  BY <1>1, <1>4 DEF HeapView!Write, new

LEMMA InPlaceRefines ==
    ASSUME PoolInv, NEW c \in Clients, NEW n \in Sizes, ReallocInPlace(c, n)
    PROVE  HeapView!Resize(c, n)
<1>1. /\ Objects[c] = Object(c) /\ Objects[c] # NULL /\ ptr[c] # NULL
  BY ObjectsAre DEF ReallocInPlace
<1> DEFINE new == [Objects[c] EXCEPT !.size = n]
<1>2. (Objects')[c] = new
  <2>1. ptr' = ptr /\ requested'[c] = n /\ bytes' = bytes
    BY DEF ReallocInPlace, PoolInv
  <2>2. (Objects')[c] = [size |-> n, data |-> bytes[ptr[c]]]
    BY <1>1, <2>1 DEF Objects
  <2>3. new = [size |-> n, data |-> bytes[ptr[c]]]
    BY <1>1 DEF Object
  <2> QED
    BY <2>2, <2>3
<1>3. \A a \in Clients \ {c} : /\ ptr'[a] = ptr[a]
                               /\ requested'[a] = requested[a]
                               /\ ptr[a] # NULL => bytes'[ptr[a]] = bytes[ptr[a]]
  BY DEF ReallocInPlace, PoolInv
<1> HIDE DEF new
<1>4. Objects' = [Objects EXCEPT ![c] = new]
  BY <1>2, <1>3, OthersStay
<1> QED
  BY <1>1, <1>4 DEF HeapView!Resize, new

LEMMA MoveRefines ==
    ASSUME PoolInv, NEW c \in Clients, NEW n \in Sizes, ReallocMove(c, n)
    PROVE  HeapView!Resize(c, n)
<1>1. PICK t \in Take(Pool, n) :
          bytes' = Copied(t.block, ptr[c]) /\ ptr' = [ptr EXCEPT ![c] = t.block]
  BY DEF ReallocMove
<1>2. n \in Nat \ {0} /\ PoolOK(Pool, Held)
  BY SizesAssumption DEF PoolInv
<1>3. t.block \in Blocks \ Held
  BY <1>2, TakeOK
<1>4. /\ Objects[c] = Object(c) /\ Objects[c] # NULL /\ ptr[c] # NULL
  BY ObjectsAre DEF ReallocMove
<1> DEFINE new == [Objects[c] EXCEPT !.size = n]
<1>5. (Objects')[c] = new
  <2>1. /\ ptr'[c] = t.block /\ requested'[c] = n /\ t.block # NULL
        /\ bytes'[t.block] = bytes[ptr[c]]
    BY <1>1, <1>3, NullAssumption DEF ReallocMove, PoolInv, Copied
  <2>2. (Objects')[c] = [size |-> n, data |-> bytes[ptr[c]]]
    BY <2>1 DEF Objects
  <2>3. new = [size |-> n, data |-> bytes[ptr[c]]]
    BY <1>4 DEF Object
  <2> QED
    BY <2>2, <2>3
<1>6. ASSUME NEW a \in Clients \ {c}
      PROVE  /\ ptr'[a] = ptr[a]
             /\ requested'[a] = requested[a]
             /\ ptr[a] # NULL => bytes'[ptr[a]] = bytes[ptr[a]]
  <2>1. ptr'[a] = ptr[a] /\ requested'[a] = requested[a]
    BY <1>1 DEF ReallocMove, PoolInv
  <2>2. ASSUME ptr[a] # NULL PROVE bytes'[ptr[a]] = bytes[ptr[a]]
    <3>1. ptr[a] \in Held /\ ptr[a] # t.block /\ ptr[a] \in Blocks
      BY <1>3, <2>2 DEF Held, PoolInv
    <3> QED
      BY <1>1, <3>1 DEF Copied, PoolInv
  <2> QED
    BY <2>1, <2>2
<1> HIDE DEF new
<1>7. Objects' = [Objects EXCEPT ![c] = new]
  BY <1>5, <1>6, OthersStay
<1> QED
  BY <1>4, <1>7 DEF HeapView!Resize, new

(* The pool implements Heap: reuse, growth in place, moves and the retention  *)
(* policy are invisible to the renderer, whose buffers keep their bytes.      *)
THEOREM PoolImplementsHeap == PoolSpec => HeapSpec
<1>1. PoolInit => HeapView!Init
  BY DEF PoolInit, HeapView!Init, Objects
<1>2. PoolInv /\ PoolInv' /\ [PoolNext]_pool_vars => [HeapView!Next]_Objects
  <2> SUFFICES ASSUME PoolInv, PoolInv', [PoolNext]_pool_vars PROVE [HeapView!Next]_Objects
    OBVIOUS
  <2>1. ASSUME NEW c \in Clients, Free(c) PROVE HeapView!Next
    BY <2>1, FreeRefines DEF HeapView!Next
  <2>2. ASSUME NEW c \in Clients, Write(c) PROVE HeapView!Next
    BY <2>2, WriteRefines DEF HeapView!Next
  <2>3. ASSUME NEW c \in Clients, NEW n \in Sizes, Alloc(c, n) PROVE HeapView!Next
    BY <2>3, AllocRefines DEF HeapView!Next
  <2>4. ASSUME NEW c \in Clients, NEW n \in Sizes, ReallocInPlace(c, n)
        PROVE  HeapView!Next
    BY <2>4, InPlaceRefines DEF HeapView!Next
  <2>5. ASSUME NEW c \in Clients, NEW n \in Sizes, ReallocMove(c, n)
        PROVE  HeapView!Next
    BY <2>5, MoveRefines DEF HeapView!Next
  <2>6. CASE Destroy
    <3>1. bytes' = bytes /\ ptr' = ptr /\ requested' = requested
      BY <2>6 DEF Destroy
    <3> QED
      BY <3>1 DEF Objects
  <2>7. CASE UNCHANGED pool_vars
    BY <2>7 DEF pool_vars, Objects
  <2> QED
    BY <2>1, <2>2, <2>3, <2>4, <2>5, <2>6, <2>7 DEF PoolNext
<1> QED
  BY <1>1, <1>2, PoolInvariance, PTL DEF PoolSpec, HeapSpec, HeapView!Spec

-----------------------------------------------------------------------------
(***************************************************************************)
(* A renderer's calls keep to the rules of include/libmdf/mdf.h for any    *)
(* sinks, geometries and options, however many writes and reads a call     *)
(* makes and whatever its callbacks call in between.                       *)
(*                                                                         *)
(* The invariant ties the state of the renderer to the call in progress:   *)
(* which steps a call of each kind goes through, what it has borrowed, how *)
(* many emission frames its current callback holds open, and what the      *)
(* document can be at each of its steps although a callback may already    *)
(* have failed it.  The refinement of DocumentLifecycle rests on it.       *)
(***************************************************************************)

Calling == {"none", "render"} \cup Incremental \cup Manual \cup Resets
Places  == {"none", "start", "parser", "title", "shell", "body", "close", "closed",
            "unwind", "reset", "discard"}
States  == {"idle", "active", "finished", "failed"}

OpType == [name : Calling, sink : Sinks \cup {NoSink}, bind : Sinks \cup {NoSink},
           pc : Places, route : Routes \cup {"none"}, fault : Faults \cup {"none"}]

RendererType ==
    /\ render_active \in BOOLEAN
    /\ active_sink \in Sinks \cup {NoSink}
    /\ incremental_parser \in Geometries \cup {NoParser}
    /\ render_parser \in Geometries \cup {NoParser}
    /\ html_title \in {"none", "explicit", "auto"}
    /\ html_open \in BOOLEAN
    /\ session \in {"clean", "dirty", "pending"}
    /\ sink \in Sinks \cup {NoSink}
    /\ geometry \in Geometries
    /\ options \in Options
    /\ undecided \in BOOLEAN
    /\ parser_error \in BOOLEAN

CallType ==
    /\ op \in OpType
    /\ callback \in {"none", "sink", "trace", "source"}
    /\ emission_active \in 0 .. 2
    /\ writes \in Nat
    /\ reads \in Nat

OutcomeType ==
    /\ incremental_state \in States
    /\ error \in Errors
    /\ status \in Statuses

TypeOK == RendererType /\ CallType /\ OutcomeType

(* The steps each call goes through. *)
PlaceOK ==
    /\ op.name = "none" <=> op = NoOp
    /\ op.name = "feed"            => op.pc \in {"start", "parser", "body", "unwind"}
    /\ op.name = "finish_document" => op.pc \in {"start", "parser", "body", "close", "closed",
                                                 "unwind"}
    /\ op.name = "write_token"     => op.pc \in {"body", "unwind"}
    /\ op.name = "finish"          => op.pc \in {"close", "closed", "unwind"}
    /\ op.name = "render"          => op.pc \in {"title", "parser", "shell", "body", "close",
                                                 "closed", "unwind"}
    /\ op.name \in Resets          => op.pc \in {"reset", "discard"}

(* What the call in progress has borrowed. *)
BorrowedOK ==
    /\ render_active <=> op # NoOp
    /\ active_sink = op.sink
    /\ op.name \in Resets => op.sink = NoSink
    /\ render_parser # NoParser => op.name = "render" /\ op.pc \notin {"title", "parser"}

(* The callback the application is in, and the frames open around it. *)
CallbackOK ==
    /\ callback \in {"sink", "trace"} =>
           /\ op.pc \in {"parser", "body", "closed", "discard"}
           /\ Format = "ANSI" \/ (callback = "sink" /\ ~Resetting)
    /\ callback = "source" => op.name = "render" /\ op.pc \in {"title", "body"}
    /\ callback = "sink"  => emission_active = EmitFrames + GuardFrames
    /\ callback = "trace" => emission_active = EmitFrames
    /\ callback \notin {"sink", "trace"} => emission_active = 0

(* What the document can be at each step. *)
DocumentOK ==
    /\ op.name \in Incremental =>
           /\ op.pc = "parser" => incremental_state = "idle"
           /\ op.pc \in {"body", "close", "closed"} => incremental_state = "active"
           /\ op.pc = "unwind" => incremental_state \in {"idle", "active"}
    /\ op.name \in Manual => incremental_state # "failed"
    /\ op.name = "render" =>
           /\ incremental_state \in {"idle", "failed"}
           /\ op.pc = "closed" => incremental_state = "idle"

(* Which failures a call can meet. *)
FaultOK ==
    /\ op.fault = "refused" => op.name = "render"
    /\ op.fault = "limit"   => op.name \in Incremental

IInv == TypeOK /\ PlaceOK /\ BorrowedOK /\ CallbackOK /\ DocumentOK /\ FaultOK

-----------------------------------------------------------------------------
LEMMA NoOpFields ==
    /\ NoOp \in OpType
    /\ NoOp.name = "none" /\ NoOp.pc = "none" /\ NoOp.fault = "none" /\ NoOp.route = "none"
    /\ NoOp.sink = NoSink /\ NoOp.bind = NoSink
  BY DEF NoOp, OpType, Calling, Places

LEMMA Initially == ASSUME Init PROVE IInv
<1>1. TypeOK
  <2>1. RendererType
    BY DEF Init, RendererType
  <2>2. CallType
    BY NoOpFields DEF Init, CallType
  <2>3. OutcomeType
    BY DEF Init, OutcomeType, States, Errors, Statuses
  <2> QED
    BY <2>1, <2>2, <2>3 DEF TypeOK
<1>2. PlaceOK /\ BorrowedOK /\ FaultOK
  BY NoOpFields DEF Init, PlaceOK, BorrowedOK, FaultOK, Resets
<1>3. CallbackOK /\ DocumentOK
  BY NoOpFields DEF Init, CallbackOK, DocumentOK, Resets, Manual, Incremental
<1> QED
  BY <1>1, <1>2, <1>3 DEF IInv

-----------------------------------------------------------------------------
(* What a step must show for the invariant, by how it leaves the call. *)

(* It is not about the call: the application asked, or changed what the      *)
(* invariant does not relate to it.                                          *)
LEMMA Answered ==
    ASSUME IInv, TypeOK',
           UNCHANGED <<render_active, active_sink, emission_active, incremental_state,
                       op, callback>>,
           options' = options,
           render_parser' # NoParser => render_parser # NoParser
    PROVE  IInv'
<1>1. PlaceOK' /\ FaultOK' /\ DocumentOK' /\ BorrowedOK'
  BY DEF IInv, PlaceOK, FaultOK, DocumentOK, BorrowedOK
<1>2. CallbackOK'
  BY DEF IInv, CallbackOK, Format, Resetting, EmitFrames, GuardFrames
<1> QED
  BY <1>1, <1>2 DEF IInv

(* It ends the call. *)
LEMMA Left ==
    ASSUME IInv, RendererType', OutcomeType', callback = "none",
           UNCHANGED <<callback, emission_active, writes>>, reads' \in Nat,
           op' = NoOp, render_active' = FALSE, active_sink' = NoSink,
           render_parser' = NoParser
    PROVE  IInv'
<1>1. PlaceOK' /\ FaultOK' /\ DocumentOK' /\ BorrowedOK'
  BY NoOpFields
     DEF PlaceOK, FaultOK, DocumentOK, BorrowedOK, Resets, Manual, Incremental
<1>2. CallbackOK' /\ CallType'
  BY NoOpFields DEF IInv, CallbackOK, TypeOK, CallType
<1> QED
  BY <1>1, <1>2 DEF IInv, TypeOK

(* It moves the call on, between callbacks. *)
LEMMA Moved ==
    ASSUME IInv, RendererType', OutcomeType', PlaceOK', DocumentOK', FaultOK',
           op # NoOp, callback = "none",
           UNCHANGED <<render_active, active_sink, emission_active, callback, writes>>,
           reads' \in Nat,
           op' \in OpType, op'.name = op.name, op'.sink = op.sink,
           \/ render_parser' = render_parser /\ op'.pc \notin {"title", "parser"}
           \/ render_parser' = NoParser
           \/ op.name = "render" /\ op'.pc \notin {"title", "parser"}
    PROVE  IInv'
<1>1. BorrowedOK'
  BY NoOpFields DEF IInv, PlaceOK, BorrowedOK
<1>2. CallbackOK' /\ CallType'
  BY DEF IInv, CallbackOK, TypeOK, CallType
<1> QED
  BY <1>1, <1>2 DEF IInv, TypeOK

LEMMA BeginWriteFields ==
    ASSUME op \in OpType, NEW route \in Routes, NEW next \in Places, BeginWrite(route, next)
    PROVE  /\ op' \in OpType
           /\ op'.name = op.name /\ op'.sink = op.sink /\ op'.bind = op.bind
           /\ op'.fault = op.fault /\ op'.pc = next
  BY DEF BeginWrite, OpType

(* It writes: the sink's callback runs inside its frames. *)
LEMMA Wrote ==
    ASSUME IInv, RendererType', OutcomeType', PlaceOK', DocumentOK',
           op # NoOp, callback = "none",
           NEW route \in Routes, NEW next \in {"parser", "body", "closed", "discard"},
           BeginWrite(route, next),
           Format = "ANSI" \/ ~Resetting,
           next = "parser" => op.name # "render",
           UNCHANGED <<render_active, active_sink, render_parser, options, reads>>
    PROVE  IInv'
<1>1. op \in OpType /\ emission_active = 0
  BY DEF IInv, TypeOK, CallType, CallbackOK
<1>2. /\ op'.name = op.name /\ op'.sink = op.sink /\ op'.pc = next
      /\ op'.fault = op.fault /\ op' \in OpType
  BY <1>1, BeginWriteFields DEF Places
<1>3. /\ callback' = "sink" /\ writes' = writes + 1
      /\ emission_active' = EmitFrames + GuardFrames
  BY <1>1 DEF BeginWrite, EmitFrames, GuardFrames
<1>4. BorrowedOK' /\ FaultOK'
  BY <1>2, NoOpFields DEF IInv, PlaceOK, BorrowedOK, FaultOK
<1>5. CallbackOK'
  BY <1>2, <1>3 DEF CallbackOK, Format, Resetting, EmitFrames, GuardFrames
<1>6. CallType'
  BY <1>2, <1>3 DEF IInv, TypeOK, CallType, EmitFrames, GuardFrames
<1> QED
  BY <1>4, <1>5, <1>6 DEF IInv, TypeOK

-----------------------------------------------------------------------------
(* Calls *)

(* A call that was refused, or that only answered, changed nothing but the   *)
(* answer.                                                                   *)
LEMMA AnswerKeeps ==
    ASSUME IInv, NEW st \in Statuses, Answer(st), error' \in Errors PROVE IInv'
<1>1. /\ UNCHANGED <<render_active, active_sink, incremental_parser, render_parser,
                     html_title, html_open, session, sink, geometry, options,
                     undecided, parser_error>>
      /\ UNCHANGED <<op, callback, emission_active, writes, reads, incremental_state>>
      /\ status' = st
  BY DEF Answer, entry, document, rendered, config, call
<1>2. RendererType'
  BY <1>1 DEF IInv, TypeOK, RendererType
<1>3. CallType' /\ OutcomeType'
  BY <1>1 DEF IInv, TypeOK, CallType, OutcomeType
<1> QED
  BY <1>1, <1>2, <1>3, Answered DEF TypeOK

LEMMA RefuseKeeps == ASSUME IInv, Refuse PROVE IInv'
  BY AnswerKeeps DEF Refuse, Statuses, Errors

(* Between calls nothing is in progress, in a callback something is. *)
LEMMA Between ==
    ASSUME IInv, ~render_active
    PROVE  op = NoOp /\ callback = "none" /\ active_sink = NoSink
  BY NoOpFields DEF IInv, TypeOK, CallType, BorrowedOK, CallbackOK

(* Between calls the document and the configuration may change at will. *)
LEMMA BetweenChanged ==
    ASSUME IInv, TypeOK', ~render_active,
           UNCHANGED <<render_active, active_sink, render_parser, op, callback,
                       emission_active>>
    PROVE  IInv'
<1>1. op = NoOp /\ callback = "none"
  BY Between
<1>2. PlaceOK' /\ FaultOK' /\ BorrowedOK'
  BY DEF IInv, PlaceOK, FaultOK, BorrowedOK
<1>3. CallbackOK' /\ DocumentOK'
  BY <1>1, NoOpFields DEF IInv, CallbackOK, DocumentOK, Incremental, Manual
<1> QED
  BY <1>2, <1>3 DEF IInv

(* The steps a call may start at. *)
LEMMA EnterKeeps ==
    ASSUME IInv, ~render_active, NEW s \in Sinks, NEW name, NEW place,
           Enter(name, s, place),
           \/ name \in Incremental /\ place = "start"
           \/ name = "write_token" /\ place = "body" /\ incremental_state # "failed"
           \/ name = "finish" /\ place = "close" /\ incremental_state # "failed"
           \/ name = "render" /\ place = "title" /\ incremental_state = "idle",
           html_title' \in {"none", "explicit", "auto"}, html_open' \in BOOLEAN,
           session' \in {"clean", "dirty", "pending"},
           incremental_state' = incremental_state, error' \in Errors
    PROVE  IInv'
<1>1. /\ render_active' = TRUE /\ active_sink' = s /\ writes' = 0 /\ reads' = 0
      /\ UNCHANGED <<incremental_parser, render_parser, sink, geometry, options,
                     undecided, parser_error>>
      /\ UNCHANGED <<callback, emission_active, status>>
  BY DEF Enter, document, config
<1>2. /\ op'.name = name /\ op'.pc = place /\ op'.sink = s /\ op'.fault = "none"
      /\ op' \in OpType
  <2>1. op' = [NoOp EXCEPT !.name = name, !.sink = s, !.pc = place]
    BY DEF Enter
  <2> QED
    BY <2>1 DEF NoOp, OpType, Calling, Places, Incremental, Manual, Resets
<1>3. op = NoOp /\ callback = "none" /\ emission_active = 0 /\ op' # NoOp
  BY <1>2, Between, NoOpFields DEF IInv, CallbackOK, Incremental
<1>4. TypeOK'
  <2>1. RendererType'
    BY <1>1 DEF IInv, TypeOK, RendererType
  <2>2. CallType' /\ OutcomeType'
    BY <1>1, <1>2 DEF IInv, TypeOK, CallType, OutcomeType
  <2> QED
    BY <2>1, <2>2 DEF TypeOK
<1>5. PlaceOK' /\ FaultOK'
  BY <1>2, <1>3 DEF PlaceOK, FaultOK, Resets, Incremental
<1>6. BorrowedOK'
  BY <1>1, <1>2, <1>3, NoOpFields DEF IInv, BorrowedOK, Resets, Incremental
<1>7. CallbackOK'
  BY <1>1, <1>3 DEF CallbackOK
<1>8. DocumentOK'
  BY <1>2 DEF DocumentOK, Incremental, Manual
<1> QED
  BY <1>4, <1>5, <1>6, <1>7, <1>8 DEF IInv

LEMMA EnterResetKeeps ==
    ASSUME IInv, ~render_active, NEW name \in Resets,
           NEW bind \in Sinks \cup {NoSink}, EnterReset(name, bind)
    PROVE  IInv'
<1>1. /\ render_active' = TRUE /\ writes' = 0
      /\ UNCHANGED <<active_sink, incremental_parser, render_parser, html_title, html_open,
                     session, sink, geometry, options, undecided, parser_error>>
      /\ UNCHANGED <<callback, emission_active, reads, incremental_state, error, status>>
  BY DEF EnterReset, document, rendered, config
<1>2. /\ op'.name = name /\ op'.pc = "reset" /\ op'.sink = NoSink /\ op'.fault = "none"
      /\ op' \in OpType
  <2>1. op' = [NoOp EXCEPT !.name = name, !.bind = bind, !.pc = "reset"]
    BY DEF EnterReset
  <2> QED
    BY <2>1 DEF NoOp, OpType, Calling, Places, Incremental, Manual, Resets
<1>3. /\ op = NoOp /\ callback = "none" /\ active_sink = NoSink /\ op' # NoOp
      /\ render_parser = NoParser
  BY <1>2, Between, NoOpFields DEF IInv, BorrowedOK, Resets
<1>4. TypeOK'
  <2>1. RendererType'
    BY <1>1 DEF IInv, TypeOK, RendererType
  <2>2. CallType' /\ OutcomeType'
    BY <1>1, <1>2 DEF IInv, TypeOK, CallType, OutcomeType
  <2> QED
    BY <2>1, <2>2 DEF TypeOK
<1>5. PlaceOK' /\ FaultOK' /\ DocumentOK'
  BY <1>2, <1>3 DEF PlaceOK, FaultOK, DocumentOK, Resets, Incremental, Manual
<1>6. BorrowedOK'
  BY <1>1, <1>2, <1>3 DEF BorrowedOK, Resets
<1>7. CallbackOK'
  BY <1>1, <1>3 DEF IInv, CallbackOK
<1> QED
  BY <1>4, <1>5, <1>6, <1>7 DEF IInv

LEMMA BeginKeeps ==
    ASSUME IInv, NEW s \in Sinks,
           Feed(s) \/ FinishDocument(s) \/ WriteToken(s) \/ Finish(s) \/ Render(s)
    PROVE  IInv'
<1> USE DEF IInv, TypeOK
<1>1. CASE Refuse
  BY <1>1, RefuseKeeps
<1>2. ASSUME ~render_active,
             \/ \E name \in Incremental : Enter(name, s, "start")
             \/ incremental_state # "failed" /\ Enter("write_token", s, "body")
             \/ incremental_state # "failed" /\ Enter("finish", s, "close"),
             UNCHANGED <<rendered, error>>
      PROVE  IInv'
  <2>1. /\ html_title' \in {"none", "explicit", "auto"} /\ html_open' \in BOOLEAN
        /\ session' \in {"clean", "dirty", "pending"} /\ error' \in Errors
    BY <1>2 DEF rendered, RendererType, OutcomeType
  <2>2. incremental_state' = incremental_state
    BY <1>2 DEF Enter, document
  <2> QED
    BY <1>2, <2>1, <2>2, EnterKeeps
<1>3. ASSUME ~render_active, incremental_state = "idle", Enter("render", s, "title"),
             ResetRenderState, error' = "none"
      PROVE  IInv'
  <2>1. /\ html_title' \in {"none", "explicit", "auto"} /\ html_open' \in BOOLEAN
        /\ session' \in {"clean", "dirty", "pending"} /\ error' \in Errors
    BY <1>3 DEF ResetRenderState, RendererType, Errors
  <2>2. incremental_state' = incremental_state
    BY <1>3 DEF Enter, document
  <2> QED
    BY <1>3, <2>1, <2>2, EnterKeeps
<1> QED
  BY <1>1, <1>2, <1>3 DEF Feed, FinishDocument, WriteToken, Finish, Render, Incremental

LEMMA FlushKeeps == ASSUME IInv, Flush PROVE IInv'
<1>1. CASE Refuse
  BY <1>1, RefuseKeeps
<1>2. CASE Answer("OK") /\ UNCHANGED error
  BY <1>2, AnswerKeeps DEF Statuses, IInv, TypeOK, OutcomeType
<1> QED
  BY <1>1, <1>2 DEF Flush

LEMMA BeginDocumentKeeps == ASSUME IInv, BeginDocument PROVE IInv'
<1>1. CASE Refuse
  BY <1>1, RefuseKeeps
<1>2. CASE ~Refuse
  <2>1. /\ incremental_parser' = NoParser /\ undecided' = FALSE /\ parser_error' = FALSE
        /\ session' = "clean" /\ html_open' = FALSE
        /\ html_title' = IF html_title = "auto" THEN "none" ELSE html_title
    BY <1>2 DEF BeginDocument, DropParser, ResetRenderState
  <2>2. /\ ~render_active
        /\ incremental_state' = "idle" /\ error' = "none" /\ status' = "OK"
        /\ UNCHANGED <<render_active, active_sink, render_parser, sink, geometry, options>>
        /\ UNCHANGED <<op, callback, emission_active, writes, reads>>
    BY <1>2 DEF BeginDocument, entry, config, call
  <2>3. TypeOK'
    <3>1. RendererType'
      BY <2>1, <2>2 DEF IInv, TypeOK, RendererType
    <3>2. CallType' /\ OutcomeType'
      BY <2>2 DEF IInv, TypeOK, CallType, OutcomeType, States, Errors, Statuses
    <3> QED
      BY <3>1, <3>2 DEF TypeOK
  <2> QED
    BY <2>2, <2>3, BetweenChanged
<1> QED
  BY <1>1, <1>2

LEMMA SetSinkKeeps == ASSUME IInv, NEW s \in Sinks, SetSink(s) PROVE IInv'
<1>1. CASE Refuse
  BY <1>1, RefuseKeeps
<1>2. CASE Answer("OK") /\ UNCHANGED error
  BY <1>2, AnswerKeeps DEF Statuses, IInv, TypeOK, OutcomeType
<1>3. ASSUME ~render_active, sink' = s, error' = "none", status' = "OK",
             UNCHANGED <<entry, emission_active, document, render_parser, rendered, geometry,
                         options, call>>
      PROVE  IInv'
  <2>1. /\ UNCHANGED <<render_active, active_sink, incremental_parser, render_parser,
                       html_title, html_open, session, geometry, options, undecided,
                       parser_error>>
        /\ UNCHANGED <<op, callback, emission_active, writes, reads, incremental_state>>
    BY <1>3 DEF entry, document, rendered, call
  <2>2. RendererType'
    BY <1>3, <2>1 DEF IInv, TypeOK, RendererType
  <2>3. CallType' /\ OutcomeType'
    BY <1>3, <2>1 DEF IInv, TypeOK, CallType, OutcomeType, Errors, Statuses
  <2> QED
    BY <1>3, <2>1, <2>2, <2>3, BetweenChanged DEF TypeOK
<1>4. ASSUME ~render_active, EnterReset("set_sink", s) PROVE IInv'
  BY <1>4, EnterResetKeeps DEF Resets
<1> QED
  BY <1>1, <1>2, <1>3, <1>4 DEF SetSink

LEMMA SetTitleKeeps ==
    ASSUME IInv, NEW title \in {"none", "explicit"}, SetTitle(title) PROVE IInv'
<1>1. CASE Refuse
  BY <1>1, RefuseKeeps
<1>2. ASSUME NEW st \in {"INVALID", "NOMEM"}, Answer(st), UNCHANGED error PROVE IInv'
  BY <1>2, AnswerKeeps DEF Statuses, IInv, TypeOK, OutcomeType
<1>3. ASSUME ~render_active, html_title' = title, status' = "OK",
             UNCHANGED <<entry, emission_active, document, render_parser, html_open, session,
                         error, config, call>>
      PROVE  IInv'
  <2>1. /\ UNCHANGED <<render_active, active_sink, incremental_parser, render_parser,
                       html_open, session, sink, geometry, options, undecided,
                       parser_error>>
        /\ UNCHANGED <<op, callback, emission_active, writes, reads, incremental_state,
                       error>>
    BY <1>3 DEF entry, document, config, call
  <2>2. RendererType'
    BY <1>3, <2>1 DEF IInv, TypeOK, RendererType
  <2>3. CallType' /\ OutcomeType'
    BY <1>3, <2>1 DEF IInv, TypeOK, CallType, OutcomeType, Statuses
  <2> QED
    BY <1>3, <2>1, <2>2, <2>3, BetweenChanged DEF TypeOK
<1>4. CASE Refuse \/ (Answer("INVALID") /\ UNCHANGED error)
               \/ (Answer("NOMEM") /\ UNCHANGED error)
  BY <1>1, <1>2, <1>4
<1>5. CASE ~TitleLocked /\ html_title' = title /\ status' = "OK"
           /\ UNCHANGED <<entry, emission_active, document, render_parser, html_open, session,
                          error, config, call>>
  BY <1>3, <1>5 DEF TitleLocked
<1> QED
  BY <1>4, <1>5 DEF SetTitle

(* A callback may change the geometry: only a render is ever in progress     *)
(* when a layout can fail, and only in its source.                           *)
LEMMA SetGeometryKeeps ==
    ASSUME IInv, NEW g \in Geometries, SetGeometry(g) PROVE IInv'
<1>1. CASE Refuse
  BY <1>1, RefuseKeeps
<1>2. CASE Answer("OK") /\ UNCHANGED error
  BY <1>2, AnswerKeeps DEF Statuses, IInv, TypeOK, OutcomeType
<1>3. CASE Relayout(g)
  <2>1. /\ geometry' = g /\ status' = "OK"
        /\ render_parser' = (IF render_parser = NoParser THEN NoParser ELSE g)
        /\ incremental_parser' = (IF incremental_parser = NoParser THEN NoParser ELSE g)
        /\ UNCHANGED <<render_active, active_sink, html_title, html_open, session, sink,
                       options, undecided, parser_error>>
        /\ UNCHANGED <<op, callback, emission_active, writes, reads, incremental_state,
                       error>>
    BY <1>3 DEF Relayout, Told, entry, rendered, call
  <2>2. RendererType'
    BY <2>1 DEF IInv, TypeOK, RendererType
  <2>3. CallType' /\ OutcomeType'
    BY <2>1 DEF IInv, TypeOK, CallType, OutcomeType, Statuses
  <2> QED
    BY <2>1, <2>2, <2>3, Answered DEF TypeOK
<1>4. CASE RelayoutFails /\ emission_active = 0 /\ AppRuns
  <2>1. /\ session' = "dirty" /\ error' = "out of memory" /\ status' = "NOMEM"
        /\ incremental_state' = "failed"
        /\ UNCHANGED <<render_active, active_sink, incremental_parser, render_parser,
                       html_title, html_open, sink, geometry, options, undecided,
                       parser_error>>
        /\ UNCHANGED <<op, callback, emission_active, writes, reads>>
    BY <1>4 DEF RelayoutFails, entry, config, call
  <2>2. RendererType'
    BY <2>1 DEF IInv, TypeOK, RendererType
  <2>3. CallType' /\ OutcomeType'
    BY <2>1 DEF IInv, TypeOK, CallType, OutcomeType, States, Errors, Statuses
  <2>4. op = NoOp \/ (op.name = "render" /\ op.pc \in {"title", "body"})
    <3>1. callback \notin {"sink", "trace"}
      BY <1>4 DEF IInv, TypeOK, CallType, CallbackOK, EmitFrames, GuardFrames
    <3> QED
      BY <1>4, <3>1 DEF AppRuns, IInv, TypeOK, CallType, CallbackOK
  <2>5. DocumentOK'
    BY <2>1, <2>4, NoOpFields DEF DocumentOK, Incremental, Manual
  <2>6. PlaceOK' /\ FaultOK' /\ BorrowedOK'
    BY <2>1 DEF IInv, PlaceOK, FaultOK, BorrowedOK
  <2>7. CallbackOK'
    BY <2>1 DEF IInv, CallbackOK, Format, Resetting, EmitFrames, GuardFrames
  <2> QED
    BY <2>2, <2>3, <2>5, <2>6, <2>7 DEF IInv, TypeOK
<1>5. emission_active \in Nat
  BY DEF IInv, TypeOK, CallType
<1> QED
  BY <1>1, <1>2, <1>3, <1>4, <1>5 DEF SetGeometry

LEMMA RecreateKeeps == ASSUME IInv, Recreate PROVE IInv'
<1>1. CASE render_active
  <2>1. /\ error' = "refused"
        /\ UNCHANGED <<render_active, active_sink, incremental_parser, render_parser,
                       html_title, html_open, session, sink, geometry, options,
                       undecided, parser_error>>
        /\ UNCHANGED <<op, callback, emission_active, writes, reads, incremental_state,
                       status>>
    BY <1>1 DEF Recreate, entry, document, rendered, config, call
  <2>2. RendererType'
    BY <2>1 DEF IInv, TypeOK, RendererType
  <2>3. CallType' /\ OutcomeType'
    BY <2>1 DEF IInv, TypeOK, CallType, OutcomeType, Errors
  <2> QED
    BY <2>1, <2>2, <2>3, Answered DEF TypeOK
<1>2. CASE ~render_active
  <2>1. /\ incremental_parser' = NoParser /\ undecided' = FALSE /\ parser_error' = FALSE
        /\ incremental_state' = "idle" /\ html_title' = "none" /\ html_open' = FALSE
        /\ error' = "none" /\ sink' = NoSink /\ geometry' \in Geometries
        /\ options' \in Options /\ session' = "clean" /\ status' = "created"
        /\ UNCHANGED <<render_active, active_sink, render_parser>>
        /\ UNCHANGED <<op, callback, emission_active, writes, reads>>
    BY <1>2 DEF Recreate, DropParser, entry, call
  <2>2. RendererType'
    BY <2>1 DEF IInv, TypeOK, RendererType
  <2>3. CallType' /\ OutcomeType'
    BY <2>1 DEF IInv, TypeOK, CallType, OutcomeType, States, Errors, Statuses
  <2> QED
    BY <1>2, <2>1, <2>2, <2>3, BetweenChanged DEF TypeOK
<1> QED
  BY <1>1, <1>2

-----------------------------------------------------------------------------
(* Callbacks return *)

(* Steps of the library that only write, move on or return.  What they leave *)
(* alone, variable by variable.                                              *)
Untouched == <<render_active, active_sink, incremental_parser, render_parser, html_title,
               sink, geometry, options, incremental_state, status>>

LEMMA StepOnKeeps == StepOn => UNCHANGED Untouched
  BY DEF StepOn, Untouched, entry, config

LEMMA SinkAcceptsKeeps == ASSUME IInv, SinkAccepts PROVE IInv'
<1>1. /\ UNCHANGED Untouched
      /\ UNCHANGED <<undecided, parser_error, html_open, session, error, op, writes, reads>>
  BY StepOnKeeps DEF SinkAccepts
<1>2. /\ callback = "sink"
      /\ \/ callback' = "trace" /\ Format = "ANSI" /\ emission_active' = 1
         \/ callback' = "none" /\ emission_active' = 0
  BY DEF SinkAccepts, IInv, CallbackOK, EmitFrames, GuardFrames
<1>3. RendererType'
  BY <1>1 DEF Untouched, IInv, TypeOK, RendererType
<1>4. CallType' /\ OutcomeType'
  BY <1>1, <1>2 DEF Untouched, IInv, TypeOK, CallType, OutcomeType
<1>5. PlaceOK' /\ BorrowedOK' /\ DocumentOK' /\ FaultOK'
  BY <1>1 DEF Untouched, IInv, PlaceOK, BorrowedOK, DocumentOK, FaultOK
<1>6. CallbackOK'
  BY <1>1, <1>2
     DEF Untouched, IInv, CallbackOK, EmitFrames, GuardFrames, Format, Resetting
<1> QED
  BY <1>3, <1>4, <1>5, <1>6 DEF IInv, TypeOK

LEMMA TraceAcceptsKeeps == ASSUME IInv, TraceAccepts PROVE IInv'
<1>1. /\ UNCHANGED Untouched
      /\ UNCHANGED <<undecided, parser_error, html_open, session, error, op, writes, reads>>
  BY StepOnKeeps DEF TraceAccepts
<1>2. callback = "trace" /\ callback' = "none" /\ emission_active' = 0
  BY DEF TraceAccepts, IInv, CallbackOK, EmitFrames
<1>3. RendererType'
  BY <1>1 DEF Untouched, IInv, TypeOK, RendererType
<1>4. CallType' /\ OutcomeType'
  BY <1>1, <1>2 DEF Untouched, IInv, TypeOK, CallType, OutcomeType
<1>5. PlaceOK' /\ BorrowedOK' /\ DocumentOK' /\ FaultOK'
  BY <1>1 DEF Untouched, IInv, PlaceOK, BorrowedOK, DocumentOK, FaultOK
<1>6. CallbackOK'
  BY <1>2 DEF CallbackOK
<1> QED
  BY <1>3, <1>4, <1>5, <1>6 DEF IInv, TypeOK

(* Whatever frames the failing callback held are closed, and the call goes   *)
(* to where its kind handles a failed write.                                 *)
LEMMA WriteFailsKeeps == ASSUME IInv, WriteFails PROVE IInv'
<1>1. /\ UNCHANGED Untouched
      /\ UNCHANGED <<undecided, parser_error, html_open, session, error, writes, reads>>
  BY StepOnKeeps DEF WriteFails
<1>2. callback \in {"sink", "trace"} /\ callback' = "none" /\ emission_active' = 0
  BY DEF WriteFails, OpenFrames, IInv, CallbackOK, EmitFrames, GuardFrames
<1>3. /\ op'.name = op.name /\ op'.sink = op.sink /\ op'.fault = "sink" /\ op' \in OpType
      /\ op'.pc = IF Resetting THEN "discard" ELSE "unwind"
  BY DEF WriteFails, IInv, TypeOK, CallType, OpType, Places, Faults
<1>4. op.pc \in {"parser", "body", "closed", "discard"} /\ op # NoOp /\ op' # NoOp
  BY <1>2, <1>3, NoOpFields DEF IInv, CallbackOK
<1>5. RendererType'
  BY <1>1 DEF Untouched, IInv, TypeOK, RendererType
<1>6. CallType' /\ OutcomeType'
  BY <1>1, <1>2, <1>3 DEF Untouched, IInv, TypeOK, CallType, OutcomeType
<1>7. PlaceOK'
  BY <1>3, <1>4 DEF IInv, PlaceOK, TypeOK, CallType, OpType, Calling, Resetting, Resets,
                    Incremental, Manual
<1>8. BorrowedOK' /\ FaultOK'
  BY <1>1, <1>3, <1>4 DEF Untouched, IInv, BorrowedOK, FaultOK
<1>9. DocumentOK'
  BY <1>1, <1>3, <1>4 DEF Untouched, IInv, DocumentOK, PlaceOK, Resetting, Resets,
                          Incremental, Manual
<1>10. CallbackOK'
  BY <1>2 DEF CallbackOK
<1> QED
  BY <1>5, <1>6, <1>7, <1>8, <1>9, <1>10 DEF IInv, TypeOK

LEMMA SourceReturnsKeeps == ASSUME IInv, SourceReturns PROVE IInv'
<1>1. /\ UNCHANGED Untouched
      /\ UNCHANGED <<undecided, parser_error, emission_active, html_open, error, writes, reads>>
      /\ callback = "source" /\ callback' = "none"
  BY StepOnKeeps DEF SourceReturns
<1>2. session' \in {"clean", "dirty", "pending"}
  BY DEF SourceReturns, Retain, IInv, TypeOK, RendererType
<1>3. /\ op.name = "render" /\ op'.name = op.name /\ op'.sink = op.sink /\ op' \in OpType
      /\ op'.pc \in {"title", "body", "close", "unwind"}
      /\ op'.pc = "title" => op.pc = "title"
      /\ op'.fault \in {op.fault, "source"}
  <2>1. op.name = "render" /\ op.pc \in {"title", "body"} /\ op \in OpType
    BY <1>1 DEF IInv, CallbackOK, TypeOK, CallType
  <2>2. \/ op' = op
        \/ op' = [op EXCEPT !.pc = "close"]
        \/ op' = [op EXCEPT !.route = "direct", !.fault = "source", !.pc = "unwind"]
    BY DEF SourceReturns, GoTo, Fail
  <2> QED
    BY <2>1, <2>2 DEF OpType, Places, Routes, Faults
<1>4. op # NoOp /\ op' # NoOp
  BY <1>3, NoOpFields
<1>5. RendererType'
  BY <1>1, <1>2 DEF Untouched, IInv, TypeOK, RendererType
<1>6. CallType' /\ OutcomeType'
  BY <1>1, <1>3 DEF Untouched, IInv, TypeOK, CallType, OutcomeType
<1>7. PlaceOK' /\ FaultOK'
  BY <1>3, <1>4 DEF IInv, PlaceOK, FaultOK, Resets
<1>8. BorrowedOK'
  BY <1>1, <1>3, <1>4 DEF Untouched, IInv, BorrowedOK
<1>9. DocumentOK'
  BY <1>1, <1>3 DEF Untouched, IInv, DocumentOK, Incremental, Manual
<1>10. CallbackOK'
  BY <1>1 DEF IInv, CallbackOK
<1> QED
  BY <1>5, <1>6, <1>7, <1>8, <1>9, <1>10 DEF IInv, TypeOK

-----------------------------------------------------------------------------
(* The library's steps *)

(* A step of a document's call, of a render, or of a reset. *)
LEMMA CallAt ==
    ASSUME IInv, NEW place, At(place)
    PROVE  /\ op # NoOp /\ callback = "none" /\ op \in OpType /\ op.pc = place
           /\ reads \in Nat /\ op.name # "none"
           /\ place = "start" => op.name \in Incremental
           /\ place = "parser" => op.name \in Incremental \cup {"render"}
           /\ place \in {"title", "shell"} => op.name = "render"
           /\ place \in {"body", "close", "closed", "unwind"} => op.name \notin Resets
           /\ place \in {"reset", "discard"} => op.name \in Resets
           /\ op.name # "render" => render_parser = NoParser
  BY DEF At, LibraryRuns, IInv, TypeOK, CallType, OpType, Calling, PlaceOK, BorrowedOK,
         Incremental, Manual, Resets

LEMMA FreshParser ==
    ASSUME IInv, At("title") \/ At("parser") PROVE render_parser = NoParser
  BY DEF At, IInv, BorrowedOK

(* The types of what a step of the library changes least. *)
LEMMA StepOnTypes ==
    ASSUME IInv, StepOn, html_open' \in BOOLEAN, session' \in {"clean", "dirty", "pending"},
           undecided' \in BOOLEAN, parser_error' \in BOOLEAN, error' \in Errors
    PROVE  RendererType' /\ OutcomeType'
<1>1. UNCHANGED Untouched
  BY StepOnKeeps
<1> QED
  BY <1>1 DEF Untouched, IInv, TypeOK, RendererType, OutcomeType

LEMMA RetainType == Retain => session' \in {"clean", "dirty", "pending"}
  BY DEF Retain

LEMMA IncrementalStartKeeps == ASSUME IInv, IncrementalStart PROVE IInv'
<1>1. At("start")
  BY DEF IncrementalStart
<1>2. /\ op # NoOp /\ callback = "none" /\ op \in OpType /\ op.pc = "start"
      /\ op.name \in Incremental /\ render_parser = NoParser /\ reads \in Nat
  BY <1>1, CallAt DEF Incremental
<1>3. ASSUME Leave("INVALID"), error' = "refused", NoWrite,
             UNCHANGED <<document, render_parser, rendered, config, reads>>
      PROVE  IInv'
  <2>1. /\ op' = NoOp /\ render_active' = FALSE /\ active_sink' = NoSink
        /\ status' = "INVALID"
        /\ UNCHANGED <<callback, emission_active, writes, reads>>
        /\ UNCHANGED <<incremental_state, incremental_parser, undecided, parser_error,
                       render_parser, html_title, html_open, session, sink, geometry,
                       options>>
    BY <1>3 DEF Leave, NoWrite, document, rendered, config
  <2>2. RendererType' /\ OutcomeType'
    BY <1>3, <2>1 DEF IInv, TypeOK, RendererType, OutcomeType, Errors, Statuses
  <2> QED
    BY <1>2, <2>1, <2>2, Left
<1>4. ASSUME incremental_state = "idle", html_open' = TRUE, BeginWrite("token", "parser"),
             StepOn, UNCHANGED <<undecided, parser_error, session, error, reads>>
      PROVE  IInv'
  <2>1. UNCHANGED Untouched
    BY <1>4, StepOnKeeps
  <2>2. RendererType' /\ OutcomeType'
    BY <1>4, StepOnTypes DEF IInv, TypeOK, RendererType, OutcomeType
  <2>3. op'.name = op.name /\ op'.pc = "parser" /\ op'.fault = op.fault
    BY <1>2, <1>4, BeginWriteFields DEF Places, Routes
  <2>4. PlaceOK' /\ DocumentOK'
    BY <1>2, <1>4, <2>1, <2>3, NoOpFields
       DEF Untouched, PlaceOK, DocumentOK, Incremental, Manual, Resets
  <2> QED
    <3>1. Format = "ANSI" \/ ~Resetting
      BY <1>2 DEF Resetting, Incremental, Resets
    <3>2. op.name # "render"
      BY <1>2 DEF Incremental
    <3> QED
      BY <1>2, <1>4, <2>1, <2>2, <2>4, <3>1, <3>2, Wrote DEF Untouched, Routes
<1>5. ASSUME incremental_state \notin {"finished", "failed"},
             GoTo(IF incremental_state = "idle" THEN "parser" ELSE "body"),
             NoWrite, UNCHANGED html_open,
             StepOn, UNCHANGED <<undecided, parser_error, session, error, reads>>
      PROVE  IInv'
  <2>1. UNCHANGED Untouched /\ UNCHANGED <<callback, emission_active, writes>>
    BY <1>5, StepOnKeeps DEF NoWrite
  <2>2. RendererType' /\ OutcomeType'
    BY <1>5, StepOnTypes DEF IInv, TypeOK, RendererType, OutcomeType
  <2>3. /\ op'.name = op.name /\ op'.sink = op.sink /\ op'.fault = op.fault /\ op' \in OpType
        /\ op'.pc = IF incremental_state = "idle" THEN "parser" ELSE "body"
    BY <1>2, <1>5 DEF GoTo, OpType, Places
  <2>4. incremental_state \in {"idle", "active"}
    BY <1>5 DEF IInv, TypeOK, OutcomeType, States
  <2>5. PlaceOK' /\ DocumentOK' /\ FaultOK'
    BY <1>2, <2>1, <2>3, <2>4, NoOpFields
       DEF Untouched, IInv, PlaceOK, DocumentOK, FaultOK, Incremental, Manual, Resets
  <2> QED
    BY <1>2, <1>5, <2>1, <2>2, <2>3, <2>5, Moved DEF Untouched
<1> QED
  BY <1>3, <1>4, <1>5 DEF IncrementalStart

LEMMA CreateParserKeeps == ASSUME IInv, CreateParser PROVE IInv'
<1>1. /\ op # NoOp /\ callback = "none" /\ op \in OpType /\ op.pc = "parser"
      /\ op.name \in Incremental \cup {"render"} /\ reads \in Nat
  BY CallAt DEF CreateParser
<1>2. /\ UNCHANGED <<render_active, active_sink, html_title, html_open, session, error, sink,
                     geometry, options, reads, status>>
      /\ UNCHANGED <<callback, emission_active, writes>>
  BY DEF CreateParser, NoWrite, entry, rendered, config
<1>3. /\ \/ /\ op.name = "render" /\ op' = [op EXCEPT !.pc = "shell"]
            /\ render_parser' = geometry
            /\ UNCHANGED <<incremental_state, incremental_parser, undecided, parser_error>>
         \/ /\ op.name # "render" /\ op' = [op EXCEPT !.pc = "body"]
            /\ incremental_state' = "active" /\ incremental_parser' = geometry
            /\ undecided' = FALSE /\ parser_error' = FALSE /\ render_parser' = render_parser
  BY DEF CreateParser, GoTo, document
<1>4. /\ op'.name = op.name /\ op'.sink = op.sink /\ op'.fault = op.fault /\ op' \in OpType
      /\ op'.pc = IF op.name = "render" THEN "shell" ELSE "body"
  BY <1>1, <1>3 DEF OpType, Places
<1>5. RendererType' /\ OutcomeType'
  <2>1. RendererType'
    BY <1>2, <1>3 DEF IInv, TypeOK, RendererType
  <2>2. OutcomeType'
    BY <1>2, <1>3 DEF IInv, TypeOK, OutcomeType, States
  <2> QED
    BY <2>1, <2>2
<1>6. PlaceOK' /\ DocumentOK' /\ FaultOK'
  BY <1>1, <1>3, <1>4, NoOpFields
     DEF IInv, PlaceOK, DocumentOK, FaultOK, Incremental, Manual, Resets
<1> QED
  BY <1>1, <1>2, <1>3, <1>4, <1>5, <1>6, Moved

LEMMA CreateParserFailsKeeps == ASSUME IInv, CreateParserFails PROVE IInv'
<1>1. op # NoOp /\ callback = "none" /\ reads \in Nat
  BY CallAt DEF CreateParserFails
<1>2. render_parser = NoParser
  BY FreshParser DEF CreateParserFails
<1>3. /\ op' = NoOp /\ render_active' = FALSE /\ active_sink' = NoSink /\ status' = "NOMEM"
      /\ error' = "out of memory" /\ incremental_state' \in {incremental_state, "failed"}
      /\ UNCHANGED <<callback, emission_active, writes, reads>>
      /\ UNCHANGED <<incremental_parser, undecided, parser_error, render_parser, html_title,
                     html_open, session, sink, geometry, options>>
  BY DEF CreateParserFails, Leave, NoWrite, rendered, config
<1>4. RendererType' /\ OutcomeType'
  BY <1>3 DEF IInv, TypeOK, RendererType, OutcomeType, States, Errors, Statuses
<1> QED
  BY <1>1, <1>2, <1>3, <1>4, Left

LEMMA DetectTitleKeeps == ASSUME IInv, DetectTitle PROVE IInv'
<1>1. /\ op # NoOp /\ callback = "none" /\ op \in OpType /\ op.pc = "title"
      /\ op.name = "render" /\ reads \in Nat
  BY CallAt DEF DetectTitle
<1>2. /\ UNCHANGED <<render_active, active_sink, render_parser, html_open, session, error,
                     sink, geometry, options, status>>
      /\ UNCHANGED <<emission_active, writes, incremental_state, incremental_parser,
                     undecided, parser_error>>
  BY DEF DetectTitle, entry, document, config
<1>3. /\ html_title' \in {html_title, "none", "auto"} /\ reads' \in {reads, reads + 1, 0}
      /\ \/ callback' = "source" /\ op' = op
         \/ callback' = "none" /\ op' = [op EXCEPT !.pc = "parser"]
  BY <1>1 DEF DetectTitle, GoTo
<1>4. /\ op'.name = op.name /\ op'.sink = op.sink /\ op'.fault = op.fault /\ op' \in OpType
      /\ callback' = "source" => op'.pc = "title"
      /\ op'.pc \in {"title", "parser"}
  BY <1>1, <1>3 DEF OpType, Places
<1>5. RendererType' /\ OutcomeType'
  BY <1>2, <1>3 DEF IInv, TypeOK, RendererType, OutcomeType
<1>6. CallType'
  BY <1>1, <1>2, <1>3, <1>4 DEF IInv, TypeOK, CallType
<1>7. PlaceOK' /\ DocumentOK' /\ FaultOK'
  BY <1>1, <1>2, <1>4, NoOpFields
     DEF IInv, PlaceOK, DocumentOK, FaultOK, Incremental, Manual, Resets
<1>8. BorrowedOK'
  <2>1. render_parser = NoParser
    BY FreshParser DEF DetectTitle
  <2> QED
    BY <1>1, <1>2, <1>4, <2>1, NoOpFields DEF IInv, BorrowedOK
<1>9. CallbackOK'
  BY <1>1, <1>2, <1>3, <1>4 DEF IInv, CallbackOK
<1> QED
  BY <1>5, <1>6, <1>7, <1>8, <1>9 DEF IInv, TypeOK

LEMMA DetectTitleFailsKeeps == ASSUME IInv, DetectTitleFails PROVE IInv'
<1>1. op # NoOp /\ callback = "none" /\ reads \in Nat
  BY CallAt DEF DetectTitleFails
<1>2. render_parser = NoParser
  BY FreshParser DEF DetectTitleFails
<1>3. /\ op' = NoOp /\ render_active' = FALSE /\ active_sink' = NoSink
      /\ status' \in {"NOMEM", "IO"} /\ error' \in {"out of memory", "source read failed"}
      /\ UNCHANGED <<callback, emission_active, writes, reads>>
      /\ UNCHANGED <<incremental_state, incremental_parser, undecided, parser_error,
                     render_parser, html_title, html_open, session, sink, geometry, options>>
  BY DEF DetectTitleFails, Leave, NoWrite, document, rendered, config
<1>4. RendererType' /\ OutcomeType'
  BY <1>3 DEF IInv, TypeOK, RendererType, OutcomeType, Errors, Statuses
<1> QED
  BY <1>1, <1>2, <1>3, <1>4, Left

LEMMA RenderShellKeeps == ASSUME IInv, RenderShell PROVE IInv'
<1>1. /\ op # NoOp /\ callback = "none" /\ op \in OpType /\ op.pc = "shell"
      /\ op.name = "render" /\ reads \in Nat
  BY CallAt DEF RenderShell
<1>2. StepOn /\ UNCHANGED <<undecided, parser_error, session, error, reads>>
  BY DEF RenderShell
<1>3. UNCHANGED Untouched
  BY <1>2, StepOnKeeps
<1>4. \/ html_open' = TRUE /\ BeginWrite("token", "body")
      \/ GoTo("body") /\ NoWrite /\ html_open' = html_open
  BY DEF RenderShell
<1>5. RendererType' /\ OutcomeType'
  BY <1>2, <1>4, StepOnTypes DEF IInv, TypeOK, RendererType, OutcomeType
<1>6. op'.name = op.name /\ op'.pc = "body" /\ op'.sink = op.sink /\ op'.fault = op.fault
      /\ op' \in OpType
  <2>1. CASE BeginWrite("token", "body")
    BY <1>1, <2>1, BeginWriteFields DEF Places, Routes
  <2>2. CASE GoTo("body")
    BY <1>1, <2>2 DEF GoTo, OpType, Places
  <2> QED
    BY <1>4, <2>1, <2>2
<1>7. PlaceOK' /\ DocumentOK' /\ FaultOK'
  BY <1>1, <1>3, <1>6, NoOpFields
     DEF Untouched, IInv, PlaceOK, DocumentOK, FaultOK, Incremental, Manual, Resets
<1>8. CASE BeginWrite("token", "body")
  BY <1>1, <1>2, <1>3, <1>5, <1>7, <1>8, Wrote DEF Untouched, Routes, Resetting, Resets
<1>9. CASE GoTo("body") /\ NoWrite
  BY <1>1, <1>2, <1>3, <1>5, <1>6, <1>7, <1>9, Moved DEF Untouched, NoWrite
<1> QED
  BY <1>4, <1>8, <1>9

LEMMA WriteDecisionKeeps ==
    ASSUME IInv, NEW route \in {"token", "direct"}, WriteDecision(route) PROVE IInv'
<1>1. /\ op # NoOp /\ callback = "none" /\ op \in OpType /\ op.pc = "body"
      /\ op.name \notin Resets /\ reads \in Nat
  BY CallAt DEF WriteDecision
<1>2. /\ StepOn /\ BeginWrite(route, "body")
      /\ UNCHANGED <<undecided, parser_error, error, reads>>
      /\ html_open' \in BOOLEAN /\ session' \in {"clean", "dirty", "pending"}
  BY RetainType DEF WriteDecision
<1>3. UNCHANGED Untouched
  BY <1>2, StepOnKeeps
<1>4. RendererType' /\ OutcomeType'
  BY <1>2, StepOnTypes DEF IInv, TypeOK, RendererType, OutcomeType
<1>5. op'.name = op.name /\ op'.pc = "body" /\ op'.sink = op.sink /\ op'.fault = op.fault
  BY <1>1, <1>2, BeginWriteFields DEF Places, Routes
<1>6. PlaceOK' /\ DocumentOK'
  BY <1>1, <1>3, <1>5, NoOpFields
     DEF Untouched, IInv, PlaceOK, DocumentOK, Incremental, Manual, Resets
<1> QED
  BY <1>1, <1>2, <1>3, <1>4, <1>6, Wrote DEF Untouched, Routes, Resetting

(* A call of a document, of a token or of a render that failed unwinds. *)
LEMMA FailKeeps ==
    ASSUME IInv, At("body") \/ At("close"), NEW route \in Routes, NEW fault \in Faults,
           fault = "refused" => op.name = "render",
           fault = "limit" => op.name \in Incremental,
           Fail(route, fault), StepOn, NoWrite, UNCHANGED <<html_open, session, undecided, reads>>,
           parser_error' \in BOOLEAN, error' \in Errors
    PROVE  IInv'
<1>1. /\ op # NoOp /\ callback = "none" /\ op \in OpType /\ op.pc \in {"body", "close"}
      /\ op.name \notin Resets /\ reads \in Nat
  BY CallAt
<1>2. UNCHANGED Untouched /\ UNCHANGED <<emission_active, callback, writes>>
  BY StepOnKeeps DEF NoWrite
<1>3. RendererType' /\ OutcomeType'
  BY StepOnTypes DEF IInv, TypeOK, RendererType
<1>4. /\ op'.name = op.name /\ op'.pc = "unwind" /\ op'.sink = op.sink
      /\ op'.fault = fault /\ op' \in OpType
  BY <1>1 DEF Fail, OpType, Places
<1>5. PlaceOK' /\ DocumentOK' /\ FaultOK'
  BY <1>1, <1>2, <1>4, NoOpFields
     DEF Untouched, IInv, PlaceOK, DocumentOK, FaultOK, Incremental, Manual, Resets
<1> QED
  BY <1>1, <1>2, <1>3, <1>4, <1>5, Moved DEF Untouched

LEMMA FailsKeep ==
    ASSUME IInv, NEW route \in {"token", "direct"},
           TokenRefused \/ MemoryFails(route) \/ LimitExceeded
    PROVE  IInv'
<1>1. error \in Errors /\ parser_error \in BOOLEAN
  BY DEF IInv, TypeOK, RendererType, OutcomeType
<1>2. CASE TokenRefused
  BY <1>1, <1>2, FailKeeps DEF TokenRefused, Routes, Faults, Errors
<1>3. CASE MemoryFails(route)
  <2>1. /\ At("body") /\ Fail(route, "memory") /\ StepOn /\ NoWrite
        /\ UNCHANGED <<undecided, html_open, session, reads>>
        /\ error' \in {error, "out of memory"} /\ parser_error' \in {parser_error, TRUE}
    BY <1>3 DEF MemoryFails
  <2> QED
    BY <1>1, <2>1, FailKeeps DEF Routes, Faults, Errors
<1>4. CASE LimitExceeded
  BY <1>1, <1>4, FailKeeps DEF LimitExceeded, Routes, Faults
<1> QED
  BY <1>2, <1>3, <1>4

LEMMA BodyDoneKeeps == ASSUME IInv, BodyDone PROVE IInv'
<1>1. op # NoOp /\ callback = "none" /\ reads \in Nat /\ render_parser = NoParser
  BY CallAt DEF BodyDone
<1>2. /\ op' = NoOp /\ render_active' = FALSE /\ active_sink' = NoSink /\ status' = "OK"
      /\ UNCHANGED <<callback, emission_active, writes, reads>>
      /\ UNCHANGED <<incremental_state, incremental_parser, parser_error, render_parser,
                     html_title, error, sink, geometry, options>>
  BY DEF BodyDone, Leave, NoWrite, config
<1>3. /\ session' \in {"clean", "dirty", "pending"} /\ html_open' \in BOOLEAN
      /\ undecided' \in BOOLEAN
  BY RetainType DEF BodyDone, IInv, TypeOK, RendererType
<1>4. RendererType' /\ OutcomeType'
  BY <1>2, <1>3 DEF IInv, TypeOK, RendererType, OutcomeType, Statuses
<1> QED
  BY <1>1, <1>2, <1>4, Left

LEMMA ReadSourceKeeps == ASSUME IInv, ReadSource PROVE IInv'
<1>1. /\ op # NoOp /\ op.pc = "body" /\ op.name = "render" /\ reads \in Nat
      /\ callback = "none"
  BY CallAt DEF ReadSource
<1>2. /\ callback' = "source" /\ reads' = reads + 1 /\ StepOn
      /\ UNCHANGED <<undecided, parser_error, emission_active, html_open, session, error, op,
                     writes>>
  BY DEF ReadSource
<1>3. UNCHANGED Untouched
  BY <1>2, StepOnKeeps
<1>4. RendererType' /\ OutcomeType'
  BY <1>2, StepOnTypes DEF IInv, TypeOK, RendererType, OutcomeType
<1>5. CallType'
  BY <1>1, <1>2 DEF IInv, TypeOK, CallType
<1>6. PlaceOK' /\ DocumentOK' /\ FaultOK' /\ BorrowedOK'
  BY <1>2, <1>3 DEF Untouched, IInv, PlaceOK, DocumentOK, FaultOK, BorrowedOK
<1>7. CallbackOK'
  BY <1>1, <1>2 DEF IInv, CallbackOK
<1> QED
  BY <1>4, <1>5, <1>6, <1>7 DEF IInv, TypeOK

LEMMA ResolveEofKeeps == ASSUME IInv, ResolveEof PROVE IInv'
<1>1. /\ op # NoOp /\ callback = "none" /\ op \in OpType /\ op.pc = "body"
      /\ op.name = "finish_document" /\ reads \in Nat
  BY CallAt DEF ResolveEof
<1>2. /\ StepOn /\ undecided' = FALSE /\ op' = [op EXCEPT !.pc = "close"]
      /\ UNCHANGED <<parser_error, html_open, session, error, reads>>
      /\ UNCHANGED <<emission_active, callback, writes>>
  BY DEF ResolveEof, GoTo, NoWrite
<1>3. UNCHANGED Untouched
  BY <1>2, StepOnKeeps
<1>4. RendererType' /\ OutcomeType'
  BY <1>2, StepOnTypes DEF IInv, TypeOK, RendererType, OutcomeType
<1>5. /\ op'.name = op.name /\ op'.pc = "close" /\ op'.sink = op.sink
      /\ op'.fault = op.fault /\ op' \in OpType
  BY <1>1, <1>2 DEF OpType, Places
<1>6. PlaceOK' /\ DocumentOK' /\ FaultOK'
  BY <1>1, <1>3, <1>5, NoOpFields
     DEF Untouched, IInv, PlaceOK, DocumentOK, FaultOK, Incremental, Manual, Resets
<1> QED
  BY <1>1, <1>2, <1>3, <1>4, <1>5, <1>6, Moved DEF Untouched

LEMMA CloseOutputKeeps == ASSUME IInv, CloseOutput PROVE IInv'
<1>1. /\ op # NoOp /\ callback = "none" /\ op \in OpType /\ op.pc = "close"
      /\ op.name \notin Resets /\ reads \in Nat
  BY CallAt DEF CloseOutput
<1>2. /\ StepOn /\ html_open' \in BOOLEAN
      /\ UNCHANGED <<undecided, parser_error, session, error, reads>>
      /\ op.name = "render" => incremental_state # "failed"
  BY DEF CloseOutput, IInv, TypeOK, RendererType
<1>3. \/ \E route \in {"footer", "token"} : BeginWrite(route, "closed")
      \/ GoTo("closed") /\ NoWrite
  BY DEF CloseOutput
<1>4. UNCHANGED Untouched
  BY <1>2, StepOnKeeps
<1>5. RendererType' /\ OutcomeType'
  BY <1>2, StepOnTypes DEF IInv, TypeOK, RendererType, OutcomeType
<1>6. op'.name = op.name /\ op'.pc = "closed" /\ op'.sink = op.sink /\ op'.fault = op.fault
      /\ op' \in OpType
  <2>1. ASSUME NEW route \in {"footer", "token"}, BeginWrite(route, "closed")
        PROVE  op'.name = op.name /\ op'.pc = "closed" /\ op'.sink = op.sink
               /\ op'.fault = op.fault /\ op' \in OpType
    BY <1>1, <2>1, BeginWriteFields DEF Places, Routes
  <2>2. CASE GoTo("closed")
    BY <1>1, <2>2 DEF GoTo, OpType, Places
  <2> QED
    BY <1>3, <2>1, <2>2
<1>7. PlaceOK' /\ DocumentOK' /\ FaultOK'
  <2>1. op.name = "render" => incremental_state = "idle"
    BY <1>2 DEF IInv, DocumentOK
  <2> QED
    BY <1>1, <1>4, <1>6, <2>1, NoOpFields
       DEF Untouched, IInv, PlaceOK, DocumentOK, FaultOK, Incremental, Manual, Resets
<1>8. ASSUME NEW route \in {"footer", "token"}, BeginWrite(route, "closed") PROVE IInv'
  BY <1>1, <1>2, <1>4, <1>5, <1>7, <1>8, Wrote DEF Untouched, Routes, Resetting
<1>9. CASE GoTo("closed") /\ NoWrite
  BY <1>1, <1>2, <1>4, <1>5, <1>6, <1>7, <1>9, Moved DEF Untouched, NoWrite
<1> QED
  BY <1>3, <1>8, <1>9

LEMMA ClosedKeeps == ASSUME IInv, Closed PROVE IInv'
<1>1. op # NoOp /\ callback = "none" /\ reads \in Nat
  BY CallAt DEF Closed
<1>2. /\ op' = NoOp /\ render_active' = FALSE /\ active_sink' = NoSink /\ status' = "OK"
      /\ error' = "none" /\ render_parser' = NoParser
      /\ UNCHANGED <<callback, emission_active, writes, reads>>
      /\ UNCHANGED <<incremental_parser, undecided, sink, geometry, options>>
  BY DEF Closed, Leave, NoWrite, config
<1>3. /\ session' = "clean" /\ html_open' = FALSE /\ html_title' \in {html_title, "none"}
      /\ incremental_state' \in {incremental_state, "finished"}
      /\ parser_error' \in {parser_error, FALSE}
  BY DEF Closed, ResetRenderState
<1>4. RendererType'
  BY <1>2, <1>3 DEF IInv, TypeOK, RendererType
<1>5. OutcomeType'
  BY <1>2, <1>3 DEF IInv, TypeOK, OutcomeType, States, Errors, Statuses
<1> QED
  BY <1>1, <1>2, <1>4, <1>5, Left

(* A failed call's diagnostic and status, and what it does to the session. *)
LEMMA OutcomeProperties ==
    ASSUME error \in Errors
    PROVE  /\ Text \in Errors
           /\ Outcomes \subseteq {"INVALID", "NOMEM", "IO", "PARSE"}
           /\ op.fault # "refused" => "INVALID" \notin Outcomes
           /\ op.fault # "limit"   => "PARSE" \notin Outcomes
<1>1. TokenText \in Errors
  BY DEF TokenText, Errors
<1>2. Text \in {TokenText, "sink write failed", error}
  BY DEF Text
<1>3. Text \in Errors
  BY <1>1, <1>2 DEF Errors
<1>4. TokenStatus \in {"NOMEM", "IO"}
  BY DEF TokenStatus
<1>5. \/ op.fault = "refused" /\ Outcomes = {"INVALID"}
      \/ Outcomes = {TokenStatus} \/ Outcomes = {"IO"} \/ Outcomes = {"IO", "NOMEM"}
      \/ op.fault = "limit" /\ Outcomes = {"PARSE"}
  BY DEF Outcomes
<1> QED
  BY <1>3, <1>4, <1>5

LEMMA EndSessionTypes ==
    ASSUME RendererType, EndSession
    PROVE  /\ session' \in {"clean", "dirty", "pending"} /\ html_open' \in BOOLEAN
           /\ html_title' \in {"none", "explicit", "auto"}
  BY DEF EndSession, ResetRenderState, rendered, RendererType

LEMMA UnwindKeeps ==
    ASSUME IInv, UnwindToken \/ UnwindIncremental \/ UnwindRender PROVE IInv'
<1>1. /\ op # NoOp /\ callback = "none" /\ reads \in Nat
      /\ op.name # "render" => render_parser = NoParser
  BY CallAt DEF UnwindToken, UnwindIncremental, UnwindRender
<1>2. /\ EndSession /\ NoWrite /\ UNCHANGED <<config, reads>>
      /\ UNCHANGED <<incremental_parser, undecided, parser_error>>
      /\ incremental_state' \in {incremental_state, "failed"}
  BY DEF UnwindToken, UnwindIncremental, UnwindRender, document
<1>3. /\ \E st \in Outcomes \cup {"NOMEM"} : Leave(st)
      /\ error' \in {Text, error, "parser", "out of memory", "source read failed"}
  <2>1. CASE UnwindToken
    BY <2>1 DEF UnwindToken
  <2>2. CASE UnwindIncremental
    BY <2>2 DEF UnwindIncremental
  <2>3. CASE UnwindRender
    BY <2>3 DEF UnwindRender
  <2> QED
    BY <2>1, <2>2, <2>3
<1>4. render_parser' = NoParser
  BY <1>1 DEF UnwindToken, UnwindIncremental, UnwindRender, Manual, Incremental
<1>5. /\ op' = NoOp /\ render_active' = FALSE /\ active_sink' = NoSink
      /\ status' \in Outcomes \cup {"NOMEM"}
      /\ UNCHANGED <<callback, emission_active, writes, reads, sink, geometry, options>>
  BY <1>2, <1>3 DEF Leave, NoWrite, config
<1>6. error \in Errors /\ RendererType
  BY DEF IInv, TypeOK, OutcomeType
<1>7. status' \in Statuses /\ error' \in Errors
  BY <1>3, <1>5, <1>6, OutcomeProperties DEF Statuses, Errors
<1>8. OutcomeType'
  BY <1>2, <1>7 DEF IInv, TypeOK, OutcomeType, States
<1>9. RendererType'
  BY <1>2, <1>4, <1>5, <1>6, EndSessionTypes DEF RendererType
<1> QED
  BY <1>1, <1>4, <1>5, <1>8, <1>9, Left

LEMMA CloseTerminalKeeps == ASSUME IInv, CloseTerminal PROVE IInv'
<1>1. /\ op # NoOp /\ callback = "none" /\ op \in OpType /\ op.pc = "reset"
      /\ op.name \in Resets /\ reads \in Nat /\ render_parser = NoParser
  BY CallAt DEF CloseTerminal, Resets
<1>2. StepOn /\ UNCHANGED <<undecided, parser_error, html_open, session, reads>>
  BY DEF CloseTerminal
<1>3. UNCHANGED Untouched
  BY <1>2, StepOnKeeps
<1>4. \/ Format = "ANSI" /\ BeginWrite("token", "discard") /\ error' = error
      \/ /\ op' = [op EXCEPT !.fault = "memory", !.pc = "discard"]
         /\ error' = "out of memory" /\ NoWrite
      \/ op' = [op EXCEPT !.pc = "discard"] /\ NoWrite /\ error' = error
  BY DEF CloseTerminal, GoTo
<1>5. RendererType' /\ OutcomeType'
  <2>1. error' \in Errors
    BY <1>4 DEF IInv, TypeOK, OutcomeType, Errors
  <2> QED
    BY <1>2, <2>1, StepOnTypes DEF IInv, TypeOK, RendererType
<1>6. /\ op'.name = op.name /\ op'.pc = "discard" /\ op'.sink = op.sink /\ op' \in OpType
      /\ op'.fault \in {op.fault, "memory"}
  <2>1. CASE BeginWrite("token", "discard")
    BY <1>1, <2>1, BeginWriteFields DEF Places, Routes
  <2>2. CASE op' = [op EXCEPT !.fault = "memory", !.pc = "discard"]
    BY <1>1, <2>2 DEF OpType, Places, Faults
  <2>3. CASE op' = [op EXCEPT !.pc = "discard"]
    BY <1>1, <2>3 DEF OpType, Places
  <2> QED
    BY <1>4, <2>1, <2>2, <2>3
<1>7. PlaceOK' /\ DocumentOK' /\ FaultOK'
  BY <1>1, <1>6, NoOpFields
     DEF IInv, PlaceOK, DocumentOK, FaultOK, Incremental, Manual, Resets
<1>8. CASE Format = "ANSI" /\ BeginWrite("token", "discard")
  BY <1>1, <1>2, <1>3, <1>5, <1>7, <1>8, Wrote DEF Untouched, Routes
<1>9. CASE NoWrite
  BY <1>1, <1>2, <1>3, <1>5, <1>6, <1>7, <1>9, Moved DEF Untouched, NoWrite
<1> QED
  BY <1>4, <1>8, <1>9

LEMMA DiscardKeeps == ASSUME IInv, Discard PROVE IInv'
<1>1. /\ op # NoOp /\ callback = "none" /\ op \in OpType /\ op.name \in Resets
      /\ reads \in Nat /\ render_parser = NoParser
  BY CallAt DEF Discard, Resets
<1>2. /\ op' = NoOp /\ render_active' = FALSE /\ active_sink' = NoSink
      /\ incremental_state' = "idle" /\ status' \in {"OK", "IO", "NOMEM"}
      /\ error' \in {"none", "reset failed"} /\ sink' \in {op.bind, sink}
      /\ UNCHANGED <<callback, emission_active, writes, reads>>
      /\ UNCHANGED <<render_parser, geometry, options>>
  <2>1. /\ \E st \in {"OK", "IO", "NOMEM"} : Leave(st)
        /\ error' \in {"none", "reset failed"} /\ sink' \in {op.bind, sink}
    BY DEF Discard
  <2> QED
    BY <2>1 DEF Discard, Leave, NoWrite
<1>3. /\ incremental_parser' = NoParser /\ undecided' = FALSE /\ parser_error' = FALSE
      /\ session' = "clean" /\ html_open' = FALSE /\ html_title' \in {html_title, "none"}
  BY DEF Discard, DropParser, ResetRenderState
<1>4. op.bind \in Sinks \cup {NoSink}
  BY <1>1 DEF OpType
<1>5. RendererType'
  BY <1>1, <1>2, <1>3, <1>4 DEF IInv, TypeOK, RendererType
<1>6. OutcomeType'
  BY <1>2 DEF OutcomeType, States, Errors, Statuses
<1> QED
  BY <1>1, <1>2, <1>5, <1>6, Left

-----------------------------------------------------------------------------
(* The invariant *)

LEMMA NextKeeps == ASSUME IInv, [Next]_vars PROVE IInv'
<1>1. CASE Calls
  <2>1. ASSUME NEW s \in Sinks,
               \/ Feed(s) \/ FinishDocument(s) \/ WriteToken(s) \/ Finish(s) \/ Render(s)
               \/ SetSink(s)
        PROVE  IInv'
    BY <2>1, BeginKeeps, SetSinkKeeps
  <2>2. ASSUME Flush \/ BeginDocument \/ InvalidArguments \/ Recreate PROVE IInv'
    BY <2>2, FlushKeeps, BeginDocumentKeeps, RefuseKeeps, RecreateKeeps DEF InvalidArguments
  <2>3. CASE Reset
    <3>1. CASE Refuse
      BY <3>1, RefuseKeeps
    <3>2. CASE ~render_active /\ EnterReset("reset", NoSink)
      BY <3>2, EnterResetKeeps DEF Resets
    <3> QED
      BY <2>3, <3>1, <3>2 DEF Reset
  <2>4. ASSUME NEW title \in {"none", "explicit"}, SetTitle(title) PROVE IInv'
    BY <2>4, SetTitleKeeps
  <2>5. ASSUME NEW g \in Geometries, SetGeometry(g) PROVE IInv'
    BY <2>5, SetGeometryKeeps
  <2> QED
    BY <1>1, <2>1, <2>2, <2>3, <2>4, <2>5 DEF Calls
<1>2. CASE CallbackReturns
  BY <1>2, SinkAcceptsKeeps, TraceAcceptsKeeps, WriteFailsKeeps, SourceReturnsKeeps
     DEF CallbackReturns
<1>3. CASE LibraryStep
  <2>1. ASSUME NEW route \in {"token", "direct"}, WriteDecision(route) \/ MemoryFails(route)
        PROVE  IInv'
    BY <2>1, WriteDecisionKeeps, FailsKeep
  <2>2. CASE TokenRefused \/ LimitExceeded
    BY <2>2, FailsKeep
  <2>3. ASSUME \/ IncrementalStart \/ CreateParser \/ CreateParserFails
               \/ DetectTitle \/ DetectTitleFails \/ RenderShell
        PROVE  IInv'
    BY <2>3, IncrementalStartKeeps, CreateParserKeeps, CreateParserFailsKeeps,
       DetectTitleKeeps, DetectTitleFailsKeeps, RenderShellKeeps
  <2>4. ASSUME \/ BodyDone \/ ReadSource \/ ResolveEof \/ CloseOutput \/ Closed
               \/ UnwindToken \/ UnwindIncremental \/ UnwindRender
               \/ CloseTerminal \/ Discard
        PROVE  IInv'
    BY <2>4, BodyDoneKeeps, ReadSourceKeeps, ResolveEofKeeps, CloseOutputKeeps, ClosedKeeps,
       UnwindKeeps, CloseTerminalKeeps, DiscardKeeps
  <2> QED
    BY <1>3, <2>1, <2>2, <2>3, <2>4 DEF LibraryStep
<1>4. CASE UNCHANGED vars
  <2>1. /\ UNCHANGED <<render_active, active_sink, incremental_parser, render_parser,
                       html_title, html_open, session, sink, geometry, options,
                       undecided, parser_error>>
        /\ UNCHANGED <<op, callback, emission_active, writes, reads, incremental_state,
                       status, error>>
    BY <1>4 DEF vars, entry, document, rendered, config, call
  <2>2. RendererType'
    BY <2>1 DEF IInv, TypeOK, RendererType
  <2>3. CallType' /\ OutcomeType'
    BY <2>1 DEF IInv, TypeOK, CallType, OutcomeType
  <2> QED
    BY <2>1, <2>2, <2>3, Answered DEF TypeOK
<1> QED
  BY <1>1, <1>2, <1>3, <1>4 DEF Next

(* Every call, every step of the library and every return of a callback      *)
(* keeps the renderer in step with the call in progress.                     *)
THEOREM Invariance == Spec => []IInv
  BY Initially, NextKeeps, PTL DEF Spec

(* The renderer's state keeps its type for any sinks, options, geometries    *)
(* and bounds.                                                               *)
THEOREM TypeCorrect == Spec => []TypeOK
  BY Invariance, PTL DEF IInv

(* However a call ends, the sink it borrowed, its parser and its emission    *)
(* frames are given back; while it runs, whatever its callbacks call, it     *)
(* writes to the sink it was given.                                          *)
THEOREM SinkBorrowedHolds == Spec => []SinkBorrowedForCall
<1>1. ASSUME IInv PROVE SinkBorrowedForCall
  <2>1. CASE op = NoOp
    BY <1>1, <2>1, NoOpFields
       DEF IInv, BorrowedOK, CallbackOK, TypeOK, CallType, SinkBorrowedForCall
  <2>2. CASE op # NoOp
    <3>1. emission_active > 0 <=> callback \in {"sink", "trace"}
      BY <1>1 DEF IInv, CallbackOK, EmitFrames, GuardFrames
    <3> QED
      BY <1>1, <2>2, <3>1 DEF IInv, BorrowedOK, SinkBorrowedForCall
  <2> QED
    BY <2>1, <2>2
<1> QED
  BY <1>1, Invariance, PTL

(* A document that failed writes nothing more: not from finish, not from a   *)
(* token, not from a later feed.  The cleanup of a reset, and a render whose *)
(* source's callback lost what it retained, may still write.                 *)
THEOREM FailedDocumentSilent == Spec => []FailedDocumentIsSilent
<1>1. ASSUME IInv PROVE FailedDocumentIsSilent
  BY <1>1 DEF IInv, TypeOK, CallType, OpType, Calling, PlaceOK, CallbackOK, DocumentOK, NoOp,
              FailedDocumentIsSilent, Incremental, Manual
<1> QED
  BY <1>1, Invariance, PTL

-----------------------------------------------------------------------------
(* The document lifecycle of mdf.h *)

LEMMA ClassOf ==
    /\ op.name \in Resets => CallClass = "reset"
    /\ op.name \in Manual => CallClass = "manual"
    /\ op.name \notin Resets \cup Manual => CallClass = op.name
  BY DEF CallClass, Resets, Manual

LEMMA ClassOfNext ==
    /\ op'.name \in Resets => CallClass' = "reset"
    /\ op'.name \in Manual => CallClass' = "manual"
    /\ op'.name \notin Resets \cup Manual => CallClass' = op'.name
  BY DEF CallClass, Resets, Manual

(* A step within a call that keeps the document is not seen. *)
LEMMA Stutters ==
    ASSUME op'.name = op.name, UNCHANGED <<incremental_state, status>>
    PROVE  UNCHANGED Lifecycle!vars
<1>1. CallClass' = CallClass
  BY ClassOf, ClassOfNext
<1> QED
  BY <1>1 DEF Lifecycle!vars

LEMMA Answers ==
    ASSUME op' = op, UNCHANGED incremental_state, status' \in {"OK", "INVALID", "NOMEM"}
    PROVE  Lifecycle!Next
<1>1. CallClass' = CallClass
  BY ClassOf, ClassOfNext
<1> QED
  BY <1>1 DEF Lifecycle!Next, Lifecycle!Answer

LEMMA AnswerSeen ==
    ASSUME NEW st \in {"OK", "INVALID", "NOMEM"}, Answer(st) PROVE Lifecycle!Next
  BY Answers DEF Answer, document, call

LEMMA RefuseSeen == Refuse => Lifecycle!Next
  BY AnswerSeen DEF Refuse

(* A call begins: the abstract one does, under the same conditions. *)
LEMMA Begins ==
    ASSUME IInv, ~render_active, op'.name # "none", op'.name \in Calling,
           op'.name = "render" => incremental_state = "idle",
           op'.name \in Manual => incremental_state # "failed",
           UNCHANGED <<incremental_state, status>>
    PROVE  Lifecycle!Next
<1>1. CallClass = "none"
  BY Between, NoOpFields, ClassOf DEF Resets, Manual
<1>2. /\ CallClass' \in {"feed", "finish_document", "render", "manual", "reset"}
      /\ CallClass' = "render" => op'.name = "render"
      /\ CallClass' = "manual" => op'.name \in Manual
  BY ClassOfNext DEF Calling, Incremental, Manual, Resets
<1>3. Lifecycle!Begin(CallClass')
  BY <1>1, <1>2 DEF Lifecycle!Begin
<1> QED
  BY <1>2, <1>3 DEF Lifecycle!Next, Lifecycle!Feeding

LEMMA BeginSeen ==
    ASSUME IInv, NEW s \in Sinks,
           Feed(s) \/ FinishDocument(s) \/ WriteToken(s) \/ Finish(s) \/ Render(s)
    PROVE  Lifecycle!Next
<1>1. CASE Refuse
  BY <1>1, RefuseSeen
<1>2. ASSUME NEW name, NEW place, ~render_active, Enter(name, s, place),
             \/ name \in Incremental
             \/ name \in Manual /\ incremental_state # "failed"
             \/ name = "render" /\ incremental_state = "idle"
      PROVE  Lifecycle!Next
  <2>1. UNCHANGED <<incremental_state, status>>
    BY <1>2 DEF Enter, document
  <2>2. op'.name = name
    BY <1>2 DEF Enter, NoOp
  <2>3. name \in Calling /\ name # "none"
    BY <1>2 DEF Calling, Incremental, Manual
  <2>4. /\ name = "render" => incremental_state = "idle"
        /\ name \in Manual => incremental_state # "failed"
    BY <1>2 DEF Incremental, Manual
  <2> QED
    BY <1>2, <2>1, <2>2, <2>3, <2>4, Begins
<1> QED
  BY <1>1, <1>2
     DEF Feed, FinishDocument, WriteToken, Finish, Render, Incremental, Manual

LEMMA EnterResetSeen ==
    ASSUME IInv, ~render_active, NEW name \in Resets, NEW bind, EnterReset(name, bind)
    PROVE  Lifecycle!Next
<1>1. UNCHANGED <<incremental_state, status>>
  BY DEF EnterReset, document
<1>2. op'.name = name
  BY DEF EnterReset, NoOp
<1> QED
  BY <1>1, <1>2, Begins DEF Calling, Resets, Manual

LEMMA ConfigurationSeen ==
    ASSUME IInv,
           \/ Flush \/ BeginDocument \/ Reset \/ InvalidArguments \/ Recreate
           \/ \E s \in Sinks : SetSink(s)
           \/ \E title \in {"none", "explicit"} : SetTitle(title)
    PROVE  [Lifecycle!Next]_(Lifecycle!vars)
<1>1. CASE Refuse
  BY <1>1, RefuseSeen
<1>2. ASSUME NEW st \in {"OK", "INVALID", "NOMEM"}, Answer(st) PROVE Lifecycle!Next
  BY <1>2, AnswerSeen
<1>3. CASE Flush
  BY <1>1, <1>2, <1>3 DEF Flush
<1>4. CASE BeginDocument
  <2>1. CASE ~Refuse
    <3>1. /\ ~render_active /\ incremental_state = "finished" /\ incremental_state' = "idle"
          /\ status' = "OK" /\ op' = op
      BY <1>4, <2>1 DEF BeginDocument, DocumentEnded, call
    <3>2. CallClass = "none" /\ CallClass' = CallClass
      BY <3>1, Between, NoOpFields, ClassOf, ClassOfNext DEF Resets, Manual
    <3> QED
      BY <3>1, <3>2 DEF Lifecycle!NextDocument, Lifecycle!Next
  <2> QED
    BY <1>1, <2>1
<1>5. CASE Reset
  <2>1. CASE ~render_active /\ EnterReset("reset", NoSink)
    BY <2>1, EnterResetSeen DEF Resets
  <2> QED
    BY <1>1, <1>5, <2>1 DEF Reset
<1>6. CASE InvalidArguments
  BY <1>1, <1>6 DEF InvalidArguments
<1>7. CASE Recreate
  <2>1. CASE render_active
    <3>1. op' = op /\ UNCHANGED <<incremental_state, status>>
      BY <1>7, <2>1 DEF Recreate, document, call
    <3> QED
      BY <3>1, Stutters
  <2>2. CASE ~render_active
    <3>1. incremental_state' = "idle" /\ status' = "created" /\ op' = op
      BY <1>7, <2>2 DEF Recreate, call
    <3>2. CallClass = "none" /\ CallClass' = CallClass
      BY <2>2, <3>1, Between, NoOpFields, ClassOf, ClassOfNext DEF Resets, Manual
    <3> QED
      BY <3>1, <3>2 DEF Lifecycle!Recreate, Lifecycle!Next
  <2> QED
    BY <2>1, <2>2
<1>8. ASSUME NEW s \in Sinks, SetSink(s) PROVE Lifecycle!Next
  <2>1. ASSUME ~render_active, EnterReset("set_sink", s) PROVE Lifecycle!Next
    BY <2>1, EnterResetSeen DEF Resets
  <2>2. \/ Answer("OK") \/ Refuse
        \/ ~render_active /\ EnterReset("set_sink", s)
        \/ status' = "OK" /\ op' = op /\ incremental_state' = incremental_state
    BY <1>8 DEF SetSink, document, call
  <2>3. ASSUME status' = "OK", op' = op, UNCHANGED incremental_state PROVE Lifecycle!Next
    BY <2>3, Answers
  <2> QED
    BY RefuseSeen, <1>2, <2>1, <2>2, <2>3
<1>9. ASSUME NEW title \in {"none", "explicit"}, SetTitle(title) PROVE Lifecycle!Next
  <2>1. \/ Answer("INVALID") \/ Answer("NOMEM") \/ Refuse
        \/ status' = "OK" /\ op' = op /\ incremental_state' = incremental_state
    BY <1>9 DEF SetTitle, document, call
  <2>2. ASSUME status' = "OK", op' = op, UNCHANGED incremental_state PROVE Lifecycle!Next
    BY <2>2, Answers
  <2> QED
    BY RefuseSeen, <1>2, <2>1, <2>2
<1> QED
  BY <1>3, <1>4, <1>5, <1>6, <1>7, <1>8, <1>9

LEMMA SetGeometrySeen ==
    ASSUME IInv, NEW g \in Geometries, SetGeometry(g) PROVE Lifecycle!Next
<1>1. \/ Refuse \/ Answer("OK") \/ Relayout(g)
      \/ RelayoutFails /\ AppRuns /\ incremental_state # "failed" /\ emission_active = 0
  BY DEF SetGeometry, IInv, TypeOK, CallType
<1>2. CASE Relayout(g)
  BY <1>2, Answers DEF Relayout, call
<1>3. ASSUME RelayoutFails, AppRuns, incremental_state # "failed", emission_active = 0
      PROVE  Lifecycle!Next
  <2>1. incremental_state' = "failed" /\ status' = "NOMEM" /\ op' = op
    BY <1>3 DEF RelayoutFails, call
  <2>2. op.name \in {"none", "render"}
    <3>1. callback \notin {"sink", "trace"}
      BY <1>3 DEF IInv, TypeOK, CallType, CallbackOK, EmitFrames, GuardFrames
    <3> QED
      BY <1>3, <3>1, NoOpFields DEF AppRuns, IInv, TypeOK, CallType, CallbackOK
  <2>3. CallClass \in {"none", "render"} /\ CallClass' = CallClass
    BY <2>1, <2>2, ClassOf, ClassOfNext DEF Resets, Manual
  <2> QED
    BY <1>3, <2>1, <2>3 DEF Lifecycle!RelayoutFails, Lifecycle!Next
<1> QED
  BY <1>1, <1>2, <1>3, RefuseSeen, AnswerSeen

LEMMA CallbacksSeen == ASSUME IInv, CallbackReturns PROVE UNCHANGED Lifecycle!vars
<1>1. op' = op \/ op'.name = op.name
  <2>1. CASE SinkAccepts \/ TraceAccepts
    BY <2>1 DEF SinkAccepts, TraceAccepts
  <2>2. CASE WriteFails
    BY <2>2 DEF WriteFails, IInv, TypeOK, CallType, OpType
  <2>3. CASE SourceReturns
    BY <2>3 DEF SourceReturns, GoTo, Fail, IInv, TypeOK, CallType, OpType
  <2> QED
    BY <2>1, <2>2, <2>3 DEF CallbackReturns
<1>2. StepOn
  BY DEF CallbackReturns, SinkAccepts, TraceAccepts, WriteFails, SourceReturns
<1> QED
  BY <1>1, <1>2, Stutters DEF StepOn

(* The steps of the library that neither begin a document nor end a call. *)
LEMMA InnerStepsSeen ==
    ASSUME IInv,
           \/ DetectTitle \/ RenderShell
           \/ \E route \in {"token", "direct"} : WriteDecision(route) \/ MemoryFails(route)
           \/ TokenRefused \/ LimitExceeded \/ ReadSource \/ ResolveEof
           \/ CloseOutput \/ CloseTerminal
    PROVE  UNCHANGED Lifecycle!vars
<1> USE DEF IInv, TypeOK, CallType, OpType
<1>1. UNCHANGED <<incremental_state, status>>
  BY DEF DetectTitle, RenderShell, WriteDecision, MemoryFails, TokenRefused, LimitExceeded,
         ReadSource, ResolveEof, CloseOutput, CloseTerminal, StepOn, document
<1>2. op'.name = op.name
  <2>1. CASE DetectTitle \/ ReadSource \/ ResolveEof
    BY <2>1 DEF DetectTitle, ReadSource, ResolveEof, GoTo
  <2>2. CASE RenderShell \/ CloseOutput
    BY <2>2 DEF RenderShell, CloseOutput, GoTo, BeginWrite
  <2>3. CASE CloseTerminal
    BY <2>3 DEF CloseTerminal, GoTo, BeginWrite
  <2>4. CASE TokenRefused \/ LimitExceeded
    BY <2>4 DEF TokenRefused, LimitExceeded, Fail
  <2>5. ASSUME NEW route \in {"token", "direct"}, WriteDecision(route) \/ MemoryFails(route)
        PROVE  op'.name = op.name
    BY <2>5 DEF WriteDecision, MemoryFails, BeginWrite, Fail
  <2> QED
    BY <2>1, <2>2, <2>3, <2>4, <2>5
<1> QED
  BY <1>1, <1>2, Stutters

LEMMA Leaves ==
    ASSUME NEW st, Leave(st) PROVE CallClass' = "none" /\ status' = st
  BY NoOpFields, ClassOfNext DEF Leave, Resets, Manual

LEMMA DocumentClasses ==
    /\ op.name \in Incremental => CallClass = op.name
    /\ op.name = "render" => CallClass = "render"
  BY ClassOf DEF Incremental, Resets, Manual

(* A document opens, or its call is turned away. *)
LEMMA OpeningSeen ==
    ASSUME IInv, IncrementalStart \/ CreateParser PROVE [Lifecycle!Next]_(Lifecycle!vars)
<1>1. op \in OpType
  BY DEF IInv, TypeOK, CallType
<1>2. CASE IncrementalStart
  <2>1. CallClass \in {"feed", "finish_document"}
    BY <1>2, CallAt, DocumentClasses DEF IncrementalStart, Incremental
  <2>2. ASSUME Leave("INVALID"), UNCHANGED document PROVE Lifecycle!Next
    BY <2>1, <2>2, Leaves
       DEF document, Lifecycle!TurnAway, Lifecycle!Return, Lifecycle!Feeding, Lifecycle!Next
  <2>3. ASSUME BeginWrite("token", "parser"), StepOn PROVE UNCHANGED Lifecycle!vars
    BY <1>1, <2>3, BeginWriteFields, Stutters DEF StepOn, Routes, Places
  <2>4. ASSUME NEW place, GoTo(place), StepOn PROVE UNCHANGED Lifecycle!vars
    BY <1>1, <2>4, Stutters DEF StepOn, GoTo, OpType
  <2> QED
    BY <1>2, <2>2, <2>3, <2>4 DEF IncrementalStart
<1>3. CASE CreateParser
  <2>1. op.pc = "parser" /\ op.name \in Incremental \cup {"render"}
    BY <1>3, CallAt DEF CreateParser
  <2>2. op'.name = op.name
    BY <1>1, <1>3 DEF CreateParser, GoTo, OpType
  <2>3. status' = status
    BY <1>3 DEF CreateParser
  <2>4. CASE op.name = "render"
    BY <1>3, <2>2, <2>3, <2>4, Stutters DEF CreateParser, document
  <2>5. CASE op.name # "render"
    <3>1. incremental_state' = "active" /\ op.name \in Incremental
      BY <1>3, <2>1, <2>5 DEF CreateParser
    <3>2. incremental_state = "idle"
      BY <2>1, <3>1 DEF IInv, DocumentOK
    <3>3. CallClass \in {"feed", "finish_document"} /\ CallClass' = CallClass
      BY <2>2, <3>1, DocumentClasses, ClassOf, ClassOfNext DEF Incremental
    <3> QED
      BY <2>3, <3>1, <3>2, <3>3 DEF Lifecycle!Open, Lifecycle!Feeding, Lifecycle!Next
  <2> QED
    BY <2>4, <2>5
<1> QED
  BY <1>2, <1>3

(* Calls that succeed. *)
LEMMA SuccessSeen == ASSUME IInv, BodyDone \/ Closed PROVE Lifecycle!Next
<1>1. CallClass' = "none" /\ status' = "OK"
  BY Leaves DEF BodyDone, Closed
<1>2. CASE BodyDone
  <2>1. op.pc = "body" /\ op.name \in {"feed", "write_token"}
    BY <1>2, CallAt DEF BodyDone
  <2>2. incremental_state' = incremental_state
    BY <1>2 DEF BodyDone
  <2>3. CASE op.name = "feed"
    <3>1. CallClass = "feed" /\ incremental_state = "active"
      BY <2>1, <2>3, DocumentClasses DEF IInv, DocumentOK, Incremental
    <3> QED
      BY <1>1, <2>2, <3>1 DEF Lifecycle!Fed, Lifecycle!Return, Lifecycle!Next
  <2>4. CASE op.name = "write_token"
    <3>1. CallClass = "manual"
      BY <2>4, ClassOf DEF Manual
    <3> QED
      BY <1>1, <2>2, <3>1 DEF Lifecycle!Written, Lifecycle!Return, Lifecycle!Next
  <2> QED
    BY <2>1, <2>3, <2>4
<1>3. CASE Closed
  <2>1. op.pc = "closed" /\ op.name \in {"finish_document", "finish", "render"}
    <3>1. op # NoOp /\ op.pc = "closed" /\ op \in OpType
      BY <1>3, CallAt DEF Closed
    <3> QED
      BY <3>1 DEF IInv, PlaceOK, OpType, Calling, Incremental, Manual, Resets
  <2>2. CASE op.name = "finish_document"
    <3>1. CallClass = "finish_document" /\ incremental_state = "active"
      BY <2>1, <2>2, DocumentClasses DEF IInv, DocumentOK, Incremental
    <3>2. incremental_state' = "finished"
      BY <1>3, <2>2 DEF Closed
    <3> QED
      BY <1>1, <3>1, <3>2 DEF Lifecycle!Finished, Lifecycle!Return, Lifecycle!Next
  <2>3. CASE op.name = "finish"
    <3>1. CallClass = "manual"
      BY <2>3, ClassOf DEF Manual
    <3>2. incremental_state' = incremental_state
      BY <1>3, <2>3 DEF Closed
    <3> QED
      BY <1>1, <3>1, <3>2 DEF Lifecycle!Written, Lifecycle!Return, Lifecycle!Next
  <2>4. CASE op.name = "render"
    <3>1. CallClass = "render" /\ incremental_state = "idle"
      BY <2>1, <2>4, DocumentClasses DEF IInv, DocumentOK
    <3>2. incremental_state' = incremental_state
      BY <1>3, <2>4 DEF Closed
    <3> QED
      BY <1>1, <3>1, <3>2 DEF Lifecycle!Rendered, Lifecycle!Return, Lifecycle!Next
  <2> QED
    BY <2>1, <2>2, <2>3, <2>4
<1> QED
  BY <1>2, <1>3

(* Calls that fail: a document's call fails the document, any other leaves   *)
(* it as it is and says why.                                                 *)
LEMMA DocumentFails ==
    ASSUME op.name \in Incremental, incremental_state \in {"idle", "active"},
           incremental_state' = "failed", NEW st \in {"NOMEM", "IO", "PARSE"}, Leave(st)
    PROVE  Lifecycle!Next
<1>1. CallClass \in {"feed", "finish_document"}
  BY DocumentClasses DEF Incremental
<1> QED
  BY <1>1, Leaves DEF Lifecycle!Fails, Lifecycle!Return, Lifecycle!Feeding, Lifecycle!Next

LEMMA RenderFails ==
    ASSUME op.name = "render", UNCHANGED incremental_state,
           NEW st \in {"INVALID", "NOMEM", "IO"}, Leave(st)
    PROVE  Lifecycle!Next
  BY DocumentClasses, Leaves DEF Lifecycle!Rendered, Lifecycle!Return, Lifecycle!Next

LEMMA ManualFails ==
    ASSUME op.name \in Manual, UNCHANGED incremental_state, NEW st \in {"NOMEM", "IO"}, Leave(st)
    PROVE  Lifecycle!Next
  BY ClassOf, Leaves DEF Lifecycle!Written, Lifecycle!Return, Lifecycle!Next

LEMMA FailureSeen ==
    ASSUME IInv,
           \/ CreateParserFails \/ DetectTitleFails
           \/ UnwindToken \/ UnwindIncremental \/ UnwindRender
    PROVE  Lifecycle!Next
<1>1. error \in Errors
  BY DEF IInv, TypeOK, OutcomeType
<1>2. CASE CreateParserFails
  <2>1. op.pc = "parser" /\ op.name \in Incremental \cup {"render"}
    BY <1>2, CallAt DEF CreateParserFails
  <2>2. Leave("NOMEM") /\ incremental_state' = IF op.name = "render" THEN incremental_state
                                               ELSE "failed"
    BY <1>2 DEF CreateParserFails
  <2>3. CASE op.name = "render"
    BY <2>2, <2>3, RenderFails
  <2>4. CASE op.name # "render"
    <3>1. op.name \in Incremental /\ incremental_state = "idle"
      BY <2>1, <2>4 DEF IInv, DocumentOK
    <3> QED
      BY <2>2, <2>4, <3>1, DocumentFails
  <2> QED
    BY <2>3, <2>4
<1>3. CASE DetectTitleFails
  <2>1. op.name = "render"
    BY <1>3, CallAt DEF DetectTitleFails
  <2>2. (Leave("NOMEM") \/ Leave("IO")) /\ UNCHANGED incremental_state
    BY <1>3 DEF DetectTitleFails, document
  <2> QED
    BY <2>1, <2>2, RenderFails
<1>4. CASE UnwindToken
  <2>1. op.name \in Manual /\ UNCHANGED incremental_state
    BY <1>4 DEF UnwindToken, document
  <2>2. op.fault \notin {"refused", "limit"}
    BY <2>1 DEF IInv, FaultOK, Manual, Incremental
  <2>3. PICK st \in Outcomes : Leave(st)
    BY <1>4 DEF UnwindToken
  <2>4. st \in {"NOMEM", "IO"}
    BY <1>1, <2>2, <2>3, OutcomeProperties
  <2> QED
    BY <2>1, <2>3, <2>4, ManualFails
<1>5. CASE UnwindIncremental
  <2>1. op.name \in Incremental /\ incremental_state' = "failed" /\ op.pc = "unwind"
    BY <1>5, CallAt DEF UnwindIncremental
  <2>2. incremental_state \in {"idle", "active"} /\ op.fault # "refused"
    BY <2>1 DEF IInv, DocumentOK, FaultOK, Incremental
  <2>3. PICK st \in Outcomes \cup {"NOMEM"} : Leave(st)
    BY <1>5 DEF UnwindIncremental
  <2>4. st \in {"NOMEM", "IO", "PARSE"}
    BY <1>1, <2>2, <2>3, OutcomeProperties
  <2> QED
    BY <2>1, <2>2, <2>3, <2>4, DocumentFails
<1>6. CASE UnwindRender
  <2>1. op.name = "render" /\ UNCHANGED incremental_state
    BY <1>6 DEF UnwindRender, document
  <2>2. op.fault # "limit"
    BY <2>1 DEF IInv, FaultOK, Incremental
  <2>3. PICK st \in Outcomes : Leave(st)
    BY <1>6 DEF UnwindRender
  <2>4. st \in {"INVALID", "NOMEM", "IO"}
    BY <1>1, <2>2, <2>3, OutcomeProperties
  <2> QED
    BY <2>1, <2>3, <2>4, RenderFails
<1> QED
  BY <1>2, <1>3, <1>4, <1>5, <1>6

LEMMA DiscardSeen == ASSUME IInv, Discard PROVE Lifecycle!Next
<1>1. CallClass = "reset" /\ incremental_state' = "idle"
  BY CallAt, ClassOf DEF Discard
<1>2. PICK st \in {"OK", "NOMEM", "IO"} : Leave(st)
  BY DEF Discard
<1> QED
  BY <1>1, <1>2, Leaves DEF Lifecycle!Discarded, Lifecycle!Return, Lifecycle!Next

(* The renderer implements the lifecycle mdf.h promises: whatever callbacks  *)
(* do in the middle of a call, the application sees a document that is begun *)
(* once, finished once, and latched by a failure until it is reset.          *)
THEOREM ImplementsLifecycle == Spec => LifecycleSpec
<1>1. ASSUME Init PROVE Lifecycle!Init
  <2>1. CallClass = "none"
    BY <1>1, NoOpFields, ClassOf DEF Init, Resets, Manual
  <2> QED
    BY <1>1, <2>1 DEF Init, Lifecycle!Init
<1>2. ASSUME IInv, [Next]_vars PROVE [Lifecycle!Next]_(Lifecycle!vars)
  <2>1. CASE Calls
    <3>1. ASSUME NEW s \in Sinks,
                 Feed(s) \/ FinishDocument(s) \/ WriteToken(s) \/ Finish(s) \/ Render(s)
          PROVE  Lifecycle!Next
      BY <1>2, <3>1, BeginSeen
    <3>2. ASSUME NEW g \in Geometries, SetGeometry(g) PROVE Lifecycle!Next
      BY <1>2, <3>2, SetGeometrySeen
    <3> QED
      BY <1>2, <2>1, <3>1, <3>2, ConfigurationSeen DEF Calls
  <2>2. CASE CallbackReturns
    BY <1>2, <2>2, CallbacksSeen
  <2>3. CASE LibraryStep
    BY <1>2, <2>3, InnerStepsSeen, OpeningSeen, SuccessSeen, FailureSeen, DiscardSeen
       DEF LibraryStep
  <2>4. CASE UNCHANGED vars
    BY <2>4, Stutters DEF vars, document, call
  <2> QED
    BY <1>2, <2>1, <2>2, <2>3, <2>4 DEF Next
<1> QED
  BY <1>1, <1>2, Invariance, PTL DEF Spec, LifecycleSpec, Lifecycle!Spec
=============================================================================
