----------------------------- MODULE MemoryPool -----------------------------
(***************************************************************************)
(* The reusable-memory pool of one renderer (mdf_memory, src/src/mdf.c).   *)
(*                                                                         *)
(* A block is a header with its capacity followed by the bytes handed out. *)
(* Freed blocks go to the front of free_list as long as they are small and *)
(* the list stays within the retention limit; an allocation takes the      *)
(* first listed block that is large enough.  The backing allocator is the  *)
(* application's: it may refuse at any time, in which case the call        *)
(* returns NULL and the pool is as it was (a stuttering step here).        *)
(***************************************************************************)
EXTENDS Integers, Sequences, Folds, Functions

CONSTANTS
    Blocks,         \* addresses of the backing allocator
    Clients,        \* buffers of the renderer that allocate from the pool
    Sizes,          \* sizes they request; a request for 0 bytes is one for 1
    NULL,
    opts_max_retained_bytes,        \* mdf_memory_options; 0 selects
    opts_max_reusable_block_bytes,  \* the library default
    DefaultMaxRetained,
    DefaultMaxReusableBlock

ASSUME SizesAssumption == Sizes \subseteq Nat \ {0}

ASSUME PoolOptionsAssumption ==
    /\ opts_max_retained_bytes \in Nat
    /\ opts_max_reusable_block_bytes \in Nat
    /\ DefaultMaxRetained \in Nat
    /\ DefaultMaxReusableBlock \in Nat

ASSUME NullAssumption == NULL \notin Blocks

(* A null pointer is not an object either. *)
ASSUME NoObjectAssumption == NULL \notin [size : Nat, data : Clients \cup {"unwritten"}]

VARIABLES
    free_list,      \* memory->free_list, its head first
    retained_bytes, \* memory->retained_bytes
    cap,            \* block->cap; 0 while the backing allocator owns the block
    bytes,          \* what a block's bytes hold: the last client to write them
    ptr,            \* the pointer each client holds
    requested       \* the size it asked for

pool_vars == <<free_list, retained_bytes, cap, bytes, ptr, requested>>

Unwritten == "unwritten"

MaxRetained ==
    IF opts_max_retained_bytes = 0 THEN DefaultMaxRetained
                                   ELSE opts_max_retained_bytes
MaxReusableBlock ==
    IF opts_max_reusable_block_bytes = 0 THEN DefaultMaxReusableBlock
                                         ELSE opts_max_reusable_block_bytes

-----------------------------------------------------------------------------
(* The pool's half of a call, on explicit pool states so that realloc can   *)
(* chain an allocation and a free.                                          *)

Pool == [list |-> free_list, retained |-> retained_bytes, cap |-> cap]

Fits(p, n) == {i \in DOMAIN p.list : p.cap[p.list[i]] >= n}

FirstFit(p, n) == {i \in Fits(p, n) : \A j \in Fits(p, n) : i <= j}

(* free_list with its i-th block unlinked, and with a block pushed in front. *)
Unlink(list, i) ==
    [j \in 1 .. Len(list) - 1 |-> IF j < i THEN list[j] ELSE list[j + 1]]
Push(list, b) ==
    [j \in 1 .. Len(list) + 1 |-> IF j = 1 THEN b ELSE list[j - 1]]

(* Fault: the block is handed out but stays listed. *)
ReuseStillListed(p, n) ==
    {[block |-> p.list[i], pool |-> p] : i \in FirstFit(p, n)}

(* Fault: the block is unlinked but still counted. *)
ReuseStillCounted(p, n) ==
    {[block |-> p.list[i], pool |-> [p EXCEPT !.list = Unlink(p.list, i)]]
        : i \in FirstFit(p, n)}

Reuse(p, n) ==
    {[block |-> p.list[i],
      pool  |-> [p EXCEPT !.list     = Unlink(p.list, i),
                          !.retained = p.retained - p.cap[p.list[i]]]]
        : i \in FirstFit(p, n)}

FromBacking(p, n) ==
    {[block |-> b, pool |-> [p EXCEPT !.cap[b] = n]]
        : b \in {x \in Blocks : Fits(p, n) = {} /\ p.cap[x] = 0}}

(* mdf_memory_alloc_cb: the block handed out and the pool it leaves.  Both   *)
(* sets are empty when the backing allocator has nothing left: NULL.         *)
Take(p, n) == Reuse(p, n) \cup FromBacking(p, n)

Retainable(p, b) ==
    /\ p.cap[b] <= MaxReusableBlock
    /\ p.retained <= MaxRetained
    /\ p.cap[b] <= MaxRetained - p.retained

(* mdf_memory_free_cb: the pool after block b came back. *)
GiveBack(p, b) ==
    IF Retainable(p, b)
    THEN [p EXCEPT !.list = Push(p.list, b),
                   !.retained = p.retained + p.cap[b]]
    ELSE [p EXCEPT !.cap[b] = 0]

Becomes(q) ==
    /\ free_list'      = q.list
    /\ retained_bytes' = q.retained
    /\ cap'            = q.cap

-----------------------------------------------------------------------------
PoolInit ==
    /\ free_list      = << >>
    /\ retained_bytes = 0
    /\ cap            = [b \in Blocks |-> 0]
    /\ bytes          = [b \in Blocks |-> Unwritten]
    /\ ptr            = [c \in Clients |-> NULL]
    /\ requested      = [c \in Clients |-> 0]

(* mdf_memory_alloc_cb, called with a size already raised to at least 1. *)
Alloc(c, n) ==
    /\ ptr[c] = NULL
    /\ \E t \in Take(Pool, n) :
        /\ Becomes(t.pool)
        /\ ptr' = [ptr EXCEPT ![c] = t.block]
    /\ requested' = [requested EXCEPT ![c] = n]
    /\ UNCHANGED bytes

Roomy(b, n) == n <= cap[b]

(* Fault: the old bytes are left behind. *)
NotCopied(to, from) == bytes

Copied(to, from) == [bytes EXCEPT ![to] = bytes[from]]

(* mdf_memory_realloc_cb on a block that is large enough already. *)
ReallocInPlace(c, n) ==
    /\ ptr[c] # NULL
    /\ Roomy(ptr[c], n)
    /\ requested' = [requested EXCEPT ![c] = n]
    /\ UNCHANGED <<free_list, retained_bytes, cap, bytes, ptr>>

(* mdf_memory_realloc_cb otherwise: allocate, copy, then free the old block. *)
ReallocMove(c, n) ==
    /\ ptr[c] # NULL
    /\ ~Roomy(ptr[c], n)
    /\ \E t \in Take(Pool, n) :
        /\ Becomes(GiveBack(t.pool, ptr[c]))
        /\ bytes' = Copied(t.block, ptr[c])
        /\ ptr' = [ptr EXCEPT ![c] = t.block]
    /\ requested' = [requested EXCEPT ![c] = n]

(* mdf_memory_free_cb. *)
Free(c) ==
    /\ ptr[c] # NULL
    /\ Becomes(GiveBack(Pool, ptr[c]))
    /\ ptr' = [ptr EXCEPT ![c] = NULL]
    /\ requested' = [requested EXCEPT ![c] = 0]
    /\ UNCHANGED bytes

(* The client fills its buffer, as far as it asked for. *)
Write(c) ==
    /\ ptr[c] # NULL
    /\ bytes' = [bytes EXCEPT ![ptr[c]] = c]
    /\ UNCHANGED <<free_list, retained_bytes, cap, ptr, requested>>

(* mdf_memory_destroy: mdf_method_destroy calls it once every buffer of the  *)
(* renderer was freed.  A new renderer may follow (mdf_memory_init).         *)
Destroy ==
    /\ \A c \in Clients : ptr[c] = NULL
    /\ free_list'      = << >>
    /\ retained_bytes' = 0
    /\ cap' = [b \in Blocks |-> IF \E i \in DOMAIN free_list : free_list[i] = b
                               THEN 0 ELSE cap[b]]
    /\ UNCHANGED <<bytes, ptr, requested>>

PoolNext ==
    \/ \E c \in Clients : Free(c) \/ Write(c)
    \/ \E c \in Clients, n \in Sizes :
            Alloc(c, n) \/ ReallocInPlace(c, n) \/ ReallocMove(c, n)
    \/ Destroy

PoolSpec == PoolInit /\ [][PoolNext]_pool_vars

-----------------------------------------------------------------------------
(* Properties *)

Listed == {free_list[i] : i \in DOMAIN free_list}
Held   == {ptr[c] : c \in Clients} \ {NULL}

(* Every variable keeps its type; the size_t counter never wraps below 0. *)
PoolTypeOK ==
    /\ free_list \in Seq(Blocks)
    /\ retained_bytes \in Nat
    /\ cap \in [Blocks -> Nat]
    /\ bytes \in [Blocks -> Clients \cup {Unwritten}]
    /\ ptr \in [Clients -> Blocks \cup {NULL}]
    /\ requested \in [Clients -> Nat]

(* Every block obtained from the application's allocator is either held by   *)
(* exactly one client or listed exactly once, never both and never neither:  *)
(* no call of alloc, realloc and free hands a block out twice, frees one     *)
(* that is in use, or loses one that mdf_memory_destroy must give back.      *)
Ownership ==
    /\ \A b \in Blocks : cap[b] # 0 <=> b \in Held \cup Listed
    /\ Held \cap Listed = {}
    /\ \A c, d \in Clients : ptr[c] = ptr[d] /\ ptr[c] # NULL => c = d
    /\ \A i, j \in DOMAIN free_list : free_list[i] = free_list[j] => i = j

(* A client never holds less than it asked for, whichever mix of reused,     *)
(* grown in place and moved blocks led there.                                *)
LargeEnough == \A c \in Clients : ptr[c] # NULL => cap[ptr[c]] >= requested[c]

(* The policy of mdf_memory_options holds for the memory really retained, and *)
(* not only for the counter: the capacities of the listed blocks, added up    *)
(* from the head of the list, come to retained_bytes and never exceed         *)
(* max_retained_bytes, and none of them exceeds max_reusable_block_bytes.  A  *)
(* block unlinked without being subtracted, or listed without being added,    *)
(* would leave a counter that no longer limits anything.                      *)
RetentionBounded ==
    /\ \E total \in [0 .. Len(free_list) -> 0 .. MaxRetained] :
            /\ total[0] = 0
            /\ \A i \in 1 .. Len(free_list) :
                   total[i] = total[i - 1] + cap[free_list[i]]
            /\ retained_bytes = total[Len(free_list)]
    /\ \A b \in Listed : cap[b] <= MaxReusableBlock

(* What clients see is a heap of separate objects: Heap is implemented.      *)
Objects == [c \in Clients |->
               IF ptr[c] = NULL THEN NULL
               ELSE [size |-> requested[c], data |-> bytes[ptr[c]]]]
HeapView == INSTANCE Heap WITH NoObject <- NULL, objects <- Objects
HeapSpec == HeapView!Spec
=============================================================================
