-------------------------- MODULE LuaBindingProofs --------------------------
(* Proofs about LuaBinding, for any threads, functions and depth.           *)
EXTENDS LuaBinding, TLAPS, FiniteSetTheorems, SequenceTheorems

-----------------------------------------------------------------------------
(* The inductive invariant.  A callback lies on the core call that makes    *)
(* it, a getter on the method that reads its token, a finalizer on the one  *)
(* that copies its result; nothing else lies on a core call.                *)
CallbackAt(i)  == frames[i].does = "callback"
CoreAt(i)      == frames[i].at = "core"
Fits(f) ==
    /\ f.at = "Lua" <=> f.does \in {"callback", "getter", "finalizer"}
    /\ f.does = "callback" => f.ctx # NoSlot
    /\ f.at = "token" => f.does = "write_token"
    /\ f.at = "copy" => f.does = "render"
LiesOn(g, f) ==
    /\ g.does = "callback" <=> f.at = "core"
    /\ g.does = "callback" /\ g.ctx = "reader" => f.does = "render_stream"
    /\ g.does = "getter" <=> f.at = "token"
    /\ g.does = "finalizer" <=> f.at = "copy"
Layered ==
    /\ \A i \in 1 .. Depth : Fits(frames[i])
    /\ Depth > 0 => frames[1].at # "Lua"
    /\ \A i, j \in 1 .. Depth : j = i + 1 => LiesOn(frames[j], frames[i])

(* The core is in one operation at most.                                    *)
OneCore ==
    /\ \A i, j \in 1 .. Depth : CoreAt(i) /\ CoreAt(j) => i = j
    /\ core.active <=> \E i \in 1 .. Depth : CoreAt(i)

(* What the counters of the handle count.                                   *)
Holds(f)  == f.at = "copy" \/ (f.does = "render_stream" /\ f.at = "core")
Holders(s) == {i \in 1 .. Len(s) : Holds(s[i])}
Counted == handle.operations = Cardinality(Holders(frames))
Entered ==
    \A c \in Contexts :
        handle.active[c] = IF \E i \in 1 .. Depth : CallbackAt(i) /\ frames[i].ctx = c THEN 1 ELSE 0

(* An error waits in the call it was raised in, which is the topmost frame. *)
ErrorWaits ==
    /\ handle.failure # NoThread => /\ Depth > 0 /\ CoreAt(Depth)
                                    /\ frames[Depth].raised = handle.failure
    /\ \A i \in 1 .. Depth :
          frames[i].raised # NoThread => /\ i = Depth /\ CoreAt(i) /\ frames[i].failed
                                         /\ handle.failure # NoThread

(* The core is bound to the context the handle says, but while set_sink     *)
(* changes it.                                                              *)
SinkKnown ==
    /\ \A i \in 1 .. Depth :
          frames[i].does = "set_sink" => /\ CoreAt(i) /\ frames[i].old = core.sink
                                         /\ handle.slot # core.sink /\ handle.slot # NoSlot
    /\ \/ core.sink = handle.slot
       \/ ~handle.open /\ core.sink = NoSlot
       \/ \E i \in 1 .. Depth : frames[i].does = "set_sink"

OpenKnown ==
    /\ kind = "nothing" => ~handle.open
    /\ handle.open => \A c \in Contexts : handle.thread[c] \in Threads

IInv ==
    /\ TypeOK /\ Layered /\ OneCore /\ Counted /\ Entered /\ ErrorWaits /\ SinkKnown /\ OpenKnown
    /\ WriterHeld /\ CallsKeepHandle /\ ErrorsReachCaller

-----------------------------------------------------------------------------
(* What a method answers with.                                              *)
AnswerType ==
    [raised : Threads \cup {NoThread}, thread : Threads \cup {NoThread},
     result : Errors \cup {"none", "error text", "true"}]
AnswerRight(a) ==
    /\ a.raised # NoThread <=> a.result \in Errors
    /\ a.raised = a.thread => a.result # "another value"

(* The frames after a call, a return and a change of the topmost one.       *)
LEMMA Pushed ==
    ASSUME frames \in Seq(FrameType), NEW f \in FrameType, frames' = Push(f)
    PROVE  /\ frames' \in Seq(FrameType) /\ Depth' = Depth + 1 /\ Depth \in Nat
           /\ \A i \in 1 .. Depth : frames'[i] = frames[i]
           /\ frames'[Depth + 1] = f
BY DEF Push, Depth

LEMMA Prefixed ==
    ASSUME NEW S, NEW s \in Seq(S), NEW n \in 0 .. Len(s)
    PROVE  /\ SubSeq(s, 1, n) \in Seq(S) /\ Len(SubSeq(s, 1, n)) = n
           /\ \A i \in 1 .. n : SubSeq(s, 1, n)[i] = s[i]
<1>1. \A i \in 1 .. n : s[i] \in S
  OBVIOUS
<1> QED
  BY <1>1, SubSeqProperties

LEMMA Popped ==
    ASSUME frames \in Seq(FrameType), Depth > 0, frames' = Below
    PROVE  /\ frames' \in Seq(FrameType) /\ Depth' = Depth - 1 /\ Depth \in Nat
           /\ \A i \in 1 .. Depth - 1 : frames'[i] = frames[i]
<1>1. Depth \in Nat /\ Depth - 1 \in 0 .. Len(frames)
  BY DEF Depth
<1> QED
  BY <1>1, Prefixed DEF Below, Depth

LEMMA PoppedTwo ==
    ASSUME frames \in Seq(FrameType), Depth > 1, frames' = SubSeq(frames, 1, Depth - 2)
    PROVE  /\ frames' \in Seq(FrameType) /\ Depth' = Depth - 2 /\ Depth \in Nat
           /\ \A i \in 1 .. Depth - 2 : frames'[i] = frames[i]
<1>1. Depth \in Nat /\ Depth - 2 \in 0 .. Len(frames)
  BY DEF Depth
<1> QED
  BY <1>1, Prefixed DEF Depth

(* The holding frames are finitely many, and a step adds or removes at most *)
(* the topmost.                                                             *)
LEMMA HoldersFinite ==
    ASSUME NEW s \in Seq(FrameType)
    PROVE  IsFiniteSet(Holders(s)) /\ Cardinality(Holders(s)) \in Nat
<1>1. IsFiniteSet(1 .. Len(s))
  BY FS_Interval
<1>2. Holders(s) \subseteq 1 .. Len(s)
  BY DEF Holders
<1> QED
  BY <1>1, <1>2, FS_Subset, FS_CardinalityType

LEMMA HoldersGrow ==
    ASSUME NEW s \in Seq(FrameType), NEW t \in Seq(FrameType), NEW n \in 1 .. Len(t),
           \A i \in (1 .. Len(t)) \ {n} : i \in 1 .. Len(s) /\ Holds(t[i]) = Holds(s[i]),
           \A i \in (1 .. Len(s)) \ {n} : i \in 1 .. Len(t),
           Holds(t[n]), n \in 1 .. Len(s) => ~Holds(s[n])
    PROVE  Cardinality(Holders(t)) = Cardinality(Holders(s)) + 1
<1>1. Holders(t) = Holders(s) \cup {n}
  BY DEF Holders
<1>2. n \notin Holders(s)
  BY DEF Holders
<1> QED
  BY <1>1, <1>2, HoldersFinite, FS_AddElement

LEMMA HoldersSame ==
    ASSUME NEW s \in Seq(FrameType), NEW t \in Seq(FrameType),
           \A i \in 1 .. Len(t) : Holds(t[i]) => i \in 1 .. Len(s) /\ Holds(s[i]),
           \A i \in 1 .. Len(s) : Holds(s[i]) => i \in 1 .. Len(t) /\ Holds(t[i])
    PROVE  Holders(t) = Holders(s)
BY DEF Holders
-----------------------------------------------------------------------------
LEMMA FramesTyped ==
    ASSUME IInv
    PROVE  /\ frames \in Seq(FrameType) /\ Depth \in Nat /\ Depth = Len(frames)
           /\ \A i \in 1 .. Depth : frames[i] \in FrameType
<1>1. frames \in Seq(FrameType)
  BY DEF IInv, TypeOK
<1>2. Depth \in Nat /\ Depth = Len(frames)
  BY <1>1 DEF Depth
<1> QED
  BY <1>1, <1>2

(* What the invariant says when Lua code runs.                              *)
LEMMA LuaRunsFacts ==
    ASSUME IInv, LuaRuns
    PROVE  /\ handle.failure = NoThread
           /\ core.active => CallbacksActive(handle)
           /\ ~core.active => \A i \in 1 .. Depth : ~CoreAt(i)
           /\ Depth \in Nat
<1>0. Depth \in Nat /\ Depth = Len(frames) /\ \A i \in 1 .. Depth : frames[i] \in FrameType
  BY FramesTyped
<1>1. handle.failure = NoThread
  BY <1>0 DEF IInv, ErrorWaits, LuaRuns, Top, CoreAt
<1>2. ASSUME core.active PROVE CallbacksActive(handle)
  <2>1. PICK i \in 1 .. Depth : CoreAt(i)
    BY <1>2 DEF IInv, OneCore
  <2>2. i < Depth
    BY <2>1, <1>0 DEF LuaRuns, CoreAt, Top
  <2>3. i + 1 \in 1 .. Depth /\ CallbackAt(i + 1) /\ frames[i + 1] \in FrameType
    BY <2>1, <2>2, <1>0 DEF IInv, Layered, LiesOn, CoreAt, CallbackAt
  <2>4. CASE frames[i + 1].ctx = "reader"
    <3>1. frames[i].does = "render_stream"
      BY <2>3, <2>4, <1>0 DEF IInv, Layered, LiesOn, CallbackAt
    <3>2. i \in Holders(frames)
      BY <3>1, <2>1, <1>0 DEF Holders, Holds, CoreAt
    <3>3. Cardinality(Holders(frames)) # 0
      BY <3>2, HoldersFinite, FramesTyped, FS_EmptySet
    <3>4. Cardinality(Holders(frames)) \in Nat
      BY HoldersFinite, FramesTyped
    <3>5. handle.operations = Cardinality(Holders(frames))
      BY DEF IInv, Counted
    <3> QED
      BY <3>3, <3>4, <3>5 DEF CallbacksActive
  <2>5. CASE frames[i + 1].ctx \in Contexts
    BY <2>3, <2>5 DEF IInv, Entered, CallbacksActive
  <2> QED
    BY <2>3, <2>4, <2>5, <1>0 DEF FrameType, IInv, Layered, Fits, CallbackAt
<1>3. ~core.active => \A i \in 1 .. Depth : ~CoreAt(i)
  BY DEF IInv, OneCore
<1> QED
  BY <1>0, <1>1, <1>2, <1>3
LEMMA HandleTyped ==
    ASSUME IInv
    PROVE  /\ handle \in HandleType /\ handle.operations \in Nat
           /\ handle.slot \in Sinks \cup {NoSlot} /\ handle.failure \in Threads \cup {NoThread}
           /\ core \in [active : BOOLEAN, sink : Sinks \cup {NoSlot}, traced : BOOLEAN]
           /\ kind \in Kinds \cup {"nothing"}
           /\ writer \in Values
<1>1. /\ handle \in HandleType
      /\ core \in [active : BOOLEAN, sink : Sinks \cup {NoSlot}, traced : BOOLEAN]
      /\ kind \in Kinds \cup {"nothing"} /\ writer \in Values
  BY DEF IInv, TypeOK
<1> QED
  BY <1>1 DEF HandleType

(* Refreshing the contexts changes their threads and nothing else.          *)
LEMMA RefreshedFacts ==
    ASSUME IInv, NEW t \in Threads
    PROVE  LET h == Refreshed(handle, t) IN
           /\ h \in HandleType
           /\ h.open = handle.open /\ h.operations = handle.operations
           /\ h.failure = handle.failure /\ h.slot = handle.slot
           /\ h.active = handle.active /\ h.value = handle.value
           /\ handle.open => \A c \in Contexts : h.thread[c] \in Threads
<1>1. handle \in HandleType
  BY HandleTyped
<1>2. [c \in Contexts |-> t] \in [Contexts -> Threads \cup {NoThread}]
  OBVIOUS
<1>3. handle.open => \A c \in Contexts : handle.thread[c] \in Threads
  BY DEF IInv, OpenKnown
<1> QED
  BY <1>1, <1>2, <1>3 DEF Refreshed, HandleType
-----------------------------------------------------------------------------
(* Frames that are laid on, taken off and changed.                          *)
LEMMA LayerOn ==
    ASSUME IInv, NEW f \in FrameType, frames' = Push(f), Fits(f),
           Depth = 0 => f.at # "Lua", Depth > 0 => LiesOn(f, Top)
    PROVE  Layered'
<1>1. /\ Depth' = Depth + 1 /\ Depth \in Nat
      /\ \A i \in 1 .. Depth : frames'[i] = frames[i]
      /\ frames'[Depth + 1] = f
  BY FramesTyped, Pushed
<1>2. Layered
  BY DEF IInv
<1>3. \A i \in 1 .. Depth' : Fits(frames'[i])
  BY <1>1, <1>2 DEF Layered
<1>4. Depth' > 0 => frames'[1].at # "Lua"
  BY <1>1, <1>2 DEF Layered
<1>5. ASSUME NEW i \in 1 .. Depth', NEW j \in 1 .. Depth', j = i + 1
      PROVE  LiesOn(frames'[j], frames'[i])
  BY <1>1, <1>2, <1>5 DEF Layered, Top
<1> QED
  BY <1>3, <1>4, <1>5 DEF Layered

LEMMA LayerOff ==
    ASSUME IInv, NEW n \in 0 .. Depth, Depth' = n,
           \A i \in 1 .. n : /\ frames'[i].does = frames[i].does /\ frames'[i].at = frames[i].at
                             /\ frames'[i].ctx = frames[i].ctx
    PROVE  Layered'
<1>1. Layered /\ Depth \in Nat
  BY FramesTyped DEF IInv
<1>2. \A i \in 1 .. n : Fits(frames'[i])
  BY <1>1 DEF Layered, Fits
<1>3. n > 0 => frames'[1].at # "Lua"
  BY <1>1 DEF Layered
<1>4. ASSUME NEW i \in 1 .. n, NEW j \in 1 .. n, j = i + 1
      PROVE  LiesOn(frames'[j], frames'[i])
  BY <1>1, <1>4 DEF Layered, LiesOn
<1> QED
  BY <1>2, <1>3, <1>4 DEF Layered
LEMMA CoreOn ==
    ASSUME IInv, NEW f \in FrameType, frames' = Push(f),
           IF f.at = "core" THEN ~core.active /\ core'.active ELSE core'.active = core.active
    PROVE  OneCore'
<1>1. /\ Depth' = Depth + 1 /\ Depth \in Nat
      /\ \A i \in 1 .. Depth : frames'[i] = frames[i]
      /\ frames'[Depth + 1] = f
  BY FramesTyped, Pushed
<1>2. OneCore
  BY DEF IInv
<1> QED
  BY <1>1, <1>2 DEF OneCore, CoreAt

LEMMA CoreOff ==
    ASSUME IInv, NEW n \in 0 .. Depth, Depth' = n,
           \A i \in 1 .. n : frames'[i].at = frames[i].at,
           \/ core'.active = core.active /\ \A i \in n + 1 .. Depth : ~CoreAt(i)
           \/ n = Depth - 1 /\ CoreAt(Depth) /\ ~core'.active
    PROVE  OneCore'
<1>1. OneCore /\ Depth \in Nat
  BY FramesTyped DEF IInv
<1>2. CASE core'.active = core.active /\ \A i \in n + 1 .. Depth : ~CoreAt(i)
  <2>1. (\E i \in 1 .. n : CoreAt(i)') <=> \E i \in 1 .. Depth : CoreAt(i)
    BY <1>1, <1>2 DEF CoreAt
  <2> QED
    BY <1>1, <1>2, <2>1 DEF OneCore, CoreAt
<1>3. CASE n = Depth - 1 /\ CoreAt(Depth) /\ ~core'.active
  BY <1>1, <1>3 DEF OneCore, CoreAt
<1> QED
  BY <1>2, <1>3

(* A call of the core lies below a callback at most, and the other way      *)
(* round.                                                                   *)
LEMMA CallbackBelow ==
    ASSUME IInv, NEW i \in 1 .. Depth, CallbackAt(i)
    PROVE  i > 1 /\ CoreAt(i - 1) /\ i - 1 \in 1 .. Depth
<1>1. Layered /\ Depth \in Nat
  BY FramesTyped DEF IInv
<1>2. i > 1
  BY <1>1 DEF Layered, Fits, CallbackAt
<1>3. i - 1 \in 1 .. Depth /\ i = (i - 1) + 1
  BY <1>1, <1>2
<1>4. LiesOn(frames[i], frames[i - 1])
  BY <1>1, <1>3 DEF Layered
<1> QED
  BY <1>2, <1>3, <1>4 DEF LiesOn, CallbackAt, CoreAt

LEMMA OneCallback ==
    ASSUME IInv, NEW i \in 1 .. Depth, NEW j \in 1 .. Depth, CallbackAt(i),
           CallbackAt(j) \/ CoreAt(j)
    PROVE  j = IF CallbackAt(j) THEN i ELSE i - 1
<1>1. CoreAt(i - 1) /\ i - 1 \in 1 .. Depth
  BY CallbackBelow
<1>2. ASSUME CallbackAt(j) PROVE CoreAt(j - 1) /\ j - 1 \in 1 .. Depth
  BY <1>2, CallbackBelow
<1>3. \A a, b \in 1 .. Depth : CoreAt(a) /\ CoreAt(b) => a = b
  BY DEF IInv, OneCore
<1>4. Depth \in Nat
  BY FramesTyped
<1>5. CASE CallbackAt(j)
  BY <1>1, <1>2, <1>3, <1>4, <1>5
<1>6. CASE ~CallbackAt(j) /\ CoreAt(j)
  BY <1>1, <1>3, <1>4, <1>6
<1> QED
  BY <1>5, <1>6

(* The counters of callbacks and of operations.                             *)
LEMMA EnteredOn ==
    ASSUME IInv, NEW f \in FrameType, frames' = Push(f), f.does # "callback",
           handle'.active = handle.active
    PROVE  Entered'
<1>1. /\ Depth' = Depth + 1 /\ Depth \in Nat
      /\ \A i \in 1 .. Depth : frames'[i] = frames[i]
      /\ frames'[Depth + 1] = f
  BY FramesTyped, Pushed
<1>2. Entered
  BY DEF IInv
<1>3. ASSUME NEW c \in Contexts
      PROVE  (\E i \in 1 .. Depth' : CallbackAt(i)' /\ frames'[i].ctx = c)
                <=> \E i \in 1 .. Depth : CallbackAt(i) /\ frames[i].ctx = c
  BY <1>1 DEF CallbackAt
<1> QED
  BY <1>2, <1>3 DEF Entered

LEMMA EnteredOff ==
    ASSUME IInv, NEW n \in 0 .. Depth, Depth' = n,
           \A i \in 1 .. n : frames'[i].does = frames[i].does /\ frames'[i].ctx = frames[i].ctx,
           \A i \in n + 1 .. Depth : ~CallbackAt(i), handle'.active = handle.active
    PROVE  Entered'
<1>1. Entered /\ Depth \in Nat
  BY FramesTyped DEF IInv
<1>2. ASSUME NEW c \in Contexts
      PROVE  (\E i \in 1 .. Depth' : CallbackAt(i)' /\ frames'[i].ctx = c)
                <=> \E i \in 1 .. Depth : CallbackAt(i) /\ frames[i].ctx = c
  BY <1>1 DEF CallbackAt
<1> QED
  BY <1>1, <1>2 DEF Entered

LEMMA CountedOn ==
    ASSUME IInv, NEW f \in FrameType, frames' = Push(f),
           handle'.operations = handle.operations + IF Holds(f) THEN 1 ELSE 0
    PROVE  Counted'
<1>1. /\ frames' \in Seq(FrameType) /\ Depth' = Depth + 1 /\ Depth \in Nat
      /\ Depth = Len(frames) /\ Depth' = Len(frames')
      /\ \A i \in 1 .. Depth : frames'[i] = frames[i]
      /\ frames'[Depth + 1] = f /\ frames \in Seq(FrameType)
  BY FramesTyped, Pushed DEF Depth
<1>2. Counted /\ Cardinality(Holders(frames)) \in Nat
  BY FramesTyped, HoldersFinite DEF IInv
<1>3. CASE Holds(f)
  <2>1. Cardinality(Holders(frames')) = Cardinality(Holders(frames)) + 1
    <3> DEFINE n == Depth + 1
    <3>1. n \in 1 .. Len(frames') /\ n \notin 1 .. Len(frames) /\ Holds(frames'[n])
      BY <1>1, <1>3
    <3>2. \A i \in (1 .. Len(frames')) \ {n} : i \in 1 .. Len(frames) /\ Holds(frames'[i]) = Holds(frames[i])
      BY <1>1
    <3>3. \A i \in (1 .. Len(frames)) \ {n} : i \in 1 .. Len(frames')
      BY <1>1
    <3> HIDE DEF n
    <3> QED
      BY <1>1, <3>1, <3>2, <3>3, HoldersGrow
  <2> QED
    BY <1>2, <1>3, <2>1 DEF Counted
<1>4. CASE ~Holds(f)
  <2>1. Holders(frames') = Holders(frames)
    <3>1. \A i \in 1 .. Len(frames') : Holds(frames'[i]) => i \in 1 .. Len(frames) /\ Holds(frames[i])
      BY <1>1, <1>4
    <3>2. \A i \in 1 .. Len(frames) : Holds(frames[i]) => i \in 1 .. Len(frames') /\ Holds(frames'[i])
      BY <1>1
    <3> QED
      BY <1>1, <3>1, <3>2, HoldersSame
  <2> QED
    BY <1>2, <1>4, <2>1 DEF Counted
<1> QED
  BY <1>3, <1>4
LEMMA CountedOff ==
    ASSUME IInv, NEW n \in 0 .. Depth, frames' \in Seq(FrameType), Depth' = n,
           \A i \in 1 .. n : Holds(frames'[i]) = Holds(frames[i]),
           \/ handle'.operations = handle.operations /\ \A i \in n + 1 .. Depth : ~Holds(frames[i])
           \/ handle'.operations = handle.operations - 1 /\ n = Depth - 1 /\ Holds(frames[Depth])
    PROVE  Counted' /\ handle'.operations \in Nat
<1>1. /\ frames \in Seq(FrameType) /\ Depth \in Nat /\ Depth = Len(frames) /\ n = Len(frames')
  BY FramesTyped DEF Depth
<1>2. /\ Counted /\ Cardinality(Holders(frames)) \in Nat
      /\ Cardinality(Holders(frames')) \in Nat
  BY <1>1, HoldersFinite DEF IInv
<1>3. CASE handle'.operations = handle.operations /\ \A i \in n + 1 .. Depth : ~Holds(frames[i])
  <2>1. \A i \in 1 .. Len(frames') : Holds(frames'[i]) => i \in 1 .. Len(frames) /\ Holds(frames[i])
    BY <1>1
  <2>2. \A i \in 1 .. Len(frames) : Holds(frames[i]) => i \in 1 .. Len(frames') /\ Holds(frames'[i])
    BY <1>1, <1>3
  <2>3. Holders(frames') = Holders(frames)
    BY <1>1, <2>1, <2>2, HoldersSame
  <2> QED
    BY <1>2, <1>3, <2>3 DEF Counted
<1>4. CASE handle'.operations = handle.operations - 1 /\ n = Depth - 1 /\ Holds(frames[Depth])
  <2>1. Depth \in 1 .. Len(frames) /\ Depth \notin 1 .. Len(frames')
    BY <1>1, <1>4
  <2>2. \A i \in (1 .. Len(frames)) \ {Depth} : i \in 1 .. Len(frames') /\ Holds(frames[i]) = Holds(frames'[i])
    BY <1>1, <1>4
  <2>3. \A i \in (1 .. Len(frames')) \ {Depth} : i \in 1 .. Len(frames)
    BY <1>1
  <2>4. Cardinality(Holders(frames)) = Cardinality(Holders(frames')) + 1
    BY <1>1, <1>4, <2>1, <2>2, <2>3, HoldersGrow
  <2> QED
    BY <1>2, <1>4, <2>4 DEF Counted
<1> QED
  BY <1>3, <1>4

LEMMA OpenOff ==
    ASSUME IInv, NEW n \in 0 .. Depth, Depth' = n, handle'.open = handle.open,
           \A i \in 1 .. n : frames'[i].at = frames[i].at
    PROVE  CallsKeepHandle'
<1>1. CallsKeepHandle /\ Depth \in Nat
  BY FramesTyped DEF IInv
<1> QED
  BY <1>1 DEF CallsKeepHandle

(* Errors and sinks.                                                        *)
LEMMA ErrorOn ==
    ASSUME IInv, NEW f \in FrameType, frames' = Push(f), f.raised = NoThread,
           handle.failure = NoThread, handle'.failure = NoThread
    PROVE  ErrorWaits'
<1>1. /\ Depth' = Depth + 1 /\ Depth \in Nat
      /\ \A i \in 1 .. Depth : frames'[i] = frames[i]
      /\ frames'[Depth + 1] = f
  BY FramesTyped, Pushed
<1>2. \A i \in 1 .. Depth : frames[i].raised = NoThread
  BY DEF IInv, ErrorWaits
<1>3. \A i \in 1 .. Depth' : frames'[i].raised = NoThread
  BY <1>1, <1>2
<1> QED
  BY <1>3 DEF ErrorWaits

LEMMA ErrorOff ==
    ASSUME IInv, NEW n \in 0 .. Depth, Depth' = n, n < Depth \/ handle.failure = NoThread,
           \A i \in 1 .. n : frames'[i].raised = frames[i].raised, handle'.failure = NoThread
    PROVE  ErrorWaits'
<1>1. \A i \in 1 .. Depth : frames[i].raised # NoThread => i = Depth /\ handle.failure # NoThread
  BY DEF IInv, ErrorWaits
<1>2. Depth \in Nat
  BY FramesTyped
<1>3. \A i \in 1 .. Depth' : frames'[i].raised = NoThread
  BY <1>1, <1>2
<1> QED
  BY <1>3 DEF ErrorWaits

LEMMA SinkOn ==
    ASSUME IInv, NEW f \in FrameType, frames' = Push(f), f.does # "set_sink",
           handle'.slot = handle.slot, handle'.open = handle.open, core'.sink = core.sink
    PROVE  SinkKnown'
<1>1. /\ Depth' = Depth + 1 /\ Depth \in Nat
      /\ \A i \in 1 .. Depth : frames'[i] = frames[i]
      /\ frames'[Depth + 1] = f
  BY FramesTyped, Pushed
<1>2. SinkKnown
  BY DEF IInv
<1>3. (\E i \in 1 .. Depth : frames[i].does = "set_sink") => \E i \in 1 .. Depth' : frames'[i].does = "set_sink"
  BY <1>1
<1> QED
  BY <1>1, <1>2, <1>3 DEF SinkKnown, CoreAt

LEMMA SinkOff ==
    ASSUME IInv, NEW n \in 0 .. Depth, Depth' = n,
           \A i \in 1 .. n : /\ frames'[i].does = frames[i].does /\ frames'[i].old = frames[i].old
                             /\ frames[i].does = "set_sink" => frames'[i].at = frames[i].at,
           \A i \in n + 1 .. Depth : frames[i].does # "set_sink",
           handle'.slot = handle.slot, handle'.open = handle.open, core'.sink = core.sink
    PROVE  SinkKnown'
<1>1. SinkKnown /\ Depth \in Nat
  BY FramesTyped DEF IInv
<1>2. (\E i \in 1 .. Depth : frames[i].does = "set_sink") => \E i \in 1 .. n : frames'[i].does = "set_sink"
  BY <1>1
<1> QED
  BY <1>1, <1>2 DEF SinkKnown, CoreAt
-----------------------------------------------------------------------------
(* A step that lays a frame on the others and binds no writer.              *)
LEMMA PushKeeps ==
    ASSUME IInv, NEW f \in FrameType, frames' = Push(f), Fits(f),
           Depth = 0 => f.at # "Lua", Depth > 0 => LiesOn(f, Top),
           f.raised = NoThread, f.does # "set_sink", f.does # "callback",
           f.at \in {"core", "copy"} => handle.open,
           handle.failure = NoThread,
           handle' \in HandleType, handle'.open = handle.open, handle'.failure = handle.failure,
           handle'.slot = handle.slot, handle'.active = handle.active, handle'.value = handle.value,
           handle'.open => \A c \in Contexts : handle'.thread[c] \in Threads,
           handle'.operations = handle.operations + IF Holds(f) THEN 1 ELSE 0,
           core' = IF f.at = "core" THEN [core EXCEPT !.active = TRUE] ELSE core,
           f.at = "core" => ~core.active,
           UNCHANGED <<kind, writer, answer>>
    PROVE  IInv'
<1>0. /\ Depth' = Depth + 1 /\ Depth \in Nat /\ frames' \in Seq(FrameType)
      /\ \A i \in 1 .. Depth : frames'[i] = frames[i]
      /\ frames'[Depth + 1] = f
  BY FramesTyped, Pushed
<1>1. /\ core'.sink = core.sink
      /\ IF f.at = "core" THEN ~core.active /\ core'.active ELSE core'.active = core.active
      /\ core' \in [active : BOOLEAN, sink : Sinks \cup {NoSlot}, traced : BOOLEAN]
  BY HandleTyped
<1>2. TypeOK'
  BY <1>0, <1>1 DEF IInv, TypeOK
<1>3. Layered'
  BY LayerOn
<1>4. OneCore'
  BY <1>1, CoreOn
<1>5. Counted' /\ Entered'
  BY CountedOn, EnteredOn
<1>6. ErrorWaits'
  BY ErrorOn
<1>7. SinkKnown'
  BY <1>1, SinkOn
<1>8. OpenKnown'
  BY DEF IInv, OpenKnown
<1>9. WriterHeld'
  BY <1>1 DEF IInv, WriterHeld
<1>10. CallsKeepHandle'
  <2>1. CallsKeepHandle
    BY DEF IInv
  <2> QED
    BY <1>0, <2>1 DEF CallsKeepHandle
<1>11. ErrorsReachCaller'
  BY DEF IInv, ErrorsReachCaller, AnswerRight
<1> QED
  BY <1>2, <1>3, <1>4, <1>5, <1>6, <1>7, <1>8, <1>9, <1>10, <1>11 DEF IInv
(* What methods and Lua functions push is well formed.                      *)
LEMMA MethodFits ==
    ASSUME IInv, NEW t \in Threads, NEW op \in Methods("handle") \cup {"set_sink"},
           NEW at \in {"core", "token"}, at = "token" => op = "write_token", LuaRuns
    PROVE  LET f == Method(op, t, at) IN
           /\ f \in FrameType /\ Fits(f) /\ f.raised = NoThread /\ f.does = op /\ f.at = at
           /\ f.old = handle.slot /\ f.thread = t
           /\ Depth = 0 => f.at # "Lua"
           /\ Depth > 0 => LiesOn(f, Top)
           /\ f.does # "callback"
BY HandleTyped DEF Method, FrameType, Fits, LiesOn, LuaRuns, Methods

LEMMA RunningFits ==
    ASSUME IInv, NEW t \in Threads, NEW ctx \in Contexts \cup {NoSlot, "reader"},
           NEW does \in {"callback", "getter", "finalizer"}, does = "callback" => ctx # NoSlot,
           Depth > 0,
           does = "callback" <=> Top.at = "core",
           does = "callback" /\ ctx = "reader" => Top.does = "render_stream",
           does = "getter" <=> Top.at = "token", does = "finalizer" <=> Top.at = "copy"
    PROVE  LET f == Running(does, ctx, t) IN
           /\ f \in FrameType /\ Fits(f) /\ f.raised = NoThread /\ f.does = does /\ f.at = "Lua"
           /\ f.ctx = ctx /\ LiesOn(f, Top) /\ ~Holds(f)
BY DEF Running, FrameType, Fits, LiesOn, Holds, Methods

LEMMA CallKeeps ==
    ASSUME IInv, NEW t \in Threads, NEW op, Call(op, t)
    PROVE  IInv'
<1> DEFINE f == Method(op, t, "core")
           h == Refreshed(handle, t)
<1>1. /\ LuaRuns /\ handle.open /\ op \in Methods("handle") /\ op # "write_token" /\ ~core.active
      /\ frames' = Push(f) /\ core' = [core EXCEPT !.active = TRUE]
      /\ handle' = IF op = "render_stream" THEN [h EXCEPT !.operations = @ + 1] ELSE h
      /\ UNCHANGED <<kind, writer, answer>>
  BY DEF Call, Ready, CoreTakes, Methods
<1>2. /\ f \in FrameType /\ Fits(f) /\ f.raised = NoThread /\ f.does = op /\ f.at = "core"
      /\ Depth = 0 => f.at # "Lua"
      /\ Depth > 0 => LiesOn(f, Top)
      /\ f.does # "callback"
  BY <1>1, MethodFits
<1>3. /\ h \in HandleType
      /\ h.open = handle.open /\ h.operations = handle.operations
      /\ h.failure = handle.failure /\ h.slot = handle.slot
      /\ h.active = handle.active /\ h.value = handle.value
      /\ handle.open => \A c \in Contexts : h.thread[c] \in Threads
  BY RefreshedFacts
<1>4. handle.failure = NoThread
  BY <1>1, LuaRunsFacts
<1>5. Holds(f) <=> op = "render_stream"
  BY <1>2 DEF Holds
<1>6. /\ handle' \in HandleType /\ handle'.open = handle.open /\ handle'.failure = handle.failure
      /\ handle'.slot = handle.slot /\ handle'.active = handle.active /\ handle'.value = handle.value
      /\ handle'.open => \A c \in Contexts : handle'.thread[c] \in Threads
      /\ handle'.operations = handle.operations + IF Holds(f) THEN 1 ELSE 0
  <2>0. handle.operations \in Nat /\ (Holds(f) => h.operations + 1 \in Nat)
    BY <1>3, HandleTyped
  <2> HIDE DEF h, f
  <2>1. CASE op = "render_stream"
    <3>1. handle' = [h EXCEPT !.operations = h.operations + 1]
      BY <1>1, <2>1
    <3>2. handle' \in HandleType
      BY <1>3, <1>5, <2>0, <2>1, <3>1 DEF HandleType
    <3>3. /\ handle'.open = h.open /\ handle'.failure = h.failure /\ handle'.slot = h.slot
          /\ handle'.active = h.active /\ handle'.value = h.value /\ handle'.thread = h.thread
          /\ handle'.operations = h.operations + 1
      BY <1>3, <3>1 DEF HandleType
    <3> QED
      BY <1>3, <1>5, <2>1, <3>2, <3>3
  <2>2. CASE op # "render_stream"
    <3>1. handle' = h
      BY <1>1, <2>2
    <3> QED
      BY <1>3, <1>5, <2>0, <2>2, <3>1
  <2> QED
    BY <2>1, <2>2
<1>7. op # "set_sink"
  BY <1>1 DEF Methods
<1> HIDE DEF f
<1> QED
  BY <1>1, <1>2, <1>4, <1>6, <1>7, PushKeeps

LEMMA ReadTokenKeeps ==
    ASSUME IInv, NEW t \in Threads, ReadToken(t)
    PROVE  IInv'
<1> DEFINE f == Method("write_token", t, "token")
<1>1. LuaRuns /\ handle.open /\ frames' = Push(f) /\ handle' = Refreshed(handle, t)
      /\ UNCHANGED <<kind, core, writer, answer>>
  BY DEF ReadToken, Ready
<1>2. /\ f \in FrameType /\ Fits(f) /\ f.raised = NoThread /\ f.does = "write_token" /\ f.at = "token"
      /\ Depth = 0 => f.at # "Lua"
      /\ Depth > 0 => LiesOn(f, Top)
  <2>1. "write_token" \in Methods("handle")
    BY DEF Methods
  <2> QED
    BY <1>1, <2>1, MethodFits
<1>3. handle.failure = NoThread
  BY <1>1, LuaRunsFacts
<1>4. ~Holds(f)
  BY <1>2 DEF Holds
<1>5. /\ handle' \in HandleType /\ handle'.open = handle.open /\ handle'.failure = handle.failure
      /\ handle'.slot = handle.slot /\ handle'.active = handle.active /\ handle'.value = handle.value
      /\ handle'.open => \A c \in Contexts : handle'.thread[c] \in Threads
      /\ handle'.operations = handle.operations
  BY <1>1, RefreshedFacts
<1>6. handle.operations \in Nat
  BY HandleTyped
<1> HIDE DEF f
<1> QED
  BY <1>1, <1>2, <1>3, <1>4, <1>5, <1>6, PushKeeps

LEMMA RunGetterKeeps ==
    ASSUME IInv, RunGetter
    PROVE  IInv'
<1> DEFINE f == Running("getter", NoSlot, Top.thread)
<1>1. Depth > 0 /\ Top.at = "token" /\ frames' = Push(f) /\ UNCHANGED <<kind, handle, core, writer, answer>>
  BY DEF RunGetter, Reading
<1>2. Top \in FrameType
  BY <1>1, FramesTyped DEF Top
<1>3. /\ f \in FrameType /\ Fits(f) /\ f.raised = NoThread /\ f.does = "getter" /\ f.at = "Lua"
      /\ LiesOn(f, Top) /\ ~Holds(f)
  BY <1>1, <1>2, RunningFits DEF FrameType
<1>4. handle.failure = NoThread
  BY <1>1 DEF IInv, ErrorWaits, CoreAt, Top
<1>5. handle.open => \A c \in Contexts : handle.thread[c] \in Threads
  BY DEF IInv, OpenKnown
<1> HIDE DEF f
<1> QED
  BY <1>1, <1>3, <1>4, <1>5, HandleTyped, PushKeeps

LEMMA RunFinalizerKeeps ==
    ASSUME IInv, RunFinalizer
    PROVE  IInv'
<1> DEFINE f == Running("finalizer", NoSlot, Top.thread)
<1>1. Depth > 0 /\ Top.at = "copy" /\ frames' = Push(f) /\ UNCHANGED <<kind, handle, core, writer, answer>>
  BY DEF RunFinalizer, Copying
<1>2. Top \in FrameType
  BY <1>1, FramesTyped DEF Top
<1>3. /\ f \in FrameType /\ Fits(f) /\ f.raised = NoThread /\ f.does = "finalizer" /\ f.at = "Lua"
      /\ LiesOn(f, Top) /\ ~Holds(f)
  BY <1>1, <1>2, RunningFits DEF FrameType
<1>4. handle.failure = NoThread
  BY <1>1 DEF IInv, ErrorWaits, CoreAt, Top
<1>5. handle.open => \A c \in Contexts : handle.thread[c] \in Threads
  BY DEF IInv, OpenKnown
<1> HIDE DEF f
<1> QED
  BY <1>1, <1>3, <1>4, <1>5, HandleTyped, PushKeeps
(* set_sink comes when nothing is counted, so no frame is in the core and   *)
(* the core is bound to the context the handle says.                        *)
LEMMA SetSinkKeeps ==
    ASSUME IInv, NEW t \in Threads, NEW g \in Functions, SetSink(t, g)
    PROVE  IInv'
<1> DEFINE f == Method("set_sink", t, "core")
           free == FreeSink(handle)
           h == Refreshed(handle, t)
<1>1. /\ LuaRuns /\ handle.open /\ ~CallbacksActive(handle) /\ frames' = Push(f)
      /\ handle' = [h EXCEPT !.active[free] = 0, !.value[free] = g, !.slot = free]
      /\ core' = [core EXCEPT !.active = TRUE]
      /\ UNCHANGED <<kind, writer, answer>>
  BY DEF SetSink
<1>2. /\ f \in FrameType /\ Fits(f) /\ f.raised = NoThread /\ f.does = "set_sink" /\ f.at = "core"
      /\ Depth = 0 => f.at # "Lua"
      /\ Depth > 0 => LiesOn(f, Top)
      /\ f.old = handle.slot
  BY <1>1, MethodFits
<1>3. /\ handle.failure = NoThread /\ ~core.active /\ Depth \in Nat
      /\ \A i \in 1 .. Depth : ~CoreAt(i)
  BY <1>1, LuaRunsFacts
<1>4. /\ free \in Sinks /\ free # handle.slot /\ free # NoSlot /\ free \in Contexts
  BY HandleTyped DEF FreeSink, Sinks, NoSlot, Contexts
<1>5. /\ h \in HandleType
      /\ h.open = handle.open /\ h.operations = handle.operations
      /\ h.failure = handle.failure /\ h.slot = handle.slot
      /\ h.active = handle.active /\ h.value = handle.value
      /\ \A c \in Contexts : h.thread[c] \in Threads
  BY <1>1, RefreshedFacts
<1>6. handle.active[free] = 0
  <2>1. ~handle.active[free] > 0
    BY <1>1, <1>4 DEF CallbacksActive
  <2> QED
    BY <1>4, <2>1, HandleTyped DEF HandleType
<1>7. /\ handle' \in HandleType /\ handle'.open = h.open /\ handle'.failure = h.failure
      /\ handle'.operations = h.operations /\ handle'.active = h.active /\ handle'.thread = h.thread
      /\ handle'.slot = free
      /\ handle'.value = [h.value EXCEPT ![free] = g]
  <2> HIDE DEF h, free
  <2>1. g \in Values /\ h.active[free] = 0 /\ h.active \in [Contexts -> 0 .. 1] /\ h.value \in [Contexts -> Values]
    BY <1>5, <1>6 DEF HandleType, Values
  <2>2. [h.active EXCEPT ![free] = 0] = h.active /\ [h.value EXCEPT ![free] = g] \in [Contexts -> Values]
    BY <1>4, <2>1
  <2>3. handle' = [h EXCEPT !.active = [h.active EXCEPT ![free] = 0], !.value = [h.value EXCEPT ![free] = g], !.slot = free]
    BY <1>1
  <2> QED
    BY <1>4, <1>5, <2>2, <2>3 DEF HandleType
<1>8. /\ core'.sink = core.sink /\ core'.active
      /\ core' \in [active : BOOLEAN, sink : Sinks \cup {NoSlot}, traced : BOOLEAN]
  BY <1>1, HandleTyped
<1>9. core.sink = handle.slot
  <2>1. \A i \in 1 .. Depth : frames[i].does # "set_sink"
    BY <1>3 DEF IInv, SinkKnown
  <2> QED
    BY <1>1, <2>1 DEF IInv, SinkKnown
<1> HIDE DEF f, free, h
<1>10. /\ Depth' = Depth + 1 /\ frames' \in Seq(FrameType)
       /\ \A i \in 1 .. Depth : frames'[i] = frames[i]
       /\ frames'[Depth + 1] = f
  BY <1>1, <1>2, FramesTyped, Pushed
<1>11. TypeOK'
  BY <1>1, <1>7, <1>8, <1>10 DEF IInv, TypeOK
<1>12. Layered' /\ OneCore'
  BY <1>1, <1>2, <1>3, <1>8, LayerOn, CoreOn
<1>13. Counted' /\ Entered'
  <2>1. ~Holds(f) /\ handle.operations \in Nat
    BY <1>2, HandleTyped DEF Holds
  <2>2. handle'.operations = handle.operations + IF Holds(f) THEN 1 ELSE 0
    BY <1>5, <1>7, <2>1
  <2>3. f.does # "callback" /\ handle'.active = handle.active
    BY <1>2, <1>5, <1>7
  <2> QED
    BY <1>1, <1>2, <2>2, <2>3, CountedOn, EnteredOn
<1>14. ErrorWaits'
  BY <1>1, <1>2, <1>3, <1>5, <1>7, ErrorOn
<1>15. SinkKnown'
  <2>1. \A i \in 1 .. Depth : frames[i].does # "set_sink"
    BY <1>3 DEF IInv, SinkKnown
  <2>2. Depth + 1 \in 1 .. Depth' /\ frames'[Depth + 1].does = "set_sink"
    BY <1>2, <1>3, <1>10
  <2>3. \A i \in 1 .. Depth' : frames'[i].does = "set_sink" => frames'[i] = f
    BY <1>3, <1>10, <2>1
  <2> QED
    BY <1>2, <1>4, <1>7, <1>8, <1>9, <2>2, <2>3 DEF SinkKnown, CoreAt
<1>16. OpenKnown' /\ WriterHeld'
  <2>1. OpenKnown /\ WriterHeld
    BY DEF IInv
  <2>2. core.sink # NoSlot => core.sink \in Contexts /\ core.sink # free
    BY <1>4, <1>9, HandleTyped DEF Contexts
  <2>3. h.value \in [Contexts -> Values]
    BY <1>5 DEF HandleType
  <2>4. core.sink # NoSlot => handle'.value[core.sink] = handle.value[core.sink]
    BY <1>5, <1>7, <2>2, <2>3
  <2> QED
    BY <1>1, <1>5, <1>7, <1>8, <2>1, <2>4 DEF OpenKnown, WriterHeld
<1>17. CallsKeepHandle'
  <2>1. CallsKeepHandle
    BY DEF IInv
  <2> QED
    BY <1>1, <1>3, <1>5, <1>7, <1>10, <2>1 DEF CallsKeepHandle
<1>18. ErrorsReachCaller'
  BY <1>1, <1>3, <1>5, <1>7 DEF IInv, ErrorsReachCaller, AnswerRight
<1> QED
  BY <1>11, <1>12, <1>13, <1>14, <1>15, <1>16, <1>17, <1>18 DEF IInv

LEMMA CallBackKeeps ==
    ASSUME IInv, NEW c \in Contexts \cup {"reader"}, CallBack(c)
    PROVE  IInv'
<1> DEFINE t == IF c \in Contexts THEN handle.thread[c] ELSE Top.thread
           f == Running("callback", c, t)
<1>1. /\ Depth > 0 /\ Top.at = "core" /\ handle.failure = NoThread
      /\ frames' = Push(f)
      /\ handle' = IF c \in Contexts THEN [handle EXCEPT !.active[c] = handle.active[c] + 1] ELSE handle
      /\ c = "reader" => Top.does = "render_stream"
      /\ UNCHANGED <<kind, core, writer, answer>>
  BY DEF CallBack, CalledBack, Calling, Contexts, Sinks
<1>2. /\ Top \in FrameType /\ Depth \in Nat /\ Depth \in 1 .. Depth /\ CoreAt(Depth) /\ Top = frames[Depth]
  BY <1>1, FramesTyped DEF Top, CoreAt
<1>3. handle.open
  BY <1>2, <1>1 DEF IInv, CallsKeepHandle, CoreAt
<1>4. t \in Threads
  BY <1>2, <1>3 DEF IInv, OpenKnown, FrameType
<1>5. /\ f \in FrameType /\ Fits(f) /\ f.raised = NoThread /\ f.does = "callback" /\ f.at = "Lua"
      /\ f.ctx = c /\ LiesOn(f, Top) /\ ~Holds(f)
  <2>1. c # NoSlot
    BY DEF Contexts, Sinks, NoSlot
  <2> HIDE DEF t
  <2> QED
    BY <1>1, <1>4, <2>1, RunningFits
<1> HIDE DEF f
<1>6. \A i \in 1 .. Depth : ~CallbackAt(i)
  <2> SUFFICES ASSUME NEW i \in 1 .. Depth, CallbackAt(i) PROVE FALSE
    OBVIOUS
  <2>1. ~CallbackAt(Depth)
    BY <1>1, <1>2, FramesTyped DEF IInv, Layered, Fits, CallbackAt, CoreAt
  <2>2. Depth = i - 1
    BY <1>2, <2>1, OneCallback
  <2> QED
    BY <1>2, <2>2
<1>7. \A d \in Contexts : handle.active[d] = 0
  BY <1>6 DEF IInv, Entered
<1>8. /\ handle' \in HandleType /\ handle'.open = handle.open /\ handle'.failure = handle.failure
      /\ handle'.operations = handle.operations /\ handle'.slot = handle.slot
      /\ handle'.thread = handle.thread /\ handle'.value = handle.value
      /\ handle'.active = [d \in Contexts |-> IF d = c THEN 1 ELSE 0]
  <2>1. handle.active \in [Contexts -> 0 .. 1] /\ handle \in HandleType
    BY HandleTyped DEF HandleType
  <2>2. CASE c \in Contexts
    <3>1. [handle.active EXCEPT ![c] = handle.active[c] + 1] = [d \in Contexts |-> IF d = c THEN 1 ELSE 0]
      BY <1>7, <2>1, <2>2
    <3>2. handle' = [handle EXCEPT !.active = [handle.active EXCEPT ![c] = handle.active[c] + 1]]
      BY <1>1, <2>2
    <3>3. [d \in Contexts |-> IF d = c THEN 1 ELSE 0] \in [Contexts -> 0 .. 1]
      OBVIOUS
    <3> QED
      BY <2>1, <3>1, <3>2, <3>3 DEF HandleType
  <2>3. CASE c \notin Contexts
    <3>1. handle.active = [d \in Contexts |-> IF d = c THEN 1 ELSE 0]
      BY <1>7, <2>1, <2>3
    <3> QED
      BY <1>1, <2>1, <2>3, <3>1
  <2> QED
    BY <2>2, <2>3
<1>9. /\ Depth' = Depth + 1 /\ frames' \in Seq(FrameType)
      /\ \A i \in 1 .. Depth : frames'[i] = frames[i]
      /\ frames'[Depth + 1] = f
  BY <1>1, <1>5, FramesTyped, Pushed
<1>10. TypeOK'
  BY <1>1, <1>8, <1>9 DEF IInv, TypeOK
<1>11. Layered' /\ OneCore'
  BY <1>1, <1>5, LayerOn, CoreOn
<1>12. Counted'
  <2>1. handle.operations \in Nat
    BY HandleTyped
  <2> QED
    BY <1>1, <1>5, <1>8, <2>1, CountedOn
<1>13. Entered'
  <2>1. \A i \in 1 .. Depth' : CallbackAt(i)' <=> i = Depth + 1
    BY <1>2, <1>5, <1>6, <1>9 DEF CallbackAt
  <2>2. \A d \in Contexts : (\E i \in 1 .. Depth' : CallbackAt(i)' /\ frames'[i].ctx = d) <=> d = c
    BY <1>2, <1>5, <1>9, <2>1
  <2> QED
    BY <1>8, <2>2 DEF Entered
<1>14. ErrorWaits'
  BY <1>1, <1>5, <1>8, ErrorOn
<1>15. SinkKnown'
  BY <1>1, <1>5, <1>8, SinkOn
<1>16. OpenKnown' /\ WriterHeld'
  BY <1>1, <1>8 DEF IInv, OpenKnown, WriterHeld
<1>17. CallsKeepHandle'
  BY <1>3, <1>8 DEF CallsKeepHandle
<1>18. ErrorsReachCaller'
  BY <1>1, <1>8 DEF IInv, ErrorsReachCaller, AnswerRight
<1> QED
  BY <1>10, <1>11, <1>12, <1>13, <1>14, <1>15, <1>16, <1>17, <1>18 DEF IInv
-----------------------------------------------------------------------------
(* A step that takes off the frames above the n-th.                         *)
LEMMA PopKeeps ==
    ASSUME IInv, NEW n \in 0 .. Depth, frames' \in Seq(FrameType), Depth' = n,
           \A i \in 1 .. n : /\ frames'[i].does = frames[i].does /\ frames'[i].at = frames[i].at
                             /\ frames'[i].ctx = frames[i].ctx,
           handle' \in HandleType, handle'.open = handle.open, handle'.thread = handle.thread,
           \/ handle'.operations = handle.operations /\ \A i \in n + 1 .. Depth : ~Holds(frames[i])
           \/ handle'.operations = handle.operations - 1 /\ n = Depth - 1 /\ Holds(frames[Depth]),
           core' \in [active : BOOLEAN, sink : Sinks \cup {NoSlot}, traced : BOOLEAN],
           \/ core'.active = core.active /\ \A i \in n + 1 .. Depth : ~CoreAt(i)
           \/ n = Depth - 1 /\ CoreAt(Depth) /\ ~core'.active,
           writer' \in Values,
           answer' \in AnswerType,
           kind' = kind,
           Entered', ErrorWaits', SinkKnown', WriterHeld', ErrorsReachCaller'
    PROVE  IInv'
<1>0. Depth \in Nat
  BY FramesTyped
<1>1. TypeOK'
  BY DEF IInv, TypeOK, AnswerType
<1>2. Layered'
  BY LayerOff
<1>3. OneCore'
  BY CoreOff
<1>4. Counted'
  <2>1. \A i \in 1 .. n : Holds(frames'[i]) = Holds(frames[i])
    BY DEF Holds
  <2> QED
    BY <2>1, CountedOff
<1>5. OpenKnown'
  BY DEF IInv, OpenKnown
<1>6. CallsKeepHandle'
  BY OpenOff
<1> QED
  BY <1>1, <1>2, <1>3, <1>4, <1>5, <1>6 DEF IInv

LEMMA AnswerTyped ==
    ASSUME IInv
    PROVE  answer \in AnswerType
BY DEF IInv, TypeOK, AnswerType

(* Getters and finalizers return.                                           *)
LEMMA GetterReturnsKeeps ==
    ASSUME IInv, NEW raises \in BOOLEAN, GetterReturns(raises)
    PROVE  IInv'
<1> DEFINE n == IF raises THEN Depth - 2 ELSE Depth - 1
<1>0. Depth \in Nat /\ Depth > 0 /\ frames \in Seq(FrameType) /\ Layered
  BY FramesTyped DEF GetterReturns, IInv
<1>1. /\ frames[Depth].does = "getter" /\ frames' = IF raises THEN SubSeq(frames, 1, Depth - 2) ELSE Below
      /\ UNCHANGED <<kind, handle, core, writer, answer>>
  BY DEF GetterReturns, Top
<1>2. Depth > 1 /\ frames[Depth].at = "Lua" /\ frames[Depth - 1].at = "token" /\ frames[Depth - 1].does = "write_token"
  <2>1. frames[Depth].at = "Lua" /\ Depth > 1
    BY <1>0, <1>1 DEF Layered, Fits
  <2>2. Depth - 1 \in 1 .. Depth /\ Depth \in 1 .. Depth /\ Depth = (Depth - 1) + 1
    BY <1>0, <2>1
  <2>3. LiesOn(frames[Depth], frames[Depth - 1]) /\ Fits(frames[Depth - 1])
    BY <1>0, <2>2 DEF Layered
  <2> QED
    BY <1>1, <2>1, <2>3 DEF LiesOn, Fits
<1>3. /\ n \in 0 .. Depth - 1 /\ frames' \in Seq(FrameType) /\ Depth' = n
      /\ \A i \in 1 .. n : frames'[i] = frames[i]
  <2>1. CASE raises
    BY <1>0, <1>1, <1>2, <2>1, PoppedTwo
  <2>2. CASE ~raises
    BY <1>0, <1>1, <1>2, <2>2, Popped
  <2> QED
    BY <2>1, <2>2
<1>4. \A i \in n + 1 .. Depth : /\ ~Holds(frames[i]) /\ ~CoreAt(i) /\ ~CallbackAt(i)
                                /\ frames[i].does # "set_sink"
  <2>1. \A i \in n + 1 .. Depth : i = Depth \/ i = Depth - 1
    BY <1>0, <1>2
  <2> QED
    BY <1>1, <1>2, <2>1 DEF Holds, CoreAt, CallbackAt
<1> HIDE DEF n
<1>5. handle.failure = NoThread
  BY <1>0, <1>2 DEF IInv, ErrorWaits, CoreAt
<1>6. ErrorWaits' /\ Entered' /\ SinkKnown'
  <2>1. n \in 0 .. Depth
    BY <1>0, <1>3
  <2>2. ErrorWaits'
    BY <1>1, <1>3, <1>5, <2>1, ErrorOff
  <2>3. Entered'
    BY <1>1, <1>3, <1>4, <2>1, EnteredOff
  <2>4. SinkKnown'
    BY <1>1, <1>3, <1>4, <2>1, SinkOff
  <2> QED
    BY <2>2, <2>3, <2>4
<1>7. WriterHeld' /\ ErrorsReachCaller'
  BY <1>1, <1>5 DEF IInv, WriterHeld, ErrorsReachCaller, AnswerRight
<1>8. n \in 0 .. Depth
  BY <1>0, <1>3
<1>9. core.active = core'.active /\ handle' = handle /\ core' = core /\ writer' = writer /\ answer' = answer
  BY <1>1
<1> QED
  BY <1>1, <1>3, <1>4, <1>6, <1>7, <1>8, <1>9, HandleTyped, AnswerTyped, PopKeeps

LEMMA FinalizerReturnsKeeps ==
    ASSUME IInv, FinalizerReturns
    PROVE  IInv'
<1>0. Depth \in Nat /\ Depth > 0 /\ frames \in Seq(FrameType) /\ Layered
  BY FramesTyped DEF FinalizerReturns, IInv
<1>1. /\ frames[Depth].does = "finalizer" /\ frames' = Below
      /\ UNCHANGED <<kind, handle, core, writer, answer>>
  BY DEF FinalizerReturns, Top
<1>2. frames[Depth].at = "Lua"
  BY <1>0, <1>1 DEF Layered, Fits
<1>3. /\ Depth - 1 \in 0 .. Depth /\ frames' \in Seq(FrameType) /\ Depth' = Depth - 1
      /\ \A i \in 1 .. Depth - 1 : frames'[i] = frames[i]
  BY <1>0, <1>1, Popped
<1>4. \A i \in (Depth - 1) + 1 .. Depth : /\ ~Holds(frames[i]) /\ ~CoreAt(i) /\ ~CallbackAt(i)
                                          /\ frames[i].does # "set_sink"
  BY <1>0, <1>1, <1>2 DEF Holds, CoreAt, CallbackAt
<1>5. handle.failure = NoThread
  BY <1>0, <1>2 DEF IInv, ErrorWaits, CoreAt
<1>6. ErrorWaits' /\ Entered' /\ SinkKnown'
  <2>2. ErrorWaits'
    BY <1>0, <1>1, <1>3, <1>4, <1>5, ErrorOff
  <2>3. Entered'
    BY <1>0, <1>1, <1>3, <1>4, <1>5, EnteredOff
  <2>4. SinkKnown'
    BY <1>0, <1>1, <1>3, <1>4, <1>5, SinkOff
  <2> QED
    BY <2>2, <2>3, <2>4
<1>7. WriterHeld' /\ ErrorsReachCaller'
  BY <1>1, <1>5 DEF IInv, WriterHeld, ErrorsReachCaller, AnswerRight
<1> QED
  BY <1>0, <1>1, <1>3, <1>4, <1>6, <1>7, HandleTyped, AnswerTyped, PopKeeps
(* A Lua function the core called returns: its context is left, and an      *)
(* error is noted where the method will look for it.                        *)
LEMMA CallbackReturnsKeeps ==
    ASSUME IInv, NEW result \in {"accepts", "refuses", "raises"}, CallbackReturns(result)
    PROVE  IInv'
<1> DEFINE n == Depth - 1
           c == frames[Depth].ctx
           e == frames[Depth].thread
<1>0. /\ Depth \in Nat /\ Depth > 0 /\ frames \in Seq(FrameType) /\ Depth \in 1 .. Depth
      /\ frames[Depth] \in FrameType /\ CallbackAt(Depth)
  BY FramesTyped DEF CallbackReturns, Top, CallbackAt
<1>1. /\ frames' = [Below EXCEPT ![n].failed = Below[n].failed \/ result # "accepts",
                                ![n].raised = IF result = "raises" THEN e ELSE Below[n].raised]
      /\ UNCHANGED <<kind, core, writer, answer>>
  BY DEF CallbackReturns, Top
<1>2. n \in 1 .. Depth /\ n \in 0 .. Depth /\ n \in 1 .. n /\ CoreAt(n) /\ n < Depth
  BY <1>0, CallbackBelow
<1>3. Below \in Seq(FrameType) /\ Len(Below) = n /\ \A i \in 1 .. n : Below[i] = frames[i]
  BY <1>0, <1>2, FramesTyped, Prefixed DEF Below
<1>4. \A i \in 1 .. Depth : frames[i] \in FrameType
  BY FramesTyped
<1>5. e \in Threads /\ e # NoThread
  BY <1>0, ThreadsAssumption DEF FrameType
<1>6. /\ frames' \in Seq(FrameType) /\ Depth' = n
      /\ \A i \in 1 .. n : /\ frames'[i].does = frames[i].does /\ frames'[i].at = frames[i].at
                            /\ frames'[i].ctx = frames[i].ctx /\ frames'[i].old = frames[i].old
                            /\ frames'[i].raised = IF i = n /\ result = "raises" THEN e
                                                   ELSE frames[i].raised
      /\ result = "raises" => frames'[n].failed
  <2> DEFINE b == Below
             g == [b[n] EXCEPT !.failed = b[n].failed \/ result # "accepts",
                               !.raised = IF result = "raises" THEN e ELSE b[n].raised]
  <2>1. b[n] \in FrameType /\ b \in Seq(FrameType) /\ n \in 1 .. Len(b)
    BY <1>2, <1>3, <1>4
  <2>2. g \in FrameType /\ g.does = b[n].does /\ g.at = b[n].at /\ g.ctx = b[n].ctx /\ g.old = b[n].old
        /\ g.raised = (IF result = "raises" THEN e ELSE b[n].raised) /\ (result = "raises" => g.failed)
    BY <1>5, <2>1 DEF FrameType
  <2>3. frames' = [b EXCEPT ![n] = g]
    BY <1>1, <2>1 DEF FrameType
  <2> HIDE DEF b, g, n, e
  <2>4. frames' \in Seq(FrameType) /\ Len(frames') = Len(b) /\ frames'[n] = g
        /\ \A i \in 1 .. Len(b) : i # n => frames'[i] = b[i]
    BY <2>1, <2>2, <2>3
  <2>5. Len(b) = n /\ \A i \in 1 .. n : b[i] = frames[i]
    BY <1>3 DEF b
  <2>6. ASSUME NEW i \in 1 .. n
        PROVE  /\ frames'[i].does = frames[i].does /\ frames'[i].at = frames[i].at
               /\ frames'[i].ctx = frames[i].ctx /\ frames'[i].old = frames[i].old
               /\ frames'[i].raised = IF i = n /\ result = "raises" THEN e ELSE frames[i].raised
    <3>1. CASE i = n
      BY <2>2, <2>4, <2>5, <3>1
    <3>2. CASE i # n
      BY <2>4, <2>5, <3>2
    <3> QED
      BY <3>1, <3>2
  <2>7. Depth' = n
    BY <2>4, <2>5 DEF Depth
  <2> QED
    BY <2>2, <2>4, <2>6, <2>7
<1>7. handle.failure = NoThread /\ \A i \in 1 .. Depth : frames[i].raised = NoThread
  <2>1. ~CoreAt(Depth)
    BY <1>0 DEF IInv, Layered, Fits, CallbackAt, CoreAt
  <2> QED
    BY <1>0, <2>1 DEF IInv, ErrorWaits
<1>8. \A i \in 1 .. n : ~CallbackAt(i)
  <2> SUFFICES ASSUME NEW i \in 1 .. n, CallbackAt(i) PROVE FALSE
    OBVIOUS
  <2>1. i \in 1 .. Depth /\ i < Depth
    BY <1>0
  <2>2. Depth = i
    BY <1>0, <2>1, OneCallback
  <2> QED
    BY <2>1, <2>2
<1>9. \A d \in Contexts : handle.active[d] = IF d = c THEN 1 ELSE 0
  <2>1. \A d \in Contexts : (\E i \in 1 .. Depth : CallbackAt(i) /\ frames[i].ctx = d) <=> d = c
    BY <1>0, <1>8
  <2> QED
    BY <2>1 DEF IInv, Entered
<1>10. /\ handle' \in HandleType /\ handle'.open = handle.open /\ handle'.thread = handle.thread
       /\ handle'.operations = handle.operations /\ handle'.slot = handle.slot /\ handle'.value = handle.value
       /\ handle'.active = [d \in Contexts |-> 0]
       /\ handle'.failure = IF result = "raises" THEN e ELSE NoThread
  <2> DEFINE h == IF c \in Contexts THEN [handle EXCEPT !.active[c] = handle.active[c] - 1] ELSE handle
  <2>1. handle.active \in [Contexts -> 0 .. 1] /\ handle \in HandleType
    BY HandleTyped DEF HandleType
  <2>2. handle' = IF result = "raises" THEN [h EXCEPT !.failure = e] ELSE h
    BY DEF CallbackReturns, Top
  <2>3. [d \in Contexts |-> 0] \in [Contexts -> 0 .. 1]
    OBVIOUS
  <2>4. h = [handle EXCEPT !.active = [d \in Contexts |-> 0]]
    <3> HIDE DEF c
    <3>1. CASE c \in Contexts
      <4>1. [handle.active EXCEPT ![c] = handle.active[c] - 1] = [d \in Contexts |-> 0]
        BY <1>9, <2>1, <3>1
      <4>2. h = [handle EXCEPT !.active = [handle.active EXCEPT ![c] = handle.active[c] - 1]]
        BY <3>1
      <4> QED
        BY <4>1, <4>2
    <3>2. CASE c \notin Contexts
      <4>1. handle.active = [d \in Contexts |-> 0]
        BY <1>9, <2>1, <3>2
      <4> QED
        BY <2>1, <3>2, <4>1 DEF HandleType
    <3> QED
      BY <3>1, <3>2
  <2>5. /\ h \in HandleType /\ h.open = handle.open /\ h.thread = handle.thread
        /\ h.operations = handle.operations /\ h.slot = handle.slot /\ h.value = handle.value
        /\ h.active = [d \in Contexts |-> 0] /\ h.failure = NoThread
    BY <1>7, <2>1, <2>3, <2>4 DEF HandleType
  <2> HIDE DEF h, e
  <2> QED
    BY <1>5, <2>2, <2>5 DEF HandleType
<1> HIDE DEF n, c, e
<1>11. Entered'
  <2>1. \A i \in 1 .. Depth' : ~CallbackAt(i)'
    BY <1>6, <1>8 DEF CallbackAt
  <2> QED
    BY <1>10, <2>1 DEF Entered
<1>12. ErrorWaits'
  <2>1. \A i \in 1 .. n : i \in 1 .. Depth
    BY <1>0, <1>2
  <2>2. \A i \in 1 .. Depth' :
            frames'[i].raised = IF i = n /\ result = "raises" THEN e ELSE NoThread
    BY <1>6, <1>7, <2>1
  <2>3. frames'[n].at = "core" /\ n \in 1 .. Depth' /\ n > 0
    BY <1>2, <1>6 DEF CoreAt
  <2> QED
    BY <1>5, <1>6, <1>10, <2>2, <2>3 DEF ErrorWaits, CoreAt
<1>13. SinkKnown'
  <2>1. \A i \in n + 1 .. Depth : frames[i].does # "set_sink"
    BY <1>0 DEF n, CallbackAt
  <2> QED
    BY <1>1, <1>2, <1>6, <1>10, <2>1, SinkOff
<1>14. WriterHeld'
  BY <1>1, <1>10 DEF IInv, WriterHeld
<1>15. ErrorsReachCaller'
  BY <1>1, <1>12 DEF IInv, ErrorsReachCaller, AnswerRight, ErrorWaits, Calling, Top, CoreAt
<1>16. \A i \in n + 1 .. Depth : ~Holds(frames[i]) /\ ~CoreAt(i)
  <2>1. frames[Depth].at = "Lua"
    BY <1>0 DEF IInv, Layered, Fits, CallbackAt
  <2> QED
    BY <1>0, <2>1 DEF n, Holds, CoreAt
<1> QED
  BY <1>1, <1>2, <1>6, <1>10, <1>11, <1>12, <1>13, <1>14, <1>15, <1>16, HandleTyped, AnswerTyped, PopKeeps
-----------------------------------------------------------------------------
(* Methods that return.                                                     *)
LEMMA RaiseFacts ==
    ASSUME NEW h \in HandleType
    PROVE  /\ Raise(h) \in HandleType /\ Raise(h).failure = NoThread /\ Raise(h).open = h.open
           /\ Raise(h).operations = h.operations /\ Raise(h).slot = h.slot
           /\ Raise(h).active = h.active /\ Raise(h).thread = h.thread /\ Raise(h).value = h.value
BY DEF Raise, HandleType

(* The method on top: its error, if any, is the one that waits.             *)
LEMMA TopMethod ==
    ASSUME IInv, Depth > 0, Top.at # "Lua"
    PROVE  /\ Depth \in Nat /\ Depth \in 1 .. Depth /\ Top = frames[Depth] /\ Top \in FrameType
           /\ Top.raised = handle.failure /\ Top.thread \in Threads
           /\ Depth - 1 \in 0 .. Depth /\ ~CallbackAt(Depth)
           /\ handle.failure # NoThread => CoreAt(Depth)
<1>1. Depth \in Nat /\ Depth \in 1 .. Depth /\ frames[Depth] \in FrameType
  BY FramesTyped
<1>2. frames[Depth].raised = handle.failure
  BY <1>1 DEF IInv, ErrorWaits, FrameType
<1>3. ~CallbackAt(Depth)
  BY <1>1 DEF IInv, Layered, Fits, CallbackAt, Top
<1>4. handle.failure # NoThread => CoreAt(Depth)
  BY DEF IInv, ErrorWaits
<1> QED
  BY <1>1, <1>2, <1>3, <1>4 DEF Top, FrameType

(* A method raises when an error waits, and it is the error object when the *)
(* callback ran on the thread of the method.                                *)
LEMMA AnswerRecord ==
    ASSUME NEW raised \in Threads \cup {NoThread}, NEW thread \in Threads,
           NEW result \in Errors \cup {"none", "error text", "true"},
           raised # NoThread <=> result \in Errors,
           raised = thread => result # "another value",
           NEW a, a = [raised |-> raised, thread |-> thread, result |-> result]
    PROVE  a \in AnswerType /\ AnswerRight(a)
<1>1. a \in AnswerType
  BY DEF AnswerType
<1>2. AnswerRight(a)
  BY DEF AnswerRight
<1> QED
  BY <1>1, <1>2

LEMMA AnswerFits ==
    ASSUME IInv, Depth > 0, Top.at # "Lua", NEW failed \in BOOLEAN,
           answer' = Answer(handle, [Top EXCEPT !.failed = failed])
    PROVE  /\ answer' \in AnswerType
           /\ AnswerRight(answer')
<1> DEFINE f      == [Top EXCEPT !.failed = failed]
           raised == f.raised
           thread == f.thread
           result == IF handle.failure = NoThread THEN IF f.failed THEN "error text" ELSE "true"
                     ELSE IF handle.failure = f.thread THEN "error object" ELSE "another value"
<1>1. answer' = [raised |-> raised, thread |-> thread, result |-> result]
  BY Zenon DEF Answer
<1>2. raised = handle.failure /\ thread \in Threads /\ raised \in Threads \cup {NoThread}
  BY TopMethod DEF FrameType
<1> HIDE DEF f
<1>3. /\ result \in Errors \cup {"none", "error text", "true"}
      /\ raised # NoThread <=> result \in Errors
      /\ raised = thread => result # "another value"
  BY <1>2, ThreadsAssumption DEF Errors
<1> HIDE DEF raised, thread, result
<1> DEFINE a == answer'
<1>4. a = [raised |-> raised, thread |-> thread, result |-> result]
  BY <1>1
<1> HIDE DEF a
<1>5. a \in AnswerType /\ AnswerRight(a)
  BY <1>2, <1>3, <1>4, AnswerRecord, Zenon
<1> QED
  BY <1>5 DEF a

LEMMA WriteTokenRefusedKeeps ==
    ASSUME IInv, WriteTokenRefused
    PROVE  IInv'
<1>1. /\ Depth > 0 /\ Top.at = "token" /\ frames' = Below
      /\ handle' = IF handle.open THEN Raise(handle) ELSE handle
      /\ answer' = Answer(handle, [Top EXCEPT !.failed = TRUE])
      /\ UNCHANGED <<kind, core, writer>>
  BY DEF WriteTokenRefused, Reading
<1>2. /\ Depth \in Nat /\ Depth \in 1 .. Depth /\ Top = frames[Depth] /\ Top \in FrameType
      /\ Top.raised = NoThread /\ handle.failure = NoThread /\ Depth - 1 \in 0 .. Depth /\ ~CallbackAt(Depth)
  BY <1>1, TopMethod DEF CoreAt
<1>3. handle \in HandleType /\ handle' \in HandleType /\ handle'.failure = NoThread
      /\ handle'.open = handle.open /\ handle'.operations = handle.operations
      /\ handle'.slot = handle.slot /\ handle'.active = handle.active
      /\ handle'.thread = handle.thread /\ handle'.value = handle.value
  BY <1>1, <1>2, HandleTyped, RaiseFacts
<1>4. /\ frames' \in Seq(FrameType) /\ Depth' = Depth - 1
      /\ \A i \in 1 .. Depth - 1 : frames'[i] = frames[i]
  BY <1>1, FramesTyped, Popped
<1>5. \A i \in (Depth - 1) + 1 .. Depth : /\ ~Holds(frames[i]) /\ ~CoreAt(i) /\ ~CallbackAt(i)
                                          /\ frames[i].does # "set_sink"
  <2>1. Top.does = "write_token"
    BY <1>1, <1>2 DEF IInv, Layered, Fits
  <2> QED
    BY <1>1, <1>2, <2>1 DEF Holds, CoreAt
<1>6. /\ answer' \in AnswerType
      /\ AnswerRight(answer')
  BY <1>1, AnswerFits
<1>7. ErrorWaits' /\ Entered' /\ SinkKnown'
  <2>2. ErrorWaits'
    BY <1>1, <1>2, <1>3, <1>4, <1>5, ErrorOff
  <2>3. Entered'
    BY <1>1, <1>2, <1>3, <1>4, <1>5, EnteredOff
  <2>4. SinkKnown'
    BY <1>1, <1>2, <1>3, <1>4, <1>5, SinkOff
  <2> QED
    BY <2>2, <2>3, <2>4
<1>8. WriterHeld' /\ ErrorsReachCaller'
  BY <1>1, <1>3, <1>6 DEF IInv, WriterHeld, ErrorsReachCaller, AnswerRight
<1> QED
  BY <1>1, <1>2, <1>3, <1>4, <1>5, <1>6, <1>7, <1>8, HandleTyped, PopKeeps

LEMMA ReturnKeeps ==
    ASSUME IInv, NEW ok \in BOOLEAN, Return(ok)
    PROVE  IInv'
<1> DEFINE h == Returned(handle, Top)
<1>1. /\ Depth > 0 /\ Top.at = "core" /\ Top.does # "set_sink" /\ frames' = Below
      /\ handle' = Raise(h)
      /\ answer' = Answer(handle, [Top EXCEPT !.failed = Top.failed \/ ~ok])
      /\ core' = [core EXCEPT !.active = FALSE]
      /\ UNCHANGED <<kind, writer>>
  BY DEF Return, Calling
<1>2. /\ Depth \in Nat /\ Depth \in 1 .. Depth /\ Top = frames[Depth] /\ Top \in FrameType
      /\ Top.raised = handle.failure /\ Depth - 1 \in 0 .. Depth /\ ~CallbackAt(Depth)
  BY <1>1, TopMethod
<1>3. Holds(Top) <=> Top.does = "render_stream"
  BY <1>1 DEF Holds
<1>4. Holds(Top) => handle.operations # 0 /\ handle.operations \in Nat
  <2>1. ASSUME Holds(Top) PROVE Depth \in Holders(frames)
    BY <1>2, <2>1, FramesTyped DEF Holders
  <2>2. Holds(Top) => Cardinality(Holders(frames)) # 0
    BY <2>1, HoldersFinite, FramesTyped, FS_EmptySet
  <2> QED
    BY <2>2, HandleTyped DEF IInv, Counted
<1>5. /\ h \in HandleType /\ h.open = handle.open /\ h.slot = handle.slot /\ h.active = handle.active
      /\ h.thread = handle.thread /\ h.value = handle.value
      /\ h.operations = handle.operations - IF Holds(Top) THEN 1 ELSE 0
  <2>1. CASE Top.does = "render_stream"
    <3>1. h = [handle EXCEPT !.operations = handle.operations - 1] /\ handle.operations - 1 \in Nat
      BY <1>3, <1>4, <2>1 DEF Returned
    <3> QED
      BY <1>3, <2>1, <3>1, HandleTyped DEF HandleType
  <2>2. CASE Top.does # "render_stream"
    BY <1>3, <2>2, HandleTyped DEF Returned
  <2> QED
    BY <2>1, <2>2
<1> HIDE DEF h
<1>6. /\ handle' \in HandleType /\ handle'.failure = NoThread /\ handle'.open = handle.open
      /\ handle'.slot = handle.slot /\ handle'.active = handle.active /\ handle'.thread = handle.thread
      /\ handle'.value = handle.value
      /\ handle'.operations = handle.operations - IF Holds(Top) THEN 1 ELSE 0
  BY <1>1, <1>5, RaiseFacts
<1>7. /\ frames' \in Seq(FrameType) /\ Depth' = Depth - 1
      /\ \A i \in 1 .. Depth - 1 : frames'[i] = frames[i]
  BY <1>1, FramesTyped, Popped
<1>8. /\ core' \in [active : BOOLEAN, sink : Sinks \cup {NoSlot}, traced : BOOLEAN]
      /\ core'.sink = core.sink /\ ~core'.active
  BY <1>1, HandleTyped
<1>9. /\ answer' \in AnswerType
      /\ AnswerRight(answer')
  <2>1. (Top.failed \/ ~ok) \in BOOLEAN
    OBVIOUS
  <2> QED
    BY <1>1, <2>1, AnswerFits
<1>10. ErrorWaits' /\ Entered' /\ SinkKnown'
  <2>1. \A i \in (Depth - 1) + 1 .. Depth : ~CallbackAt(i) /\ frames[i].does # "set_sink"
    BY <1>1, <1>2
  <2>2. ErrorWaits'
    BY <1>2, <1>6, <1>7, <1>8, <2>1, ErrorOff
  <2>3. Entered'
    BY <1>2, <1>6, <1>7, <1>8, <2>1, EnteredOff
  <2>4. SinkKnown'
    BY <1>2, <1>6, <1>7, <1>8, <2>1, SinkOff
  <2> QED
    BY <2>2, <2>3, <2>4
<1>11. WriterHeld' /\ ErrorsReachCaller'
  BY <1>1, <1>6, <1>8, <1>9 DEF IInv, WriterHeld, ErrorsReachCaller, AnswerRight
<1>12. CoreAt(Depth) /\ (\A i \in (Depth - 1) + 1 .. Depth : i = Depth)
  BY <1>1, <1>2 DEF CoreAt
<1>13. \/ handle'.operations = handle.operations /\ \A i \in (Depth - 1) + 1 .. Depth : ~Holds(frames[i])
       \/ handle'.operations = handle.operations - 1 /\ Holds(frames[Depth])
  BY <1>2, <1>6, <1>12, HandleTyped
<1>14. writer' \in Values /\ kind' = kind
  BY <1>1, HandleTyped
<1> QED
  BY <1>2, <1>6, <1>7, <1>8, <1>9, <1>10, <1>11, <1>12, <1>13, <1>14, PopKeeps

(* The memory of a rendered result is freed.                                *)
LEMMA FreeResultKeeps ==
    ASSUME IInv, NEW copied \in BOOLEAN, FreeResult(copied)
    PROVE  IInv'
<1>1. /\ Depth > 0 /\ Top.at = "copy" /\ frames' = Below
      /\ handle' = [handle EXCEPT !.operations = handle.operations - 1]
      /\ answer' = Answer(handle, [Top EXCEPT !.failed = ~copied])
      /\ UNCHANGED <<kind, core, writer>>
  BY DEF FreeResult, Copying
<1>2. /\ Depth \in Nat /\ Depth \in 1 .. Depth /\ Top = frames[Depth]
      /\ handle.failure = NoThread /\ Depth - 1 \in 0 .. Depth /\ ~CallbackAt(Depth)
  BY <1>1, TopMethod DEF CoreAt
<1>3. Holds(frames[Depth]) /\ handle.operations - 1 \in Nat
  <2>1. Depth \in Holders(frames) /\ Holds(frames[Depth])
    BY <1>1, <1>2, FramesTyped DEF Holders, Holds
  <2>2. Cardinality(Holders(frames)) # 0
    BY <2>1, HoldersFinite, FramesTyped, FS_EmptySet
  <2> QED
    BY <2>1, <2>2, HandleTyped DEF IInv, Counted
<1>4. /\ handle' \in HandleType /\ handle'.failure = NoThread /\ handle'.open = handle.open
      /\ handle'.slot = handle.slot /\ handle'.active = handle.active /\ handle'.thread = handle.thread
      /\ handle'.value = handle.value /\ handle'.operations = handle.operations - 1
  BY <1>1, <1>2, <1>3, HandleTyped DEF HandleType
<1>5. /\ frames' \in Seq(FrameType) /\ Depth' = Depth - 1
      /\ \A i \in 1 .. Depth - 1 : frames'[i] = frames[i]
  BY <1>1, FramesTyped, Popped
<1>6. /\ answer' \in AnswerType
      /\ AnswerRight(answer')
  <2>1. (~copied) \in BOOLEAN
    OBVIOUS
  <2> QED
    BY <1>1, <2>1, AnswerFits
<1>7. \A i \in (Depth - 1) + 1 .. Depth : ~CoreAt(i) /\ ~CallbackAt(i) /\ frames[i].does # "set_sink"
  <2>1. Top.does = "render"
    BY <1>1, <1>2 DEF IInv, Layered, Fits
  <2> QED
    BY <1>1, <1>2, <2>1 DEF CoreAt
<1>8. ErrorWaits' /\ Entered' /\ SinkKnown'
  <2>2. ErrorWaits'
    BY <1>1, <1>2, <1>4, <1>5, <1>7, ErrorOff
  <2>3. Entered'
    BY <1>1, <1>2, <1>4, <1>5, <1>7, EnteredOff
  <2>4. SinkKnown'
    BY <1>1, <1>2, <1>4, <1>5, <1>7, SinkOff
  <2> QED
    BY <2>2, <2>3, <2>4
<1>9. WriterHeld' /\ ErrorsReachCaller'
  BY <1>1, <1>4, <1>6 DEF IInv, WriterHeld, ErrorsReachCaller, AnswerRight
<1>10. core'.active = core.active /\ core' = core /\ writer' \in Values /\ kind' = kind
  BY <1>1, HandleTyped
<1> QED
  BY <1>2, <1>3, <1>4, <1>5, <1>6, <1>7, <1>8, <1>9, <1>10, HandleTyped, PopKeeps

(* The core has written its terminal reset: the old writer is let go, and   *)
(* the core is bound to the new one.                                        *)
LEMMA SetSinkReturnsKeeps ==
    ASSUME IInv, SetSinkReturns
    PROVE  IInv'
<1> DEFINE h == IF Top.old = NoSlot THEN handle ELSE [handle EXCEPT !.value[Top.old] = None]
<1>1. /\ Depth > 0 /\ Top.at = "core" /\ Top.does = "set_sink" /\ frames' = Below
      /\ handle' = Raise(h)
      /\ core' = [core EXCEPT !.active = FALSE, !.sink = handle.slot]
      /\ writer' = handle.value[handle.slot]
      /\ answer' = Answer(handle, [Top EXCEPT !.failed = FALSE])
      /\ UNCHANGED kind
  BY DEF SetSinkReturns, Calling
<1>2. /\ Depth \in Nat /\ Depth \in 1 .. Depth /\ Top = frames[Depth]
      /\ Depth - 1 \in 0 .. Depth /\ ~CallbackAt(Depth)
  BY <1>1, TopMethod
<1>3. Top.old = core.sink /\ handle.slot # core.sink /\ handle.slot # NoSlot
  BY <1>1, <1>2 DEF IInv, SinkKnown
<1>4. handle.slot \in Contexts /\ (Top.old # NoSlot => Top.old \in Contexts)
  BY <1>3, HandleTyped DEF Contexts
<1>5. /\ h \in HandleType /\ h.open = handle.open /\ h.slot = handle.slot /\ h.active = handle.active
      /\ h.thread = handle.thread /\ h.operations = handle.operations
      /\ h.value[handle.slot] = handle.value[handle.slot]
  <2>1. handle \in HandleType /\ handle.value \in [Contexts -> Values] /\ None \in Values
    BY HandleTyped DEF HandleType, Values
  <2>2. CASE Top.old = NoSlot
    BY <2>1, <2>2
  <2>3. CASE Top.old # NoSlot
    <3>1. h = [handle EXCEPT !.value = [handle.value EXCEPT ![Top.old] = None]]
      BY <2>3
    <3>2. [handle.value EXCEPT ![Top.old] = None] \in [Contexts -> Values]
      BY <1>4, <2>1, <2>3
    <3>3. [handle.value EXCEPT ![Top.old] = None][handle.slot] = handle.value[handle.slot]
      BY <1>3, <1>4, <2>1, <2>3
    <3> HIDE DEF h
    <3> QED
      BY <2>1, <3>1, <3>2, <3>3 DEF HandleType
  <2> QED
    BY <2>2, <2>3
<1> HIDE DEF h
<1>6. /\ handle' \in HandleType /\ handle'.failure = NoThread /\ handle'.open = handle.open
      /\ handle'.slot = handle.slot /\ handle'.active = handle.active /\ handle'.thread = handle.thread
      /\ handle'.operations = handle.operations
      /\ handle'.value[handle.slot] = handle.value[handle.slot]
  BY <1>1, <1>5, RaiseFacts
<1>7. /\ frames' \in Seq(FrameType) /\ Depth' = Depth - 1
      /\ \A i \in 1 .. Depth - 1 : frames'[i] = frames[i]
  BY <1>1, FramesTyped, Popped
<1>8. /\ core' \in [active : BOOLEAN, sink : Sinks \cup {NoSlot}, traced : BOOLEAN]
      /\ core'.sink = handle.slot /\ ~core'.active
  BY <1>1, HandleTyped
<1>9. /\ answer' \in AnswerType
      /\ AnswerRight(answer')
  <2>1. FALSE \in BOOLEAN
    OBVIOUS
  <2> QED
    BY <1>1, <2>1, AnswerFits
<1>10. CoreAt(Depth) /\ (\A i \in (Depth - 1) + 1 .. Depth : i = Depth)
  BY <1>1, <1>2 DEF CoreAt
<1>11. ErrorWaits' /\ Entered'
  <2>1. \A i \in (Depth - 1) + 1 .. Depth : ~CallbackAt(i)
    BY <1>1, <1>2
  <2> QED
    BY <1>2, <1>6, <1>7, <2>1, ErrorOff, EnteredOff
<1>12. SinkKnown'
  <2>1. ASSUME NEW i \in 1 .. Depth - 1 PROVE frames[i].does # "set_sink"
    <3>1. i \in 1 .. Depth /\ i # Depth
      BY <1>2
    <3> QED
      BY <1>2, <1>10, <3>1 DEF IInv, SinkKnown, OneCore
  <2> QED
    BY <1>6, <1>7, <1>8, <2>1 DEF SinkKnown
<1>13. WriterHeld' /\ ErrorsReachCaller'
  BY <1>1, <1>6, <1>8, <1>9 DEF WriterHeld, ErrorsReachCaller, AnswerRight
<1>14. writer' \in Values /\ kind' = kind
  BY <1>1, <1>4, HandleTyped DEF HandleType
<1>15. ~Holds(frames[Depth])
  BY <1>1, <1>2 DEF Holds
<1>16. handle'.operations = handle.operations /\ \A i \in (Depth - 1) + 1 .. Depth : ~Holds(frames[i])
  BY <1>6, <1>10, <1>15
<1> QED
  BY <1>2, <1>6, <1>7, <1>8, <1>9, <1>10, <1>11, <1>12, <1>13, <1>14, <1>16, PopKeeps
-----------------------------------------------------------------------------
(* Steps that change the topmost frame.                                     *)
LEMMA TopChanged ==
    ASSUME frames \in Seq(FrameType), Depth > 0, NEW g \in FrameType,
           frames' = [frames EXCEPT ![Depth] = g]
    PROVE  /\ frames' \in Seq(FrameType) /\ Depth' = Depth /\ Depth \in Nat
           /\ \A i \in 1 .. Depth - 1 : frames'[i] = frames[i]
           /\ frames'[Depth] = g
BY DEF Depth

LEMMA CallBackFailsKeeps ==
    ASSUME IInv, NEW c \in Contexts \cup {"reader"}, CallBackFails(c)
    PROVE  IInv'
<1> DEFINE g == [frames[Depth] EXCEPT !.failed = TRUE]
<1>1. /\ Depth > 0 /\ Top.at = "core" /\ frames' = [frames EXCEPT ![Depth].failed = TRUE]
      /\ UNCHANGED <<kind, handle, core, writer, answer>>
  BY DEF CallBackFails, CalledBack, Calling, Fails
<1>2. /\ Depth \in Nat /\ Depth \in 1 .. Depth /\ Depth \in 0 .. Depth /\ frames \in Seq(FrameType)
      /\ frames[Depth] \in FrameType
  BY <1>1, FramesTyped
<1>3. /\ g \in FrameType /\ g.does = frames[Depth].does /\ g.at = frames[Depth].at
      /\ g.ctx = frames[Depth].ctx /\ g.old = frames[Depth].old /\ g.raised = frames[Depth].raised
      /\ g.failed = TRUE
  BY <1>2 DEF FrameType
<1>4. frames' = [frames EXCEPT ![Depth] = g]
  BY <1>1, <1>2 DEF FrameType
<1> HIDE DEF g
<1>5. /\ frames' \in Seq(FrameType) /\ Depth' = Depth
      /\ \A i \in 1 .. Depth - 1 : frames'[i] = frames[i]
      /\ frames'[Depth] = g
  BY <1>1, <1>2, <1>3, <1>4, TopChanged
<1>6. ASSUME NEW i \in 1 .. Depth
      PROVE  /\ frames'[i].does = frames[i].does /\ frames'[i].at = frames[i].at
             /\ frames'[i].ctx = frames[i].ctx /\ frames'[i].old = frames[i].old
             /\ frames'[i].raised = frames[i].raised
  <2>1. CASE i = Depth
    BY <1>3, <1>5, <2>1
  <2>2. CASE i # Depth
    <3>1. i \in 1 .. Depth - 1
      BY <1>2, <2>2
    <3> QED
      BY <1>5, <3>1
  <2> QED
    BY <2>1, <2>2
<1>7. \A i \in Depth + 1 .. Depth : FALSE
  BY <1>2
<1>8. ErrorWaits'
  BY <1>1, <1>2, <1>3, <1>5, <1>6 DEF IInv, ErrorWaits, CoreAt
<1>9. Entered' /\ SinkKnown'
  BY <1>1, <1>2, <1>5, <1>6, <1>7, EnteredOff, SinkOff
<1>10. WriterHeld'
  BY <1>1 DEF IInv, WriterHeld
<1>11. ErrorsReachCaller'
  BY <1>1, <1>2, <1>5, <1>6 DEF IInv, ErrorsReachCaller, AnswerRight, Calling, Top
<1>12. /\ core'.active = core.active /\ core' = core /\ writer' = writer /\ kind' = kind /\ handle' = handle
       /\ answer' = answer
  BY <1>1
<1> QED
  BY <1>2, <1>5, <1>6, <1>7, <1>8, <1>9, <1>10, <1>11, <1>12, HandleTyped, AnswerTyped, PopKeeps

(* A token is written: the method enters the core.                          *)
LEMMA WriteTokenKeeps ==
    ASSUME IInv, WriteToken
    PROVE  IInv'
<1> DEFINE g == [frames[Depth] EXCEPT !.at = "core"]
<1>1. /\ Depth > 0 /\ Top.at = "token" /\ handle.open /\ ~core.active
      /\ frames' = [frames EXCEPT ![Depth].at = "core"]
      /\ core' = [core EXCEPT !.active = TRUE]
      /\ UNCHANGED <<kind, handle, writer, answer>>
  BY DEF WriteToken, Reading, CoreTakes
<1>2. /\ Depth \in Nat /\ Depth \in 1 .. Depth /\ Depth \in 0 .. Depth /\ frames \in Seq(FrameType)
      /\ frames[Depth] \in FrameType /\ Top = frames[Depth]
  BY <1>1, FramesTyped DEF Top
<1>3. /\ g \in FrameType /\ g.does = frames[Depth].does /\ g.at = "core"
      /\ g.ctx = frames[Depth].ctx /\ g.old = frames[Depth].old /\ g.raised = frames[Depth].raised
  BY <1>2 DEF FrameType
<1>4. frames' = [frames EXCEPT ![Depth] = g]
  BY <1>1, <1>2 DEF FrameType
<1>5. frames[Depth].does = "write_token" /\ frames[Depth].at = "token"
  BY <1>1, <1>2 DEF IInv, Layered, Fits
<1> HIDE DEF g
<1>6. /\ frames' \in Seq(FrameType) /\ Depth' = Depth
      /\ \A i \in 1 .. Depth - 1 : frames'[i] = frames[i]
      /\ frames'[Depth] = g
  BY <1>1, <1>2, <1>3, <1>4, TopChanged
<1>7. ASSUME NEW i \in 1 .. Depth
      PROVE  /\ frames'[i].does = frames[i].does
             /\ frames'[i].ctx = frames[i].ctx /\ frames'[i].old = frames[i].old
             /\ frames'[i].raised = frames[i].raised
             /\ i # Depth => frames'[i] = frames[i]
  <2>1. CASE i = Depth
    BY <1>3, <1>6, <2>1
  <2>2. CASE i # Depth
    <3>1. i \in 1 .. Depth - 1
      BY <1>2, <2>2
    <3> QED
      BY <1>6, <3>1
  <2> QED
    BY <2>1, <2>2
<1>8. /\ core' \in [active : BOOLEAN, sink : Sinks \cup {NoSlot}, traced : BOOLEAN]
      /\ core'.sink = core.sink /\ core'.active
  BY <1>1, HandleTyped
<1>9. TypeOK'
  BY <1>1, <1>6, <1>8 DEF IInv, TypeOK
<1>10. Layered'
  <2>1. Layered
    BY DEF IInv
  <2>2. \A i \in 1 .. Depth : Fits(frames'[i])
    <3>1. Fits(g)
      BY <1>3, <1>5 DEF Fits
    <3> QED
      BY <1>6, <1>7, <2>1, <3>1 DEF Layered
  <2>3. frames'[1].at # "Lua"
    BY <1>1, <1>2, <1>3, <1>6, <2>1 DEF Layered
  <2>4. ASSUME NEW i \in 1 .. Depth, NEW j \in 1 .. Depth, j = i + 1
        PROVE  LiesOn(frames'[j], frames'[i])
    <3>1. LiesOn(frames[j], frames[i]) /\ frames'[i] = frames[i]
      BY <1>2, <1>7, <2>1, <2>4 DEF Layered
    <3> QED
      BY <1>7, <3>1 DEF LiesOn
  <2> QED
    BY <1>6, <2>2, <2>3, <2>4 DEF Layered
<1>11. OneCore'
  <2>1. \A i \in 1 .. Depth : frames[i].at # "core"
    BY <1>1 DEF IInv, OneCore, CoreAt
  <2>2. \A i \in 1 .. Depth : frames'[i].at = "core" <=> i = Depth
    BY <1>3, <1>6, <1>7, <2>1
  <2> QED
    BY <1>2, <1>6, <1>8, <2>2 DEF OneCore, CoreAt
<1>12. Counted'
  <2>1. \A i \in 1 .. Depth : Holds(frames'[i]) = Holds(frames[i])
    BY <1>3, <1>5, <1>6, <1>7 DEF Holds
  <2>2. \A i \in Depth + 1 .. Depth : ~Holds(frames[i])
    BY <1>2
  <2> QED
    BY <1>1, <1>2, <1>6, <2>1, <2>2, CountedOff
<1>13. handle.failure = NoThread
  BY <1>5 DEF IInv, ErrorWaits, CoreAt
<1>14. ErrorWaits' /\ Entered' /\ SinkKnown'
  <2>1. \A i \in 1 .. Depth : frames[i].does = "set_sink" => frames'[i].at = frames[i].at
    BY <1>5, <1>7
  <2>2. \A i \in Depth + 1 .. Depth : ~CallbackAt(i) /\ frames[i].does # "set_sink"
    BY <1>2
  <2>3. ErrorWaits'
    BY <1>1, <1>2, <1>6, <1>7, <1>13, ErrorOff
  <2>4. Entered'
    BY <1>1, <1>2, <1>6, <1>7, <2>2, EnteredOff
  <2>5. SinkKnown'
    BY <1>1, <1>2, <1>6, <1>7, <1>8, <2>1, <2>2, SinkOff
  <2> QED
    BY <2>3, <2>4, <2>5
<1>15. OpenKnown' /\ WriterHeld' /\ CallsKeepHandle'
  BY <1>1, <1>8 DEF IInv, OpenKnown, WriterHeld, CallsKeepHandle
<1>16. ErrorsReachCaller'
  BY <1>1, <1>13 DEF IInv, ErrorsReachCaller, AnswerRight
<1> QED
  BY <1>9, <1>10, <1>11, <1>12, <1>14, <1>15, <1>16 DEF IInv

(* The core has rendered: the method leaves the core and holds the result.  *)
LEMMA RenderedKeeps ==
    ASSUME IInv, Rendered
    PROVE  IInv'
<1> DEFINE g == [frames[Depth] EXCEPT !.at = "copy"]
<1>1. /\ Depth > 0 /\ Top.at = "core" /\ Top.does = "render" /\ ~Top.failed
      /\ handle' = [handle EXCEPT !.operations = handle.operations + 1]
      /\ frames' = [frames EXCEPT ![Depth].at = "copy"]
      /\ core' = [core EXCEPT !.active = FALSE]
      /\ UNCHANGED <<kind, writer, answer>>
  BY DEF Rendered, Calling
<1>2. /\ Depth \in Nat /\ Depth \in 1 .. Depth /\ Depth \in 0 .. Depth /\ frames \in Seq(FrameType)
      /\ frames[Depth] \in FrameType /\ Top = frames[Depth] /\ CoreAt(Depth)
  BY <1>1, FramesTyped DEF Top, CoreAt
<1>3. /\ g \in FrameType /\ g.does = "render" /\ g.at = "copy"
      /\ g.ctx = frames[Depth].ctx /\ g.old = frames[Depth].old /\ g.raised = frames[Depth].raised
  BY <1>1, <1>2 DEF FrameType
<1>4. frames' = [frames EXCEPT ![Depth] = g]
  BY <1>1, <1>2 DEF FrameType
<1> HIDE DEF g
<1>5. /\ frames' \in Seq(FrameType) /\ Depth' = Depth
      /\ \A i \in 1 .. Depth - 1 : frames'[i] = frames[i]
      /\ frames'[Depth] = g
  BY <1>1, <1>2, <1>3, <1>4, TopChanged
<1>6. ASSUME NEW i \in 1 .. Depth
      PROVE  /\ frames'[i].does = frames[i].does
             /\ frames'[i].ctx = frames[i].ctx /\ frames'[i].old = frames[i].old
             /\ frames'[i].raised = frames[i].raised
             /\ i # Depth => frames'[i] = frames[i]
  <2>1. CASE i = Depth
    BY <1>1, <1>2, <1>3, <1>5, <2>1
  <2>2. CASE i # Depth
    <3>1. i \in 1 .. Depth - 1
      BY <1>2, <2>2
    <3> QED
      BY <1>5, <3>1
  <2> QED
    BY <2>1, <2>2
<1>7. handle.failure = NoThread /\ handle.open
  BY <1>1, <1>2 DEF IInv, ErrorWaits, CallsKeepHandle, CoreAt
<1>8. /\ handle' \in HandleType /\ handle'.failure = handle.failure /\ handle'.open = handle.open
      /\ handle'.slot = handle.slot /\ handle'.active = handle.active /\ handle'.thread = handle.thread
      /\ handle'.value = handle.value /\ handle'.operations = handle.operations + 1
  BY <1>1, HandleTyped DEF HandleType
<1>9. /\ core' \in [active : BOOLEAN, sink : Sinks \cup {NoSlot}, traced : BOOLEAN]
      /\ core'.sink = core.sink /\ ~core'.active
  BY <1>1, HandleTyped
<1>10. TypeOK'
  BY <1>1, <1>5, <1>8, <1>9 DEF IInv, TypeOK
<1>11. Layered'
  <2>1. Layered
    BY DEF IInv
  <2>2. \A i \in 1 .. Depth : Fits(frames'[i])
    <3>1. Fits(g)
      BY <1>3 DEF Fits
    <3> QED
      BY <1>5, <1>6, <2>1, <3>1 DEF Layered
  <2>3. frames'[1].at # "Lua"
    BY <1>1, <1>2, <1>3, <1>5, <2>1 DEF Layered
  <2>4. ASSUME NEW i \in 1 .. Depth, NEW j \in 1 .. Depth, j = i + 1
        PROVE  LiesOn(frames'[j], frames'[i])
    <3>1. LiesOn(frames[j], frames[i]) /\ frames'[i] = frames[i]
      BY <1>2, <1>6, <2>1, <2>4 DEF Layered
    <3> QED
      BY <1>6, <3>1 DEF LiesOn
  <2> QED
    BY <1>5, <2>2, <2>3, <2>4 DEF Layered
<1>12. OneCore'
  <2>1. \A i \in 1 .. Depth : frames[i].at = "core" => i = Depth
    BY <1>2 DEF IInv, OneCore, CoreAt
  <2>2. \A i \in 1 .. Depth : frames'[i].at # "core"
    BY <1>3, <1>5, <1>6, <2>1
  <2> QED
    BY <1>2, <1>5, <1>9, <2>2 DEF OneCore, CoreAt
<1>13. Counted'
  <2>1. ~Holds(frames[Depth]) /\ Holds(frames'[Depth])
    BY <1>1, <1>2, <1>3, <1>5 DEF Holds
  <2>2. /\ Depth \in 1 .. Len(frames') /\ Depth \in 1 .. Len(frames) /\ Len(frames') = Len(frames)
        /\ \A i \in (1 .. Len(frames')) \ {Depth} : i \in 1 .. Len(frames) /\ Holds(frames'[i]) = Holds(frames[i])
        /\ \A i \in (1 .. Len(frames)) \ {Depth} : i \in 1 .. Len(frames')
    BY <1>2, <1>5, <1>6 DEF Depth
  <2>3. Cardinality(Holders(frames')) = Cardinality(Holders(frames)) + 1
    <3> DEFINE d == Depth
    <3>1. /\ d \in 1 .. Len(frames') /\ d \in 1 .. Len(frames)
          /\ \A i \in (1 .. Len(frames')) \ {d} : i \in 1 .. Len(frames) /\ Holds(frames'[i]) = Holds(frames[i])
          /\ \A i \in (1 .. Len(frames)) \ {d} : i \in 1 .. Len(frames')
          /\ ~Holds(frames[d]) /\ Holds(frames'[d])
      BY <2>1, <2>2
    <3> HIDE DEF d
    <3> QED
      BY <1>2, <1>5, <3>1, HoldersGrow
  <2> QED
    BY <1>8, <2>3 DEF IInv, Counted
<1>14. \A i \in Depth + 1 .. Depth : FALSE
  BY <1>2
<1>15. ErrorWaits' /\ Entered' /\ SinkKnown'
  <2>1. \A i \in 1 .. Depth : frames[i].does = "set_sink" => frames'[i].at = frames[i].at
    BY <1>1, <1>2, <1>6
  <2>2. ErrorWaits'
    BY <1>2, <1>5, <1>6, <1>7, <1>8, ErrorOff
  <2>3. Entered'
    BY <1>2, <1>5, <1>6, <1>8, <1>14, EnteredOff
  <2>4. SinkKnown'
    BY <1>2, <1>5, <1>6, <1>8, <1>9, <1>14, <2>1, SinkOff
  <2> QED
    BY <2>2, <2>3, <2>4
<1>16. OpenKnown' /\ WriterHeld' /\ CallsKeepHandle'
  BY <1>1, <1>7, <1>8, <1>9 DEF IInv, OpenKnown, WriterHeld, CallsKeepHandle
<1>17. ErrorsReachCaller'
  BY <1>1, <1>7, <1>8 DEF IInv, ErrorsReachCaller, AnswerRight
<1> QED
  BY <1>10, <1>11, <1>12, <1>13, <1>15, <1>16, <1>17 DEF IInv
-----------------------------------------------------------------------------
(* Steps that leave the frames alone.                                       *)
LEMMA NothingAbove == \A n \in Nat : n \in 0 .. n /\ \A i \in n + 1 .. n : FALSE
OBVIOUS

LEMMA StillKeeps ==
    ASSUME IInv, UNCHANGED frames, core'.active = core.active,
           core' \in [active : BOOLEAN, sink : Sinks \cup {NoSlot}, traced : BOOLEAN],
           kind' \in Kinds \cup {"nothing"}, handle' \in HandleType, writer' \in Values,
           answer' \in AnswerType, AnswerRight(answer'),
           handle'.operations = handle.operations, handle'.active = handle.active,
           handle.failure = NoThread, handle'.failure = NoThread,
           SinkKnown', OpenKnown', WriterHeld', CallsKeepHandle'
    PROVE  IInv'
<1>0. Depth' = Depth /\ frames' = frames
  BY DEF Depth
<1>1. TypeOK'
  BY <1>0 DEF IInv, TypeOK, AnswerType
<1>2. Layered' /\ OneCore'
  BY <1>0 DEF IInv, Layered, OneCore, CoreAt
<1>3. Counted' /\ Entered'
  <2>0. Depth \in Nat /\ frames \in Seq(FrameType)
    BY FramesTyped
  <2>1. Depth \in 0 .. Depth /\ \A i \in Depth + 1 .. Depth : FALSE
    BY <2>0, NothingAbove
  <2> QED
    BY <1>0, <2>0, <2>1, CountedOff, EnteredOff
<1>4. ErrorWaits'
  BY <1>0 DEF IInv, ErrorWaits, CoreAt
<1>5. ErrorsReachCaller'
  BY DEF ErrorsReachCaller, AnswerRight
<1> QED
  BY <1>1, <1>2, <1>3, <1>4, <1>5 DEF IInv

LEMMA CallRefusedKeeps ==
    ASSUME IInv, NEW t \in Threads, NEW op, CallRefused(op, t)
    PROVE  IInv'
<1> DEFINE h == Refreshed(handle, t)
           f == [Method(op, t, "core") EXCEPT !.failed = TRUE]
<1>1. /\ LuaRuns /\ handle.open /\ handle' = Raise(h) /\ answer' = Answer(handle, f)
      /\ UNCHANGED <<kind, core, frames, writer>>
  BY DEF CallRefused, Ready
<1>2. handle.failure = NoThread
  BY <1>1, LuaRunsFacts
<1>3. /\ h \in HandleType
      /\ h.open = handle.open /\ h.operations = handle.operations
      /\ h.slot = handle.slot /\ h.active = handle.active /\ h.value = handle.value
      /\ handle.open => \A c \in Contexts : h.thread[c] \in Threads
  BY RefreshedFacts
<1> HIDE DEF h
<1>4. /\ handle' \in HandleType /\ handle'.failure = NoThread
      /\ handle'.open = handle.open /\ handle'.operations = handle.operations
      /\ handle'.slot = handle.slot /\ handle'.active = handle.active /\ handle'.value = handle.value
      /\ \A c \in Contexts : handle'.thread[c] \in Threads
  BY <1>1, <1>3, RaiseFacts
<1>5. answer' = [raised |-> NoThread, thread |-> t, result |-> "error text"]
  BY <1>1, <1>2 DEF Answer, Method
<1>6. answer' \in AnswerType /\ AnswerRight(answer')
  BY <1>5, ThreadsAssumption DEF AnswerType, AnswerRight, Errors
<1>7. Depth' = Depth /\ frames' = frames /\ core' = core /\ writer' = writer /\ kind' = kind
  BY <1>1 DEF Depth
<1>8. SinkKnown' /\ OpenKnown' /\ WriterHeld' /\ CallsKeepHandle'
  BY <1>4, <1>7 DEF IInv, SinkKnown, OpenKnown, WriterHeld, CallsKeepHandle, CoreAt
<1> QED
  BY <1>2, <1>4, <1>6, <1>7, <1>8, HandleTyped, StillKeeps

LEMMA SetSinkAnswersKeeps ==
    ASSUME IInv, NEW t \in Threads, NEW g, SetSinkAnswers(t, g)
    PROVE  IInv'
<1>1. LuaRuns /\ handle.open /\ handle' = Refreshed(handle, t)
      /\ UNCHANGED <<kind, core, frames, writer, answer>>
  BY DEF SetSinkAnswers
<1>2. handle.failure = NoThread
  BY <1>1, LuaRunsFacts
<1>3. /\ handle' \in HandleType /\ handle'.failure = NoThread
      /\ handle'.open = handle.open /\ handle'.operations = handle.operations
      /\ handle'.slot = handle.slot /\ handle'.active = handle.active /\ handle'.value = handle.value
      /\ \A c \in Contexts : handle'.thread[c] \in Threads
  BY <1>1, <1>2, RefreshedFacts
<1>4. answer' \in AnswerType /\ AnswerRight(answer')
  BY <1>1, AnswerTyped DEF IInv, ErrorsReachCaller, AnswerRight
<1>5. Depth' = Depth /\ frames' = frames /\ core' = core /\ writer' = writer /\ kind' = kind
  BY <1>1 DEF Depth
<1>6. SinkKnown' /\ OpenKnown' /\ WriterHeld' /\ CallsKeepHandle'
  BY <1>3, <1>5 DEF IInv, SinkKnown, OpenKnown, WriterHeld, CallsKeepHandle, CoreAt
<1> QED
  BY <1>2, <1>3, <1>4, <1>5, <1>6, HandleTyped, StillKeeps

(* Nothing counted means that no frame uses the handle.                     *)
LEMMA NothingCounted ==
    ASSUME IInv, LuaRuns, ~CallbacksActive(handle)
    PROVE  /\ ~core.active /\ handle.failure = NoThread
           /\ \A i \in 1 .. Depth : frames[i].at \notin {"core", "copy"}
<1>1. ~core.active /\ handle.failure = NoThread /\ \A i \in 1 .. Depth : ~CoreAt(i)
  BY LuaRunsFacts
<1>2. ASSUME NEW i \in 1 .. Depth, frames[i].at = "copy" PROVE FALSE
  <2>1. i \in Holders(frames)
    BY <1>2 DEF Holders, Holds, Depth
  <2>2. Cardinality(Holders(frames)) # 0 /\ Cardinality(Holders(frames)) \in Nat
    BY <2>1, HoldersFinite, FramesTyped, FS_EmptySet
  <2>3. handle.operations = Cardinality(Holders(frames))
    BY DEF IInv, Counted
  <2> QED
    BY <2>2, <2>3 DEF CallbacksActive
<1> QED
  BY <1>1, <1>2 DEF CoreAt

LEMMA CloseKeeps ==
    ASSUME IInv, NEW t \in Threads, Close(t)
    PROVE  IInv'
<1>1. /\ LuaRuns /\ handle.open /\ ~CallbacksActive(handle)
      /\ handle' = [handle EXCEPT !.open = FALSE, !.value = [c \in Contexts |-> None]]
      /\ core' = [core EXCEPT !.sink = NoSlot] /\ writer' = None
      /\ UNCHANGED <<kind, frames, answer>>
  BY DEF Close
<1>2. /\ ~core.active /\ handle.failure = NoThread
      /\ \A i \in 1 .. Depth : frames[i].at \notin {"core", "copy"}
  BY <1>1, NothingCounted
<1>3. /\ handle' \in HandleType /\ ~handle'.open /\ handle'.failure = NoThread
      /\ handle'.operations = handle.operations /\ handle'.active = handle.active
  <2>1. [c \in Contexts |-> None] \in [Contexts -> Values]
    BY DEF Values
  <2> QED
    BY <1>1, <1>2, <2>1, HandleTyped DEF HandleType
<1>4. /\ core' \in [active : BOOLEAN, sink : Sinks \cup {NoSlot}, traced : BOOLEAN]
      /\ core'.active = core.active /\ core'.sink = NoSlot /\ None \in Values
  BY <1>1, HandleTyped DEF Values
<1>5. answer' \in AnswerType /\ AnswerRight(answer')
  BY <1>1, AnswerTyped DEF IInv, ErrorsReachCaller, AnswerRight
<1>6. Depth' = Depth /\ frames' = frames
  BY <1>1 DEF Depth
<1>7. SinkKnown'
  <2>1. \A i \in 1 .. Depth : frames[i].does # "set_sink"
    BY <1>2 DEF IInv, SinkKnown, CoreAt
  <2> QED
    BY <1>3, <1>4, <1>6, <2>1 DEF SinkKnown
<1>8. OpenKnown' /\ WriterHeld' /\ CallsKeepHandle'
  BY <1>2, <1>3, <1>6 DEF OpenKnown, WriterHeld, CallsKeepHandle
<1> QED
  BY <1>1, <1>2, <1>3, <1>4, <1>5, <1>7, <1>8, HandleTyped, StillKeeps

(* A handle is created where no method runs.                                *)
LEMMA CreateKeeps ==
    ASSUME IInv, NEW t \in Threads, NEW k \in Kinds, NEW w \in Functions, NEW trace \in BOOLEAN,
           Create(t, k, w, trace)
    PROVE  IInv'
<1> DEFINE fresh == NewTrace(NewHandle, trace)
           h == [fresh EXCEPT !.open = TRUE, !.thread = [c \in Contexts |-> t]]
<1>1. /\ Depth = 0 /\ kind' = k
      /\ handle' = IF k = "stream" THEN [h EXCEPT !.value["sink0"] = w, !.slot = "sink0"] ELSE h
      /\ core' = [core EXCEPT !.traced = trace, !.sink = IF k = "stream" THEN "sink0" ELSE NoSlot]
      /\ writer' = IF k = "stream" THEN w ELSE None
      /\ UNCHANGED <<frames, answer>>
  BY DEF Create
<1>2. /\ NewHandle \in HandleType /\ NewHandle.operations = 0 /\ NewHandle.failure = NoThread
      /\ NewHandle.slot = NoSlot /\ NewHandle.active = [c \in Contexts |-> 0]
  <2>1. /\ [c \in Contexts |-> 0] \in [Contexts -> 0 .. 1]
        /\ [c \in Contexts |-> NoThread] \in [Contexts -> Threads \cup {NoThread}]
        /\ [c \in Contexts |-> None] \in [Contexts -> Values]
    BY DEF Values
  <2> QED
    BY <2>1 DEF NewHandle, HandleType
<1>3. /\ fresh \in HandleType /\ fresh.operations = 0 /\ fresh.failure = NoThread
      /\ fresh.slot = NoSlot /\ fresh.active = [c \in Contexts |-> 0]
  <2>1. CASE trace
    <3>1. fresh = [NewHandle EXCEPT !.value = [NewHandle.value EXCEPT !["trace"] = "trace function"]]
      BY <2>1 DEF NewTrace
    <3>2. [NewHandle.value EXCEPT !["trace"] = "trace function"] \in [Contexts -> Values]
      BY <1>2 DEF HandleType, Values
    <3> HIDE DEF fresh
    <3> QED
      BY <1>2, <3>1, <3>2 DEF HandleType
  <2>2. CASE ~trace
    BY <1>2, <2>2 DEF NewTrace
  <2> QED
    BY <2>1, <2>2
<1> HIDE DEF fresh
<1>4. /\ h \in HandleType /\ h.operations = 0 /\ h.failure = NoThread /\ h.open
      /\ h.slot = NoSlot /\ h.active = [c \in Contexts |-> 0]
      /\ h.thread = [c \in Contexts |-> t]
  <2>1. [c \in Contexts |-> t] \in [Contexts -> Threads \cup {NoThread}]
    OBVIOUS
  <2> QED
    BY <1>3, <2>1 DEF HandleType
<1> HIDE DEF h
<1>5. /\ handle' \in HandleType /\ handle'.operations = 0 /\ handle'.failure = NoThread
      /\ handle'.open /\ handle'.active = [c \in Contexts |-> 0]
      /\ handle'.thread = [c \in Contexts |-> t]
      /\ handle'.slot = IF k = "stream" THEN "sink0" ELSE NoSlot
      /\ k = "stream" => handle'.value["sink0"] = w
  <2>1. CASE k = "stream"
    <3>1. handle' = [h EXCEPT !.value = [h.value EXCEPT !["sink0"] = w], !.slot = "sink0"]
      BY <1>1, <2>1
    <3>2. "sink0" \in Contexts /\ "sink0" \in Sinks
      BY DEF Contexts, Sinks
    <3>3. h.value \in [Contexts -> Values] /\ w \in Values
      BY <1>4 DEF HandleType, Values
    <3>4. [h.value EXCEPT !["sink0"] = w] \in [Contexts -> Values]
          /\ [h.value EXCEPT !["sink0"] = w]["sink0"] = w
      BY <3>2, <3>3
    <3> QED
      BY <1>4, <2>1, <3>1, <3>2, <3>4 DEF HandleType
  <2>2. CASE k # "stream"
    BY <1>1, <1>4, <2>2
  <2> QED
    BY <2>1, <2>2
<1>6. /\ core' \in [active : BOOLEAN, sink : Sinks \cup {NoSlot}, traced : BOOLEAN]
      /\ core'.active = core.active /\ core'.sink = handle'.slot
  BY <1>1, <1>5, HandleTyped DEF Sinks
<1>7. writer' \in Values
  BY <1>1 DEF Values
<1>8. /\ frames \in Seq(FrameType) /\ frames' = frames /\ Depth' = 0 /\ Len(frames) = 0
  BY <1>1, FramesTyped DEF Depth
<1>9. TypeOK'
  <2>1. kind' \in Kinds \cup {"nothing"} /\ answer' = answer
    BY <1>1
  <2> QED
    BY <1>5, <1>6, <1>7, <1>8, <2>1, AnswerTyped DEF TypeOK, AnswerType
<1>10. Layered' /\ ErrorWaits' /\ CallsKeepHandle'
  BY <1>5, <1>8 DEF Layered, ErrorWaits, CallsKeepHandle
<1>11. OneCore'
  BY <1>1, <1>6, <1>8 DEF IInv, OneCore, CoreAt
<1>12. Counted'
  <2>1. Holders(frames) = {}
    BY <1>8 DEF Holders
  <2> QED
    BY <1>5, <1>8, <2>1, FS_EmptySet DEF Counted
<1>13. Entered'
  BY <1>5, <1>8 DEF Entered
<1>14. SinkKnown'
  BY <1>6, <1>8 DEF SinkKnown
<1>15. OpenKnown'
  BY <1>1, <1>5 DEF OpenKnown, Kinds
<1>16. WriterHeld'
  <2>1. core'.sink # NoSlot => k = "stream" /\ core'.sink = "sink0"
    BY <1>5, <1>6
  <2> QED
    BY <1>1, <1>5, <2>1 DEF WriterHeld
<1>17. ErrorsReachCaller'
  BY <1>1, <1>5 DEF IInv, ErrorsReachCaller, AnswerRight
<1> QED
  BY <1>9, <1>10, <1>11, <1>12, <1>13, <1>14, <1>15, <1>16, <1>17 DEF IInv

LEMMA CreateFailsKeeps ==
    ASSUME IInv, CreateFails
    PROVE  IInv'
<1>1. kind' \in Kinds /\ UNCHANGED <<handle, core, frames, writer, answer>>
  BY DEF CreateFails
<1>2. Depth' = Depth
  BY <1>1 DEF Depth
<1>3. TypeOK' /\ Layered' /\ OneCore' /\ Counted'
  BY <1>1, <1>2 DEF IInv, TypeOK, Layered, OneCore, Counted, CoreAt
<1>4. Entered' /\ ErrorWaits' /\ SinkKnown'
  BY <1>1, <1>2 DEF IInv, Entered, ErrorWaits, SinkKnown, CoreAt, CallbackAt
<1>5. OpenKnown' /\ WriterHeld' /\ CallsKeepHandle' /\ ErrorsReachCaller'
  BY <1>1, <1>2 DEF IInv, OpenKnown, WriterHeld, CallsKeepHandle, ErrorsReachCaller, AnswerRight, Calling, Top, Kinds
<1> QED
  BY <1>3, <1>4, <1>5 DEF IInv

LEMMA StutterKeeps ==
    ASSUME IInv, UNCHANGED vars
    PROVE  IInv'
<1>1. UNCHANGED <<kind, handle, core, frames, writer, answer>> /\ Depth' = Depth
  BY DEF vars, Depth
<1>2. TypeOK' /\ Layered' /\ OneCore' /\ Counted'
  BY <1>1 DEF IInv, TypeOK, Layered, OneCore, Counted, CoreAt
<1>3. Entered' /\ ErrorWaits' /\ SinkKnown'
  BY <1>1 DEF IInv, Entered, ErrorWaits, SinkKnown, CoreAt, CallbackAt
<1>4. OpenKnown' /\ WriterHeld' /\ CallsKeepHandle' /\ ErrorsReachCaller'
  BY <1>1 DEF IInv, OpenKnown, WriterHeld, CallsKeepHandle, ErrorsReachCaller, AnswerRight, Calling, Top
<1> QED
  BY <1>2, <1>3, <1>4 DEF IInv
-----------------------------------------------------------------------------
LEMMA Initially == Init => IInv
<1> SUFFICES ASSUME Init PROVE IInv
  OBVIOUS
<1>1. /\ kind = "nothing" /\ handle = NewHandle /\ core = NewCore
      /\ frames = <<>> /\ writer = None /\ answer = NoAnswer
  BY DEF Init
<1>2. Depth = 0 /\ frames \in Seq(FrameType) /\ Len(frames) = 0
  BY <1>1 DEF Depth
<1>3. /\ handle \in HandleType /\ ~handle.open /\ handle.operations = 0 /\ handle.failure = NoThread
      /\ handle.slot = NoSlot /\ handle.active = [c \in Contexts |-> 0]
  <2>1. /\ [c \in Contexts |-> 0] \in [Contexts -> 0 .. 1]
        /\ [c \in Contexts |-> NoThread] \in [Contexts -> Threads \cup {NoThread}]
        /\ [c \in Contexts |-> None] \in [Contexts -> Values]
    BY DEF Values
  <2> QED
    BY <1>1, <2>1 DEF NewHandle, HandleType
<1>4. core \in [active : BOOLEAN, sink : Sinks \cup {NoSlot}, traced : BOOLEAN]
      /\ ~core.active /\ core.sink = NoSlot
  BY <1>1 DEF NewCore
<1>5. answer \in AnswerType /\ AnswerRight(answer)
  BY <1>1 DEF NoAnswer, AnswerType, AnswerRight, Errors
<1>6. TypeOK
  BY <1>1, <1>2, <1>3, <1>4, <1>5 DEF TypeOK, AnswerType, Values
<1>7. Layered /\ OneCore /\ ErrorWaits /\ CallsKeepHandle /\ Entered
  BY <1>2, <1>3, <1>4 DEF Layered, OneCore, ErrorWaits, CallsKeepHandle, Entered
<1>8. Counted
  <2>1. Holders(frames) = {}
    BY <1>2 DEF Holders
  <2> QED
    BY <1>3, <2>1, FS_EmptySet DEF Counted
<1>9. SinkKnown /\ OpenKnown /\ WriterHeld
  BY <1>2, <1>3, <1>4 DEF SinkKnown, OpenKnown, WriterHeld
<1>10. ErrorsReachCaller
  BY <1>3, <1>5 DEF ErrorsReachCaller, AnswerRight
<1> QED
  BY <1>6, <1>7, <1>8, <1>9, <1>10 DEF IInv

LEMMA BeginKeeps ==
    ASSUME IInv, Begin
    PROVE  IInv'
<1>1. ASSUME NEW t \in Threads, NEW k \in Kinds, NEW w \in Functions, NEW trace \in BOOLEAN,
             Create(t, k, w, trace)
      PROVE  IInv'
  BY <1>1, CreateKeeps
<1>2. CASE CreateFails
  BY <1>2, CreateFailsKeeps
<1>3. ASSUME NEW t \in Threads, NEW op, Call(op, t) PROVE IInv'
  BY <1>3, CallKeeps
<1>4. ASSUME NEW t \in Threads, NEW op, CallRefused(op, t) PROVE IInv'
  BY <1>4, CallRefusedKeeps
<1>5. ASSUME NEW t \in Threads, ReadToken(t) PROVE IInv'
  BY <1>5, ReadTokenKeeps
<1>6. ASSUME NEW t \in Threads, NEW f \in Functions, SetSink(t, f) PROVE IInv'
  BY <1>6, SetSinkKeeps
<1>7. ASSUME NEW t \in Threads, NEW f \in Functions, SetSinkAnswers(t, f) PROVE IInv'
  BY <1>7, SetSinkAnswersKeeps
<1>8. ASSUME NEW t \in Threads, Close(t) PROVE IInv'
  BY <1>8, CloseKeeps
<1> QED
  BY <1>1, <1>2, <1>3, <1>4, <1>5, <1>6, <1>7, <1>8 DEF Begin

LEMMA InsideKeeps ==
    ASSUME IInv, Inside
    PROVE  IInv'
<1>1. CASE RunGetter
  BY <1>1, RunGetterKeeps
<1>2. CASE WriteToken
  BY <1>2, WriteTokenKeeps
<1>3. CASE WriteTokenRefused
  BY <1>3, WriteTokenRefusedKeeps
<1>4. ASSUME NEW c \in Contexts \cup {"reader"}, CallBack(c) PROVE IInv'
  BY <1>4, CallBackKeeps
<1>5. ASSUME NEW c \in Contexts \cup {"reader"}, CallBackFails(c) PROVE IInv'
  BY <1>5, CallBackFailsKeeps
<1>6. ASSUME NEW ok \in BOOLEAN, Return(ok) PROVE IInv'
  BY <1>6, ReturnKeeps
<1>7. CASE SetSinkReturns
  BY <1>7, SetSinkReturnsKeeps
<1>8. CASE Rendered
  BY <1>8, RenderedKeeps
<1>9. CASE RunFinalizer
  BY <1>9, RunFinalizerKeeps
<1>10. ASSUME NEW copied \in BOOLEAN, FreeResult(copied) PROVE IInv'
  BY <1>10, FreeResultKeeps
<1> QED
  BY <1>1, <1>2, <1>3, <1>4, <1>5, <1>6, <1>7, <1>8, <1>9, <1>10 DEF Inside

LEMMA LuaReturnsKeeps ==
    ASSUME IInv, LuaReturns
    PROVE  IInv'
<1>1. CASE FinalizerReturns
  BY <1>1, FinalizerReturnsKeeps
<1>2. ASSUME NEW raises \in BOOLEAN, GetterReturns(raises) PROVE IInv'
  BY <1>2, GetterReturnsKeeps
<1>3. ASSUME NEW result \in {"accepts", "refuses", "raises"}, CallbackReturns(result) PROVE IInv'
  BY <1>3, CallbackReturnsKeeps
<1> QED
  BY <1>1, <1>2, <1>3 DEF LuaReturns

LEMMA Inductive == IInv /\ [Next]_vars => IInv'
BY BeginKeeps, InsideKeeps, LuaReturnsKeeps, StutterKeeps DEF Next

LEMMA Invariance == Spec => []IInv
BY Initially, Inductive, PTL DEF Spec
-----------------------------------------------------------------------------
(* Callbacks, getters and finalizers may nest and call methods to any       *)
(* depth: no context is entered twice and no counter goes below zero        *)
(* (src/lua/libmdf_core.c:296-317).                                         *)
THEOREM TypeCorrect == Spec => []TypeOK
<1>1. IInv => TypeOK
  BY DEF IInv
<1> QED
  BY <1>1, Invariance, PTL

(* The core is never bound to a context that lost its writer: a replaced    *)
(* one is held until the terminal reset has been written through it         *)
(* (src/lua/libmdf_core.c:1589-1630).                                       *)
THEOREM WriterStays == Spec => []WriterHeld
<1>1. IInv => WriterHeld
  BY DEF IInv
<1> QED
  BY <1>1, Invariance, PTL

(* However methods are called from callbacks, getters and finalizers, none  *)
(* closes a handle under a method that uses it (src/README.md:835).         *)
THEOREM HandleStaysOpen == Spec => []CallsKeepHandle
<1>1. IInv => CallsKeepHandle
  BY DEF IInv
<1> QED
  BY <1>1, Invariance, PTL

(* The counters of the handle always know of the core's operation, and none *)
(* is left when all methods have returned (src/lua/libmdf_core.c:296-317).  *)
THEOREM CountersGuard == Spec => []CoreGuarded
<1>1. IInv => CoreGuarded
  <2> SUFFICES ASSUME IInv PROVE CoreGuarded
    OBVIOUS
  <2>1. LuaRuns /\ core.active => CallbacksActive(handle)
    BY LuaRunsFacts
  <2>2. ASSUME Depth = 0 PROVE ~CallbacksActive(handle)
    <3>1. \A c \in Contexts : handle.active[c] = 0
      BY <2>2 DEF IInv, Entered
    <3>2. Holders(frames) = {}
      BY <2>2 DEF Holders, Depth
    <3>3. handle.operations = 0
      BY <3>2, FS_EmptySet DEF IInv, Counted
    <3> QED
      BY <3>1, <3>3 DEF CallbacksActive
  <2> QED
    BY <2>1, <2>2 DEF CoreGuarded
<1> QED
  BY <1>1, Invariance, PTL

(* An error of a Lua function is raised by the method it interrupted and by *)
(* no other (src/README.md:838-840).                                        *)
THEOREM ErrorsReturn == Spec => []ErrorsReachCaller
<1>1. IInv => ErrorsReachCaller
  BY DEF IInv
<1> QED
  BY <1>1, Invariance, PTL
=============================================================================
