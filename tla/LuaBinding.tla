----------------------------- MODULE LuaBinding -----------------------------
(***************************************************************************)
(* The Lua binding (src/lua/libmdf_core.c): a renderer handle or document  *)
(* stream and the Lua functions the core calls through it.                 *)
(*                                                                         *)
(* A method is C code that calls the core; the core calls C callbacks;     *)
(* those run Lua functions with lua_pcall, and Lua code may call methods   *)
(* again, on its own Lua thread or on a coroutine it resumes.  Lua also    *)
(* runs in two places that are no callbacks: the getters of a token table, *)
(* and the finalizers a garbage collection runs while the result of render *)
(* is copied.  The frames of the C and Lua stacks are one sequence here.   *)
(*                                                                         *)
(* The binding keeps the functions for the core in the uservalue of the    *)
(* handle, under a key for each of three contexts: two for the writer, one *)
(* of which is free while the core lets go of the other, and the trace.    *)
(* The core is an external module of this one: what matters of it here is  *)
(* whether it is inside an operation, and which context it would write to. *)
(***************************************************************************)
EXTENDS Naturals, Sequences, FiniteSets

CONSTANTS
    Threads,        \* the Lua threads: the main one and coroutines
    NoThread,
    Functions,      \* Lua functions used as writers
    None,
    MaxFrames       \* bound: frames on the stacks

ASSUME ThreadsAssumption   == NoThread \notin Threads
ASSUME FunctionsAssumption == None \notin Functions
ASSUME FramesAssumption    == MaxFrames \in Nat

Sinks    == {"sink0", "sink1"}
NoSlot   == "no slot"
Contexts == Sinks \cup {"trace"}
Kinds    == {"handle", "stream"}

(* "write" is feed, flush, finish and finish_document, which differ only in *)
(* the function of the core they call.                                      *)
Methods(k) == IF k = "stream" THEN {"write", "reset"}
              ELSE {"write", "reset", "write_token", "render", "render_stream"}

VARIABLES
    kind,       \* what was created, "nothing" before
    handle,     \* lua_mdf_handle or lua_mdf_document_stream and its uservalue
    core,       \* of the core: render_active, the bound sink's userdata, and
                \* whether a trace is configured
    frames,     \* the frames of the methods, callbacks, getters, finalizers
    writer,     \* history: the function the core was last given
    answer      \* history: how the method that returned last did

vars == <<kind, handle, core, frames, writer, answer>>

(* failure is the index of an error object on a Lua stack: what matters is *)
(* on whose.                                                               *)
NewHandle ==
    [open |-> FALSE, operations |-> 0, failure |-> NoThread, slot |-> NoSlot,
     active |-> [c \in Contexts |-> 0], thread |-> [c \in Contexts |-> NoThread],
     value |-> [c \in Contexts |-> None]]
NewCore == [active |-> FALSE, sink |-> NoSlot, traced |-> FALSE]
NoAnswer == [raised |-> NoThread, thread |-> NoThread, result |-> "none"]

(* at: a method reads its token, is inside the core, or copies its result.  *)
(* failed: the core's call will fail; raised: the thread on which a Lua     *)
(* function of it raised an error.                                          *)
Method(op, t, at) ==
    [does |-> op, ctx |-> NoSlot, thread |-> t, at |-> at, failed |-> FALSE, raised |-> NoThread,
     old |-> handle.slot]
Running(does, ctx, t) ==
    [does |-> does, ctx |-> ctx, thread |-> t, at |-> "Lua", failed |-> FALSE, raised |-> NoThread,
     old |-> NoSlot]

Depth   == Len(frames)
Top     == frames[Depth]
Below   == SubSeq(frames, 1, Depth - 1)
Push(f) == Append(frames, f)

(* Lua code runs outside every call or in the topmost frame; it runs there  *)
(* or in a coroutine that is not on the stack already.                      *)
LuaRuns == Depth = 0 \/ (Depth > 0 /\ Top.at = "Lua")
Runnable(t) == (Depth > 0 /\ t = Top.thread) \/ \A i \in 1 .. Depth : frames[i].thread # t

(* lua_mdf_handle_callbacks_active; a stream has no operations of its own.  *)
CallbacksActive(h) == h.operations > 0 \/ \E c \in Contexts : h.active[c] > 0

(* lua_mdf_refresh_handle_callbacks: the contexts call back on this thread. *)
Refreshed(h, t) ==
    IF CallbacksActive(h) THEN h ELSE [h EXCEPT !.thread = [c \in Contexts |-> t]]

(* lua_mdf_raise_callback, then the status: what the method answers.  The   *)
(* index is that of the error on the stack it was raised on; on the stack   *)
(* of another thread, where the method looks, something else is there.      *)
Answer(h, f) ==
    [raised |-> f.raised, thread |-> f.thread,
     result |-> IF h.failure = NoThread THEN IF f.failed THEN "error text" ELSE "true"
                ELSE IF h.failure = f.thread THEN "error object" ELSE "another value"]
(* mutant: the error is raised and not forgotten                            *)
RaiseKept(h) == h
Raise(h) == [h EXCEPT !.failure = NoThread]
Calling  == Depth > 0 /\ Top.at = "core"

-----------------------------------------------------------------------------
(* lua_mdf_new, lua_mdf_document_stream_new: the stream is bound to its     *)
(* writer at once.  When the core cannot be created the userdata stays      *)
(* closed and holds no function.                                            *)
NewTrace(h, trace) == IF trace THEN [h EXCEPT !.value["trace"] = "trace function"] ELSE h
Create(t, k, w, trace) ==
    /\ kind = "nothing" /\ Depth = 0
    /\ kind' = k
    /\ handle' = LET h == [NewTrace(NewHandle, trace) EXCEPT !.open = TRUE,
                                !.thread = [c \in Contexts |-> t]]
                 IN  IF k = "stream" THEN [h EXCEPT !.value["sink0"] = w, !.slot = "sink0"] ELSE h
    /\ core'   = [core EXCEPT !.traced = trace, !.sink = IF k = "stream" THEN "sink0" ELSE NoSlot]
    /\ writer' = IF k = "stream" THEN w ELSE None
    /\ UNCHANGED <<frames, answer>>
CreateFails ==
    /\ kind = "nothing"
    /\ \E k \in Kinds : kind' = k
    /\ UNCHANGED <<handle, core, frames, writer, answer>>

-----------------------------------------------------------------------------
(* The methods that call the core with callbacks.  The core refuses a call  *)
(* that comes during another, or without a writer where it needs one.       *)
CoreTakes(op) ==
    /\ ~core.active
    /\ op \in {"write", "write_token", "render_stream"} => core.sink # NoSlot
Ready(op, t) ==
    LuaRuns /\ handle.open /\ Depth < MaxFrames /\ op \in Methods(kind) /\ Runnable(t)

(* mutant: the reader of render_stream may close its handle                 *)
CallUncounted(op, t) ==
    /\ Ready(op, t) /\ op # "write_token" /\ CoreTakes(op)
    /\ handle' = Refreshed(handle, t)
    /\ frames' = Push(Method(op, t, "core"))
    /\ core'   = [core EXCEPT !.active = TRUE]
    /\ UNCHANGED <<kind, writer, answer>>
Call(op, t) ==
    /\ Ready(op, t) /\ op # "write_token" /\ CoreTakes(op)
    /\ handle' = LET h == Refreshed(handle, t)
                 IN  IF op = "render_stream" THEN [h EXCEPT !.operations = @ + 1] ELSE h
    /\ frames' = Push(Method(op, t, "core"))
    /\ core'   = [core EXCEPT !.active = TRUE]
    /\ UNCHANGED <<kind, writer, answer>>
CallRefused(op, t) ==
    /\ Ready(op, t) /\ op # "write_token" /\ ~CoreTakes(op)
    /\ handle' = Raise(Refreshed(handle, t))
    /\ answer' = Answer(handle, [Method(op, t, "core") EXCEPT !.failed = TRUE])
    /\ UNCHANGED <<kind, core, frames, writer>>

(* lua_mdf_handle_write_token reads its token after it refreshed the        *)
(* contexts.  The table's getters are Lua functions, which may do anything, *)
(* so the handle is checked again before it is used.  A getter that raises  *)
(* ends the method.                                                         *)
ReadToken(t) ==
    /\ Ready("write_token", t)
    /\ handle' = Refreshed(handle, t)
    /\ frames' = Push(Method("write_token", t, "token"))
    /\ UNCHANGED <<kind, core, writer, answer>>
Reading == Depth > 0 /\ Top.at = "token"
RunGetter ==
    /\ Reading /\ Depth < MaxFrames
    /\ frames' = Push(Running("getter", NoSlot, Top.thread))
    /\ UNCHANGED <<kind, handle, core, writer, answer>>
GetterReturns(raises) ==
    /\ Depth > 0 /\ Top.does = "getter"
    /\ frames' = IF raises THEN SubSeq(frames, 1, Depth - 2) ELSE Below
    /\ UNCHANGED <<kind, handle, core, writer, answer>>
WriteToken ==
    /\ Reading /\ handle.open /\ CoreTakes("write_token")
    /\ frames' = [frames EXCEPT ![Depth].at = "core"]
    /\ core'   = [core EXCEPT !.active = TRUE]
    /\ UNCHANGED <<kind, handle, writer, answer>>
WriteTokenRefused ==
    /\ Reading /\ ~(handle.open /\ CoreTakes("write_token"))
    /\ handle' = IF handle.open THEN Raise(handle) ELSE handle
    /\ answer' = Answer(handle, [Top EXCEPT !.failed = TRUE])
    /\ frames' = Below
    /\ UNCHANGED <<kind, core, writer>>

(* lua_mdf_handle_set_sink: the new function goes into the context that is  *)
(* free, because the core still writes its terminal reset through the old.  *)
(* mutant: the context the core still writes through is taken               *)
FreeSinkFirst(h) == "sink0"
FreeSink(h) == IF h.slot = "sink0" THEN "sink1" ELSE "sink0"
Bound(h, f) == h.slot # NoSlot /\ h.value[h.slot] = f
SetSinkAnswers(t, f) ==
    /\ LuaRuns /\ handle.open /\ Runnable(t)
    /\ Bound(handle, f) \/ CallbacksActive(handle)
    /\ handle' = Refreshed(handle, t)
    /\ UNCHANGED <<kind, core, frames, writer, answer>>
SetSink(t, f) ==
    /\ LuaRuns /\ handle.open /\ Depth < MaxFrames /\ Runnable(t)
    /\ ~Bound(handle, f) /\ ~CallbacksActive(handle)
    /\ handle' = [Refreshed(handle, t) EXCEPT !.active[FreeSink(handle)] = 0,
                                              !.value[FreeSink(handle)] = f,
                                              !.slot = FreeSink(handle)]
    /\ frames' = Push(Method("set_sink", t, "core"))
    /\ core'   = [core EXCEPT !.active = TRUE]
    /\ UNCHANGED <<kind, writer, answer>>
SetSinkReturns ==
    /\ Calling /\ Top.does = "set_sink"
    /\ handle' = Raise(IF Top.old = NoSlot THEN handle ELSE [handle EXCEPT !.value[Top.old] = None])
    /\ core'   = [core EXCEPT !.active = FALSE, !.sink = handle.slot]
    /\ writer' = handle.value[handle.slot]
    /\ answer' = Answer(handle, [Top EXCEPT !.failed = FALSE])
    /\ frames' = Below
    /\ UNCHANGED kind

-----------------------------------------------------------------------------
(* lua_mdf_protect: the core calls back.  A first error makes every later   *)
(* callback of the call fail at once.                                       *)
CalledBack(c) ==
    /\ Calling
    /\ \/ c = "reader" /\ Top.does = "render_stream"
       \/ c \in Sinks /\ c = core.sink /\ Top.does # "render"
       \/ c = "trace" /\ core.traced /\ (core.sink # NoSlot \/ Top.does = "render")
Fails == [frames EXCEPT ![Depth].failed = TRUE]

(* mutant: a running trace is not counted                                   *)
CallBackUncounted(c) ==
    /\ CalledBack(c) /\ Depth < MaxFrames /\ handle.failure = NoThread
    /\ c \in Contexts => handle.value[c] # None
    /\ frames' = Push(Running("callback", c, IF c \in Contexts THEN handle.thread[c]
                                             ELSE Top.thread))
    /\ handle' = IF c \in Sinks THEN [handle EXCEPT !.active[c] = @ + 1] ELSE handle
    /\ UNCHANGED <<kind, core, writer, answer>>
CallBack(c) ==
    /\ CalledBack(c) /\ Depth < MaxFrames /\ handle.failure = NoThread
    /\ c \in Contexts => handle.value[c] # None
    /\ frames' = Push(Running("callback", c, IF c \in Contexts THEN handle.thread[c]
                                             ELSE Top.thread))
    /\ handle' = IF c \in Contexts THEN [handle EXCEPT !.active[c] = @ + 1] ELSE handle
    /\ UNCHANGED <<kind, core, writer, answer>>
CallBackFails(c) ==
    /\ CalledBack(c)
    /\ handle.failure # NoThread \/ (c \in Contexts /\ handle.value[c] = None)
    /\ frames' = Fails
    /\ UNCHANGED <<kind, handle, core, writer, answer>>

(* The Lua function accepts, refuses (false), or raises an error.           *)
CallbackReturns(result) ==
    /\ Depth > 0 /\ Top.does = "callback"
    /\ handle' = LET h == IF Top.ctx \in Contexts
                          THEN [handle EXCEPT !.active[Top.ctx] = @ - 1] ELSE handle
                 IN  IF result = "raises" THEN [h EXCEPT !.failure = Top.thread] ELSE h
    /\ frames' = [Below EXCEPT ![Depth - 1].failed = @ \/ result # "accepts",
                               ![Depth - 1].raised = IF result = "raises" THEN Top.thread ELSE @]
    /\ UNCHANGED <<kind, core, writer, answer>>

(* The core returns, of its own accord (ok) or not; callbacks that failed   *)
(* make it fail.                                                            *)
Returned(h, f) ==
    IF f.does = "render_stream" THEN [h EXCEPT !.operations = @ - 1] ELSE h
Return(ok) ==
    /\ Calling /\ Top.does # "set_sink" /\ (Top.does = "render" => ~ok \/ Top.failed)
    /\ handle' = Raise(Returned(handle, Top))
    /\ answer' = Answer(handle, [Top EXCEPT !.failed = @ \/ ~ok])
    /\ core'   = [core EXCEPT !.active = FALSE]
    /\ frames' = Below
    /\ UNCHANGED <<kind, writer>>

(* lua_mdf_handle_render: the result is copied before its memory is freed   *)
(* by the core, and finalizers may run.                                     *)
Rendered ==
    /\ Calling /\ Top.does = "render" /\ ~Top.failed
    /\ handle' = [handle EXCEPT !.operations = @ + 1]
    /\ core'   = [core EXCEPT !.active = FALSE]
    /\ frames' = [frames EXCEPT ![Depth].at = "copy"]
    /\ UNCHANGED <<kind, writer, answer>>
Copying == Depth > 0 /\ Top.at = "copy"
RunFinalizer ==
    /\ Copying /\ Depth < MaxFrames
    /\ frames' = Push(Running("finalizer", NoSlot, Top.thread))
    /\ UNCHANGED <<kind, handle, core, writer, answer>>
FinalizerReturns ==
    /\ Depth > 0 /\ Top.does = "finalizer"
    /\ frames' = Below
    /\ UNCHANGED <<kind, handle, core, writer, answer>>
FreeResult(copied) ==
    /\ Copying
    /\ handle' = [handle EXCEPT !.operations = @ - 1]
    /\ answer' = Answer(handle, [Top EXCEPT !.failed = ~copied])
    /\ frames' = Below
    /\ UNCHANGED <<kind, core, writer>>

(* lua_mdf_handle_close, also the finalizer of the handle itself.           *)
Close(t) ==
    /\ LuaRuns /\ handle.open /\ Runnable(t) /\ ~CallbacksActive(handle)
    /\ handle' = [handle EXCEPT !.open = FALSE, !.value = [c \in Contexts |-> None]]
    /\ core'   = [core EXCEPT !.sink = NoSlot]
    /\ writer' = None
    /\ UNCHANGED <<kind, frames, answer>>

-----------------------------------------------------------------------------
Init ==
    /\ kind = "nothing" /\ handle = NewHandle /\ core = NewCore
    /\ frames = <<>> /\ writer = None /\ answer = NoAnswer

Begin ==
    \/ \E t \in Threads, k \in Kinds, w \in Functions, trace \in BOOLEAN : Create(t, k, w, trace)
    \/ CreateFails
    \/ \E t \in Threads, op \in {"write", "reset", "render", "render_stream"} : Call(op, t)
    \/ \E t \in Threads, op \in {"write", "reset", "render", "render_stream"} : CallRefused(op, t)
    \/ \E t \in Threads : ReadToken(t)
    \/ \E t \in Threads, f \in Functions : SetSink(t, f)
    \/ \E t \in Threads, f \in Functions : SetSinkAnswers(t, f)
    \/ \E t \in Threads : Close(t)
Inside ==
    \/ RunGetter \/ WriteToken \/ WriteTokenRefused
    \/ \E c \in Contexts \cup {"reader"} : CallBack(c) \/ CallBackFails(c)
    \/ \E ok \in BOOLEAN : Return(ok)
    \/ SetSinkReturns
    \/ Rendered \/ RunFinalizer
    \/ \E copied \in BOOLEAN : FreeResult(copied)
LuaReturns ==
    \/ FinalizerReturns
    \/ \E raises \in BOOLEAN : GetterReturns(raises)
    \/ \E result \in {"accepts", "refuses", "raises"} : CallbackReturns(result)

Next == Begin \/ Inside \/ LuaReturns
Spec == Init /\ [][Next]_vars
-----------------------------------------------------------------------------
Errors == {"error object", "another value"}
Values == Functions \cup {None, "trace function"}
HandleType ==
    [open : BOOLEAN, operations : Nat, failure : Threads \cup {NoThread},
     slot : Sinks \cup {NoSlot}, active : [Contexts -> 0 .. 1],
     thread : [Contexts -> Threads \cup {NoThread}], value : [Contexts -> Values]]
FrameType ==
    [does : Methods("handle") \cup {"set_sink", "callback", "getter", "finalizer"},
     ctx : Contexts \cup {NoSlot, "reader"}, thread : Threads,
     at : {"core", "token", "copy", "Lua"}, failed : BOOLEAN,
     raised : Threads \cup {NoThread},
     old : Sinks \cup {NoSlot}]

(* What is running holds, however deep the calls nest: no context is ever   *)
(* entered twice, and no count goes below zero                              *)
(* (src/lua/libmdf_core.c:296-317).                                         *)
TypeOK ==
    /\ kind \in Kinds \cup {"nothing"}
    /\ handle \in HandleType
    /\ core \in [active : BOOLEAN, sink : Sinks \cup {NoSlot}, traced : BOOLEAN]
    /\ frames \in Seq(FrameType)
    /\ writer \in Values
    /\ answer \in [raised : Threads \cup {NoThread}, thread : Threads \cup {NoThread},
                   result : Errors \cup {"none", "error text", "true"}]

(* While a core is bound to a context, that context holds the function the  *)
(* core was given: a replaced writer is kept until the core has written its *)
(* terminal reset, and the new one from before it can be called             *)
(* (src/lua/libmdf_core.c:35, 1589-1630).                                   *)
WriterHeld == handle.open /\ core.sink # NoSlot => handle.value[core.sink] = writer

(* No handle is closed under a method that still uses it, whoever calls     *)
(* close: a reader, writer or trace, a method they call, or a finalizer     *)
(* (src/README.md:835).                                                     *)
CallsKeepHandle == \A i \in 1 .. Depth : frames[i].at \in {"core", "copy"} => handle.open

(* Wherever Lua code can call close or set_sink while the core is inside an *)
(* operation, the binding knows it: the core is never asked to replace a    *)
(* sink or to be destroyed when it would refuse (src/src/mdf.c:3405), and   *)
(* nothing is left counted when the last method has returned.               *)
CoreGuarded ==
    /\ LuaRuns /\ core.active => CallbacksActive(handle)
    /\ Depth = 0 => ~CallbacksActive(handle)

(* A method whose callback raised raises an error after the core has        *)
(* returned, and no other does: none is swallowed, and none is left behind  *)
(* to fail the callbacks of a later call.  It is the error of the callback  *)
(* as long as that ran on the thread of the method (src/README.md:840).     *)
ErrorsReachCaller ==
    /\ answer.raised # NoThread <=> answer.result \in Errors
    /\ answer.raised = answer.thread => answer.result # "another value"
    /\ handle.failure # NoThread => Calling /\ Top.raised = handle.failure

(* "Lua callback exceptions ... return through native cleanup before the    *)
(* original error object is raised to the caller" (src/README.md:840).      *)
OriginalErrorRaised == answer.raised # NoThread => answer.result = "error object"

=============================================================================
