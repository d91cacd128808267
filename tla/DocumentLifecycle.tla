-------------------------- MODULE DocumentLifecycle -------------------------
(***************************************************************************)
(* What include/libmdf/mdf.h promises about incremental documents, as the  *)
(* application sees it: a document is begun by the first feed or           *)
(* finish_document, finished once, and a failure latches it until reset    *)
(* (or a new renderer); an answer of MDF_ERROR_INVALID changed nothing.    *)
(***************************************************************************)

VARIABLES
    document,   \* "idle", "active", "finished", "failed"
    call,       \* the call in progress, "none" between calls
    result      \* what the last call that returned answered; "created" on a
                \* renderer that was not called yet

vars == <<document, call, result>>

Feeding == {"feed", "finish_document"}

Init ==
    /\ document = "idle"
    /\ call = "none"
    /\ result = "created"

Begin(c) ==
    /\ call = "none"
    /\ c = "render" => document = "idle"
    /\ c = "manual" => document # "failed"
    /\ call' = c
    /\ UNCHANGED <<document, result>>

Return(st) == call' = "none" /\ result' = st

(* Calls that only observe or configure, and refusals, also from callbacks. *)
Answer ==
    /\ result' \in {"OK", "INVALID", "NOMEM"}
    /\ UNCHANGED <<document, call>>

(* Changing the geometry can lose retained input: the document fails. *)
RelayoutFails ==
    /\ call \in {"none", "render"}
    /\ document # "failed"
    /\ document' = "failed"
    /\ result' = "NOMEM"
    /\ UNCHANGED call

NextDocument ==
    /\ call = "none"
    /\ document = "finished"
    /\ document' = "idle"
    /\ result' = "OK"
    /\ UNCHANGED call

Recreate ==
    /\ call = "none"
    /\ document' = "idle"
    /\ result' = "created"
    /\ UNCHANGED call

Open ==
    /\ call \in Feeding
    /\ document = "idle"
    /\ document' = "active"
    /\ UNCHANGED <<call, result>>

(* The format or the title rules it out, or the document is over. *)
TurnAway ==
    /\ call \in Feeding
    /\ Return("INVALID")
    /\ UNCHANGED document

Fed ==
    /\ call = "feed"
    /\ document = "active"
    /\ Return("OK")
    /\ UNCHANGED document

Finished ==
    /\ call = "finish_document"
    /\ document = "active"
    /\ document' = "finished"
    /\ Return("OK")

Fails ==
    /\ call \in Feeding
    /\ document \in {"idle", "active"}
    /\ document' = "failed"
    /\ \E st \in {"NOMEM", "IO", "PARSE"} : Return(st)

(* A render whose retained input was lost on the way does not succeed. *)
Rendered ==
    /\ call = "render"
    /\ \E st \in {"OK", "INVALID", "NOMEM", "IO"} :
        (document = "failed" => st # "OK") /\ Return(st)
    /\ UNCHANGED document

Written ==
    /\ call = "manual"
    /\ \E st \in {"OK", "NOMEM", "IO"} : Return(st)
    /\ UNCHANGED document

Discarded ==
    /\ call = "reset"
    /\ document' = "idle"
    /\ \E st \in {"OK", "NOMEM", "IO"} : Return(st)

Next ==
    \/ \E c \in Feeding \cup {"render", "manual", "reset"} : Begin(c)
    \/ Answer \/ RelayoutFails \/ NextDocument \/ Recreate
    \/ Open \/ TurnAway \/ Fed \/ Finished \/ Fails
    \/ Rendered \/ Written \/ Discarded

Spec == Init /\ [][Next]_vars
=============================================================================
