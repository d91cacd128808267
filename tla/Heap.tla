-------------------------------- MODULE Heap --------------------------------
(***************************************************************************)
(* What the renderer expects of the allocator it is given: every buffer it *)
(* owns is an object of its own, at least as large as requested, whose     *)
(* bytes change only when its owner writes them, and survive a resize.     *)
(* MemoryPool implements this specification.                               *)
(***************************************************************************)
EXTENDS Naturals

CONSTANTS
    Clients,    \* the buffers of a renderer (inline_text, ansi_word, ...)
    Sizes,      \* the sizes they ask for
    NoObject    \* the buffer is not allocated

VARIABLE objects

Unwritten == "unwritten"
Data      == Clients \cup {Unwritten}
Objects   == [size : Sizes, data : Data]

Init == objects = [c \in Clients |-> NoObject]

(* Fresh storage holds unspecified bytes. *)
Allocate(c, n) ==
    /\ objects[c] = NoObject
    /\ \E d \in Data : objects' = [objects EXCEPT ![c] = [size |-> n, data |-> d]]

Write(c) ==
    /\ objects[c] # NoObject
    /\ objects' = [objects EXCEPT ![c].data = c]

Resize(c, n) ==
    /\ objects[c] # NoObject
    /\ objects' = [objects EXCEPT ![c].size = n]

Release(c) ==
    /\ objects[c] # NoObject
    /\ objects' = [objects EXCEPT ![c] = NoObject]

Next == \E c \in Clients :
            \/ Write(c)
            \/ Release(c)
            \/ \E n \in Sizes : Allocate(c, n) \/ Resize(c, n)

Spec == Init /\ [][Next]_objects
=============================================================================
