--------------------------- MODULE FrameAllocator ---------------------------
(***************************************************************************)
(* What the kernel expects of a physical frame allocator, with no bitmap   *)
(* and no address arithmetic: once opened it owns a set of free frames,    *)
(* hands each one to at most one client at a time, answers "no frame" only *)
(* when it has none left, and never lends a pinned frame.                  *)
(***************************************************************************)
EXTENDS Naturals

CONSTANT Pinned      \* frames that belong to the kernel image and its pool

VARIABLES
    opened,          \* the memory map has been read
    free,            \* frames nobody holds
    held,            \* frames lent to clients
    answer           \* <<f>> after a successful Alloc, <<>> after a refusal

absVars == <<opened, free, held, answer>>

Init ==
    /\ opened = FALSE
    /\ free = {}
    /\ held = {}
    /\ answer = <<>>

(* The allocator learns which frames exist; the kernel's own are not among *)
(* them.                                                                   *)
Open ==
    /\ ~opened
    /\ opened'
    /\ free' \cap Pinned = {}
    /\ UNCHANGED <<held, answer>>

Alloc ==
    /\ opened
    /\ \E f \in free :
          /\ free' = free \ {f}
          /\ held' = held \cup {f}
          /\ answer' = <<f>>
    /\ UNCHANGED opened

Refuse ==
    /\ opened
    /\ free = {}
    /\ answer' = <<>>
    /\ UNCHANGED <<opened, free, held>>

Free ==
    /\ opened
    /\ \E f \in held :
          /\ free' = free \cup {f}
          /\ held' = held \ {f}
    /\ UNCHANGED <<opened, answer>>

Next == Open \/ Alloc \/ Refuse \/ Free

Spec == Init /\ [][Next]_absVars
=============================================================================
