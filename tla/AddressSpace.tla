---------------------------- MODULE AddressSpace ----------------------------
(***************************************************************************)
(* What the kernel expects of its virtual memory manager, with no page     *)
(* tables: the address space in force gives each page at most one frame,   *)
(* the pages of the kernel keep theirs for ever, and every operation       *)
(* changes the translation of at most the one page it was asked about.     *)
(***************************************************************************)
CONSTANTS
    KernelPart,      \* the kernel's pages, with the frame each one has
    UserPages,       \* pages programs may be given
    Frames,
    Unmapped

VARIABLE space       \* the frame of every page, or Unmapped

Pages == DOMAIN KernelPart \cup UserPages

Init ==
    space = [v \in Pages |-> IF v \in DOMAIN KernelPart THEN KernelPart[v]
                             ELSE Unmapped]

Only(v) == space' = [space EXCEPT ![v] = space'[v]]

Map ==
    \E v \in UserPages :
        /\ space'[v] \in Frames
        /\ Only(v)

Unmap ==
    \E v \in UserPages :
        /\ space[v] # Unmapped
        /\ space'[v] = Unmapped
        /\ Only(v)

Next == Map \/ Unmap

Spec == Init /\ [][Next]_space
=============================================================================
