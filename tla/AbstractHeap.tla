----------------------------- MODULE AbstractHeap -----------------------------
(***************************************************************************)
(* What a heap promises its callers (GlobalAlloc): memory that is handed   *)
(* out is aligned as asked and shared with nobody, and stays so until it   *)
(* is given back; giving memory back disturbs no one else.                 *)
(***************************************************************************)
EXTENDS Naturals

CONSTANTS Layouts,      \* the requests: [size, align], in units of 16 bytes
          Addresses     \* the memory of the heap

VARIABLES live          \* the allocations: [ptr, layout]

Units(b) == b.ptr .. b.ptr + b.layout.size - 1

Init == live = {}

Alloc(l) ==
    \E b \in [ptr : Addresses, layout : {l}] :
        /\ b.ptr % l.align = 0
        /\ Units(b) \subseteq Addresses
        /\ \A c \in live : Units(b) \cap Units(c) = {}
        /\ live' = live \cup {b}

Dealloc(b) == live' = live \ {b}

Next ==
    \/ \E l \in Layouts : Alloc(l)
    \/ \E b \in live : Dealloc(b)

Spec == Init /\ [][Next]_live
===============================================================================
