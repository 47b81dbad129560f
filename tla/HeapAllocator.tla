----------------------------- MODULE HeapAllocator -----------------------------
(***************************************************************************)
(* The heap of the kernel and of user programs:                            *)
(* libraries/increasing_heap_allocator, a best-fit allocator over one      *)
(* region that grows by pages.  Addresses and sizes are in units of 16     *)
(* bytes, the alignment of every block.                                    *)
(*                                                                         *)
(* Free blocks carry their list pointers in their own memory: blk is that  *)
(* memory, the pointers are followed and rewritten as in the code.  An     *)
(* allocated block has an information header in front of the pointer that  *)
(* the caller gets.                                                        *)
(***************************************************************************)
EXTENDS Naturals, FiniteSets, FiniteSetsExt

CONSTANTS Layouts,      \* requests: [size, align] in units
          PageUnits,    \* 256 for 4K pages
          MaxPages,     \* KERNEL_HEAP_SIZE in pages
          MaxLive       \* bound: allocations alive at a time

HeapAssumptions ==
    /\ PageUnits \in Nat \ {0, 1} /\ MaxPages \in Nat /\ MaxLive \in Nat
    /\ \A l \in Layouts : l.size \in Nat \ {0} /\ l.align \in Nat \ {0}

Null == 0
HeapStart == PageUnits          \* KERNEL_HEAP_BASE, aligned to a page
INFO == 2                       \* size_of AllocatedHeapBlockInfo
align_up(x, a) == ((x + a - 1) \div a) * a
max(x, y) == IF x > y THEN x ELSE y

VARIABLES heap,     \* [total, head, blk, free_size, used_size] of HeapAllocator
          info,     \* headers of allocated blocks: ptr -> [size, pre_padding]
          live,     \* what callers hold: [ptr, layout]
          panicked  \* "no", or the reason

vars == <<heap, info, live, panicked>>

Free(h) == DOMAIN h.blk
End(h) == HeapStart + h.total
SetNext(blk, b, x) == IF b = Null THEN blk ELSE [blk EXCEPT ![b].next = x]
SetPrev(blk, b, x) == IF b = Null THEN blk ELSE [blk EXCEPT ![b].prev = x]
Without(blk, b) == [c \in DOMAIN blk \ {b} |-> blk[c]]
With(blk, b, prev, next, size) ==
    [c \in DOMAIN blk \cup {b} |->
        IF c = b THEN [prev |-> prev, next |-> next, size |-> size] ELSE blk[c]]

Init ==
    /\ heap = [total |-> 0, head |-> Null, blk |-> [b \in {} |-> 0],
               free_size |-> 0, used_size |-> 0]
    /\ info = [p \in {} |-> 0]
    /\ live = {}
    /\ panicked = "no"
-------------------------------------------------------------------------------
\* What free_block and alloc do to the list, in the order of their assignments.
\* Block b gives way to one at another address.
Moved(blk, b, at, size) ==
    SetNext(SetPrev(With(Without(blk, b), at, blk[b].prev, blk[b].next, size),
                    blk[b].next, at),
            blk[b].prev, at)
Inserted(blk, at, prev, next, size) ==
    SetPrev(SetNext(With(blk, at, prev, next, size), prev, at), next, at)
Removed(blk, b) ==
    SetPrev(SetNext(Without(blk, b), blk[b].prev, blk[b].next), blk[b].next, blk[b].prev)
Resized(blk, b, size) == [blk EXCEPT ![b].size = size]
\* Block p takes over the one after it, n.
Merged(blk, p, n, size) ==
    Without(SetNext(SetNext(SetPrev(Resized(blk, p, size), blk[n].next, p),
                            blk[n].prev, p),
                    p, blk[n].next), n)
Relinked(h, head, blk) == [h EXCEPT !.head = head, !.blk = blk]

\* free_block: merge with the free neighbours, or insert after the closest
\* free block before it.
free_block(h, at, size) ==
    LET before  == {b \in Free(h) : b + h.blk[b].size = at}
        after   == {b \in Free(h) : b = at + size}
        lower   == {b \in Free(h) : b < at}
        p       == CHOOSE b \in before : TRUE
        n       == CHOOSE b \in after : TRUE
        nb      == h.blk[n]
        closest == Max(lower)
        Head(b, prev) == IF prev = Null THEN b ELSE h.head
    IN  CASE before # {} /\ after # {} ->
               Relinked(h, Head(p, nb.prev), Merged(h.blk, p, n, h.blk[p].size + size + nb.size))
          [] before # {} /\ after = {} ->
               Relinked(h, h.head, Resized(h.blk, p, h.blk[p].size + size))
          [] before = {} /\ after # {} ->
               Relinked(h, Head(at, nb.prev), Moved(h.blk, n, at, size + nb.size))
          [] before = {} /\ after = {} /\ lower = {} ->
               Relinked(h, at, Inserted(h.blk, at, Null, h.head, size))
          [] OTHER ->
               Relinked(h, h.head, Inserted(h.blk, at, closest, h.blk[closest].next, size))

\* allocate_more_pages; the provider's None is the caller's "no".
allocate_more_pages(h, pages) ==
    LET start == End(h)
        size  == pages * PageUnits
        g     == [h EXCEPT !.total = @ + size]
    IN  [(IF h.head = Null
          THEN [g EXCEPT !.head = start, !.blk = With(@, start, Null, Null, size)]
          ELSE free_block(g, start, size))
         EXCEPT !.free_size = @ + size]

\* get_free_block: the smallest block that fits, the first in the list when
\* several do (the list is in address order, see ListIsSound).  The heap grows
\* when there is none, and the search goes on for whole pages.
Fits(h, size) == {b \in Free(h) : h.blk[b].size >= size}
Best(h, size) ==
    LET best == {b \in Fits(h, size) :
                    \A c \in Fits(h, size) : h.blk[b].size <= h.blk[c].size}
    IN  Min(best)

Pages(size) == align_up(size, PageUnits) \div PageUnits
MustGrow(h, size) == h.total = 0 \/ Fits(h, size) = {}
Grown(h, size) == IF MustGrow(h, size) THEN allocate_more_pages(h, Pages(size)) ELSE h
get_free_block(h, size) ==
    IF MustGrow(h, size)
    THEN Best(Grown(h, size), Pages(size) * PageUnits)
    ELSE Best(h, size)

\* alloc: the sizes it computes from the layout and from the block's address.
block_offset_from_header(l) == align_up(INFO, l.align)
RequestedSize(l) == align_up(block_offset_from_header(l) + l.size, l.align)

allocated_block_offset_Layout(base, l) == block_offset_from_header(l)

allocated_block_offset(base, l) ==
    LET possible == align_up(base, l.align) - base
    IN  IF possible < INFO THEN possible + max(INFO, l.align) ELSE possible

AllocationSize(base, l) ==
    LET offset == allocated_block_offset(base, l)
    IN  RequestedSize(l)
        + IF offset > block_offset_from_header(l)
          THEN offset - block_offset_from_header(l) ELSE 0

\* The rest of the block stays free if its header (24 bytes) fits.
LeavesRest(free_size, size) == free_size > size + 1

\* Cutting the allocation out of block b: replace b by its rest, or unlink it.
Cut(h, b, size) ==
    LET f    == h.blk[b]
        rest == b + size
        Head(x) == IF f.prev = Null THEN x ELSE h.head
    IN  IF LeavesRest(f.size, size)
        THEN Relinked(h, Head(rest), Moved(h.blk, b, rest, f.size - size))
        ELSE Relinked(h, Head(f.next), Removed(h.blk, b))

Taken_Requested(h, b, size) == size

Taken(h, b, size) == IF LeavesRest(h.blk[b].size, size) THEN size ELSE h.blk[b].size

\* The statistics of alloc and dealloc.
Account(h, size) == [h EXCEPT !.free_size = @ - size, !.used_size = @ + size]

Alloc(l) ==
    LET g    == Grown(heap, RequestedSize(l))
        b    == get_free_block(heap, RequestedSize(l))
        size == AllocationSize(b, l)
        ptr  == b + allocated_block_offset(b, l)
    IN  /\ panicked = "no"
        /\ Cardinality(live) < MaxLive
        /\ g.total <= MaxPages * PageUnits
        /\ g.blk[b].size >= size
        /\ heap' = Account(Cut(g, b, size), Taken(g, b, size))
        /\ info' = [p \in DOMAIN info \cup {ptr} |->
                        IF p = ptr
                        THEN [size |-> Taken(g, b, size),
                              pre_padding |-> allocated_block_offset(b, l)]
                        ELSE info[p]]
        /\ live' = live \cup {[ptr |-> ptr, layout |-> l]}
        /\ UNCHANGED panicked

\* The provider has no more pages: unwrap panics.
AllocOutOfMemory(l) ==
    /\ panicked = "no"
    /\ Grown(heap, RequestedSize(l)).total > MaxPages * PageUnits
    /\ panicked' = "out of memory"
    /\ UNCHANGED <<heap, info, live>>

\* The padding does not fit into the chosen block: assert!(free_block_size >=
\* allocation_size).
AllocTooSmall(l) ==
    LET g == Grown(heap, RequestedSize(l))
        b == get_free_block(heap, RequestedSize(l))
    IN  /\ panicked = "no"
        /\ g.total <= MaxPages * PageUnits
        /\ g.blk[b].size < AllocationSize(b, l)
        /\ panicked' = "assert"
        /\ UNCHANGED <<heap, info, live>>

\* dealloc: the header tells where the block begins and how large it is.
Dealloc(a) ==
    LET i  == info[a.ptr]
        at == a.ptr - i.pre_padding
    IN  /\ panicked = "no"
        /\ a \in live
        /\ heap' = [free_block(heap, at, i.size) EXCEPT
                      !.free_size = @ + i.size, !.used_size = @ - i.size]
        /\ info' = [p \in DOMAIN info \ {a.ptr} |-> info[p]]
        /\ live' = live \ {a}
        /\ UNCHANGED panicked

Next ==
    \/ \E l \in Layouts : Alloc(l) \/ AllocOutOfMemory(l) \/ AllocTooSmall(l)
    \/ \E a \in live : Dealloc(a)

Spec == Init /\ [][Next]_vars
-------------------------------------------------------------------------------
TypeOK ==
    /\ heap.total \in 0 .. MaxPages * PageUnits
    /\ \A b \in Free(heap) : heap.blk[b].size >= INFO
    /\ DOMAIN info = {a.ptr : a \in live}
    /\ panicked \in {"no", "out of memory", "assert"}

\* The whole blocks behind the allocations, with header and padding.
Block(a) == a.ptr - info[a.ptr].pre_padding
            .. a.ptr - info[a.ptr].pre_padding + info[a.ptr].size - 1
FreeUnits(b) == b .. b + heap.blk[b].size - 1

AllFree == UNION {FreeUnits(b) : b \in Free(heap)}
AllTaken == UNION {Block(a) : a \in live}

\* Free blocks and allocated blocks, headers and padding included, tile the
\* heap: nothing overlaps and nothing is lost, whatever was split and merged.
BlocksTileTheHeap ==
    /\ AllFree \cup AllTaken = HeapStart .. End(heap) - 1
    /\ AllFree \cap AllTaken = {}
    /\ \A b, c \in Free(heap) : b # c => FreeUnits(b) \cap FreeUnits(c) = {}
    /\ \A a, c \in live : a # c => Block(a) \cap Block(c) = {}

\* The free list runs through all free blocks in address order, its pointers
\* backwards mirror those forwards (the check of check_free_blocks), and two
\* neighbours are always merged.
ListIsSound ==
    /\ (heap.head = Null) <=> (Free(heap) = {})
    /\ heap.head # Null => heap.head = Min(Free(heap)) /\ heap.blk[heap.head].prev = Null
    /\ \A b \in Free(heap) :
        LET higher == {c \in Free(heap) : c > b}
            n == heap.blk[b].next
        IN  /\ n = IF higher = {} THEN Null ELSE Min(higher)
            /\ n # Null => heap.blk[n].prev = b /\ b + heap.blk[b].size < n

\* The statistics are the sizes of the free and of the allocated blocks together.
StatsAddUp ==
    /\ heap.free_size = Cardinality(AllFree)
    /\ heap.used_size = Cardinality(AllTaken)

\* The memory of a caller lies inside its block, after the header, so that
\* writing to it touches no header and no free block.
MemoryIsInsideBlock ==
    \A a \in live :
        a.ptr - INFO .. a.ptr + a.layout.size - 1 \subseteq Block(a)

\* alloc and dealloc are those of the abstract heap: aligned memory that nobody
\* else has, and that only its own dealloc takes away.
Abstract == INSTANCE AbstractHeap
                WITH Addresses <- HeapStart .. HeapStart + MaxPages * PageUnits - 1
\* The heap implements the abstract one.
ImplementsHeap == Abstract!Spec
================================================================================
