----------------------------- MODULE MemoryProofs -----------------------------
(***************************************************************************)
(* The theorems about the heap and the virtual space for the memory        *)
(* management of MCMemory, of which one part moves at a time: the parts    *)
(* that do not move keep their invariant, so that KHeap!IInv and           *)
(* Space!IInv hold whichever part does.                                    *)
(***************************************************************************)
EXTENDS MCMemory, TLAPS

MemoryNext == [PagesNext \/ SpaceNext \/ HeapNext \/ LoadNext]_memory_vars

\* A step of the kernel's memory management is one of HeapAllocator or leaves the
\* heap alone.
LEMMA HeapSteps == MemoryNext => [KHeap!Next]_KHeap!vars
  BY SMTT(30) DEF MemoryNext, PagesNext, SpaceNext, HeapNext, LoadNext, memory_vars, heap_vars,
         KHeap!vars

\* So the inductive invariant of HeapAllocator holds from the start on.
LEMMA HeapInductive ==
    /\ MemoryInit => KHeap!IInv
    /\ KHeap!IInv /\ MemoryNext => KHeap!IInv'
  <1>1. MemoryInit => KHeap!IInv
    BY PartAssumptions, KHeap!InitIsOK, SMTT(30) DEF MemoryInit
  <1>2. KHeap!IInv /\ MemoryNext => KHeap!IInv'
    BY PartAssumptions, HeapSteps, KHeap!NextKeeps, SMTT(30)
  <1>. QED BY <1>1, <1>2, SMTT(30)

\* Whatever is allocated and freed in the kernel heap, its blocks tile it, its free
\* list is sorted, linked both ways and merged, and its statistics are right, for
\* every set of layouts, page size and size of the heap.
THEOREM HeapAlwaysRight == MemorySpec => []HeapIsSound
  <1>1. KHeap!IInv => HeapIsSound
    BY PartAssumptions, KHeap!IInvIsSound, SMTT(30) DEF KHeap!HeapSound, HeapIsSound
  <1>. QED BY <1>1, HeapInductive, PTL DEF MemorySpec, MemoryNext

\* alloc and dealloc of the kernel heap implement the abstract heap: aligned memory
\* that nobody else has, until its own dealloc.
THEOREM HeapAlwaysImplements == MemorySpec => ImplementsHeap
  <1>1. MemoryInit => KHeap!Abstract!Init
    BY SMTT(30) DEF MemoryInit, KHeap!Init, KHeap!Abstract!Init
  <1>2. KHeap!IInv /\ KHeap!IInv' /\ MemoryNext => [KHeap!Abstract!Next]_blocks
    BY PartAssumptions, HeapSteps, KHeap!StepIsAbstract, SMTT(30)
  <1>. QED BY <1>1, <1>2, HeapInductive, PTL
           DEF MemorySpec, MemoryNext, ImplementsHeap, KHeap!ImplementsHeap, KHeap!Abstract!Spec
-------------------------------------------------------------------------------
\* A step of the kernel's memory management is one of VirtualSpace or leaves the
\* virtual space alone.
LEMMA SpaceSteps == MemoryNext => [Space!Next]_Space!vars
  BY SMTT(30) DEF MemoryNext, PagesNext, SpaceNext, HeapNext, LoadNext, memory_vars, vs_vars,
         Space!vars

\* So the inductive invariant of VirtualSpace holds from the start on.
LEMMA SpaceInductive ==
    /\ MemoryInit => Space!IInv
    /\ Space!IInv /\ MemoryNext => Space!IInv'
  <1>1. MemoryInit => Space!IInv
    BY PartAssumptions, Space!InitIsOK, SMTT(30) DEF MemoryInit
  <1>2. Space!IInv /\ MemoryNext => Space!IInv'
    BY PartAssumptions, SpaceSteps, Space!NextKeeps, SMTT(30)
  <1>. QED BY <1>1, <1>2

\* Whatever is created and dropped in the kernel's virtual space, no page of it is
\* lost, and until a drop meets a free entry in front of its own every VirtualSpace
\* reads its physical memory and drops without a panic, for every size of the space,
\* all sizes and all physical addresses asked for.
THEOREM SpacesAlwaysSound == MemorySpec => []SpacesAreSound
  <1>1. Space!IInv => SpacesAreSound
    BY PartAssumptions, Space!IInvIsRight, SMTT(30) DEF SpacesAreSound
  <1>. QED BY <1>1, SpaceInductive, PTL DEF MemorySpec, MemoryNext
===============================================================================
