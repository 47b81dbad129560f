----------------------------- MODULE VirtualSpace -----------------------------
(***************************************************************************)
(* The allocator of kernel virtual space for memory known by its physical  *)
(* address (kernel/src/memory_management/virtual_space.rs), in pages: a    *)
(* linked list of entries, free or mapped, in address order, and the       *)
(* VirtualSpace values that own the mapped ones and unmap them on drop.    *)
(* The pages of the kernel page table under it are "mapped".               *)
(***************************************************************************)
EXTENDS Naturals, Sequences, FiniteSets, SequencesExt

CONSTANTS SpaceSize,    \* KERNEL_EXTRA_MEMORY_SIZE
          PhysStarts,   \* physical pages that drivers ask for
          Sizes,        \* sizes they ask for
          MaxLive,      \* bound: VirtualSpace values alive at a time
          MaxEntries    \* bound: length of the list

SpaceAssumptions ==
    /\ SpaceSize \in Nat \ {0}
    /\ PhysStarts \subseteq Nat /\ Sizes \subseteq Nat \ {0}
    /\ MaxLive \in Nat /\ MaxEntries \in Nat

Space == 0 .. SpaceSize - 1
Unmapped == [none |-> TRUE]
Phys(p) == [some |-> p]

VARIABLES entries,  \* Seq of [physical_start, virtual_start, size]
          live,     \* the VirtualSpace values: [at, size, phys]
          mapped,   \* kernel page table of the space: page -> Phys or Unmapped
          panicked,
          merged    \* history: a drop met a free entry in front of its own

vars == <<entries, live, mapped, panicked, merged>>

Entry(p, v, s) == [physical_start |-> p, virtual_start |-> v, size |-> s]
IsFree(e) == e.physical_start = Unmapped
Covered(v, s) == v .. v + s - 1

Init ==
    /\ entries = <<>>
    /\ live = {}
    /\ mapped = [v \in Space |-> Unmapped]
    /\ panicked = FALSE
    /\ merged = FALSE
-------------------------------------------------------------------------------
\* get_entry_containing: an entry that the first page of the request is in.
get_entry_containing(phy_start) ==
    {i \in DOMAIN entries :
        /\ ~IsFree(entries[i])
        /\ entries[i].physical_start.some <= phy_start
        /\ phy_start < entries[i].physical_start.some + entries[i].size}

\* The list is created by the first allocate.
List == IF entries = <<>> THEN <<Entry(Unmapped, 0, SpaceSize)>> ELSE entries

Fitting(size) == {i \in DOMAIN List : IsFree(List[i]) /\ List[i].size >= size}

Split_Overlaps(i, phy_start, size) ==
    LET e == List[i]
    IN  SubSeq(List, 1, i - 1)
        \o <<Entry(Phys(phy_start), e.virtual_start, size),
             Entry(Unmapped, e.virtual_start, e.size)>>
        \o SubSeq(List, i + 1, Len(List))

\* allocate: the first free entry that fits is split, the second part stays
\* in the list even when it is empty.
Split(i, phy_start, size) ==
    LET e == List[i]
    IN  SubSeq(List, 1, i - 1)
        \o <<Entry(Phys(phy_start), e.virtual_start, size),
             Entry(Unmapped, e.virtual_start + size, e.size - size)>>
        \o SubSeq(List, i + 1, Len(List))

New(phy_start, size) ==
    LET i == CHOOSE k \in Fitting(size) : \A j \in Fitting(size) : k <= j
        v == List[i].virtual_start
    IN  /\ ~panicked
        /\ Cardinality(live) < MaxLive /\ Len(List) < MaxEntries
        /\ get_entry_containing(phy_start) = {}
        /\ Fitting(size) # {}
        /\ entries' = Split(i, phy_start, size)
        /\ live' = live \cup {[at |-> v, size |-> size, phys |-> phy_start]}
        /\ mapped' = [a \in Space |->
                        IF a \in Covered(v, size) THEN Phys(phy_start + a - v)
                        ELSE mapped[a]]
        /\ UNCHANGED <<panicked, merged>>

\* The error results: AlreadyMapped changes nothing, OutOfSpace may have
\* created the list.
NewFails(phy_start, size) ==
    /\ ~panicked
    /\ \/ /\ get_entry_containing(phy_start) # {}
          /\ UNCHANGED entries
       \/ /\ get_entry_containing(phy_start) = {}
          /\ Fitting(size) = {}
          /\ entries' = List
    /\ UNCHANGED <<live, mapped, panicked, merged>>

\* deallocate, the entry at i: merge with the next entry if it is free, add
\* the size to the previous entry if that is free, and put the entry back.
Merge(i) ==
    LET next == i < Len(entries) /\ IsFree(entries[i + 1])
        size == entries[i].size + IF next THEN entries[i + 1].size ELSE 0
        rest == SubSeq(entries, i + (IF next THEN 2 ELSE 1), Len(entries))
        prev == IF i > 1 /\ IsFree(entries[i - 1])
                THEN [SubSeq(entries, 1, i - 1) EXCEPT ![i - 1].size = @ + size]
                ELSE SubSeq(entries, 1, i - 1)
    IN  prev \o <<Entry(Unmapped, entries[i].virtual_start, size)>> \o rest

\* The drop of a VirtualSpace.  The first entry its address lies in must
\* match it and be mapped: anything else is a panic of unwrap or assert.
Drop(vs) ==
    LET hit == {i \in DOMAIN entries :
                  vs.at \in Covered(entries[i].virtual_start, entries[i].size)}
        i == CHOOSE k \in hit : \A j \in hit : k <= j
        ok == /\ hit # {}
              /\ entries[i].virtual_start = vs.at /\ entries[i].size = vs.size
              /\ ~IsFree(entries[i])
              /\ \A a \in Covered(vs.at, vs.size) : mapped[a] # Unmapped
    IN  /\ ~panicked
        /\ vs \in live
        /\ IF ok
           THEN /\ entries' = Merge(i)
                /\ live' = live \ {vs}
                /\ mapped' = [a \in Space |->
                                IF a \in Covered(vs.at, vs.size) THEN Unmapped
                                ELSE mapped[a]]
                /\ merged' = (merged \/ (i > 1 /\ IsFree(entries[i - 1])))
                /\ UNCHANGED panicked
           ELSE /\ panicked' = TRUE
                /\ UNCHANGED <<entries, live, mapped, merged>>

Next ==
    \/ \E p \in PhysStarts, s \in Sizes : New(p, s) \/ NewFails(p, s)
    \/ \E vs \in live : Drop(vs)

Spec == Init /\ [][Next]_vars
-------------------------------------------------------------------------------
\* The entries, the live values and the flag have their types.
TypeOK ==
    /\ \A i \in DOMAIN entries :
        /\ entries[i].virtual_start \in 0..SpaceSize
        /\ entries[i].size \in 0..SpaceSize
        /\ IsFree(entries[i]) \/ entries[i].physical_start \in {Phys(p) : p \in PhysStarts}
    /\ live \subseteq [at : Space, size : Sizes, phys : PhysStarts]
    /\ panicked \in BOOLEAN

\* No page of the space is ever lost: what was given out and returned, in any
\* order, is still in some entry.
NothingIsLost ==
    entries # <<>> =>
        Space = UNION {Covered(entries[i].virtual_start, entries[i].size) :
                        i \in DOMAIN entries}

\* Until a drop meets a free entry in front of its own, a VirtualSpace reads
\* the physical memory it was created for, whatever else is created or
\* dropped: the values do not overlap and no physical start is mapped twice.
LiveMapsItsMemory ==
    ~merged =>
        /\ \A x \in live : \A k \in 0 .. x.size - 1 : mapped[x.at + k] = Phys(x.phys + k)
        /\ \A x, y \in live : x # y => x.phys # y.phys

\* Until then no drop panics: the entry of a VirtualSpace is still there.
DropsSucceed == ~merged => ~panicked

\* Two VirtualSpace values never share virtual memory.
\* "merge with prev" / "no need to remove the `current` since its already
\* removed" (deallocate)
LiveAreDisjoint ==
    \A x, y \in live : x # y => Covered(x.at, x.size) \cap Covered(y.at, y.size) = {}
===============================================================================
