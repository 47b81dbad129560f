---------------------------- MODULE AddressSpaces ----------------------------
(***************************************************************************)
(* Physical pages and address spaces: physical_page_allocator.rs and       *)
(* virtual_memory_mapper.rs of kernel/src/memory_management, with their    *)
(* callers in the process code (allocate_process, load_elf_to_vm,          *)
(* add_to_heap, the drop of a process).                                    *)
(*                                                                         *)
(* The page tables are modelled as they are in memory: four levels of      *)
(* tables that live in physical pages, entries with a page and flags, and  *)
(* kernel tables that all address spaces share below the third level.      *)
(* Only the radix is small: N entries per table instead of 512.  A virtual *)
(* page is the tuple of its four indices.  Level-4 entry K is the kernel's *)
(* (0x1FF), K - 1 holds the user stack, 0 the image and the heap; under K  *)
(* the third-level entries below KL3 are specific to a process.            *)
(*                                                                         *)
(* A system call can be preempted between two of the actions below; the    *)
(* pieces that run with interrupts off, or that only touch tables no one   *)
(* else can reach yet, are one action.                                     *)
(***************************************************************************)
EXTENDS Naturals, Sequences, FiniteSets, SequencesExt

CONSTANTS MaxPid,       \* bound: processes 1..MaxPid, 1 is created by boot
          NumPages,     \* physical pages 1..NumPages of the allocator
          HeapMax,      \* DEFAULT_MAX_HEAP_SIZE, in pages
          KernelMax,    \* bound: pages the kernel heap grows to
          MaxCalls      \* bound: changes of process heaps

ASSUME PageAssumptions ==
    /\ MaxPid \in Nat \ {0}
    /\ NumPages \in Nat /\ NumPages > 4
    /\ HeapMax \in 1..3 /\ KernelMax \in 0..3 /\ MaxCalls \in Nat

Pids == 1..MaxPid
N == 3
Idx == 0 .. N - 1
K == N - 1
KL3 == N - 2
Pages == 1..NumPages
Mmio == NumPages + 1    \* a page of device memory, not the allocator's
None == 0

\* The layout of an address space (memory_layout.rs, allocate_process).
Image       == <<<<0, 0, 0, 0>>>>
Heap(i)     == <<0, 0, 1, i>>
Stack       == <<<<K - 1, K, K, 0>>>>
StackGuard  == <<K - 1, K, K, 1>>
Metadata    == <<<<K - 1, K, K, 2>>>>
KernelStack == <<<<K, 0, 0, 1>>>>
KernelHeap(i) == <<K, KL3, 0, i>>
Device      == <<K, KL3, 1, 0>>
KernelPages == {KernelHeap(i) : i \in Idx} \cup {Device}

VARIABLES ram,      \* the physical allocator and the contents of table pages
          kernel,   \* [size, device]: kernel heap pages, device mapped or not
          procs,    \* pid -> [root, heap_size, state] of the processes, and
                    \* the history: did its heap ever shrink?
          spawning, \* pid -> the child it is allocating, or NoChild
          running,  \* the process the processor executes, or None
          cr3,      \* its page map
          n_cli,    \* depth of push_cli outside the atomic sections
          calls,    \* changes of process heaps so far
          next_pid  \* PROCESS_ID_ALLOCATOR: ids are not used again

vars == <<ram, kernel, procs, spawning, running, cr3, n_cli, calls, next_pid>>

NoEntry == [pg |-> None, fl |-> {}]
ZeroPage == [i \in Idx |-> NoEntry]
Present(e) == "P" \in e.fl
NoChild == [pid |-> None, root |-> None, stage |-> "none"]
-------------------------------------------------------------------------------
(* physical_page_allocator.rs.  The operators take and return the value of  *)
(* ram; "panic" stops everything, the operators after it do nothing.  The   *)
(* counters that are only printed are left out.                             *)

alloc(s) ==
    IF s.panic \/ s.free = <<>>
    THEN [s EXCEPT !.panic = TRUE]
    ELSE [s EXCEPT !.free = Tail(@),
                   !.mem[Head(s.free)] = ZeroPage]

Allocated(s) == Head(s.free)        \* the page that alloc(s) returns

free(s, pg) ==
    IF s.panic \/ pg \notin Pages
    THEN [s EXCEPT !.panic = TRUE]
    ELSE [s EXCEPT !.free = <<pg>> \o @,
                   !.mem[pg] = ZeroPage]

init_range(pages) ==
    [free  |-> Reverse(pages),
     mem   |-> [pg \in Pages |-> ZeroPage],
     panic |-> FALSE]
-------------------------------------------------------------------------------
(* virtual_memory_mapper.rs                                                 *)

Walk_OldFlags(s, t, i, fl) ==
    IF s.panic \/ Present(s.mem[t][i]) THEN s
    ELSE IF s.free = <<>> THEN alloc(s)
    ELSE [alloc(s) EXCEPT !.mem[t][i] = [pg |-> Allocated(s), fl |-> {"P"} \cup fl]]

\* One level of map: allocate the next table if there is none, add the flags.
Walk(s, t, i, fl) ==
    IF s.panic THEN s
    ELSE IF Present(s.mem[t][i])
    THEN [s EXCEPT !.mem[t][i].fl = @ \cup fl]
    ELSE IF s.free = <<>> THEN alloc(s)
    ELSE [alloc(s) EXCEPT !.mem[t][i] = [pg |-> Allocated(s), fl |-> {"P"} \cup fl]]

\* One page of map; physical = None allocates it, before any table.
MapPage(s, root, v, physical, fl) ==
    LET s0 == IF physical = None THEN alloc(s) ELSE s
        pg == IF physical = None THEN Allocated(s) ELSE physical
        s1 == Walk(s0, root, v[1], fl)
        t3 == s1.mem[root][v[1]].pg
        s2 == Walk(s1, t3, v[2], fl)
        t2 == s2.mem[t3][v[2]].pg
        s3 == Walk(s2, t2, v[3], fl)
        t1 == s3.mem[t2][v[3]].pg
    IN  IF s3.panic THEN s3
        ELSE [s3 EXCEPT !.mem[t1][v[4]] = [pg |-> pg, fl |-> {"P"} \cup fl]]

map(s, root, vs, fl) ==
    FoldLeft(LAMBDA a, v : MapPage(a, root, v, None, fl), s, vs)

\* One level of unmap: the entry must be there and loses the flags.
Strip(s, t, i, fl) ==
    IF s.panic \/ ~Present(s.mem[t][i])
    THEN [s EXCEPT !.panic = TRUE]
    ELSE [s EXCEPT !.mem[t][i].fl = @ \ fl]

UnmapPage_Keeps(s, root, v, fl, is_allocated) ==
    LET s1 == Strip(s, root, v[1], fl)
        t3 == s1.mem[root][v[1]].pg
        s2 == Strip(s1, t3, v[2], fl)
        t2 == s2.mem[t3][v[2]].pg
        s3 == Strip(s2, t2, v[3], fl)
        e1 == s3.mem[s3.mem[t2][v[3]].pg][v[4]]
    IN  IF s3.panic \/ ~is_allocated THEN s3 ELSE free(s3, e1.pg)

UnmapPage(s, root, v, fl, is_allocated) ==
    LET s1 == Strip(s, root, v[1], fl)
        t3 == s1.mem[root][v[1]].pg
        s2 == Strip(s1, t3, v[2], fl)
        t2 == s2.mem[t3][v[2]].pg
        s3 == Strip(s2, t2, v[3], fl)
        t1 == s3.mem[t2][v[3]].pg
        e1 == s3.mem[t1][v[4]]
        s4 == IF ~Present(e1) THEN [s3 EXCEPT !.panic = TRUE]
              ELSE IF is_allocated THEN free(s3, e1.pg) ELSE s3
    IN  IF s3.panic THEN s3
        ELSE IF s4.panic THEN s4
        ELSE [s4 EXCEPT !.mem[t1][v[4]] = NoEntry]

unmap(s, root, vs, fl, is_allocated) ==
    FoldLeft(LAMBDA a, v : UnmapPage(a, root, v, fl, is_allocated), s, vs)

\* The walk of do_for_ranges_entries: the level-3 tables are flattened into
\* one sequence, from which the range l3_start..l3_end is taken.
Flattened_Short(l4_start, l3_start, l3_end) ==
    [k \in 1 .. l3_end - l3_start |->
        <<l4_start + ((l3_start + k) \div N), (l3_start + k) % N>>]

Flattened(l4_start, l3_start, l3_end) ==
    [k \in 1 .. l3_end - l3_start + 1 |->
        <<l4_start + ((l3_start + k - 1) \div N), (l3_start + k - 1) % N>>]

\* free_page of unmap_process_memory, on every leaf under the given entries
\* <<l4, l3>>: the page is freed, the entry of its level-1 table cleared.
Leaves(entries) ==
    [k \in 1 .. Len(entries) * N * N |->
        LET i == entries[1 + ((k - 1) \div (N * N))]
        IN  <<i[1], i[2], ((k - 1) \div N) % N, (k - 1) % N>>]

FreeRange(s, root, entries) ==
    LET E3(v) == s.mem[s.mem[root][v[1]].pg][v[2]]
        E2(v) == s.mem[E3(v).pg][v[3]]
        E1(v) == s.mem[E2(v).pg][v[4]]
        vs == SelectSeq(Leaves(entries), LAMBDA v :
                /\ Present(s.mem[root][v[1]]) /\ Present(E3(v))
                /\ Present(E2(v)) /\ Present(E1(v)))
        pages == [k \in DOMAIN vs |-> E1(vs[k]).pg]
        tables == {E2(vs[k]).pg : k \in DOMAIN vs}
    IN  IF Range(pages) \subseteq Pages
        THEN [s EXCEPT !.free = Reverse(pages) \o @,
                       !.mem = [pg \in Pages |->
                                  IF pg \in Range(pages) \cup tables
                                  THEN ZeroPage ELSE @[pg]]]
        ELSE [s EXCEPT !.panic = TRUE]

unmap_process_memory(s, root) ==
    FreeRange(FreeRange(s, root, Flattened(0, 0, N - 1)),
              root, Flattened(K, 0, KL3 - 1))

\* clone_kernel_mem: a new page map whose kernel table is a copy of the
\* current one's; the new root is the page alloc(s) returns.
clone_kernel_mem(s, current) ==
    LET root == Allocated(s)
        l3   == Allocated(alloc(s))
        s1   == alloc(alloc(s))
    IN  IF s1.panic THEN s1
        ELSE [s1 EXCEPT !.mem[l3] = s.mem[s.mem[current][K].pg],
                        !.mem[root][K] = [pg |-> l3, fl |-> {"P", "W"}]]

\* The first process-specific third-level entries are dropped (not freed),
\* then a kernel stack is mapped for the process.
Cleared == 0 .. KL3 - 1

add_process_specific_mappings(s, root) ==
    LET l3 == s.mem[root][K].pg
        s1 == [s EXCEPT !.mem[l3] =
                  [i \in Idx |-> IF i \in Cleared THEN NoEntry ELSE @[i]]]
    IN  map(s1, root, KernelStack, {"W"})
-------------------------------------------------------------------------------
(* The steps of allocate_process on a new page map.                         *)

MapUserStack(s, root) ==
    map(map(s, root, Metadata, {"U"}), root, Stack, {"U", "W"})

MapImage(s, root) == map(s, root, Image, {"U"})

\* The kernel map of boot: its tables exist, nothing of the heap is mapped.
KernelRoot == NumPages
BootRam ==
    LET s0 == alloc(init_range([i \in 1..NumPages |-> i]))
        s1 == MapPage(s0, KernelRoot, Device, Mmio, {"W"})
    IN  map(unmap(s1, KernelRoot, <<Device>>, {}, FALSE),
            KernelRoot, <<KernelHeap(0)>>, {"W"})

InitRoot == Allocated(BootRam)

Process(root) == [root |-> root, heap_size |-> 0, state |-> "alive", shrunk |-> FALSE]

Init ==
    /\ ram = add_process_specific_mappings(
                MapImage(MapUserStack(clone_kernel_mem(BootRam, KernelRoot), InitRoot),
                         InitRoot),
                InitRoot)
    /\ kernel = [size |-> 1, device |-> FALSE]
    /\ procs = [p \in {1} |-> Process(InitRoot)]
    /\ spawning = [p \in Pids |-> NoChild]
    /\ running = None
    /\ cr3 = KernelRoot
    /\ n_cli = 0
    /\ calls = 0
    /\ next_pid = 2
-------------------------------------------------------------------------------
(* Every action needs a kernel that has not panicked.                       *)
Up == ~ram.panic

Runs(p) == Up /\ running = p /\ p \in DOMAIN procs

InSyscall(p) == spawning[p] # NoChild

\* schedule: take a process, switch to its page map.
Schedule(p) ==
    /\ Up /\ running = None
    /\ p \in DOMAIN procs /\ procs[p].state = "alive"
    /\ running' = p
    /\ cr3' = procs[p].root
    /\ UNCHANGED <<ram, kernel, procs, spawning, n_cli, calls, next_pid>>

\* The timer takes the processor away; schedule goes back to the kernel map.
Preempt(p) ==
    /\ Runs(p)
    /\ running' = None
    /\ cr3' = KernelRoot
    /\ UNCHANGED <<ram, kernel, procs, spawning, n_cli, calls, next_pid>>

\* allocate_process begins: clone_current_vm_as_user, with interrupts off.
SpawnClone(p) ==
    /\ Runs(p) /\ ~InSyscall(p)
    /\ next_pid \in Pids
    /\ next_pid' = next_pid + 1
    /\ ram' = clone_kernel_mem(ram, cr3)
    /\ spawning' = [spawning EXCEPT
                      ![p] = [pid |-> next_pid,
                              root |-> IF ram'.panic THEN None ELSE Allocated(ram),
                              stage |-> "cloned"]]
    /\ UNCHANGED <<kernel, procs, running, cr3, n_cli, calls>>

SpawnMap(p) ==
    /\ Runs(p) /\ spawning[p].stage = "cloned"
    /\ ram' = MapUserStack(ram, spawning[p].root)
    /\ spawning' = [spawning EXCEPT ![p].stage = "mapped"]
    /\ UNCHANGED <<kernel, procs, running, cr3, n_cli, calls, next_pid>>

\* load_elf_to_vm, with interrupts off and the new page map loaded.
SpawnLoad(p) ==
    /\ Runs(p) /\ spawning[p].stage = "mapped"
    /\ ram' = MapImage(ram, spawning[p].root)
    /\ spawning' = [spawning EXCEPT ![p].stage = "loaded"]
    /\ UNCHANGED <<kernel, procs, running, cr3, n_cli, calls, next_pid>>

\* The read of the file fails: ? leaves load_elf_to_vm before it switches
\* back and pops its push_cli, and the new page map is forgotten.
SpawnLoadFails(p) ==
    /\ Runs(p) /\ spawning[p].stage = "mapped"
    /\ ram' = MapImage(ram, spawning[p].root)
    /\ spawning' = [spawning EXCEPT ![p] = NoChild]
    /\ cr3' = spawning[p].root
    /\ n_cli' = n_cli + 1
    /\ UNCHANGED <<kernel, procs, running, calls, next_pid>>

SpawnFinish(p) ==
    /\ Runs(p) /\ spawning[p].stage = "loaded"
    /\ ram' = add_process_specific_mappings(ram, spawning[p].root)
    /\ procs' = [q \in DOMAIN procs \cup {spawning[p].pid} |->
                    IF q = spawning[p].pid THEN Process(spawning[p].root)
                    ELSE procs[q]]
    /\ spawning' = [spawning EXCEPT ![p] = NoChild]
    /\ UNCHANGED <<kernel, running, cr3, n_cli, calls, next_pid>>

\* add_to_heap with a positive and with a negative increment of pages; a new
\* size out of bounds changes nothing.
GrowHeap(p, n) ==
    LET size == procs[p].heap_size
    IN  /\ Runs(p) /\ ~InSyscall(p)
        /\ calls < MaxCalls /\ calls' = calls + 1
        /\ size + n <= HeapMax
        /\ ram' = map(ram, procs[p].root,
                      [i \in 1..n |-> Heap(size + i - 1)], {"U", "W"})
        /\ procs' = [procs EXCEPT ![p].heap_size = size + n]
        /\ UNCHANGED <<kernel, spawning, running, cr3, n_cli, next_pid>>

ShrinkHeap(p, n) ==
    LET size == procs[p].heap_size
    IN  /\ Runs(p) /\ ~InSyscall(p)
        /\ calls < MaxCalls /\ calls' = calls + 1
        /\ n <= size
        /\ ram' = unmap(ram, procs[p].root,
                        [i \in 1..n |-> Heap(size - n + i - 1)], {"U", "W"}, TRUE)
        /\ procs' = [procs EXCEPT ![p].heap_size = size - n, ![p].shrunk = TRUE]
        /\ UNCHANGED <<kernel, spawning, running, cr3, n_cli, next_pid>>

\* The kernel heap takes a page, in whatever context needs memory.
GrowKernelHeap ==
    /\ Up /\ kernel.size < KernelMax
    /\ ram' = map(ram, KernelRoot, <<KernelHeap(kernel.size)>>, {"W"})
    /\ kernel' = [kernel EXCEPT !.size = @ + 1]
    /\ UNCHANGED <<procs, spawning, running, cr3, n_cli, calls, next_pid>>

\* A VirtualSpace is created and dropped: device memory mapped and unmapped.
MapDevice ==
    /\ Up /\ ~kernel.device
    /\ ram' = MapPage(ram, KernelRoot, Device, Mmio, {"W"})
    /\ kernel' = [kernel EXCEPT !.device = TRUE]
    /\ UNCHANGED <<procs, spawning, running, cr3, n_cli, calls, next_pid>>

UnmapDevice ==
    /\ Up /\ kernel.device
    /\ ram' = unmap(ram, KernelRoot, <<Device>>, {"W"}, FALSE)
    /\ kernel' = [kernel EXCEPT !.device = FALSE]
    /\ UNCHANGED <<procs, spawning, running, cr3, n_cli, calls, next_pid>>

\* exit: the process leaves the processor, its memory is freed later...
Exit(p) ==
    /\ Runs(p) /\ ~InSyscall(p)
    /\ procs' = [procs EXCEPT ![p].state = "exited"]
    /\ running' = None
    /\ cr3' = KernelRoot
    /\ UNCHANGED <<ram, kernel, spawning, n_cli, calls, next_pid>>

\* ...by the scheduler, which drops the Process.
Drop(p) ==
    /\ Up /\ running = None
    /\ p \in DOMAIN procs /\ procs[p].state = "exited"
    /\ ram' = unmap_process_memory(ram, procs[p].root)
    /\ procs' = [q \in DOMAIN procs \ {p} |-> procs[q]]
    /\ UNCHANGED <<kernel, spawning, running, cr3, n_cli, calls, next_pid>>

Next ==
    \/ GrowKernelHeap \/ MapDevice \/ UnmapDevice
    \/ \E p \in Pids :
        \/ Schedule(p) \/ Preempt(p) \/ Exit(p) \/ Drop(p)
        \/ SpawnClone(p) \/ SpawnMap(p) \/ SpawnLoad(p) \/ SpawnLoadFails(p) \/ SpawnFinish(p)
        \/ \E n \in 1..HeapMax : GrowHeap(p, n) \/ ShrinkHeap(p, n)

Spec == Init /\ [][Next]_vars
-------------------------------------------------------------------------------
(* Properties                                                               *)

TypeOK ==
    /\ ram.free \in Seq(Pages)
    /\ ram.mem \in [Pages -> [Idx -> [pg : 0..Mmio, fl : SUBSET {"P", "W", "U"}]]]
    /\ ram.panic \in BOOLEAN
    /\ DOMAIN procs \subseteq Pids
    /\ running \in DOMAIN procs \cup {None}
    /\ cr3 \in Pages
    /\ n_cli \in Nat
    /\ calls \in 0..MaxCalls
    /\ next_pid \in 2 .. MaxPid + 1

\* The pages an entry of a table at level 4, 3, 2 or 1 leads to.
Under(t) == {ram.mem[t][i].pg : i \in {j \in Idx : Present(ram.mem[t][j])}}
Below(ts) == UNION {Under(t) : t \in ts}
Tables(root) == {root} \cup Under(root) \cup Below(Under(root))
                \cup Below(Below(Under(root)))
Reach(root) == Tables(root) \cup Below(Below(Below(Under(root))))

Roots == {KernelRoot, cr3} \cup {procs[p].root : p \in DOMAIN procs}
         \cup {spawning[p].root : p \in {q \in Pids : spawning[q] # NoChild}}

\* The entries a virtual page goes through, and the page it maps to.
Path(root, v) ==
    LET e4 == ram.mem[root][v[1]]
        e3 == IF Present(e4) THEN ram.mem[e4.pg][v[2]] ELSE NoEntry
        e2 == IF Present(e3) THEN ram.mem[e3.pg][v[3]] ELSE NoEntry
        e1 == IF Present(e2) THEN ram.mem[e2.pg][v[4]] ELSE NoEntry
    IN  <<e4, e3, e2, e1>>
Target(root, v) == Path(root, v)[4].pg
Allows(root, v, fl) == \A i \in 1..4 : fl \subseteq Path(root, v)[i].fl

\* A page on the free list occurs there once, and is no table and no mapped
\* page of any address space that can still be loaded: alloc hands out memory
\* nobody uses, over any history of spawns, exits, heap changes and maps.
FreeIsUnused ==
    Up => /\ Cardinality(Range(ram.free)) = Len(ram.free)
          /\ \A r \in Roots : Reach(r) \cap Range(ram.free) = {}

\* What a process can reach with user rights is reached by no other address
\* space, neither as data nor as a table.
UserMemoryIsPrivate ==
    Up => \A p \in DOMAIN procs :
            LET mine == UNION {Below(Below(Below({ram.mem[procs[p].root][i].pg}))) :
                                i \in {j \in 0 .. K - 1 : Present(ram.mem[procs[p].root][j])}}
            IN  /\ mine \cap Tables(procs[p].root) = {}
                /\ \A r \in Roots \ {procs[p].root} : mine \cap Reach(r) = {}

\* A physical page has one owner: it is free, or the table or data of the
\* address spaces entitled to it; no unmap of an unmapped page and no free of a
\* page that is not the allocator's panics, only running out of memory does.
PagesAreOwned ==
    TypeOK /\ FreeIsUnused /\ UserMemoryIsPrivate /\ (ram.panic => ram.free = <<>>)

\* The kernel half is the same in every address space, whatever was mapped or
\* unmapped after the copy of clone_kernel_mem was made, and the drop of a
\* process takes nothing of the kernel heap away.
KernelIsShared ==
    Up => /\ \A i \in 0 .. kernel.size - 1 : Target(KernelRoot, KernelHeap(i)) # None
          /\ \A p \in DOMAIN procs : \A v \in KernelPages :
                Target(procs[p].root, v) = Target(KernelRoot, v)

\* Exactly the pages of heap_size are mapped in the heap, and the guard page
\* under the metadata is not: add_to_heap never unmaps a page that is not
\* there, and what it unmaps is the end of the heap.
HeapIsItsSize ==
    Up => \A p \in DOMAIN procs :
            /\ \A i \in 0 .. HeapMax - 1 :
                (Target(procs[p].root, Heap(i)) # None) <=> i < procs[p].heap_size
            /\ Target(procs[p].root, StackGuard) = None

\* The processor uses the page map of the process it runs, or the kernel's,
\* unless a load_elf_to_vm failed: that leaves the page map of the process
\* that was not created loaded, and one push_cli pending.
LoadedMapIsOwn ==
    Up /\ n_cli = 0 => cr3 = IF running = None THEN KernelRoot ELSE procs[running].root

\* A process can use its image, its stack and its heap, whatever else was
\* mapped, as long as it has not shrunk its heap: unmap takes the flags of the
\* page away from the tables above it, which other pages share.
ProcessCanUseItsMemory ==
    Up => HeapIsItsSize /\ \A p \in {q \in DOMAIN procs : ~procs[q].shrunk} :
            /\ \A v \in Range(Image) : Allows(procs[p].root, v, {"U"})
            /\ \A v \in Range(Stack) : Allows(procs[p].root, v, {"U", "W"})
            /\ \A i \in 0 .. procs[p].heap_size - 1 :
                Allows(procs[p].root, Heap(i), {"U", "W"})

\* The processor runs on the right page map, the kernel half of every page map
\* is the kernel's, and a process can use its half.
MapsAreRight == LoadedMapIsOwn /\ KernelIsShared /\ ProcessCanUseItsMemory

\* The drop of a process gives back its image and its heap.  (The pages under
\* the other level-4 entries, stack and metadata, are not visited by
\* do_for_ranges_entries and stay allocated.)
ImageAndHeap(p) ==
    {Target(procs[p].root, v) :
        v \in Range(Image) \cup {Heap(i) : i \in 0 .. procs[p].heap_size - 1}}
DropFreesImageAndHeap ==
    [][\A p \in DOMAIN procs \ DOMAIN procs' :
          ram'.panic \/ ImageAndHeap(p) \subseteq Range(ram'.free)]_vars
===============================================================================
