------------------------------- MODULE MCMemory -------------------------------
(***************************************************************************)
(* The allocators of kernel/src/memory_management in one model: the        *)
(* physical pages with the page tables, the virtual space for device       *)
(* memory, and the heap; and the loading of a file into a new address      *)
(* space.  "part" names the one that moves, the others stay in their        *)
(* initial state.                                                          *)
(***************************************************************************)
EXTENDS AddressSpaces

CONSTANTS SpaceSize, PhysStarts, Sizes, MaxSpaces, MaxEntries,
          Layouts, PageUnits, MaxPages, MaxBlocks,
          Files, Argvs, PAGE_4K, PAGE_2M, HEAP_OFFSET_FROM_ELF_END, StackSize

VARIABLES part,
          vs_entries, vs_live, vs_mapped, vs_panicked, vs_merged,
          heap, info, blocks, heap_panicked,
          elf, given_argv, pc, program_headers, sections, string_table, image, stack,
          context, loaded, phdr_address, process_meta, heap_start, cli, failed

vs_vars == <<vs_entries, vs_live, vs_mapped, vs_panicked, vs_merged>>
heap_vars == <<heap, info, blocks, heap_panicked>>
load_vars == <<elf, given_argv, pc, program_headers, sections, string_table, image, stack,
               context, loaded, phdr_address, process_meta, heap_start, cli, failed>>
memory_vars == <<part, vars, vs_vars, heap_vars, load_vars>>

Space == INSTANCE VirtualSpaceProofs
            WITH MaxLive <- MaxSpaces, entries <- vs_entries, live <- vs_live,
                 mapped <- vs_mapped, panicked <- vs_panicked, merged <- vs_merged
KHeap == INSTANCE HeapProofs
            WITH MaxLive <- MaxBlocks, live <- blocks, panicked <- heap_panicked
Program == INSTANCE Loader

ASSUME PartAssumptions ==
    Space!SpaceAssumptions /\ KHeap!HeapAssumptions /\ Program!LoaderAssumptions

L(size, align) == [size |-> size, align |-> align]
\* small and large blocks, of which some must be aligned to 32 and 64 bytes
MixedLayouts == {L(1, 1), L(4, 1), L(1, 4), L(2, 2)}

(* Files.  A linker's: text with the headers, data with a part that is not in  *)
(* the file, a stack note; sections with two names the kernel looks for.       *)
ElfBase == [bits |-> 2, endianness |-> 1, version |-> 1, abi |-> 0, abi_version |-> 0,
         elf_type |-> 3, machine |-> 62, elf_version |-> 1]
Segment(type, offset, address, file_size, mem_size, writable) ==
    [type |-> type, offset |-> offset, virtual_address |-> address, physical_address |-> address,
     file_size |-> file_size, mem_size |-> mem_size, writable |-> writable]
Section(name_index, address, offset, size) ==
    [name_index |-> name_index, address |-> address, offset |-> offset, size |-> size]
Linked ==
    [size |-> 64 + 4 * 56 + 20 + 17 + 4 * 64, magic |-> TRUE, base |-> ElfBase, entry |-> 18,
     program_header_offset |-> 64, program_header_entry_size |-> 56,
     program_headers |-> <<Segment("ProgramHeader", 64, 17, 4, 4, FALSE),
                           Segment("Load", 288, 16, 10, 10, FALSE),
                           Segment("Load", 298, 42, 8, 12, TRUE),
                           Segment("Other", 0, 0, 0, 0, TRUE)>>,
     section_header_offset |-> 325, section_header_entry_size |-> 64,
     section_header_string_table_index |-> 3,
     names |-> (0 :> "") @@ (1 :> ".text") @@ (7 :> ".eh_frame"),
     sections |-> <<Section(0, 0, 0, 0), Section(1, 18, 290, 4), Section(7, 22, 294, 4),
                    Section(0, 0, 308, 17)>>]
Small == [Linked EXCEPT !.base.bits = 1, !.program_header_entry_size = 32,
                        !.section_header_entry_size = 40]
\* The section headers in front of the rest.
Early ==
    [Linked EXCEPT !.section_header_offset = 288, !.program_headers[2].offset = 544,
                   !.program_headers[3].offset = 554, !.sections[4].offset = 562]
\* 32-bit headers; files that end at or between the edges of what is read; other
\* machines and types; no sections, no program header segment, a physical address
\* of its own, segments on one page, only zeros, an entry outside the image.
SomeFiles ==
    {Linked, Small, Early} \union {[Early EXCEPT !.size = n] : n \in {550, 562, 570}}
    \union {[Linked EXCEPT !.size = n] : n \in {0, 63, 64, 119, 290, 300, 307, 315, 325, 388, 400, 580}}
    \union {[Linked EXCEPT !.magic = FALSE], [Linked EXCEPT !.base.bits = 1],
            [Linked EXCEPT !.base.machine = 3], [Linked EXCEPT !.base.elf_type = 1],
            [Linked EXCEPT !.base.elf_type = 2], [Linked EXCEPT !.base.endianness = 2],
            [Linked EXCEPT !.section_header_entry_size = 40],
            [Linked EXCEPT !.sections = <<>>, !.section_header_string_table_index = 0],
            [Linked EXCEPT !.program_headers = Tail(@)],
            [Linked EXCEPT !.program_headers[2].physical_address = 0],
            [Linked EXCEPT !.program_headers[3].virtual_address = 28, !.program_headers[3].physical_address = 28],
            [Linked EXCEPT !.program_headers[3].virtual_address = 48, !.program_headers[3].physical_address = 48,
                           !.program_headers[3].file_size = 0, !.program_headers[3].mem_size = 16],
            [Linked EXCEPT !.sections[3].address = 0],
            [Linked EXCEPT !.entry = 0]}
Str(n) == [i \in 1..n |-> 64 + i]
\* Around multiples of a word, with an empty one, and around the stack's size.
SomeArgvs == {<<>>, <<Str(1)>>, <<Str(7), Str(8)>>, <<Str(2), <<>>, Str(3)>>, <<Str(16), Str(3), Str(1)>>, <<Str(63)>>, <<Str(64)>>}

MemoryInit ==
    /\ part \in {"pages", "space", "heap", "load"}
    /\ Init /\ Space!Init /\ KHeap!Init
    /\ Program!Init /\ (part # "load" => elf = Linked /\ given_argv = <<>>)

PagesNext == part = "pages" /\ Next /\ UNCHANGED <<part, vs_vars, heap_vars, load_vars>>
SpaceNext == part = "space" /\ Space!Next /\ UNCHANGED <<part, vars, heap_vars, load_vars>>
HeapNext  == part = "heap" /\ KHeap!Next /\ UNCHANGED <<part, vars, vs_vars, load_vars>>
LoadNext  == part = "load" /\ Program!Next /\ UNCHANGED <<part, vars, vs_vars, heap_vars>>

MemorySpec == MemoryInit /\ [][PagesNext \/ SpaceNext \/ HeapNext \/ LoadNext]_memory_vars
-------------------------------------------------------------------------------
\* A physical page has one owner, through the creation, growth, shrinking and
\* drop of address spaces; and each of them maps the kernel's half as the kernel
\* does and its own half to pages it can use.
PagesAreRight == part = "pages" => PagesAreOwned /\ MapsAreRight

\* No page of the virtual space is ever lost, and until a drop meets a free
\* entry in front of its own, a VirtualSpace reads the physical memory it was
\* created for and its drop does not panic, whatever else is created or dropped.
SpacesAreSound ==
    part = "space" =>
        Space!TypeOK /\ Space!NothingIsLost /\ Space!LiveMapsItsMemory /\ Space!DropsSucceed

\* Free and allocated blocks tile the heap whatever was split and merged, the
\* free list runs through the free ones in address order with neighbours
\* merged, the statistics are their sizes, and the memory of a caller lies in
\* its block behind the header.
HeapIsSound ==
    part = "heap" => /\ KHeap!TypeOK
                     /\ KHeap!BlocksTileTheHeap /\ KHeap!ListIsSound
                     /\ KHeap!StatsAddUp /\ KHeap!MemoryIsInsideBlock

\* alloc and dealloc implement the abstract heap: aligned memory that nobody
\* else has, and that only its own dealloc takes away.
ImplementsHeap == KHeap!ImplementsHeap

\* A process starts with what its file and its caller said, and a loadable file
\* never fails while the disk works and the arguments fit.
ProcessStartsRight == part = "load" => Program!ProcessStartsRight
===============================================================================
