-------------------------------- MODULE BootInfo --------------------------------
(***************************************************************************)
(* What the boot loader hands over (kernel/src/multiboot2.rs) and the      *)
(* order in which kernel_main (kernel/src/main.rs) reads it.  The          *)
(* information is memory: a function from offsets to the tags that begin   *)
(* there, and in a memory map one from offsets to entries.                 *)
(***************************************************************************)
EXTENDS Integers, CommandLine

CONSTANTS PAGE_4K, EXTENDED_OFFSET, KERNEL_END  \* physical addresses, scaled down

VARIABLES info,     \* the loader's: total_size, mem, end_address; kernel_elf_end
          info_pc,  \* the next thing kernel_main reads
          cmd,      \* CMDLINE
          maps,     \* what the memory map iterators gave when it was printed
          pages,    \* ALLOCATOR: the free list, start and end
          rsdp,     \* get_most_recent_rsdp
          fb        \* framebuffer

infoVars == <<info, info_pc, cmd, maps, pages, rsdp, fb>>

HeaderSize == 8
MapHeaderSize == 16
FramebufferSize == 32      \* of its tag, without the color information
align_up(n, a) == ((n + a - 1) \div a) * a
align_down(n, a) == (n \div a) * a

Tag(kind, data) == [kind |-> kind, data |-> data]
PanicTag == Tag("panic", <<>>)

\* MemoryMapIter and EfiMemoryMapIter: the type is one of those the kernel knows,
\* or Undefined.
Known(ty, n) == CASE ty = 6 -> n \in 1..5 [] ty = 17 -> n \in 0..14
RECURSIVE MapIter(_, _, _, _)
MapIter(ty, map, at, remaining) ==
    IF remaining = 0 THEN <<>>
    ELSE LET e == map.mem[at]
             left == IF remaining > map.entry_size THEN remaining - map.entry_size ELSE 0
         IN  <<[base |-> e.base, length |-> e.length, mem_type |-> e.type, undefined |-> ~Known(ty, e.type)]>>
             \o MapIter(ty, map, at + map.entry_size, left)

\* from_color_info
ColorInfo(ty, bytes) ==
    CASE ty = 0 -> IF Len(bytes) >= 4 THEN Tag("Indexed", SubSeq(bytes, 1, 4)) ELSE PanicTag
      [] ty = 1 -> IF Len(bytes) >= 6 THEN Tag("Rgb", SubSeq(bytes, 1, 6)) ELSE PanicTag
      [] ty = 2 -> Tag("EgaText", <<>>)
      [] OTHER -> PanicTag

\* The tag of a type, as MultiBootTagIter::next returns it.  The payload of the
\* types the kernel only prints is left out.
Printed == 4 :> "BasicMemoryInfo" @@ 5 :> "BiosBootDevice" @@ 7 :> "VbeInfo" @@ 9 :> "ElfSymbols"
           @@ 10 :> "AdvancedPowerManagementTable" @@ 12 :> "Efi64SystemTablePtr"
           @@ 18 :> "EfiBootServicesNotTerminated" @@ 20 :> "Efi64ImageHandle"
           @@ 21 :> "ImageLoadBasePhysical"
RsdpSize == 14 :> 20 @@ 15 :> 36
Decode(tag) ==
    CASE tag.ty = 1 -> Tag("BootCommandLine", tag.data.text)
      [] tag.ty = 2 -> Tag("BootLoaderName", tag.data.text)
      [] tag.ty \in {6, 17} -> Tag(IF tag.ty = 6 THEN "MemoryMap" ELSE "EfiMemoryMap",
                                   MapIter(tag.ty, tag.data, 0, tag.size - MapHeaderSize))
      [] tag.ty = 8 -> LET color == ColorInfo(tag.data.type, tag.data.color)
                       IN  IF color.kind = "panic" THEN PanicTag
                           ELSE Tag("FrameBufferInfo", [addr |-> tag.data.addr, color |-> color])
      [] tag.ty \in {14, 15} -> IF tag.size - HeaderSize = RsdpSize[tag.ty] THEN Tag("Rsdp", tag.data) ELSE PanicTag
      [] tag.ty \in DOMAIN Printed -> Tag(Printed[tag.ty], <<>>)
      [] OTHER -> PanicTag

\* MultiBootTagIter: the tags it yields; the last is PanicTag if it panics.
RECURSIVE TagIter(_, _, _)
TagIter(mem, at, remaining) ==
    IF remaining = 0 THEN <<>>
    ELSE LET tag == mem[at]
             tag_size == align_up(tag.size, 8)
             decoded == Decode(tag)
         IN  IF tag_size > remaining THEN <<PanicTag>>
             ELSE IF tag.ty = 0
             THEN IF tag.size = HeaderSize /\ remaining = tag_size THEN <<>> ELSE <<PanicTag>>
             ELSE IF decoded.kind = "panic" THEN <<PanicTag>>
             ELSE <<decoded>> \o TagIter(mem, at + tag_size, remaining - tag_size)

tags == TagIter(info.mem, HeaderSize, info.total_size - HeaderSize)

\* Iterator::find_map: <<>> if there is no such tag.
find_map(kind) ==
    LET n == SelectInSeq(tags, LAMBDA t : t.kind \in {kind, "panic"})
    IN  IF n = 0 THEN <<>> ELSE <<tags[n]>>
Panics(found) == \E i \in DOMAIN found : found[i].kind = "panic"

\* Mutant: the last of the newest ones.
Newest_Last(best, t) ==
    IF t.kind = "Rsdp" /\ (best = <<>> \/ best[1].revision <= t.data.revision) THEN <<t.data>> ELSE best

\* get_most_recent_rsdp
Newest(best, t) ==
    IF t.kind = "Rsdp" /\ (best = <<>> \/ best[1].revision < t.data.revision) THEN <<t.data>> ELSE best
get_most_recent_rsdp == FoldLeft(Newest, <<>>, tags)
--------------------------------------------------------------------------------
(* PhysicalPageAllocator::new, on physical addresses. *)

NoPages == [free |-> <<>>, start |-> 0, end |-> 0, high_mem |-> FALSE, ok |-> TRUE]

\* free; init_range calls it for every page of a range, in order.
free(a, page) ==
    IF page < a.start \/ page >= a.end THEN [a EXCEPT !.ok = FALSE] ELSE [a EXCEPT !.free = <<page>> \o @]
init_range(a, from, to) ==
    FoldLeft(LAMBDA b, i : free(b, from + (i - 1) * PAGE_4K), a,
             [i \in 1 .. (to - from) \div PAGE_4K |-> i])

\* The end of the kernel, or of the information where that lies just behind it.
multiboot_end == align_up(info.end_address, PAGE_4K)
kernel_end == align_up(info.kernel_elf_end, PAGE_4K)

\* Mutant: the information is forgotten.
physical_kernel_end_OfKernel == kernel_end

physical_kernel_end == IF multiboot_end > kernel_end THEN multiboot_end ELSE kernel_end

\* One entry of the map; physical2virtual asserts that its argument is mapped.
AddRange(a, memory) ==
    LET to == memory.base + memory.length
        of_kernel == memory.base <= EXTENDED_OFFSET /\ to >= physical_kernel_end
        start_physical == IF of_kernel THEN physical_kernel_end ELSE align_up(memory.base, PAGE_4K)
        high == align_down(to, PAGE_4K) >= KERNEL_END
        end_physical == IF high THEN KERNEL_END ELSE align_down(to, PAGE_4K)
        b == IF of_kernel THEN [a EXCEPT !.start = physical_kernel_end] ELSE a
    IN  IF ~a.ok \/ a.high_mem \/ to < EXTENDED_OFFSET \/ memory.mem_type # 1 THEN a
        ELSE IF (~of_kernel /\ memory.base < physical_kernel_end) \/ start_physical >= KERNEL_END
             THEN [a EXCEPT !.ok = FALSE]
        ELSE IF start_physical >= end_physical THEN b
        ELSE init_range([b EXCEPT !.end = end_physical, !.high_mem = high], start_physical, end_physical)

AllocatorOf(entries) ==
    IF multiboot_end >= kernel_end + 5 * PAGE_4K THEN [NoPages EXCEPT !.ok = FALSE]
    ELSE FoldLeft(AddRange, NoPages, entries)
--------------------------------------------------------------------------------
Read(pc, next) == info_pc = pc /\ info_pc' = next

\* cmdline::init
InitCmdline ==
    LET found == find_map("BootCommandLine")
    IN  /\ Read("cmdline", IF Panics(found) THEN "panic" ELSE "print")
        /\ cmd' = IF found = <<>> \/ Panics(found) THEN default_cmdline ELSE Cmdline(found[1].data)
        /\ UNCHANGED <<info, maps, pages, rsdp, fb>>

\* fmt::Display: every tag is visited, and every memory map.
PrintInfo ==
    /\ Read("print", IF Panics(tags) THEN "panic" ELSE "pages")
    /\ maps' = SelectSeq(tags, LAMBDA t : t.kind \in {"MemoryMap", "EfiMemoryMap"})
    /\ UNCHANGED <<info, cmd, pages, rsdp, fb>>

\* physical_page_allocator::init
InitPages ==
    LET found == find_map("MemoryMap")
        a == IF found = <<>> THEN [NoPages EXCEPT !.ok = FALSE] ELSE AllocatorOf(found[1].data)
    IN  /\ Read("pages", IF a.ok THEN "rsdp" ELSE "panic")
        /\ pages' = a
        /\ UNCHANGED <<info, cmd, maps, rsdp, fb>>

\* acpi::init_acpi_tables asks for the table pointer.
ReadRsdp ==
    /\ Read("rsdp", "framebuffer")
    /\ rsdp' = get_most_recent_rsdp
    /\ UNCHANGED <<info, cmd, maps, pages, fb>>

ReadFramebuffer ==
    /\ Read("framebuffer", "done")
    /\ fb' = find_map("FrameBufferInfo")
    /\ UNCHANGED <<info, cmd, maps, pages, rsdp>>

InfoNext == InitCmdline \/ PrintInfo \/ InitPages \/ ReadRsdp \/ ReadFramebuffer

InfoInit ==
    /\ info_pc = "cmdline"
    /\ cmd = default_cmdline /\ maps = <<>> /\ pages = NoPages /\ rsdp = <<>> /\ fb = <<>>
================================================================================
