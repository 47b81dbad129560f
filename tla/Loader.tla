-------------------------------- MODULE Loader --------------------------------
(***************************************************************************)
(* How a file becomes a process: Elf::load (kernel/src/executable/elf.rs), *)
(* load_elf_to_vm (executable/mod.rs), and allocate_process, prepare_stack *)
(* and write_process_meta (process/mod.rs), with the arguments sys_spawn   *)
(* takes from its caller.                                                  *)
(*                                                                         *)
(* A file is its size, its headers and its bytes; the byte at offset i has *)
(* the value i + 1, so that it can be told from the zeros of a new page.   *)
(* The new address space is seen by its user: the pages of the image and   *)
(* the bytes of the stack.  What its page tables look like is the concern  *)
(* of AddressSpaces.  Nobody else reaches it before the process is done, so *)
(* the only other actor is the disk, which can fail at any read.           *)
(***************************************************************************)
EXTENDS Integers, Sequences, SequencesExt, FiniteSetsExt

CONSTANTS Files,            \* executables and other files
          Argvs,            \* the argv arrays of callers: sequences of strings
          PAGE_4K, PAGE_2M, HEAP_OFFSET_FROM_ELF_END,
          StackSize         \* INITIAL_STACK_SIZE_PAGES, in bytes

LoaderAssumptions ==
    /\ PAGE_4K \in Nat \ {0} /\ PAGE_2M \in Nat \ {0} /\ HEAP_OFFSET_FROM_ELF_END \in Nat
    /\ StackSize \in Nat /\ StackSize % 16 = 0

VARIABLES elf,              \* the file
          given_argv,       \* what the caller passed
          pc,
          program_headers, sections,    \* read so far
          string_table,     \* bytes of it that were read, the rest is zero
          image,            \* mapped pages -> [writable, bytes]
          stack,            \* address -> value, once it is mapped
          context,          \* [rsp, rdi, rsi] of the new process
          loaded,           \* segments done
          phdr_address, process_meta, heap_start,
          cli,              \* push_cli of the loader
          failed            \* the disk failed

vars == <<elf, given_argv, pc, program_headers, sections, string_table, image, stack,
          context, loaded, phdr_address, process_meta, heap_start, cli, failed>>
--------------------------------------------------------------------------------
(* elf.rs: sizes of the packed structures and the checks.                       *)
ElfHeaderSize == 64
is_elf64(f) == f.base.bits = 2
ElfProgramSize(f) == IF is_elf64(f) THEN 56 ELSE 32
ElfSectionSize(f) == IF is_elf64(f) THEN 64 ELSE 40

is_valid_and_supported(base) ==
    /\ base.bits \in {1, 2} /\ base.endianness = 1 /\ base.version = 1
    /\ base.abi = 0 /\ base.abi_version = 0
    /\ base.elf_type \in {2, 3} /\ base.machine = 62 /\ base.elf_version = 1

\* How many bytes a read of n bytes at a position returns.
ReadCount(f, position, n) == Max({0, Min({n, f.size - position})})
IsRead(f, position, n) == ReadCount(f, position, n) = n

\* The name of a section in what was read of the string table: a name that was
\* not read to its end is cut, without a NUL before the table's end it is "none".
SectionName(f, read, name_index) ==
    IF name_index \notin DOMAIN f.names THEN "none"
    ELSE IF name_index + Len(f.names[name_index]) < read THEN f.names[name_index]
    ELSE IF read < f.sections[f.section_header_string_table_index + 1].size THEN "cut" ELSE "none"
--------------------------------------------------------------------------------
(* memory_layout.rs                                                             *)
align_down(a, alignment) == a - (a % alignment)
align_up(a, alignment) == align_down(a + alignment - 1, alignment)
PagesOf(address, size) ==
    align_down(address, PAGE_4K) \div PAGE_4K .. (align_up(address + size, PAGE_4K) \div PAGE_4K) - 1

\* map with no physical address: every page is new and zero, a page that was
\* mapped before is replaced.
map(pages, s) ==
    [p \in DOMAIN pages \union PagesOf(s.virtual_address, s.mem_size) |->
        IF p \in PagesOf(s.virtual_address, s.mem_size)
        THEN [writable |-> s.writable, bytes |-> [i \in 0..PAGE_4K - 1 |-> 0]]
        ELSE pages[p]]

\* The read of a segment into its memory.
read_segment(pages, s) ==
    [p \in DOMAIN pages |->
        [pages[p] EXCEPT !.bytes = [i \in 0..PAGE_4K - 1 |->
            LET at == p * PAGE_4K + i - s.virtual_address
            IN  IF at \in 0..s.file_size - 1 THEN s.offset + at + 1 ELSE @[i]]]]
--------------------------------------------------------------------------------
(* sys_arg_to_str_array: up to a null pointer, here the end, or an empty string. *)
sys_arg_to_str_array(array) ==
    LET empty == {i \in DOMAIN array : array[i] = <<>>}
    IN  IF empty = {} THEN array ELSE SubSeq(array, 1, Min(empty) - 1)
argv == sys_arg_to_str_array(given_argv)

(* prepare_stack, with addresses counted from the end of the stack's page below *)
(* it: the stack is 0..StackSize - 1.  A value is a byte, or a word of 8 bytes, *)
(* of which the first address holds the value.                                  *)
Byte(b) == <<"byte", b>>
Word(w) == <<"word", w>>
Rest == <<"rest", 0>>

\* A store outside the stack is a page fault, which is a panic.
Store(s, address, values) ==
    IF s.panic \/ address < 0 \/ address + Len(values) > StackSize
    THEN [s EXCEPT !.panic = TRUE]
    ELSE [s EXCEPT !.memory = [a \in DOMAIN @ |->
            IF a \in address..address + Len(values) - 1 THEN values[a - address + 1] ELSE @[a]]]
Words(ws) == [i \in 1..8 * Len(ws) |-> IF i % 8 = 1 THEN Word(ws[1 + (i \div 8)]) ELSE Rest]
Bytes(bs) == [i \in DOMAIN bs |-> Byte(bs[i])]

push_arg_NoNull(s, arg) ==
    LET arg_ptr == s.rsp - Len(arg)
        placed == [s EXCEPT !.rsp = align_down(arg_ptr, 8), !.argv_ptrs = Append(@, arg_ptr),
                            !.panic = @ \/ align_down(arg_ptr, 8) < 0]
    IN  Store(placed, arg_ptr, Bytes(arg))
push_arg(s, arg) ==
    LET arg_ptr == s.rsp - Len(arg) - 1
        placed == [s EXCEPT !.rsp = align_down(arg_ptr, 8), !.argv_ptrs = Append(@, arg_ptr),
                            !.panic = @ \/ align_down(arg_ptr, 8) < 0]
    IN  Store(placed, arg_ptr, Bytes(arg) \o <<Byte(0)>>)

prepare_stack(memory, rsp) ==
    LET args == FoldLeft(push_arg, [memory |-> memory, rsp |-> rsp, argv_ptrs |-> <<>>,
                                    panic |-> FALSE], argv)
        null_ptr == align_down(args.rsp, 8) - 1
        argv_ptrs == Append(args.argv_ptrs, null_ptr)
        argv_array_ptr == align_down(null_ptr, 8) - 8 * Len(argv_ptrs)
        arrayed == Store(Store(args, null_ptr, <<Byte(0)>>), argv_array_ptr, Words(argv_ptrs))
        written == Store(Store(arrayed, argv_array_ptr - 8, Words(<<argv_array_ptr>>)),
                         argv_array_ptr - 16, Words(<<Len(argv)>>))
    IN  [memory |-> written.memory, panic |-> written.panic,
         rsp |-> align_down(argv_array_ptr - 16, 16) - 8, argv_array_ptr |-> argv_array_ptr]
--------------------------------------------------------------------------------
NoMeta == [image_base |-> 0, image_size |-> 0, program_headers_offset |-> 0,
           eh_frame_address |-> 0, eh_frame_size |-> 0, text_address |-> 0, text_size |-> 0]

Init ==
    /\ elf \in Files /\ given_argv \in Argvs
    /\ pc = "header" /\ program_headers = <<>> /\ sections = <<>> /\ string_table = 0
    /\ image = <<>> /\ stack = <<>> /\ context = [rsp |-> 0, rdi |-> 0, rsi |-> 0]
    /\ loaded = 0 /\ phdr_address = 0 /\ process_meta = NoMeta /\ heap_start = 0
    /\ cli = 0 /\ failed = FALSE

built_vars == <<image, stack, context, loaded, phdr_address, process_meta, heap_start, cli>>

\* A step of Elf::load, which goes on, returns an error or panics.
LoadStep(at, ok, panics, next) ==
    /\ pc = at
    /\ pc' = IF panics THEN "panic" ELSE IF ok THEN next ELSE "error"
    /\ UNCHANGED <<elf, given_argv, built_vars, failed>>

load_header ==
    /\ LoadStep("header",
                IsRead(elf, 0, ElfHeaderSize) /\ elf.magic /\ is_valid_and_supported(elf.base),
                FALSE, "programs")
    /\ UNCHANGED <<program_headers, sections, string_table>>

load_program ==
    LET k == Len(program_headers)
        ok == /\ elf.program_header_entry_size = ElfProgramSize(elf)
              /\ IsRead(elf, elf.program_header_offset + k * ElfProgramSize(elf), ElfProgramSize(elf))
    IN  /\ k < Len(elf.program_headers)
        /\ LoadStep("programs", ok, FALSE, "programs")
        /\ program_headers' = IF ok THEN Append(program_headers, elf.program_headers[k + 1])
                              ELSE program_headers
        /\ UNCHANGED <<sections, string_table>>

load_string_table ==
    LET index == elf.section_header_string_table_index
        position == elf.section_header_offset + elf.section_header_entry_size * index
        ok == /\ elf.section_header_entry_size = ElfSectionSize(elf)
              /\ IsRead(elf, position, ElfSectionSize(elf))
    IN  /\ Len(program_headers) = Len(elf.program_headers)
        /\ LoadStep("programs", ok, index >= Len(elf.sections), "sections")
        /\ string_table' = IF ok /\ index < Len(elf.sections)
                           THEN ReadCount(elf, elf.sections[index + 1].offset, elf.sections[index + 1].size)
                           ELSE string_table
        /\ UNCHANGED <<program_headers, sections>>

load_section ==
    LET k == Len(sections)
        s == elf.sections[k + 1]
        ok == IsRead(elf, elf.section_header_offset + k * ElfSectionSize(elf), ElfSectionSize(elf))
        name == SectionName(elf, string_table, s.name_index)
    IN  /\ k < Len(elf.sections)
        /\ LoadStep("sections", ok, ok /\ name = "none", "sections")
        /\ sections' = IF ok /\ name # "none" THEN Append(sections, s @@ [name |-> name]) ELSE sections
        /\ UNCHANGED <<program_headers, string_table>>
--------------------------------------------------------------------------------
(* allocate_process                                                             *)
file_vars == <<elf, given_argv, program_headers, sections, string_table>>

\* The metadata page and the stack are mapped and the arguments stored.
prepare ==
    LET s == prepare_stack([a \in 0..StackSize - 1 |-> Byte(0)], StackSize - 8)
    IN  /\ pc = "sections" /\ Len(sections) = Len(elf.sections)
        /\ pc' = IF s.panic THEN "panic" ELSE "segments"
        /\ stack' = s.memory
        /\ context' = [rsp |-> s.rsp, rdi |-> Len(argv), rsi |-> s.argv_array_ptr]
        /\ cli' = IF s.panic THEN 1 ELSE 0
        /\ UNCHANGED <<file_vars, image, loaded, phdr_address, process_meta, heap_start, failed>>

\* load_elf_to_vm: interrupts go off and the new page map is loaded, ...
begin_load ==
    /\ pc = "segments" /\ cli = 0
    /\ cli' = 1
    /\ UNCHANGED <<file_vars, pc, image, stack, context, loaded, phdr_address, process_meta,
                   heap_start, failed>>

\* ... the program headers are gone through, ...
load_segment ==
    LET s == program_headers[loaded + 1]
        panics == s.type = "Load" /\ ~(/\ s.virtual_address = s.physical_address
                                       /\ PagesOf(s.virtual_address, s.mem_size) # {}
                                       /\ IsRead(elf, s.offset, s.file_size))
    IN  /\ pc = "segments" /\ cli = 1 /\ loaded < Len(program_headers)
        /\ pc' = IF panics THEN "panic" ELSE pc
        /\ image' = IF s.type = "Load" /\ ~panics THEN read_segment(map(image, s), s) ELSE image
        /\ phdr_address' = IF s.type = "ProgramHeader" THEN s.virtual_address ELSE phdr_address
        /\ loaded' = loaded + 1
        /\ UNCHANGED <<file_vars, stack, context, process_meta, heap_start, cli, failed>>

LoadSegments == {i \in DOMAIN program_headers : program_headers[i].type = "Load"}
min_address == Min({program_headers[i].virtual_address : i \in LoadSegments})
max_address == Max({program_headers[i].virtual_address + program_headers[i].mem_size :
                        i \in LoadSegments})

\* The last section of a name counts.
SectionOf(name) ==
    LET named == {i \in DOMAIN sections : sections[i].name = name}
    IN  IF named = {} THEN [address |-> 0, size |-> 0] ELSE sections[Max(named)]

\* ... the metadata is put together, and the old page map and interrupts return.
\* Without a segment the bounds are not in order, which the assertion finds.
end_load ==
    LET eh_frame == SectionOf(".eh_frame")
        in_image == eh_frame.address >= min_address /\ eh_frame.address < max_address
    IN  /\ pc = "segments" /\ cli = 1 /\ loaded = Len(program_headers)
        /\ IF LoadSegments # {} /\ phdr_address >= min_address /\ phdr_address < max_address
           THEN /\ pc' = "loaded" /\ cli' = 0
                /\ process_meta' =
                    [image_base |-> min_address, image_size |-> max_address - min_address,
                     program_headers_offset |-> phdr_address - min_address,
                     eh_frame_address |-> IF in_image THEN eh_frame.address ELSE 0,
                     eh_frame_size |-> IF in_image THEN eh_frame.size ELSE 0,
                     text_address |-> SectionOf(".text").address,
                     text_size |-> SectionOf(".text").size]
           ELSE pc' = "panic" /\ UNCHANGED <<cli, process_meta>>
        /\ UNCHANGED <<file_vars, image, stack, context, loaded, phdr_address, heap_start, failed>>

\* write_process_meta, the start of the heap, and the entry point.
finish ==
    /\ pc = "loaded"
    /\ pc' = IF elf.entry \div PAGE_4K \in DOMAIN image THEN "done" ELSE "panic"
    /\ heap_start' = align_up(max_address + HEAP_OFFSET_FROM_ELF_END, PAGE_2M)
    /\ UNCHANGED <<file_vars, image, stack, context, loaded, phdr_address, process_meta, cli, failed>>

\* A read that fails returns from where it is; load_elf_to_vm does not switch
\* back and does not turn interrupts on again.
disk_fails ==
    /\ \/ pc \in {"header", "programs"}
       \/ pc = "sections" /\ Len(sections) < Len(elf.sections)
       \/ /\ pc = "segments" /\ cli = 1 /\ loaded < Len(program_headers)
          /\ program_headers[loaded + 1].type = "Load"
    /\ pc' = "error" /\ failed' = TRUE
    /\ UNCHANGED <<file_vars, built_vars>>

Next ==
    \/ load_header \/ load_program \/ load_string_table \/ load_section
    \/ prepare \/ begin_load \/ load_segment \/ end_load \/ finish
    \/ disk_fails
--------------------------------------------------------------------------------
(* What a linker promises of an executable, and what this loader asks beyond.   *)
(* Names that are cut at the end of the file are no reason not to start.        *)
Table(offset, n, size) == offset + n * size <= elf.size
IsWhole ==
    LET f == elf
    IN  /\ f.magic /\ is_valid_and_supported(f.base) /\ f.size >= ElfHeaderSize
        /\ f.program_header_entry_size = ElfProgramSize(f)
        /\ f.section_header_entry_size = ElfSectionSize(f)
        /\ Table(f.program_header_offset, Len(f.program_headers), ElfProgramSize(f))
        /\ Table(f.section_header_offset, Len(f.sections), ElfSectionSize(f))
        /\ \A i \in DOMAIN f.sections :
            /\ f.sections[i].name_index \in DOMAIN f.names
            /\ i = f.section_header_string_table_index + 1 =>
                \A n \in DOMAIN f.names : n + Len(f.names[n]) < f.sections[i].size
        /\ \A i \in DOMAIN f.program_headers : f.program_headers[i].type = "Load" =>
            Table(f.program_headers[i].offset, 1, f.program_headers[i].file_size)
Loads == {elf.program_headers[i] : i \in {j \in DOMAIN elf.program_headers :
                                            elf.program_headers[j].type = "Load"}}
Covers(s, address) == address \in s.virtual_address..s.virtual_address + s.mem_size - 1
IsLoadable ==
    /\ IsWhole
    /\ elf.section_header_string_table_index < Len(elf.sections)
    /\ \A s \in Loads : s.virtual_address = s.physical_address /\ s.mem_size > 0
    /\ \E i \in DOMAIN elf.program_headers :
        /\ elf.program_headers[i].type = "ProgramHeader"
        /\ \E s \in Loads : Covers(s, elf.program_headers[i].virtual_address)
    /\ \E s \in Loads : Covers(s, elf.entry)
PagesAreApart ==
    \A s, r \in Loads : s # r =>
        PagesOf(s.virtual_address, s.mem_size) \intersect PagesOf(r.virtual_address, r.mem_size) = {}

\* All strings with their NUL and padding, the array with its end, its address
\* and the count.
ArgsFit ==
    FoldLeft(LAMBDA n, a : n + align_up(Len(a) + 1, 8), 0, argv)
        + 8 + 8 + 8 * (Len(argv) + 1) + 16 <= StackSize

StringAt(a) ==
    LET n == CHOOSE n \in 0..StackSize : /\ stack[a + n] = Byte(0)
                                         /\ \A i \in 0..n - 1 : stack[a + i] # Byte(0)
    IN  [i \in 1..n |-> stack[a + i - 1][2]]
ByteAt(a) == image[a \div PAGE_4K].bytes[a % PAGE_4K]

\* A process starts with what its file and its caller said.  Every byte of a
\* segment is the file's, or zero behind what the file has; pages are writable
\* as asked, no page is mapped beside them; the arguments are found where argc
\* and argv point, behind a stack pointer aligned as after a call that leaves
\* them intact; the metadata is right, and the heap starts behind the image.  A
\* loadable file never fails while the disk works and the arguments fit, any
\* other never starts, and interrupts are on again but for a read that fails.
ProcessStartsRight ==
    /\ pc = "done" =>
        /\ IsLoadable /\ ArgsFit /\ ~failed
        /\ DOMAIN image = UNION {PagesOf(s.virtual_address, s.mem_size) : s \in Loads}
        /\ PagesAreApart => \A s \in Loads : \A i \in 0..s.mem_size - 1 :
            /\ ByteAt(s.virtual_address + i) = IF i < s.file_size THEN s.offset + i + 1 ELSE 0
            /\ image[(s.virtual_address + i) \div PAGE_4K].writable = s.writable
        /\ context.rdi = Len(argv)
        /\ \A i \in DOMAIN argv : StringAt(stack[context.rsi + 8 * (i - 1)][2]) = argv[i]
        /\ StringAt(stack[context.rsi + 8 * Len(argv)][2]) = <<>>
        /\ context.rsp % 16 = 8 /\ context.rsp + 8 <= context.rsi - 16
        /\ process_meta.image_base \div PAGE_4K \in DOMAIN image
        /\ \A s \in Loads : /\ s.virtual_address >= process_meta.image_base
                            /\ s.virtual_address + s.mem_size <=
                                process_meta.image_base + process_meta.image_size
        /\ process_meta.eh_frame_size > 0 =>
            process_meta.eh_frame_address \div PAGE_4K \in DOMAIN image
        /\ heap_start % PAGE_2M = 0
        /\ \A p \in DOMAIN image : heap_start >= (p + 1) * PAGE_4K
    /\ pc \in {"error", "panic"} => failed \/ ~IsLoadable \/ ~ArgsFit
    /\ pc \in {"done", "error"} => cli = 0 \/ failed
===============================================================================
