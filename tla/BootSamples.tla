------------------------------ MODULE BootSamples ------------------------------
(***************************************************************************)
(* Information a boot loader hands over, and what the kernel must make of  *)
(* it: a second reading of each, from the list the loader wrote.           *)
(***************************************************************************)
EXTENDS BootInfo, FiniteSets

\* The loader puts the tags one behind the other, each at a multiple of 8.
Given(ty, size, data) == [ty |-> ty, size |-> size, data |-> data]
NoData == [text |-> <<>>, entry_size |-> 0, list |-> <<>>, mem |-> <<>>, revision |-> 0, ptr |-> "none",
           addr |-> 0, type |-> 0, color |-> <<>>]
EndTag == Given(0, HeaderSize, NoData)
TagOffset(list, n) == FoldLeft(LAMBDA at, t : at + align_up(t.size, 8), HeaderSize, SubSeq(list, 1, n - 1))
LoaderInfo(given, kernel_elf_end, end_address) ==
    LET list == Append(given, EndTag)
        at == {TagOffset(list, n) : n \in DOMAIN list}
    IN  [total_size |-> TagOffset(list, Len(list) + 1),
         mem |-> [o \in at |-> list[CHOOSE n \in DOMAIN list : TagOffset(list, n) = o]],
         given |-> given, properties |-> <<>>, kernel_elf_end |-> kernel_elf_end, end_address |-> end_address]

Entry(base, length, type) == [base |-> base, length |-> length, type |-> type]
MapTag(ty, entry_size, list) ==
    Given(ty, MapHeaderSize + Len(list) * entry_size,
          [NoData EXCEPT !.entry_size = entry_size, !.list = list,
                         !.mem = [o \in {(i - 1) * entry_size : i \in DOMAIN list} |-> list[(o \div entry_size) + 1]]])
Rsdp(revision, ptr) == [NoData EXCEPT !.revision = revision, !.ptr = ptr]
RsdpTag(ty, revision, ptr) == Given(ty, HeaderSize + RsdpSize[ty], Rsdp(revision, ptr))
LineTag(line) == Given(1, HeaderSize + Len(line), [NoData EXCEPT !.text = line])
FramebufferTag(type, color) ==
    Given(8, FramebufferSize + Len(color), [NoData EXCEPT !.addr = 7, !.type = type, !.color = color])

\* A machine with all its memory in one range
UsualMap == MapTag(6, 24, <<Entry(0, 7, 1), Entry(7, 1, 2), Entry(8, 32, 1)>>)
UsualEnd == 11
-----------------------------------------------------------------------------
(* Tags *)
Bytes(n) == [i \in 1..n |-> i]
SomeTags ==
    {LineTag(<<"uart", "=", "false">>), Given(2, 13, [NoData EXCEPT !.text = <<"name">>]), RsdpTag(14, 0, "v1"), RsdpTag(15, 2, "v2"), RsdpTag(15, 2, "w2"),
     RsdpTag(15, 3, "v3"), Given(14, 29, Rsdp(0, "v1")), MapTag(17, 48, <<Entry(0, 8, 7), Entry(8, 1, 15)>>),
     FramebufferTag(0, Bytes(5)), FramebufferTag(1, Bytes(6)), FramebufferTag(2, <<>>), FramebufferTag(3, <<>>),
     Given(9, 20, NoData), Given(21, 12, NoData), Given(3, 16, NoData)}
TagInfos == {LoaderInfo(list, UsualEnd, UsualEnd)
             : list \in {<<UsualMap>>, <<>>} \union {<<a, UsualMap, b>> : a, b \in SomeTags}
                        \union {<<UsualMap, RsdpTag(14, 0, "v1"), a, b>> : a, b \in SomeTags}}

\* Tags the kernel has no code for, or whose size it refuses
Refused(t) ==
    \/ t.ty = 3
    \/ t.ty = 14 /\ t.size # 28
    \/ t.ty = 8 /\ t.data.type = 3
OfType(types) == SelectSeq(info.given, LAMBDA t : t.ty \in types)
MapsOf(types) == [i \in DOMAIN OfType(types) |->
                    [j \in DOMAIN OfType(types)[i].data.list |->
                        LET e == OfType(types)[i].data.list[j]
                        IN  [base |-> e.base, length |-> e.length, mem_type |-> e.type]]]
MapsRead == [i \in DOMAIN maps |-> [j \in DOMAIN maps[i].data |->
                [base |-> maps[i].data[j].base, length |-> maps[i].data[j].length, mem_type |-> maps[i].data[j].mem_type]]]

\* Nothing the loader said is lost, whatever else it said and in whatever order.
TagsAreRead ==
    /\ info_pc \notin {"cmdline", "print", "panic"} => MapsRead = MapsOf({6, 17})
    /\ info_pc = "done" =>
          /\ \A i \in DOMAIN info.given : ~Refused(info.given[i])
          /\ IF OfType({14, 15}) = <<>> THEN rsdp = <<>>
             ELSE \E i \in DOMAIN OfType({14, 15}) :
                    /\ rsdp = <<OfType({14, 15})[i].data>>
                    /\ \A j \in DOMAIN OfType({14, 15}) :
                         /\ OfType({14, 15})[j].data.revision <= rsdp[1].revision
                         /\ j < i => OfType({14, 15})[j].data.revision < rsdp[1].revision
          /\ IF OfType({8}) = <<>> THEN fb = <<>>
             ELSE LET given == OfType({8})[1].data
                  IN  /\ fb[1].data.addr = given.addr
                      /\ IsPrefix(fb[1].data.color.data, given.color)
                      /\ fb[1].data.color.kind = <<"Indexed", "Rgb", "EgaText">>[given.type + 1]
-----------------------------------------------------------------------------
(* Memory maps *)
Cuts == {0, 7, 8, 12, 13, 16, 22, 32, 36}
RangesOf(cuts) == {<<a, b>> \in cuts \X cuts : a < b /\ \A c \in cuts : ~(a < c /\ c < b)}
InOrder(s) == \A i, j \in DOMAIN s : i < j => s[i].base < s[j].base
MapsOfMachine ==
    LET cut_sets == {c \in SUBSET Cuts : Cardinality(c) \in 2..4}
        typed(c) == {{Entry(r[1], r[2] - r[1], type[r]) : r \in RangesOf(c)} : type \in [RangesOf(c) -> {1, 2}]}
        order(entries) == CHOOSE s \in [1..Cardinality(entries) -> entries] : InOrder(s)
    IN  {order(e) : e \in UNION {typed(c) : c \in cut_sets}}
PageInfos ==
    {LoaderInfo(<<MapTag(6, 24, m)>>, kernel, end) : m \in MapsOfMachine, kernel \in {9, 12}, end \in {6, 14, 33}}
    \* not in the order of addresses
    \union {LoaderInfo(<<MapTag(6, 32, Reverse(m))>>, 9, 6) : m \in {n \in MapsOfMachine : Len(n) = 2}}

\* The pages the kernel may use: whole, in available memory, behind the kernel and
\* the information, and mapped.
Usable(list) ==
    {p \in {k * PAGE_4K : k \in 0 .. KERNEL_END \div PAGE_4K} :
        /\ p >= kernel_end /\ p >= multiboot_end /\ p + PAGE_4K <= KERNEL_END
        /\ \E i \in DOMAIN list : list[i].type = 1 /\ list[i].base <= p /\ p + PAGE_4K <= list[i].base + list[i].length}
\* The kernel has its own range, available memory begins where the kernel is or
\* behind it (or ends below it), and what is behind the mapped memory is reached
\* by a range that begins below.
MapIsPlain(list) ==
    /\ InOrder(list)
    /\ \E i \in DOMAIN list : list[i].type = 1 /\ list[i].base <= EXTENDED_OFFSET
                              /\ list[i].base + list[i].length >= physical_kernel_end
    /\ \A i \in DOMAIN list : list[i].type = 1 =>
          \/ list[i].base + list[i].length < EXTENDED_OFFSET
          \/ list[i].base <= EXTENDED_OFFSET /\ list[i].base + list[i].length >= physical_kernel_end
          \/ list[i].base \in physical_kernel_end .. KERNEL_END - PAGE_4K
    /\ multiboot_end < kernel_end + 5 * PAGE_4K
MemoryList == IF OfType({6}) = <<>> THEN <<>> ELSE OfType({6})[1].data.list
FreeListIsRight ==
    info_pc \in {"rsdp", "framebuffer", "done"} =>
        LET list == MemoryList
        IN  /\ \A i, j \in DOMAIN pages.free : i # j => pages.free[i] # pages.free[j]
            /\ Range(pages.free) \subseteq Usable(list)
            /\ InOrder(list) => Range(pages.free) = Usable(list)
            /\ InOrder(list) => \A i \in DOMAIN pages.free : free([pages EXCEPT !.free = <<>>], pages.free[i]).ok
PlainMapBoots ==
    info_pc = "panic" /\ pages # NoPages => ~MapIsPlain(MemoryList)
-----------------------------------------------------------------------------
(* Command lines *)
Properties == {<<"uart", "false">>, <<"uart_baud", "9600">>, <<"uart_baud", "115200">>, <<"max_log_level", "warn">>,
               <<"log_file", Path>>, <<"log_aml", "normal">>, <<"uart", "9600">>, <<"baud", "9600">>}
Gaps == {<<Blank>>, <<",">>, <<",", Blank>>, <<Blank, Blank>>}
Property(p) == <<p[1], "=", p[2]>>
Line(list, gap, end) == FlattenSeq([i \in DOMAIN list |-> IF i = 1 THEN Property(list[1]) ELSE gap \o Property(list[i])]) \o end
PropertyLists == UNION {[1..n -> Properties] : n \in 1..3}
OddUnits == {"uart", "false", "log_file", "=", Blank, ","}
LineInfo(line, list) == [LoaderInfo(<<LineTag(line), UsualMap>>, UsualEnd, UsualEnd) EXCEPT !.properties = list]
LineInfos ==
    {LineInfo(Line(list, gap, end), list) : list \in PropertyLists, gap \in Gaps, end \in {<<>>, <<Blank>>}}
    \union {LineInfo(line, <<>>) : line \in UNION {[1..n -> OddUnits] : n \in 1..4}}

\* A well-formed line has the meaning the book gives it: the last value of each
\* property, or the defaults when something in it is wrong.
Meaning(list) ==
    IF \E i \in DOMAIN list : list[i][1] \notin Fields \/ ~Parses(list[i][1], <<list[i][2]>>) THEN default_cmdline
    ELSE [f \in Fields |->
            LET of_f == {i \in DOMAIN list : list[i][1] = f}
            IN  IF of_f = {} THEN default_cmdline[f] ELSE <<list[CHOOSE i \in of_f : \A j \in of_f : j <= i][2]>>]
\* Whatever the line, a property that is not at its default was set by the line.
WasSet(line, f) == \E i \in 1 .. Len(line) - 1 : line[i] = f /\ line[i + 1] = "="
LineIsRead ==
    info_pc # "cmdline" /\ OfType({1}) # <<>> =>
        LET line == OfType({1})[1].data.text
        IN  /\ info.properties # <<>> => cmd = Meaning(info.properties)
            /\ \A f \in Fields : cmd[f] # default_cmdline[f] => WasSet(line, f)

BootInit == InfoInit /\ info \in TagInfos \union PageInfos \union LineInfos
InfoIsRight == TagsAreRead /\ LineIsRead
PagesAreRight == FreeListIsRight /\ PlainMapBoots
================================================================================
