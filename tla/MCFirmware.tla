------------------------------ MODULE MCFirmware ------------------------------
(***************************************************************************)
(* What the kernel learns of the machine it starts on, side by side: the   *)
(* boot loader's information and the first free pages, the ACPI tables and *)
(* the AML in them up to a working power button, and the devices on the    *)
(* bus up to the disk that is mounted.  "part" names the one that moves.   *)
(***************************************************************************)
EXTENDS AmlPrograms, Acpi

CONSTANTS PAGE_4K, EXTENDED_OFFSET, KERNEL_END,
          BarWidth, Buses, Devs, Funcs, MaxDrives, Fat12Max, Fat16Max, DefaultIo

VARIABLES part,
          info, info_pc, cmd, maps, pages, rsdp, fb,
          machine, regs, io_space, probe_pc, at, config, channel, configs, ide_devices, root

infoVars == <<info, info_pc, cmd, maps, pages, rsdp, fb>>
probeVars == <<machine, regs, io_space, probe_pc, at, config, channel, configs, ide_devices, root>>
amlVars == <<code, program, parsed, tree>>
otherAcpiVars == <<firmware, boot_pc, tableVars, polls, slp_type_data, pmVars, eventVars>>
vars == <<part, program, parsed, tree, acpiVars, infoVars, probeVars>>

Info == INSTANCE BootSamples
Bus == INSTANCE DiskSamples

-----------------------------------------------------------------------------
(* Machines.                                                                  *)
S5 == SleepSeg(5)
Pkg(elements) == T("Package", <<Leaf("Byte", <<Len(elements)>>)>> \o elements)
SleepName(data) == T("NameObj", <<P(<<S5>>), data>>)
Zero == Leaf("ConstZero", <<>>)
One == Leaf("ConstOne", <<>>)
\* Declarations of \_S5_, and the types they declare; <<>> if none the kernel takes.
Declarations ==
    {<<SleepName(Pkg(<<B(5), B(2), Zero, Zero>>)), <<5, 2>>>>,
     <<T("NameObj", <<P(<<Root, S5>>), Pkg(<<One, Zero>>)>>), <<1, 0>>>>,
     <<T("Scope", <<P(<<Root>>), List(<<SleepName(Pkg(<<B(3), B(4)>>))>>)>>), <<3, 4>>>>,
     <<T("Scope", <<P(<<SBUS>>), List(<<T("NameObj", <<P(<<Root, S5>>), Pkg(<<B(6)>>)>>)>>)>>), <<6, 0>>>>,
     <<SleepName(Pkg(<<B(15), Leaf("ConstOnes", <<>>)>>)), <<7, 7>>>>,
     <<SleepName(Pkg(<<Leaf("WordConst", <<5, 0>>), B(5)>>)), <<>>>>,
     <<SleepName(Pkg(<<P(<<NAMA>>), B(5)>>)), <<>>>>,
     <<SleepName(B(5)), <<>>>>,
     <<T("Noop", <<>>), <<>>>>}
\* One that the kernel cannot evaluate yet.
Methods == {<<Method(<<S5>>, 0, 0, 0, <<>>), <<>>>>}

Madt == <<0, 0, 224, 254, 1, 0, 0, 0>>
LocalApic(id) == <<0, 8, id, id, 1, 0, 0, 0>>
OtherStruct == <<9, 3, 77>>
Table(sig, sum_ok, body) == [sig |-> sig, sum_ok |-> sum_ok, body |-> body]
MemoryOf(dsdt, ssdt, at_dsdt, sums) ==
    <<Table("RSDT", TRUE, <<2, 0, 3, 4, 6>>),
      Table("FACP", sums, <<at_dsdt>>),
      Table("APIC", TRUE, Madt \o LocalApic(0) \o OtherStruct \o LocalApic(1)),
      Table("SSDT", TRUE, CodeOf(<<ssdt>>)),
      Table("DSDT", TRUE, CodeOf(<<T("NameObj", <<P(<<NAMA>>), One>>), dsdt>>)),
      Table("OEM1", TRUE, <<>>)>>
Machine(mem, has_b, level, enabled, s5, sound) ==
    [loader_rsdp |-> <<1>>, bios_rsdps |-> <<>>, mem |-> mem, has_b |-> has_b, level |-> level,
     enabled |-> enabled, s5 |-> s5, sound |-> sound, events |-> 0]
Usual == CHOOSE d \in Declarations : d[2] = <<5, 2>>
Nothing == CHOOSE d \in Declarations : d[1].kind = "Noop"
UsualMemory == MemoryOf(Usual[1], Nothing[1], 5, TRUE)
Machines ==
    {[Machine(UsualMemory, has_b, level, enabled, <<5, 2>>, ~enabled) EXCEPT !.events = 3]
     : has_b, level, enabled \in BOOLEAN}
    \* the declarations, in the DSDT, in the SSDT and in both
    \union {Machine(MemoryOf(d[1], Nothing[1], 5, TRUE), TRUE, TRUE, FALSE, d[2], TRUE) : d \in Declarations}
    \union {Machine(MemoryOf(d[1], s[1], 5, TRUE), TRUE, TRUE, FALSE, IF s[2] = <<>> THEN d[2] ELSE s[2], TRUE)
            : d, s \in Declarations}
    \union {Machine(MemoryOf(d[1], Nothing[1], 0, TRUE), TRUE, TRUE, FALSE, <<>>, TRUE) : d \in Declarations}
    \union {Machine(MemoryOf(d[1], Nothing[1], 5, TRUE), TRUE, TRUE, FALSE, <<>>, FALSE) : d \in Methods}
    \union {Machine(MemoryOf(Usual[1], Nothing[1], 5, FALSE), TRUE, TRUE, FALSE, <<>>, FALSE)}
    \* the tables are found in the BIOS area
    \union {[Machine(UsualMemory, TRUE, TRUE, FALSE, <<5, 2>>, \E i \in DOMAIN f : f[i].sum = 0)
                EXCEPT !.loader_rsdp = <<>>, !.bios_rsdps = f]
            : f \in UNION {[1..n -> [sum : {0, 1}, rsdt : {1}]] : n \in 0..2}}

-----------------------------------------------------------------------------
FirmwareOff ==
    /\ firmware = [has_b |-> FALSE, enabled |-> FALSE] /\ boot_pc = "off" /\ entries = <<>> /\ tables = <<>>
    /\ polls = 0 /\ slp_type_data = <<>> /\ status = <<>> /\ enable = <<>> /\ control = <<>>
    /\ latched = FALSE /\ seen = {} /\ raised = 0 /\ CURRENT_CMD = "none" /\ served = {}
ProgramOff == program = <<>> /\ parsed = Pending /\ tree = NoTree
InfoOff == info = <<>> /\ info_pc = "off" /\ cmd = <<>> /\ maps = <<>> /\ pages = <<>> /\ rsdp = <<>> /\ fb = <<>>
BusOff ==
    /\ machine = <<>> /\ regs = <<>> /\ io_space = {} /\ probe_pc = "off" /\ at = <<>> /\ config = <<>>
    /\ channel = 0 /\ configs = <<>> /\ ide_devices = <<>> /\ root = <<>>

Init ==
    \/ part = "aml" /\ AmlInit /\ FirmwareOff /\ InfoOff /\ BusOff
    \/ part = "acpi" /\ firmware \in Machines /\ AcpiInit /\ ProgramOff /\ InfoOff /\ BusOff
    \/ part = "info" /\ Info!BootInit /\ code = <<>> /\ ProgramOff /\ FirmwareOff /\ BusOff
    \/ part = "bus" /\ Bus!DiskInit /\ code = <<>> /\ ProgramOff /\ FirmwareOff /\ InfoOff

\* The ACPI part parses the tables with the parser's own variable, code.
OthersOfAcpi == UNCHANGED <<part, program, parsed, tree, infoVars, probeVars>>
AmlStep == part = "aml" /\ AmlNext /\ UNCHANGED <<part, otherAcpiVars, infoVars, probeVars>>
AcpiStep == part = "acpi" /\ AcpiNext /\ OthersOfAcpi
InfoStep == part = "info" /\ Info!InfoNext /\ UNCHANGED <<part, amlVars, otherAcpiVars, probeVars>>
BusStep == part = "bus" /\ Bus!ProbeNext /\ UNCHANGED <<part, amlVars, otherAcpiVars, infoVars>>
Next == AmlStep \/ AcpiStep \/ InfoStep \/ BusStep

PowerStep == part = "acpi" /\ Power /\ OthersOfAcpi
ReadStep == part = "acpi" /\ HandlerReads /\ OthersOfAcpi
HandlerStep == part = "acpi" /\ acpi_handler /\ OthersOfAcpi
Spec == Init /\ [][Next]_vars /\ WF_vars(PowerStep) /\ WF_vars(ReadStep) /\ WF_vars(HandlerStep)
-----------------------------------------------------------------------------
\* The list of tables is what the RSDT names, and the APIC table's structures
\* have their own bytes only.
TablesAreRead ==
    boot_pc \in {"running", "asleep"} =>
        LET dsdt == IF firmware.mem[2].body = <<0>> THEN <<>> ELSE <<"DSDT">>
        IN  /\ [i \in DOMAIN tables |-> tables[i].sig] = <<"FACP", "APIC", "SSDT", "OEM1">> \o dsdt
            /\ tables[2].structs = <<[type |-> 0, bytes |-> Tail(Tail(LocalApic(0)))], [type |-> 9, bytes |-> <<77>>],
                                     [type |-> 0, bytes |-> Tail(Tail(LocalApic(1)))]>>

\* A shutdown puts the machine to sleep with the types that the firmware declares
\* for \_S5_, wherever in its AML, in each block of registers its own and the bit
\* that makes it sleep last (Acpi::sleep); nothing else sets that bit, and the
\* kernel panics only on firmware that is not sound, that never answers, or that
\* declares no such types.
SleepsAsDeclared ==
    part = "acpi" =>
        /\ TablesAreRead
        /\ boot_pc = "asleep" => control["a"] = [sci_en |-> TRUE, slp_typ |-> firmware.s5[1], slp_en |-> TRUE, other |-> "a"]
        /\ boot_pc = "asleep" /\ firmware.has_b =>
              control["b"] = [sci_en |-> FALSE, slp_typ |-> firmware.s5[2], slp_en |-> FALSE, other |-> "b"]
        /\ boot_pc \notin {"asleep"} => ~control["a"].slp_en
        /\ boot_pc = "panic" => ~firmware.sound \/ polls = MaxPolls \/ (CURRENT_CMD = "Shutdown" /\ firmware.s5 = <<>>)

\* Where the interrupt of the controller stays raised as long as an event is
\* there, acpi_handler gets to every event, however many come together, and a
\* press of the power button ends in a shutdown.
EventsAreServed ==
    /\ \A event \in Events \ {"TMR"} :
          (part = "acpi" /\ firmware.level /\ boot_pc = "running" /\ event \in status["a"])
              ~> (event \in served \/ boot_pc # "running")
    /\ (part = "acpi" /\ firmware.level /\ boot_pc = "running" /\ "PWRBTN" \in status["a"])
          ~> boot_pc \in {"asleep", "reset", "panic"}

\* Nothing the boot loader said is lost, whatever else it said and in whatever
\* order (MultiBootTagIter, MemoryMapIter, get_most_recent_rsdp), and a command
\* line has the meaning the book gives it (parse_cmdline).
InfoIsRight == part = "info" => Info!InfoIsRight

\* The first list of free pages has every page of available memory behind the
\* kernel and the loader's information, once, and none of theirs
\* (PhysicalPageAllocator::new); with a map in the usual form there is no panic.
FirstPagesAreRight == part = "info" => Info!PagesAreRight

\* Probing the bus leaves its registers as they were, finds every drive once and
\* mounts the first partition of the first disk (PciDeviceConfig::probe,
\* try_register_ide_device, get_ide_device, create_disk_mapping).
ProbeIsRight == part = "bus" => Bus!ProbeIsRight

\* The ports of the two channels where a controller is not in native mode.
LegacyPorts == 0 :> <<200, 204>> @@ 1 :> <<208, 212>>
===============================================================================
