------------------------------- MODULE DiskProbe -------------------------------
(***************************************************************************)
(* From the PCI bus to the root file system: devices::probe_pci_devices    *)
(* with PciDeviceConfig::probe (kernel/src/devices/pci.rs), the search for *)
(* drives of an IDE controller (kernel/src/devices/ide.rs) and             *)
(* create_disk_mapping (kernel/src/fs/mod.rs, mbr.rs, fat.rs).             *)
(* Configuration registers are numbers of BarWidth bits; a drive answers   *)
(* on the ports its controller decodes.                                    *)
(***************************************************************************)
EXTENDS Integers, Sequences, SequencesExt

CONSTANTS BarWidth,             \* 32
          Buses, Devs, Funcs,   \* 256, 32, 8
          MaxDrives,            \* 4: IDE_DEVICES
          Fat12Max, Fat16Max,   \* 4084, 65524
          DefaultIo             \* [0..1 -> command and control block]: the legacy ports

VARIABLES machine,      \* [bus, dev, func -> device]; absent ones are not in the domain
          regs,         \* [DOMAIN machine -> [0..5 -> BAR]]
          io_space,     \* functions with CMD_IO_SPACE set
          probe_pc,     \* "pci", "ide", "mount", "mounted", "failed" or "panic"
          at,           \* PciDeviceProbeIterator: bus, dev, func
          config,       \* the PciDeviceConfig that is given to the driver
          channel,      \* arguments of probe_init: channel and drive, as a number of 0..3
          configs,      \* history: all that was found
          ide_devices,  \* IDE_DEVICES
          root          \* what is mounted at "/"

probeVars == <<machine, regs, io_space, probe_pc, at, config, channel, configs, ide_devices, root>>

Word == 2 ^ BarWidth
Masked(v, n) == v - (v % n)        \* v with the lowest bits cleared, n a power of two

\* What a BAR holds after v is written to it (external).
Stored(bar, v) == IF bar.kind = "none" THEN 0 ELSE (Masked(v, bar.size) % Word) + bar.bits

NoBar == [kind |-> "none"]
\* !(bar & mask) + 1
SizeOf(bar, low) == Word - Masked(bar, low)

\* The loop over the BARs.  r.i is the next one; the registers are written and
\* written back.
RECURSIVE ProbeBars(_, _)
ProbeBars(dev, r) ==
    LET bar_v == r.regs[r.i]
        io == bar_v % 2 = 1
        low == IF io THEN 4 ELSE 16
        old_bar == Masked(bar_v, low)
        all_ones == Stored(dev.bars[r.i], Word - low)
        size == SizeOf(all_ones, low)
        ty == (bar_v \div 2) % 4
        whole == r.regs[r.i + 1] * Word + old_bar
        next == [r EXCEPT !.regs[r.i] = Stored(dev.bars[r.i], old_bar)]
        memory(addr) == [kind |-> "Memory", addr |-> addr, size |-> size, prefetchable |-> (bar_v \div 8) % 2 = 1]
    IN  CASE r.i = 6 \/ ~r.ok -> r
          [] OTHER ->
             IF bar_v = 0 THEN ProbeBars(dev, [r EXCEPT !.i = @ + 1])
             ELSE IF size = Word THEN [next EXCEPT !.ok = FALSE]
             ELSE IF io
             THEN ProbeBars(dev, [next EXCEPT !.i = @ + 1, !.base[r.i] = [kind |-> "Io", addr |-> old_bar, size |-> size]])
             ELSE IF ty = 0
             THEN ProbeBars(dev, [next EXCEPT !.i = @ + 1, !.base[r.i] = memory(old_bar)])
             ELSE IF ty = 2 /\ r.i < 5
             THEN ProbeBars(dev, [next EXCEPT !.i = @ + 2, !.base[r.i] = memory(whole), !.base[r.i + 1] = memory(whole)])
             ELSE [next EXCEPT !.ok = FALSE]

\* Mutant: the bus moves on while its first device is probed.
Advance_SkipsDevice ==
    LET func == (at[3] + 1) % Funcs
        dev == IF func = 0 THEN (at[2] + 1) % Devs ELSE at[2]
    IN  <<IF dev = 0 THEN at[1] + 1 ELSE at[1], dev, func>>

\* PciDeviceProbeIterator::next: the place after this one.
Advance ==
    LET func == (at[3] + 1) % Funcs
        dev == IF func = 0 THEN (at[2] + 1) % Devs ELSE at[2]
    IN  <<IF func = 0 /\ dev = 0 THEN at[1] + 1 ELSE at[1], dev, func>>

\* PciDeviceConfig::probe; a mass storage controller goes on to the IDE driver.
Probe ==
    /\ probe_pc = "pci" /\ at[1] < Buses
    /\ at' = Advance
    /\ IF at \notin DOMAIN machine \/ machine[at].header # 0
       THEN UNCHANGED <<regs, probe_pc, config, channel, configs>>
       ELSE LET r == ProbeBars(machine[at], [i |-> 0, regs |-> regs[at], base |-> [i \in 0..5 |-> NoBar], ok |-> TRUE])
                c == [loc |-> at, base_address |-> r.base, class |-> machine[at].class, prog_if |-> machine[at].prog_if]
            IN  /\ regs' = [regs EXCEPT ![at] = r.regs]
                /\ config' = c /\ configs' = Append(configs, c)
                /\ channel' = 0
                /\ probe_pc' = IF ~r.ok THEN "panic" ELSE IF c.class[1] = 1 THEN "ide" ELSE "pci"
    /\ UNCHANGED <<machine, io_space, ide_devices, root>>

ProbeEnds ==
    /\ probe_pc = "pci" /\ at[1] = Buses
    /\ probe_pc' = "mount"
    /\ UNCHANGED <<machine, regs, io_space, at, config, channel, configs, ide_devices, root>>
--------------------------------------------------------------------------------
(* IdeDevice::probe_init *)
Native == <<"primary", "secondary">>
Programmable == <<"primary_prog", "secondary_prog">>

\* The ports of channel i, and whether BARs 2i and 2i + 1 are programmed to them.
Ports(c, i) ==
    LET command == c.base_address[2 * i]
        control == c.base_address[2 * i + 1]
    IN  IF Native[i + 1] \notin c.prog_if THEN [io |-> DefaultIo[i], program |-> FALSE, ok |-> TRUE]
        ELSE IF command.kind # "Io"
        THEN [io |-> DefaultIo[i], program |-> Programmable[i + 1] \in c.prog_if, ok |-> TRUE]
        ELSE IF control.kind # "Io" THEN [io |-> DefaultIo[i], program |-> FALSE, ok |-> FALSE]
        ELSE [io |-> <<command.addr, control.addr>>, program |-> FALSE, ok |-> TRUE]

Programmed(i, io) ==
    [regs EXCEPT ![config.loc] = [n \in 0..5 |->
        IF n = 2 * i THEN Stored(machine[config.loc].bars[n], io[1] + 1)
        ELSE IF n = 2 * i + 1 THEN Stored(machine[config.loc].bars[n], io[2] + 1) ELSE @[n]]]

\* The drive that answers on these ports (external): the controllers are looked at
\* in the order of their places.
Decoded(m, r, loc, i) ==
    IF Native[i + 1] \in m[loc].prog_if THEN <<Masked(r[loc][2 * i], 4), Masked(r[loc][2 * i + 1], 4)>> ELSE DefaultIo[i]
NoDrive == [kind |-> "none"]
Answer(r, io, j) ==
    LET on == {d \in (DOMAIN machine) \X (0..1) :
                 machine[d[1]].class = <<1, 1>> /\ d[1] \in io_space' /\ Decoded(machine, r, d[1], d[2]) = io}
    IN  IF on = {} THEN NoDrive ELSE LET d == CHOOSE d \in on : TRUE IN machine[d[1]].drives[2 * d[2] + j]

\* CommandIdentifyDataRaw
user_addressable_sectors(d) ==
    IF ~d.lba48 THEN d.sectors28 ELSE IF d.extended THEN d.sectors_ext ELSE d.sectors48
sector_size(d) == IF d.large /\ d.sector_words # 0 THEN d.sector_words * 2 ELSE 512

\* IdeDeviceImpl::init_new: "no" is None, "panic" an assertion or an unwrap.
Identify(d) ==
    CASE d.kind \in {"none", "aborted"} -> "no"
      [] d.kind = "atapi" /\ ~d.ready -> "no"
      [] d.kind = "error" -> "panic"
      [] ~d.lba -> "panic"
      [] d.kind = "ata" /\ d.large /\ d.sector_words # 0 /\ d.sector_words < 256 -> "panic"
      [] OTHER -> "yes"
DeviceOf(d, io, master_io, second) ==
    [type |-> d.kind, io |-> io, master_io |-> IF d.dma THEN master_io ELSE <<>>, second |-> second, disk |-> d.disk,
     sectors |-> IF d.kind = "ata" THEN user_addressable_sectors(d) ELSE d.last_sector + 1,
     sector_size |-> IF d.kind = "ata" THEN sector_size(d) ELSE d.block_size]

NextDrive == IF channel = 3 THEN probe_pc' = "pci" /\ UNCHANGED channel
             ELSE channel' = channel + 1 /\ UNCHANGED probe_pc
IdePanics == probe_pc' = "panic" /\ UNCHANGED <<channel, ide_devices>>

ProbeDrive ==
    LET i == channel \div 2
        ports == Ports(config, i)
        dma == "master" \in config.prog_if
        master == config.base_address[4]
        r == IF ports.program THEN Programmed(i, ports.io) ELSE regs
    IN  /\ probe_pc = "ide"
        \* the bit for I/O space may not stay set
        /\ IF config.class # <<1, 1>> \/ ~machine[config.loc].has_io
           THEN NextDrive /\ UNCHANGED <<regs, io_space, ide_devices>>
           ELSE /\ io_space' = io_space \union {config.loc}
                /\ regs' = r
                /\ LET d == Answer(r, ports.io, channel % 2)
                   IN  IF ~ports.ok \/ (dma /\ master.kind # "Io") \/ Identify(d) = "panic" THEN IdePanics
                       ELSE IF Identify(d) = "no" THEN NextDrive /\ UNCHANGED ide_devices
                       ELSE IF Len(ide_devices) = MaxDrives THEN IdePanics
                       ELSE /\ ide_devices' = Append(ide_devices,
                                   DeviceOf(d, ports.io, IF dma THEN <<master.addr>> ELSE <<>>, channel % 2 = 1))
                            /\ NextDrive
        /\ UNCHANGED <<machine, at, config, configs, root>>
--------------------------------------------------------------------------------
\* Mutant: drives of all types are counted.
get_ide_device_AnyType(type, index) ==
    IF index < MaxDrives /\ index < Len(ide_devices) THEN <<ide_devices[index + 1]>> ELSE <<>>

\* get_ide_device: the index-th of its type, from 0.
get_ide_device(type, index) ==
    LET of_type == SelectSeq(ide_devices, LAMBDA d : d.type = type)
    IN  IF index < MaxDrives /\ index < Len(of_type) THEN <<of_type[index + 1]>> ELSE <<>>

\* IdeDevice::read_sync refuses a request that reaches the last sector.
CanRead(d, start, n) == start + n < d.sectors

\* FatBootSector::new
FatTypeOf(boot, size_in_sectors) ==
    LET count_of_clusters == size_in_sectors \div boot.sectors_per_cluster
    IN  IF boot.fat_size_16 = 0 THEN "Fat32" ELSE IF count_of_clusters <= Fat12Max THEN "Fat12"
        ELSE IF count_of_clusters <= Fat16Max THEN "Fat16" ELSE "Fat32"
fat_size_in_sectors(boot, ty) == IF ty = "Fat32" THEN boot.fat_size_32 ELSE boot.fat_size_16

\* create_disk_mapping(0), Mbr::try_create_from_disk, load_fat_filesystem,
\* FatFilesystem::new and Fat::load.
create_disk_mapping ==
    LET found == get_ide_device("ata", 0)
        disk == found[1].disk
        part == disk.partitions[1]
        boot == disk.boot[part.start_lba]
        ty == FatTypeOf(boot, part.size)
        fats == fat_size_in_sectors(boot, ty) * boot.number_of_fats
        ok == /\ found # <<>>
              /\ CanRead(found[1], 0, 1) /\ disk.mbr_signature
              /\ CanRead(found[1], part.start_lba, 1)
              /\ boot.signature
              /\ fats = 0 \/ CanRead(found[1], part.start_lba + boot.reserved_sectors, fats)
    IN  /\ probe_pc = "mount"
        /\ probe_pc' = IF ok THEN "mounted" ELSE "failed"
        /\ root' = IF ok THEN <<[disk |-> disk, start_lba |-> part.start_lba, type |-> ty]>> ELSE <<>>
        /\ UNCHANGED <<machine, regs, io_space, at, config, channel, configs, ide_devices>>

ProbeNext == Probe \/ ProbeEnds \/ ProbeDrive \/ create_disk_mapping

ProbeInit ==
    /\ regs = [loc \in DOMAIN machine |-> [n \in 0..5 |-> machine[loc].set[n]]]
    /\ io_space = {} /\ probe_pc = "pci" /\ at = <<0, 0, 0>>
    /\ config = <<>> /\ channel = 0 /\ configs = <<>> /\ ide_devices = <<>> /\ root = <<>>
================================================================================
