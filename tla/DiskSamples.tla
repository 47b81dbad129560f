------------------------------ MODULE DiskSamples ------------------------------
(***************************************************************************)
(* Machines to probe, and what the kernel must find on them.               *)
(***************************************************************************)
EXTENDS DiskProbe, FiniteSets

-----------------------------------------------------------------------------
(* Devices: the BARs the hardware has, and what the BIOS has set them to.      *)
Hardwired == [kind |-> "none", size |-> 1, bits |-> 0]
IoBar(size) == [kind |-> "io", size |-> size, bits |-> 1]
Mem32(size, bits) == [kind |-> "mem32", size |-> size, bits |-> bits]
Mem64(size, bits) == [kind |-> "mem64", size |-> size, bits |-> 4 + bits]
UpperHalf == [kind |-> "upper", size |-> 1, bits |-> 0]
BarKinds == {<<Hardwired>>, <<IoBar(4)>>, <<IoBar(16)>>, <<Mem32(16, 0)>>, <<Mem32(64, 8)>>,
             <<Mem64(32, 0), UpperHalf>>, <<Mem64(128, 8), UpperHalf>>}
\* a reserved type, a size the registers cannot hold, an upper half that is missing
OddKinds == {<<Mem32(16, 2)>>, <<Mem64(Word, 0), UpperHalf>>}
\* The BIOS puts a BAR at a multiple of its size; the address of the second half is n.
SetTo(bar, n) == CASE bar.kind = "none" -> 0
                   [] bar.kind = "upper" -> n
                   [] OTHER -> ((n * bar.size) % Word) + bar.bits
SixBars(kinds) == LET all == SubSeq(FlattenSeq(kinds) \o [i \in 1..6 |-> Hardwired], 1, 6)
                  IN  [i \in 0..5 |-> all[i + 1]]
Function(class, kinds, places, prog_if, drives) ==
    [class |-> class, header |-> 0, has_io |-> TRUE, prog_if |-> prog_if, drives |-> drives, bars |-> SixBars(kinds),
     set |-> [i \in 0..5 |-> IF i \in DOMAIN places THEN SetTo(SixBars(kinds)[i], places[i]) ELSE SetTo(SixBars(kinds)[i], 1)]]
NoDrives == [i \in 0..3 |-> NoDrive]
Other(kinds, n) == Function(<<2, 0>>, kinds, [i \in 0..5 |-> n], {}, NoDrives)
Bridge == [Other(<<<<Mem32(16, 0)>>>>, 1) EXCEPT !.header = 1]

(* Drives.  A disk is its first sectors: the partition table and boot sectors. *)
Boot(signature, spc, f16, f32) ==
    [signature |-> signature, sectors_per_cluster |-> spc, fat_size_16 |-> f16, fat_size_32 |-> f32,
     reserved_sectors |-> 1, number_of_fats |-> 2]
Disk(name, mbr, start, size, boot) ==
    [name |-> name, mbr_signature |-> mbr, partitions |-> <<[start_lba |-> start, size |-> size]>>, boot |-> start :> boot]
GoodDisk(name) == Disk(name, TRUE, 2, 20, Boot(TRUE, 2, 3, 0))
Ata(disk) == [kind |-> "ata", disk |-> disk, dma |-> TRUE, lba |-> TRUE, lba48 |-> FALSE, extended |-> FALSE,
              sectors28 |-> 30, sectors48 |-> 0, sectors_ext |-> 0, large |-> FALSE, sector_words |-> 0]
Atapi(name, ready) == [kind |-> "atapi", disk |-> GoodDisk(name), dma |-> FALSE, lba |-> TRUE, ready |-> ready,
                       last_sector |-> 9, block_size |-> 2048]
Drives == {NoDrive, Ata(GoodDisk("hd")), Atapi("cd", TRUE), Atapi("cd", FALSE), [kind |-> "aborted"]}
Legacy(drives) == Function(<<1, 1>>, <<>>, <<>>, {}, drives)
IdeNative(kinds, n, prog_if, drives) == Function(<<1, 1>>, kinds, [i \in 0..5 |-> n + i], prog_if, drives)
\* The ports of the channels read as zero until they are set.
NotSet(dev) == [dev EXCEPT !.set = [i \in 0..5 |-> IF i < 4 THEN 0 ELSE @[i]]]
Four == <<<<IoBar(4)>>, <<IoBar(4)>>, <<IoBar(4)>>, <<IoBar(4)>>, <<IoBar(16)>>>>

ProgIfs == SUBSET {"primary", "primary_prog", "secondary", "secondary_prog", "master"}
OneDrive(d) == [i \in 0..3 |-> IF i = 0 THEN d ELSE NoDrive]
At(n) == <<n \div (Devs * Funcs), (n \div Funcs) % Devs, n % Funcs>>
Usual == Legacy(OneDrive(Ata(GoodDisk("hd"))))
Odd(field, value) == Legacy(OneDrive([Ata(GoodDisk("hd")) EXCEPT ![field] = value]))

Machines ==
    \* the BARs of a function
    {At(0) :> Other(<<a, b, c>>, n) : a, b, c \in BarKinds, n \in {1, 3}}
    \union {At(1) :> Other(<<a, b>>, 1) : a \in BarKinds, b \in OddKinds}
    \union {At(1) :> Other([i \in 1..5 |-> <<Hardwired>>] \o <<<<Mem64(32, 0)>>>>, 1)}
    \* the drives of a controller, and its place
    \union {At(n) :> Legacy([i \in 0..3 |-> d[i + 1]]) : n \in {0, 5}, d \in Drives \X Drives \X Drives \X {NoDrive, Atapi("cd", TRUE)}}
    \* ports that are set, unset, and programmed
    \union {At(2) :> IdeNative(Four, 5, prog_if, [i \in 0..3 |-> Ata(GoodDisk(<<"a", "b", "c", "d">>[i + 1]))])
            : prog_if \in ProgIfs}
    \union {At(2) :> NotSet(IdeNative(Four, 5, prog_if, [i \in 0..3 |-> Ata(GoodDisk(<<"a", "b", "c", "d">>[i + 1]))]))
            : prog_if \in ProgIfs}
    \union {At(2) :> IdeNative(<<<<IoBar(4)>>, <<Mem32(16, 0)>>>>, 5, {"primary"}, OneDrive(Ata(GoodDisk("hd"))))}
    \* several controllers, more drives than there is room for, a bridge
    \union {At(1) :> Usual @@ At(3) :> Bridge @@ At(6) :> IdeNative(Four, 5, {"primary", "secondary"}, d)
            : d \in [0..3 -> {NoDrive, Ata(GoodDisk("second"))}]}
    \* one thing about the drive or its disk is different
    \union {At(1) :> m : m \in
              {[Usual EXCEPT !.has_io = FALSE], Odd("lba", FALSE), Odd("dma", FALSE), Odd("kind", "error"), Odd("sectors28", 1), Odd("sectors28", 3), Odd("sectors28", 9),
               Legacy(OneDrive([Ata(GoodDisk("hd")) EXCEPT !.lba48 = TRUE, !.sectors48 = 50])),
               Legacy(OneDrive([Ata(GoodDisk("hd")) EXCEPT !.lba48 = TRUE, !.extended = TRUE, !.sectors_ext = 60])),
               Legacy(OneDrive([Ata(GoodDisk("hd")) EXCEPT !.large = TRUE, !.sector_words = 512])),
               Legacy(OneDrive([Ata(GoodDisk("hd")) EXCEPT !.large = TRUE, !.sector_words = 128])),
               Odd("disk", Disk("hd", FALSE, 2, 20, Boot(TRUE, 2, 3, 0))), Odd("disk", Disk("hd", TRUE, 2, 20, Boot(FALSE, 2, 3, 0))),
               Odd("disk", Disk("hd", TRUE, 2, 20, Boot(TRUE, 1, 3, 0))), Odd("disk", Disk("hd", TRUE, 2, 20, Boot(TRUE, 2, 0, 4)))}}
-----------------------------------------------------------------------------
(* What must come of it *)

BarIsRight(dev, c, n) ==
    LET bar == dev.bars[n]
        addr == dev.set[n] - bar.bits
        b == c.base_address[n]
    IN  CASE dev.set[n] = 0 -> b = NoBar \/ bar.kind = "upper"
          [] bar.kind = "io" -> b = [kind |-> "Io", addr |-> addr, size |-> bar.size]
          [] bar.kind = "mem32" -> b.kind = "Memory" /\ b.addr = addr /\ b.size = bar.size /\ (b.prefetchable = (bar.bits >= 8))
          [] bar.kind = "mem64" -> /\ b.kind = "Memory" /\ b.addr = dev.set[n + 1] * Word + addr /\ b.size = bar.size
                                   /\ c.base_address[n + 1] = b
          [] bar.kind = "upper" -> TRUE

\* The ports of channel i work out: legacy ones, or ports that are or can be set.
Unset(dev, i) == dev.set[2 * i] = 0
ToProgram(dev, i) == Native[i + 1] \in dev.prog_if /\ dev.bars[2 * i].kind # "none" /\ Unset(dev, i) /\ Programmable[i + 1] \in dev.prog_if
Reachable(dev, i) == Native[i + 1] \in dev.prog_if => ~Unset(dev, i) \/ ToProgram(dev, i)
Usable(d) == d.kind \in {"ata", "atapi"} /\ (d.kind = "atapi" => d.ready)
DrivesOf(dev) ==
    IF dev.class # <<1, 1>> \/ ~dev.has_io THEN <<>>
    ELSE [k \in 1..4 |-> IF Reachable(dev, (k - 1) \div 2) /\ Usable(dev.drives[k - 1]) THEN <<dev.drives[k - 1]>> ELSE <<>>]
ExpectedDrives ==
    FlattenSeq(FlattenSeq([n \in 1 .. Buses * Devs * Funcs |->
        IF At(n - 1) \in DOMAIN machine /\ machine[At(n - 1)].header = 0 THEN DrivesOf(machine[At(n - 1)]) ELSE <<>>]))

\* The probe leaves the registers as the BIOS set them, and knows what they are.
BarsAreRead ==
    /\ \A k \in DOMAIN configs : probe_pc # "panic" =>
          \A n \in 0..5 : BarIsRight(machine[configs[k].loc], configs[k], n)
    /\ probe_pc \in {"mount", "mounted", "failed"} =>
          \A loc \in DOMAIN machine : \A n \in 0..5 :
              regs[loc][n] = machine[loc].set[n] \/ (n < 4 /\ ToProgram(machine[loc], n \div 2))
\* All drives there are, once each, in the order of the bus.
DrivesAreFound ==
    probe_pc \in {"mount", "mounted", "failed"} =>
        /\ [k \in DOMAIN ide_devices |-> ide_devices[k].disk] = [k \in DOMAIN ExpectedDrives |-> ExpectedDrives[k].disk]
        /\ \A k, l \in DOMAIN ide_devices : k # l => <<ide_devices[k].io, ide_devices[k].second>> # <<ide_devices[l].io, ide_devices[l].second>>
\* The root is the first partition of the first disk that is not a CD.
RootIsRight ==
    LET disks == SelectSeq(ExpectedDrives, LAMBDA d : d.kind = "ata")
    IN  /\ probe_pc = "mounted" => disks # <<>> /\ root[1].disk = disks[1].disk /\ root[1].start_lba = disks[1].disk.partitions[1].start_lba
        /\ probe_pc = "failed" => disks = <<>> \/ disks[1] # Ata(disks[1].disk) \/ disks[1].disk # GoodDisk(disks[1].disk.name)
ProbeIsRight == BarsAreRead /\ DrivesAreFound /\ RootIsRight
DiskInit == machine \in Machines /\ ProbeInit
================================================================================
