------------------------------ MODULE DiskProofs ------------------------------
(***************************************************************************)
(* What is proved of the way to the disk: the IDE driver, the table of the *)
(* FAT file system and the log file.                                       *)
(*                                                                         *)
(* IdeMovesItsSectors, for every number of drives, sectors and requests,   *)
(* every size of a chunk and every behaviour of the device: driver and     *)
(* device agree on the sector they are at.  A sector that was written is   *)
(* stored one step of the device later, so the device may be one sector    *)
(* behind (Pending); an address that does not fit into the registers is    *)
(* below the driver's position, never above, so that even then no sector   *)
(* beyond the end of the disk is touched.                                  *)
(*                                                                         *)
(* TableIsRight, for tables of every type and size: an entry of 12 bits    *)
(* shares a byte with its neighbour, so the invariant is about the bytes   *)
(* (TableInv), and storing one entry is shown to leave all the others.     *)
(*                                                                         *)
(* LogIsComplete, for every size of the static buffer and of the events:   *)
(* the file that is open holds what was logged before the buffer, one that *)
(* was not opened yet still holds the log of the boot before.              *)
(***************************************************************************)
EXTENDS Ide, FatTable, LogFile, FiniteSetTheorems, TLAPS
--------------------------------------------------------------------------------
(* The numbers in the entries of a FAT, and the bytes they are stored in *)

\* A byte, and the numbers of the three types of table
Octet == 0 .. 255
TwelveBits == 0 .. 4095
SixteenBits == {n \in Nat : n < 65536}
TwentyEightBits == {n \in Nat : n < 268435456}

\* The bytes of an entry of 12 bits, with x and y as the bytes before
Low(c, x, v) == IF c % 2 = 1 THEN (x % 16) + ((v * 16) % 256) ELSE v % 256
High(c, y, v) == IF c % 2 = 1 THEN (v \div 16) % 256 ELSE (y - (y % 16)) + ((v \div 256) % 256)
From(c, x, y) == IF c % 2 = 1 THEN y * 16 + (x \div 16) ELSE (y % 16) * 256 + x

\* They are bytes, they give back the number, and keep the other entry's half byte.
Fits12(c, x, y, v) ==
    /\ Low(c, x, v) \in Octet /\ High(c, y, v) \in Octet
    /\ From(c, Low(c, x, v), High(c, y, v)) = v
    /\ c % 2 = 1 => Low(c, x, v) % 16 = x % 16
    /\ c % 2 = 0 => High(c, y, v) \div 16 = y \div 16

\* So it is for every number and every neighbour.
LEMMA Numbers12 ==
    ASSUME NEW c \in Nat, NEW x \in Octet, NEW y \in Octet, NEW v \in TwelveBits
    PROVE  Fits12(c, x, y, v)
  <1>. USE DEF Octet, TwelveBits
  <1>1. c % 2 = 0 \/ c % 2 = 1
    BY SMTT(30)
  <1>2. CASE c % 2 = 1
    <2>1. /\ v \div 16 \in 0 .. 255 /\ v % 16 \in 0 .. 15 /\ v = 16 * (v \div 16) + (v % 16)
          /\ x % 16 \in 0 .. 15
      BY SMTT(30)
    <2>2. (v \div 16) % 256 = v \div 16 /\ (v * 16) % 256 = 16 * (v % 16)
      BY SMTT(30)
    <2>3. \A k, n \in 0 .. 15 : (n + 16 * k) % 16 = n /\ (n + 16 * k) \div 16 = k /\ n + 16 * k \in 0 .. 255
      BY SMTT(30)
    <2>4. High(c, y, v) = v \div 16 /\ Low(c, x, v) = (x % 16) + 16 * (v % 16)
      BY <1>2, <2>2, SMTT(30) DEF High, Low
    <2>5. Low(c, x, v) % 16 = x % 16 /\ Low(c, x, v) \div 16 = v % 16 /\ Low(c, x, v) \in Octet
      BY <2>1, <2>3, <2>4, SMTT(30)
    <2>6. From(c, Low(c, x, v), High(c, y, v)) = High(c, y, v) * 16 + (Low(c, x, v) \div 16)
      BY <1>2, SMTT(30) DEF From
    <2>7. (v \div 16) * 16 + (v % 16) = v
      BY SMTT(30)
    <2>8. From(c, Low(c, x, v), High(c, y, v)) = v
      BY <2>4, <2>5, <2>6, <2>7, SMTT(30)
    <2>9. High(c, y, v) \in Octet
      BY <2>1, <2>4, SMTT(30)
    <2>10. c % 2 # 0
      BY <1>2, SMTT(30)
    <2>. HIDE DEF Octet, TwelveBits
    <2>. QED BY <2>5, <2>8, <2>9, <2>10, Zenon DEF Fits12
  <1>3. CASE c % 2 = 0
    <2>1. /\ v \div 256 \in 0 .. 15 /\ v % 256 \in 0 .. 255 /\ v = 256 * (v \div 256) + (v % 256)
          /\ y \div 16 \in 0 .. 15 /\ y - (y % 16) = 16 * (y \div 16)
      BY SMTT(30)
    <2>2. (v \div 256) % 256 = v \div 256
      BY <2>1, SMTT(30)
    <2>3. \A k, n \in 0 .. 15 : (16 * k + n) % 16 = n /\ (16 * k + n) \div 16 = k /\ 16 * k + n \in 0 .. 255
      BY SMTT(30)
    <2>4. Low(c, x, v) = v % 256 /\ High(c, y, v) = 16 * (y \div 16) + (v \div 256)
      BY <1>3, <2>1, <2>2, SMTT(30) DEF High, Low
    <2>5. /\ High(c, y, v) % 16 = v \div 256 /\ High(c, y, v) \div 16 = y \div 16
          /\ High(c, y, v) \in Octet
      BY <2>1, <2>3, <2>4, SMTT(30)
    <2>6. From(c, Low(c, x, v), High(c, y, v)) = (High(c, y, v) % 16) * 256 + Low(c, x, v)
      BY <1>3, SMTT(30) DEF From
    <2>7. (v \div 256) * 256 + (v % 256) = v
      BY SMTT(30)
    <2>8. From(c, Low(c, x, v), High(c, y, v)) = v
      BY <2>4, <2>5, <2>6, <2>7, SMTT(30)
    <2>9. Low(c, x, v) \in Octet
      BY <2>1, <2>4, SMTT(30)
    <2>10. c % 2 # 1
      BY <1>3, SMTT(30)
    <2>. HIDE DEF Octet, TwelveBits
    <2>. QED BY <2>5, <2>8, <2>9, <2>10, Zenon DEF Fits12
  <1>. QED BY <1>1, <1>2, <1>3, SMTT(30)

\* The places of two entries of 12 bits
LEMMA Places12 ==
    ASSUME NEW c \in Nat, NEW d \in Nat, c # d
    PROVE  LET o == (c * 3) \div 2
               p == (d * 3) \div 2
           IN  /\ o # p /\ p + 1 # o + 1
               /\ d % 2 = 1 => p + 1 # o /\ (p = o + 1 => c % 2 = 0)
               /\ d % 2 # 1 => p # o + 1 /\ (p + 1 = o => c % 2 = 1)
  OBVIOUS

\* The bytes of a number of 16 bits
LEMMA Numbers16 ==
    ASSUME NEW v \in SixteenBits
    PROVE  /\ v % 256 \in Octet /\ (v \div 256) % 256 \in Octet
           /\ ((v \div 256) % 256) * 256 + (v % 256) = v
  <1>a. v \in Nat /\ v < 65536
    BY SMT DEF SixteenBits
  <1>1. v \in Nat /\ v \div 256 \in 0 .. 255 /\ v % 256 \in 0 .. 255 /\ v = 256 * (v \div 256) + (v % 256)
    BY <1>a, SMT
  <1>2. (v \div 256) % 256 = v \div 256
    BY <1>1, SMT
  <1>3. (v \div 256) * 256 + (v % 256) = v
    BY <1>1, SMT
  <1>. QED BY <1>1, <1>2, <1>3, SMTT(30) DEF Octet

\* The bytes of a number of 28 bits
LEMMA Numbers28 ==
    ASSUME NEW v \in TwentyEightBits
    PROVE  /\ v % 256 \in Octet /\ (v \div 256) % 256 \in Octet
           /\ (v \div 65536) % 256 \in Octet /\ (v \div 16777216) % 256 \in Octet
           /\ ((((v \div 16777216) % 256) % 16) * 256 + ((v \div 65536) % 256)) * 65536
              + ((v \div 256) % 256) * 256 + (v % 256) = v
  <1>a. v \in Nat /\ v < 268435456
    BY SMT DEF TwentyEightBits
  <1>1. /\ v \in Nat /\ v \div 256 \in Nat /\ v \div 65536 \in Nat /\ v \div 16777216 \in 0 .. 15
        /\ v = 256 * (v \div 256) + (v % 256)
    BY <1>a, SMT
  <1>2. v \div 256 = 256 * (v \div 65536) + ((v \div 256) % 256)
    BY <1>1, SMT
  <1>3. v \div 65536 = 256 * (v \div 16777216) + ((v \div 65536) % 256)
    BY <1>1, SMT
  <1>4. ((v \div 16777216) % 256) % 16 = v \div 16777216
    BY <1>1, SMT
  <1>5. /\ v % 256 \in 0 .. 255 /\ (v \div 256) % 256 \in 0 .. 255
        /\ (v \div 65536) % 256 \in 0 .. 255 /\ (v \div 16777216) % 256 \in 0 .. 255
    BY <1>1, SMTT(30)
  <1>. QED BY <1>1, <1>2, <1>3, <1>4, <1>5, SMTT(30) DEF Octet
--------------------------------------------------------------------------------
(* The IDE driver *)

AnySector == [who : Drives \cup {"caller", "garbage"}, call : Nat, at : Int]

Commands == [op : {"none", "read", "write"}, drive : Drives \cup {"none"}, lba : Nat,
             left : Nat, store : AnySector \cup {Nothing}]
Requests == [op : {"none", "read", "write"}, drive : Drives \cup {"none"},
             start : Nat, n : Nat]

DiskType == DOMAIN disk = Drives /\ \A d \in Drives : disk[d] \in [0 .. Sectors[d] - 1 -> AnySector]
StatusType == busy \in BOOLEAN /\ drq \in BOOLEAN /\ err \in BOOLEAN /\ late \in BOOLEAN
DriverType ==
    /\ request \in Requests
    /\ pc \in {"idle", "loop", "command", "packet", "check", "move"}
    /\ start_sector \in Nat /\ todo \in Nat /\ chunk \in Nat /\ requests \in Nat
    /\ data \in Seq(AnySector)
IdeTypes == DiskType /\ StatusType /\ command \in Commands /\ DriverType

\* The next sector of the request
Position == request.start + Len(data)

\* Where the driver is: every sector of the request is moved, in the running
\* command or still to do.
IdeProgress ==
    /\ result # "panicked"
    /\ pc # "idle" =>
        /\ request.drive \in Drives /\ request.op \in {"read", "write"}
        /\ request.op = "write" => Type[request.drive] = "Ata"
        /\ request.start + request.n < Sectors[request.drive]
        /\ request.n = Len(data) + chunk + todo
    /\ pc = "loop" => chunk = 0
    /\ pc \in {"command", "packet", "check"} => chunk > 0
    /\ pc = "packet" => Type[request.drive] = "Atapi"
    /\ pc \in {"loop", "command", "packet", "check"} => start_sector = Position

\* Sectors moved but not stored
Pending == IF command.store = Nothing THEN 0 ELSE 1

\* The device: between commands it is quiet, during one it is at the driver's
\* sector, or at the one before while that is not stored yet.
IdeDevice ==
    /\ pc \in {"idle", "loop", "command"} => ~busy /\ ~drq
    /\ busy => ~drq
    /\ ~busy => command.store = Nothing
    /\ err => ~busy /\ ~drq
    /\ err /\ pc = "move" => late
    /\ ~err /\ pc \in {"packet", "check", "move"} =>
        /\ command.op = request.op /\ command.drive = request.drive
        /\ command.left = chunk
        /\ ~busy => (drq <=> chunk > 0)
    /\ command.store # Nothing =>
        /\ pc = "move" /\ request.op = "write"
        /\ Len(data) > 0 /\ command.store = data[Len(data)]
    /\ ~err /\ pc \in {"packet", "check", "move"} => command.lba + Pending <= Position
    /\ ~err /\ pc \in {"check", "move"} /\ Addressable =>
        command.lba + Pending = Position

\* What is on the disks: only sectors of a write have changed, and those that were
\* moved are as on the disk, except one that is still to be stored.
IdeFrame ==
    Addressable => \A d \in Drives : \A s \in 0 .. Sectors[d] - 1 :
        request.op = "read" \/ ~InRequest(d, s) => disk[d][s] = before[d][s]

Agree(i) == data[i] = disk[request.drive][request.start + i - 1]
IdeContent ==
    /\ Addressable /\ ~late /\ pc # "idle" =>
        \A i \in 1 .. Len(data) :
            i < Len(data) \/ command.store = Nothing => Agree(i)
    /\ Addressable /\ ~late /\ pc = "idle" /\ result = "Ok" =>
        Len(data) = request.n /\ \A i \in 1 .. Len(data) : Agree(i)

IInv == IdeTypes /\ IdeProgress /\ IdeDevice /\ IdeFrame /\ IdeContent
--------------------------------------------------------------------------------
(* Facts that the steps need *)

\* The sectors moved so far, and the last of them, are sectors of the request.
LEMMA SectorOf ==
    ASSUME NEW start \in Nat, NEW n \in Nat, NEW moved \in Nat, NEW left \in Nat, NEW more \in Nat,
           NEW total \in Nat, n = moved + left + more, start + n < total
    PROVE  /\ \A i \in 1 .. moved : start + i - 1 \in 0 .. total - 1
           /\ moved # 0 => (start + moved) - 1 \in start .. start + n - 1
  OBVIOUS

\* The part of an address that fits into the registers is an address not above it.
LEMMA Remainder ==
    ASSUME NEW a \in Nat, NEW b \in Nat \ {0}
    PROVE  a % b \in Nat /\ a % b <= a /\ (a < b => a % b = a)
  OBVIOUS

\* The numbers of a request
LEMMA IdeNumbers ==
    ASSUME IdeAssumptions, IInv
    PROVE  /\ request.start \in Nat /\ request.n \in Nat /\ Len(data) \in Nat
           /\ chunk \in Nat /\ todo \in Nat /\ start_sector \in Nat /\ requests \in Nat
           /\ command.lba \in Nat /\ command.left \in Nat
           /\ \A d \in Drives : Sectors[d] \in Nat \ {0}
           /\ LbaSize \in Nat \ {0} /\ MaxChunk \in Nat \ {0}
  <1>1. request \in Requests /\ command \in Commands /\ data \in Seq(AnySector)
    BY Zenon DEF IInv, IdeTypes, DriverType
  <1>2. request.start \in Nat /\ request.n \in Nat
    BY <1>1, Zenon DEF Requests
  <1>3. command.lba \in Nat /\ command.left \in Nat
    BY <1>1, Zenon DEF Commands
  <1>4. Len(data) \in Nat
    BY <1>1
  <1>5. \A d \in Drives : Sectors[d] \in Nat \ {0}
    BY Zenon DEF IdeAssumptions
  <1>6. LbaSize \in Nat \ {0} /\ MaxChunk \in Nat \ {0}
    BY Zenon DEF IdeAssumptions
  <1>. QED BY <1>2, <1>3, <1>4, <1>5, <1>6, Zenon DEF IInv, IdeTypes, DriverType

\* A request that runs
LEMMA Running ==
    ASSUME IInv, pc # "idle"
    PROVE  /\ request.drive \in Drives /\ request.op \in {"read", "write"}
           /\ request.op = "write" => Type[request.drive] = "Ata"
           /\ request.start + request.n < Sectors[request.drive]
           /\ request.n = Len(data) + chunk + todo
  BY Zenon DEF IInv, IdeProgress
--------------------------------------------------------------------------------
(* The device's steps *)

\* The device stores at most the sector that the driver has just written, in its place.
LEMMA DeviceReadyKeeps ==
    ASSUME IdeAssumptions, IInv, DeviceReady PROVE IInv'
  <1>u. UNCHANGED <<err, pc, request, start_sector, todo, chunk, data, result, requests, before, late>>
    BY Zenon DEF DeviceReady, driver
  <1>b. busy /\ ~busy' /\ (drq' <=> command.left > 0) /\ drq' \in BOOLEAN /\ busy' \in BOOLEAN
    <2>1. busy /\ busy' = FALSE /\ drq' = (command.left > 0)
      BY Zenon DEF DeviceReady
    <2>2. (command.left > 0) \in BOOLEAN
      OBVIOUS
    <2>. QED BY <2>1, <2>2, Zenon
  <1>p. pc \in {"packet", "check", "move"} /\ ~err
    BY <1>b, Zenon DEF IInv, IdeTypes, DriverType, IdeDevice
  <1>c. /\ command.op = request.op /\ command.drive = request.drive
        /\ command.left = chunk /\ request.drive \in Drives
    BY <1>p, Zenon DEF IInv, IdeDevice, IdeProgress
  <1>n. /\ request.start \in Nat /\ request.n \in Nat /\ Len(data) \in Nat
        /\ chunk \in Nat /\ todo \in Nat /\ command.lba \in Nat
    BY IdeNumbers, Zenon
  <1>d. DriverType' /\ StatusType'
    <2>1. DriverType'
      BY <1>u, Zenon DEF IInv, IdeTypes, DriverType
    <2>. QED BY <2>1, <1>b, <1>u, Zenon DEF IInv, IdeTypes, StatusType
  <1>g. IdeProgress'
    BY <1>u, Zenon DEF IInv, IdeProgress, Position
  <1>1. CASE command.store = Nothing
    <2>1. UNCHANGED <<disk, command>>
      BY <1>1, Zenon DEF DeviceReady
    <2>2. IdeTypes'
      BY <1>d, <2>1, Zenon DEF IInv, IdeTypes, DiskType
    <2>4. IdeDevice'
      BY <1>u, <1>b, <1>p, <1>c, <1>1, <2>1, Zenon DEF IInv, IdeDevice, Position, Pending, Addressable
    <2>5. IdeFrame'
      BY <1>u, <2>1, Zenon DEF IInv, IdeFrame, Addressable, InRequest
    <2>6. IdeContent'
      BY <1>u, <2>1, Zenon DEF IInv, IdeContent, Addressable, Agree
    <2>. QED BY <1>g, <2>2, <2>4, <2>5, <2>6, Zenon DEF IInv
  <1>2. CASE command.store # Nothing
    <2>1. /\ disk' = [disk EXCEPT ![command.drive][command.lba] = command.store]
          /\ command' = [command EXCEPT !.lba = @ + 1, !.store = Nothing]
      BY <1>2, Zenon DEF DeviceReady
    <2>2. /\ pc = "move" /\ request.op = "write"
          /\ Len(data) > 0 /\ command.store = data[Len(data)]
          /\ command.lba + Pending <= Position
          /\ Addressable => command.lba + Pending = Position
      BY <1>2, <1>p, Zenon DEF IInv, IdeDevice
    <2>3. Pending = 1
      BY <1>2, Zenon DEF Pending
    <2>n. /\ request.n = Len(data) + chunk + todo
          /\ request.start + request.n < Sectors[request.drive]
          /\ Sectors[request.drive] \in Nat
      BY <1>p, <1>c, <2>2, IdeNumbers, Zenon DEF IInv, IdeProgress
    <2>l. /\ command.lba \in 0 .. Sectors[request.drive] - 1
          /\ command.lba < Position
          /\ Addressable => command.lba = Position - 1
      <3>1. Position \in Nat /\ Position <= request.start + request.n
        BY <2>n, <1>n DEF Position
      <3>2. command.lba + 1 <= Position /\ (Addressable => command.lba + 1 = Position)
        BY <2>2, <2>3, Zenon
      <3>3. command.lba \in 0 .. Sectors[request.drive] - 1
        BY <3>1, <3>2, <2>n, <1>n, SMTT(30)
      <3>. QED BY <3>1, <3>2, <3>3, <1>n
    <2>c. command \in Commands
      BY Zenon DEF IInv, IdeTypes
    <2>5. command' = [op |-> command.op, drive |-> command.drive, lba |-> command.lba + 1,
                      left |-> command.left, store |-> Nothing]
      BY <2>1, <2>c, Zenon DEF Commands
    <2>k. command.store \in AnySector
      BY <2>c, <1>2, Zenon DEF Commands
    <2>t. DiskType
      BY Zenon DEF IInv, IdeTypes
    <2>4. \A d \in Drives : \A s \in 0 .. Sectors[d] - 1 :
            disk'[d][s] = IF d = request.drive /\ s = command.lba THEN command.store
                          ELSE disk[d][s]
      BY <2>1, <2>l, <2>t, <1>c, Zenon DEF DiskType
    <2>6. IdeTypes'
      <3>1. DiskType'
        BY <2>1, <2>k, <2>l, <2>t, <1>c, Zenon DEF DiskType
      <3>2. command' \in Commands
        BY <2>5, <2>c DEF Commands
      <3>. QED BY <3>1, <3>2, <1>d, Zenon DEF IdeTypes
    <2>8. IdeDevice'
      <3>1. /\ command'.store = Nothing /\ command'.lba = command.lba + 1
            /\ command'.op = command.op /\ command'.drive = command.drive
            /\ command'.left = command.left
        BY <2>5, Zenon
      <3>2. Pending' = 0
        BY <3>1, Zenon DEF Pending
      <3>3. /\ (command.lba + 1) + 0 <= Position
            /\ Addressable => (command.lba + 1) + 0 = Position
        BY <2>l, <1>n DEF Position
      <3>. QED BY <1>u, <1>b, <1>p, <1>c, <2>2, <3>1, <3>2, <3>3, Zenon
               DEF IInv, IdeDevice, Position, Addressable
    <2>9. IdeFrame'
      <3>. SUFFICES ASSUME Addressable, NEW d \in Drives, NEW s \in 0 .. Sectors[d] - 1,
                           ~InRequest(d, s)
                    PROVE  disk'[d][s] = before[d][s]
        BY <1>u, <2>2, Zenon DEF IdeFrame, Addressable, InRequest
      <3>1. disk[d][s] = before[d][s]
        BY Zenon DEF IInv, IdeFrame
      <3>2. command.lba \in request.start .. request.start + request.n - 1
        <4>1. command.lba = (request.start + Len(data)) - 1
          BY <2>l, Zenon DEF Position
        <4>2. Len(data) # 0
          BY <2>2
        <4>3. (request.start + Len(data)) - 1 \in request.start .. request.start + request.n - 1
          BY <4>2, <2>n, <1>n, SectorOf, Zenon
        <4>. QED BY <4>1, <4>3, Zenon
      <3>3. d = request.drive => s # command.lba
        BY <3>2, Zenon DEF InRequest
      <3>. QED BY <2>4, <3>1, <3>3, Zenon
    <2>10. IdeContent'
      <3>. SUFFICES ASSUME Addressable, ~late, NEW i \in 1 .. Len(data)
                    PROVE  data[i] = disk'[request.drive][request.start + i - 1]
        BY <1>u, <2>2, Zenon DEF IdeContent, Agree, Addressable
      <3>1. request.start + i - 1 \in 0 .. Sectors[request.drive] - 1
        BY <2>n, <1>n, SectorOf, Zenon
      <3>2. CASE i = Len(data)
        <4>1. request.start + i - 1 = command.lba
          BY <3>2, <2>l, <1>n DEF Position
        <4>. QED BY <4>1, <3>2, <2>4, <2>2, <3>1, <1>c, Zenon
      <3>3. CASE i < Len(data)
        <4>1. request.start + i - 1 # command.lba
          BY <3>3, <2>l, <1>n DEF Position
        <4>2. Agree(i)
          BY <3>3, <2>2, Zenon DEF IInv, IdeContent
        <4>. QED BY <4>1, <4>2, <2>4, <3>1, <1>c, Zenon DEF Agree
      <3>. QED BY <3>2, <3>3, <1>n
    <2>. QED BY <1>g, <2>6, <2>8, <2>9, <2>10, Zenon DEF IInv
  <1>. QED BY <1>1, <1>2, Zenon

\* A device that fails drops its command and changes no sector.
LEMMA DeviceFailKeeps ==
    ASSUME IdeAssumptions, IInv, DeviceFail PROVE IInv'
  <1>u. UNCHANGED <<disk, pc, request, start_sector, todo, chunk, data, result, requests, before>>
    BY Zenon DEF DeviceFail, driver
  <1>b. /\ busy /\ ~busy' /\ ~drq' /\ err' /\ command' = NoCommand
        /\ busy' \in BOOLEAN /\ drq' \in BOOLEAN /\ err' \in BOOLEAN
        /\ late' = (late \/ pc = "move") /\ late' \in BOOLEAN
    BY Zenon DEF DeviceFail
  <1>p. pc \in {"packet", "check", "move"}
    BY <1>b, Zenon DEF IInv, IdeTypes, DriverType, IdeDevice
  <1>c. command'.store = Nothing /\ command' \in Commands
    BY <1>b, Zenon DEF NoCommand, Commands
  <1>1. IdeTypes'
    BY <1>u, <1>b, <1>c, Zenon DEF IInv, IdeTypes, DiskType, DriverType, StatusType
  <1>2. IdeProgress'
    BY <1>u, Zenon DEF IInv, IdeProgress, Position
  <1>3. IdeDevice'
    BY <1>u, <1>b, <1>c, <1>p, Zenon DEF IdeDevice
  <1>4. IdeFrame'
    BY <1>u, Zenon DEF IInv, IdeFrame, Addressable, InRequest
  <1>5. IdeContent'
    <2>1. ~late' => ~late /\ command.store = Nothing
      BY <1>b, Zenon DEF IInv, IdeDevice
    <2>. QED BY <1>u, <1>p, <2>1, Zenon DEF IInv, IdeContent, Agree, Addressable
  <1>. QED BY <1>1, <1>2, <1>3, <1>4, <1>5, Zenon DEF IInv
--------------------------------------------------------------------------------
(* The driver's steps *)

\* Begin leaves the disks alone, and the request is inside of its drive.
LEMMA BeginKeeps ==
    ASSUME IdeAssumptions, IInv,
           NEW op \in {"read", "write"}, NEW d \in Drives, NEW n \in 1 .. MaxLength,
           NEW start \in 0 .. Sectors[d], Begin(op, d, start, n)
    PROVE  IInv'
  <1>u. UNCHANGED <<disk, busy, drq, err, command>> /\ pc = "idle"
    BY Zenon DEF Begin, device
  <1>b. /\ requests' = requests + 1 /\ before' = disk /\ late' = FALSE /\ data' = <<>>
        /\ request' = [op |-> op, drive |-> d, start |-> start, n |-> n]
        /\ start_sector' = start /\ todo' = n /\ chunk' = 0
        /\ op = "write" => Type[d] = "Ata"
    BY Zenon DEF Begin
  <1>n. start \in Nat /\ n \in Nat /\ requests \in Nat /\ Len(data') = 0 /\ data' \in Seq(AnySector)
    BY <1>b, IdeNumbers
  <1>r. \/ pc' = "idle" /\ result' = "BoundsExceeded"
        \/ pc' = "loop" /\ result' = "none" /\ start + n < Sectors[d]
    <2>1. Sectors[d] \in Nat
      BY IdeNumbers, Zenon
    <2>. QED BY <1>n, <2>1 DEF Begin, Return
  <1>f. request'.op = op /\ request'.drive = d /\ request'.start = start /\ request'.n = n
    BY <1>b, Zenon
  <1>1. IdeTypes'
    <2>1. request' \in Requests
      BY <1>b, <1>n, Zenon DEF Requests
    <2>2. DriverType'
      BY <2>1, <1>b, <1>n, <1>r DEF DriverType
    <2>3. StatusType' /\ DiskType' /\ command' \in Commands
      BY <1>u, <1>b, Zenon DEF IInv, IdeTypes, StatusType, DiskType
    <2>. QED BY <2>2, <2>3, Zenon DEF IdeTypes
  <1>2. IdeProgress'
    BY <1>b, <1>f, <1>n, <1>r DEF IdeProgress, Position
  <1>3. IdeDevice'
    <2>1. ~busy /\ ~drq /\ command.store = Nothing
      BY <1>u, Zenon DEF IInv, IdeDevice
    <2>2. pc' \in {"idle", "loop"}
      BY <1>r, Zenon
    <2>. QED BY <2>1, <2>2, <1>u, Zenon DEF IdeDevice
  <1>4. IdeFrame'
    BY <1>u, <1>b, Zenon DEF IdeFrame
  <1>5. IdeContent'
    BY <1>n, <1>r DEF IdeContent
  <1>. QED BY <1>1, <1>2, <1>3, <1>4, <1>5, Zenon DEF IInv

\* Loop takes the next chunk out of what is still to do, or ends.
LEMMA LoopKeeps ==
    ASSUME IdeAssumptions, IInv, Loop PROVE IInv'
  <1>u. UNCHANGED <<disk, busy, drq, err, command, request, start_sector, data, requests, before, late>>
    BY Zenon DEF Loop, device
  <1>n. /\ pc = "loop" /\ chunk = 0 /\ todo \in Nat /\ Len(data) \in Nat /\ MaxChunk \in Nat \ {0}
        /\ request.n = Len(data) + chunk + todo /\ start_sector = Position
        /\ ~busy /\ ~drq /\ command.store = Nothing /\ request.n \in Nat
    <2>1. pc = "loop"
      BY Zenon DEF Loop
    <2>. QED BY <2>1, IdeNumbers, Running, Zenon DEF IInv, IdeProgress, IdeDevice
  <1>1. CASE todo = 0
    <2>1. pc' = "idle" /\ result' = "Ok" /\ UNCHANGED <<todo, chunk>>
      BY <1>1, Zenon DEF Loop, Return
    <2>2. request.n = Len(data)
      BY <1>1, <1>n
    <2>3. IdeTypes'
      BY <1>u, <2>1, Zenon DEF IInv, IdeTypes, DiskType, StatusType, DriverType
    <2>4. IdeProgress'
      BY <2>1, Zenon DEF IdeProgress
    <2>5. IdeDevice'
      BY <1>u, <1>n, <2>1, Zenon DEF IdeDevice
    <2>6. IdeFrame'
      BY <1>u, Zenon DEF IInv, IdeFrame, Addressable, InRequest
    <2>7. IdeContent'
      BY <1>u, <1>n, <2>1, <2>2, Zenon DEF IInv, IdeContent, Addressable, Agree
    <2>. QED BY <2>3, <2>4, <2>5, <2>6, <2>7, Zenon DEF IInv
  <1>2. CASE todo # 0
    <2>1. pc' = "command" /\ chunk' = num_now /\ todo' = todo - num_now /\ UNCHANGED result
      BY <1>2, Zenon DEF Loop
    <2>2. num_now \in Nat /\ num_now > 0 /\ num_now <= todo
      BY <1>2, <1>n DEF num_now
    <2>3. chunk' \in Nat /\ todo' \in Nat /\ chunk' > 0 /\ request.n = Len(data) + chunk' + todo'
      <3>. HIDE DEF num_now
      <3>. QED BY <2>1, <2>2, <1>n
    <2>4. IdeTypes'
      BY <1>u, <2>1, <2>3, Zenon DEF IInv, IdeTypes, DiskType, StatusType, DriverType
    <2>5. IdeProgress'
      BY <1>u, <1>n, <2>1, <2>3, Zenon DEF IInv, IdeProgress, Position
    <2>6. IdeDevice'
      BY <1>u, <1>n, <2>1, Zenon DEF IdeDevice
    <2>7. IdeFrame'
      BY <1>u, Zenon DEF IInv, IdeFrame, Addressable, InRequest
    <2>8. IdeContent'
      BY <1>u, <1>n, <2>1, Zenon DEF IInv, IdeContent, Addressable, Agree
    <2>. QED BY <2>4, <2>5, <2>6, <2>7, <2>8, Zenon DEF IInv
  <1>. QED BY <1>1, <1>2, Zenon

\* The address of a command is the driver's position, unless it does not fit.
LEMMA WriteCommandKeeps ==
    ASSUME IdeAssumptions, IInv, WriteCommand PROVE IInv'
  <1>u. UNCHANGED <<disk, drq, request, start_sector, todo, chunk, data, result, requests, before, late>>
    BY Zenon DEF WriteCommand
  <1>b. /\ pc = "command" /\ busy' = TRUE /\ err' = FALSE
        /\ pc' = (IF Type[request.drive] = "Ata" THEN "check" ELSE "packet")
        /\ command' = [op |-> request.op, drive |-> request.drive,
                       lba |-> start_sector % LbaSize, left |-> chunk, store |-> Nothing]
    BY Zenon DEF WriteCommand
  <1>n. /\ request.start \in Nat /\ request.n \in Nat /\ Len(data) \in Nat /\ chunk \in Nat
        /\ todo \in Nat /\ start_sector \in Nat /\ LbaSize \in Nat \ {0}
    BY IdeNumbers, Zenon
  <1>g. /\ start_sector = Position /\ chunk > 0 /\ ~drq /\ command.store = Nothing
        /\ request.drive \in Drives /\ request.op \in {"read", "write"}
        /\ request.n = Len(data) + chunk + todo
    BY <1>b, Running, Zenon DEF IInv, IdeProgress, IdeDevice
  <1>t. Type[request.drive] = "Ata" \/ Type[request.drive] = "Atapi"
    BY <1>g, Zenon DEF IdeAssumptions
  <1>f. /\ command'.op = request.op /\ command'.drive = request.drive
        /\ command'.lba = start_sector % LbaSize /\ command'.left = chunk
        /\ command'.store = Nothing
    BY <1>b, Zenon
  <1>m. /\ start_sector % LbaSize \in Nat /\ start_sector % LbaSize <= start_sector
        /\ start_sector < LbaSize => start_sector % LbaSize = start_sector
    BY <1>n, Remainder, Zenon
  <1>1. IdeTypes'
    <2>1. command' \in Commands
      BY <1>b, <1>g, <1>n, <1>m, Zenon DEF Commands
    <2>2. pc' \in {"check", "packet"}
      BY <1>b, Zenon
    <2>. QED BY <1>u, <1>b, <2>1, <2>2, Zenon DEF IInv, IdeTypes, DiskType, StatusType, DriverType
  <1>2. IdeProgress'
    BY <1>u, <1>b, <1>g, <1>t, Zenon DEF IInv, IdeProgress, Position
  <1>3. IdeDevice'
    <2>1. Pending' = 0
      BY <1>f, Zenon DEF Pending
    <2>2. (start_sector % LbaSize) + 0 <= Position
      BY <1>g, <1>m, <1>n DEF Position
    <2>3. Addressable /\ Type[request.drive] = "Ata" => (start_sector % LbaSize) + 0 = Position
      BY <1>g, <1>m, <1>n, SMTT(30) DEF Position, Addressable
    <2>4. pc' = "check" => Type[request.drive] = "Ata"
      BY <1>b, Zenon
    <2>5. pc' \in {"check", "packet"}
      BY <1>b, Zenon
    <2>. QED BY <1>u, <1>b, <1>g, <1>f, <2>1, <2>2, <2>3, <2>4, <2>5, Zenon DEF IdeDevice, Position, Addressable
  <1>4. IdeFrame'
    BY <1>u, Zenon DEF IInv, IdeFrame, Addressable, InRequest
  <1>5. IdeContent'
    <2>1. pc' # "idle"
      BY <1>b, Zenon
    <2>. QED BY <1>u, <1>b, <1>g, <2>1, Zenon DEF IInv, IdeContent, Addressable, Agree
  <1>. QED BY <1>1, <1>2, <1>3, <1>4, <1>5, Zenon DEF IInv

\* The packet carries the whole address.
LEMMA WritePacketKeeps ==
    ASSUME IdeAssumptions, IInv, WritePacket PROVE IInv'
  <1>u. UNCHANGED <<disk, request, start_sector, todo, chunk, data, requests, before, late>>
    BY Zenon DEF WritePacket
  <1>b. pc = "packet" /\ ~busy
    BY Zenon DEF WritePacket, wait_until_free
  <1>n. request.start \in Nat /\ Len(data) \in Nat /\ start_sector \in Nat
    BY IdeNumbers, Zenon
  <1>g. /\ start_sector = Position /\ chunk > 0 /\ command.store = Nothing /\ pc # "idle"
    BY <1>b, Zenon DEF IInv, IdeProgress, IdeDevice
  <1>1. CASE err
    <2>1. pc' = "idle" /\ result' = "DeviceError" /\ UNCHANGED <<busy, drq, err, command>>
      BY <1>1, Zenon DEF WritePacket, Return, device
    <2>2. ~drq
      BY <1>1, Zenon DEF IInv, IdeDevice
    <2>3. IdeTypes'
      BY <1>u, <2>1, Zenon DEF IInv, IdeTypes, DiskType, StatusType, DriverType
    <2>4. IdeProgress'
      BY <2>1, Zenon DEF IdeProgress
    <2>5. IdeDevice'
      BY <1>b, <1>g, <2>1, <2>2, Zenon DEF IdeDevice
    <2>6. IdeFrame'
      BY <1>u, Zenon DEF IInv, IdeFrame, Addressable, InRequest
    <2>7. IdeContent'
      BY <2>1, Zenon DEF IdeContent
    <2>. QED BY <2>3, <2>4, <2>5, <2>6, <2>7, Zenon DEF IInv
  <1>2. CASE ~err
    <2>1. /\ pc' = "check" /\ UNCHANGED <<result, err>> /\ busy' = TRUE /\ drq' = FALSE
          /\ command' = [command EXCEPT !.lba = start_sector]
      BY <1>2, Zenon DEF WritePacket
    <2>2. /\ command \in Commands /\ command.op = request.op /\ command.drive = request.drive
          /\ command.left = chunk
      BY <1>2, <1>b, Zenon DEF IInv, IdeTypes, IdeDevice
    <2>3. /\ command'.op = command.op /\ command'.drive = command.drive
          /\ command'.left = command.left /\ command'.lba = start_sector
          /\ command'.store = command.store /\ command' \in Commands
      BY <2>1, <2>2, <1>n, Zenon DEF Commands
    <2>4. IdeTypes'
      BY <1>u, <2>1, <2>3, Zenon DEF IInv, IdeTypes, DiskType, StatusType, DriverType
    <2>5. IdeProgress'
      BY <1>u, <1>b, <1>g, <2>1, Zenon DEF IInv, IdeProgress, Position
    <2>6. IdeDevice'
      <3>1. Pending' = 0
        BY <2>3, <1>g, Zenon DEF Pending
      <3>2. start_sector + 0 = Position /\ start_sector + 0 <= Position
        BY <1>g, <1>n DEF Position
      <3>. QED BY <1>u, <1>2, <1>g, <2>1, <2>2, <2>3, <3>1, <3>2, Zenon DEF IdeDevice, Position, Addressable
    <2>7. IdeFrame'
      BY <1>u, Zenon DEF IInv, IdeFrame, Addressable, InRequest
    <2>8. IdeContent'
      BY <1>u, <1>b, <1>g, <2>1, <2>3, Zenon DEF IInv, IdeContent, Addressable, Agree
    <2>. QED BY <2>4, <2>5, <2>6, <2>7, <2>8, Zenon DEF IInv
  <1>. QED BY <1>1, <1>2, Zenon

\* After CheckError an error that comes is late.
LEMMA CheckErrorKeeps ==
    ASSUME IdeAssumptions, IInv, CheckError PROVE IInv'
  <1>u. UNCHANGED <<disk, busy, drq, err, command, request, start_sector, todo, chunk, data,
                    requests, before, late>> /\ pc = "check"
    BY Zenon DEF CheckError, device
  <1>s. command.store = Nothing
    BY <1>u, Zenon DEF IInv, IdeDevice
  <1>1. CASE err
    <2>1. pc' = "idle" /\ result' = "DeviceError"
      BY <1>1, Zenon DEF CheckError, Return
    <2>2. ~drq /\ ~busy
      BY <1>1, Zenon DEF IInv, IdeDevice
    <2>3. IdeTypes'
      BY <1>u, <2>1, Zenon DEF IInv, IdeTypes, DiskType, StatusType, DriverType
    <2>4. IdeProgress'
      BY <2>1, Zenon DEF IdeProgress
    <2>5. IdeDevice'
      BY <1>u, <1>s, <2>1, <2>2, Zenon DEF IdeDevice
    <2>6. IdeFrame'
      BY <1>u, Zenon DEF IInv, IdeFrame, Addressable, InRequest
    <2>7. IdeContent'
      BY <2>1, Zenon DEF IdeContent
    <2>. QED BY <2>3, <2>4, <2>5, <2>6, <2>7, Zenon DEF IInv
  <1>2. CASE ~err
    <2>1. pc' = "move" /\ UNCHANGED result
      BY <1>2, Zenon DEF CheckError
    <2>3. IdeTypes'
      BY <1>u, <2>1, Zenon DEF IInv, IdeTypes, DiskType, StatusType, DriverType
    <2>4. IdeProgress'
      BY <1>u, <2>1, Zenon DEF IInv, IdeProgress
    <2>5. IdeDevice'
      BY <1>u, <1>s, <1>2, <2>1, Zenon DEF IInv, IdeDevice, Pending, Position, Addressable
    <2>6. IdeFrame'
      BY <1>u, Zenon DEF IInv, IdeFrame, Addressable, InRequest
    <2>7. IdeContent'
      BY <1>u, <1>s, <2>1, Zenon DEF IInv, IdeContent, Addressable, Agree
    <2>. QED BY <2>3, <2>4, <2>5, <2>6, <2>7, Zenon DEF IInv
  <1>. QED BY <1>1, <1>2, Zenon

\* MoveSector moves the sector at the driver's position, to the caller or to the
\* device, which has it to store; after an error it moves garbage, and that is late.
LEMMA MoveSectorKeeps ==
    ASSUME IdeAssumptions, IInv, MoveSector PROVE IInv'
  <1>u. UNCHANGED <<disk, pc, request, start_sector, todo, result, requests, before, late>>
    BY Zenon DEF MoveSector
  <1>b. pc = "move" /\ chunk > 0 /\ ~busy /\ chunk' = chunk - 1
    BY Zenon DEF MoveSector, wait_until_free
  <1>n. /\ request.start \in Nat /\ request.n \in Nat /\ Len(data) \in Nat /\ chunk \in Nat
        /\ todo \in Nat /\ command.lba \in Nat /\ command.left \in Nat /\ requests \in Nat
    BY IdeNumbers, Zenon
  <1>g. /\ request.drive \in Drives /\ request.op \in {"read", "write"}
        /\ request.n = Len(data) + chunk + todo
        /\ request.start + request.n < Sectors[request.drive]
        /\ Sectors[request.drive] \in Nat
        /\ command.store = Nothing /\ data \in Seq(AnySector) /\ command \in Commands
    BY <1>b, Running, IdeNumbers, Zenon DEF IInv, IdeTypes, DriverType, IdeDevice
  <1>w. Written(Len(data) + 1) \in AnySector /\ Written(Len(data) + 1) # Nothing
    BY <1>n DEF Written, Sector, AnySector, Nothing
  <1>c. chunk' \in Nat /\ request.n = (Len(data) + 1) + chunk' + todo
    BY <1>b, <1>n, <1>g, SMTT(30)
  <1>0. ASSUME NEW v \in AnySector, data' = Append(data, v)
        PROVE  /\ DriverType' /\ IdeProgress'
               /\ Len(data') = Len(data) + 1 /\ data'[Len(data')] = v
               /\ \A i \in 1 .. Len(data) : data'[i] = data[i]
               /\ Position' = Position + 1
    <2>1. /\ data' \in Seq(AnySector) /\ Len(data') = Len(data) + 1
          /\ data'[Len(data) + 1] = v /\ \A i \in 1 .. Len(data) : data'[i] = data[i]
      <3>1. /\ Append(data, v) \in Seq(AnySector) /\ Len(Append(data, v)) = Len(data) + 1
            /\ Append(data, v)[Len(data) + 1] = v
            /\ \A i \in 1 .. Len(data) : Append(data, v)[i] = data[i]
        BY <1>0, <1>g
      <3>. QED BY <3>1, <1>0, Zenon
    <2>2. DriverType'
      BY <1>u, <1>c, <2>1, Zenon DEF IInv, IdeTypes, DriverType
    <2>3. IdeProgress'
      BY <1>u, <1>b, <1>c, <2>1, Zenon DEF IInv, IdeProgress
    <2>4. Position' = Position + 1
      BY <1>u, <2>1, <1>n, SMTT(30) DEF Position
    <2>. QED BY <2>1, <2>2, <2>3, <2>4, Zenon
  <1>4. IdeFrame'
    BY <1>u, Zenon DEF IInv, IdeFrame, Addressable, InRequest
  <1>1. CASE ~drq
    <2>1. UNCHANGED <<busy, drq, err, command>>
      BY <1>1, Zenon DEF MoveSector, device
    <2>2. err /\ late
      BY <1>1, <1>b, Zenon DEF IInv, IdeTypes, StatusType, IdeDevice
    <2>3. \E v \in AnySector : data' = Append(data, v)
      <3>1. Garbage \in AnySector
        BY DEF Garbage, Sector, AnySector
      <3>2. data' = Append(data, IF request.op = "write" THEN Written(Len(data) + 1) ELSE Garbage)
        BY <1>1, <1>g, Zenon DEF MoveSector
      <3>. QED BY <3>1, <3>2, <1>w, Zenon
    <2>4. DriverType' /\ IdeProgress'
      BY <2>3, <1>0, Zenon
    <2>5. IdeTypes'
      BY <1>u, <2>1, <2>4, Zenon DEF IInv, IdeTypes, DiskType, StatusType
    <2>6. IdeDevice'
      BY <1>u, <1>1, <1>b, <1>g, <2>1, <2>2, Zenon DEF IdeDevice
    <2>7. IdeContent'
      BY <1>u, <1>b, <2>2, Zenon DEF IdeContent
    <2>. QED BY <1>4, <2>4, <2>5, <2>6, <2>7, Zenon DEF IInv
  <1>2. CASE drq
    <2>1. /\ drq' = FALSE /\ UNCHANGED err
          /\ busy' = (request.op = "write" \/ command.left > 1)
          /\ command' = [command EXCEPT
                    !.left = @ - 1,
                    !.lba = IF request.op = "read" THEN @ + 1 ELSE @,
                    !.store = IF request.op = "write" THEN Written(Len(data) + 1) ELSE Nothing]
      BY <1>2, Zenon DEF MoveSector
    <2>2. ~err
      BY <1>2, Zenon DEF IInv, IdeDevice
    <2>p. Pending = 0
      BY <1>g, Zenon DEF Pending
    <2>3. /\ command.op = request.op /\ command.drive = request.drive /\ command.left = chunk
          /\ command.lba + Pending <= Position
          /\ Addressable => command.lba + Pending = Position
      BY <2>2, <1>b, Zenon DEF IInv, IdeDevice
    <2>4. command.lba <= Position /\ (Addressable => command.lba = Position)
      BY <2>3, <2>p, <1>n DEF Position
    <2>5. /\ command'.op = command.op /\ command'.drive = command.drive
          /\ command'.left = command.left - 1
          /\ command'.lba = (IF request.op = "read" THEN command.lba + 1 ELSE command.lba)
          /\ command'.store = IF request.op = "write" THEN Written(Len(data) + 1) ELSE Nothing
          /\ command' \in Commands
      <3>1. command.left - 1 \in Nat
        BY <2>3, <1>b, <1>n
      <3>. DEFINE lba == IF request.op = "read" THEN command.lba + 1 ELSE command.lba
                  store == IF request.op = "write" THEN Written(Len(data) + 1) ELSE Nothing
      <3>2. lba \in Nat /\ store \in AnySector \cup {Nothing}
        BY <1>n, <1>w
      <3>3. command' = [op |-> command.op, drive |-> command.drive, lba |-> lba,
                        left |-> command.left - 1, store |-> store]
        BY <2>1, <1>g, Zenon DEF Commands
      <3>4. command.op \in {"none", "read", "write"} /\ command.drive \in Drives \cup {"none"}
        BY <1>g, Zenon DEF Commands
      <3>. HIDE DEF lba, store
      <3>5. /\ command'.op = command.op /\ command'.drive = command.drive
            /\ command'.left = command.left - 1 /\ command'.lba = lba /\ command'.store = store
            /\ command' \in Commands
        BY <3>1, <3>2, <3>3, <3>4, Zenon DEF Commands
      <3>. QED BY <3>5, Zenon DEF lba, store
    <2>6. busy' \in BOOLEAN /\ (~busy' => request.op = "read" /\ chunk' = 0)
      <3>1. (request.op = "write" \/ command.left > 1) \in BOOLEAN
        BY Zenon
      <3>2. ~busy' => request.op # "write" /\ ~(command.left > 1)
        BY <2>1, Zenon
      <3>3. ~(command.left > 1) => chunk' = 0
        BY <2>3, <1>b, <1>n
      <3>4. busy' \in BOOLEAN
        BY <2>1, <3>1, Zenon
      <3>. QED BY <3>2, <3>3, <3>4, <1>g, Zenon
    <2>v. PICK v \in AnySector :
            /\ data' = Append(data, v)
            /\ request.op = "write" => v = Written(Len(data) + 1)
            /\ request.op = "read" => v = disk[request.drive][command.lba]
      <3>1. CASE request.op = "write"
        <4>1. data' = Append(data, Written(Len(data) + 1))
          BY <3>1, Zenon DEF MoveSector
        <4>. QED BY <4>1, <3>1, <1>w, Zenon
      <3>2. CASE request.op = "read"
        <4>1. data' = Append(data, disk[command.drive][command.lba])
          BY <3>2, <1>2, Zenon DEF MoveSector
        <4>2. command.lba \in 0 .. Sectors[request.drive] - 1
          BY <2>4, <1>n, <1>g, <1>b, SMTT(30) DEF Position
        <4>3. disk[request.drive][command.lba] \in AnySector
          BY <4>2, <1>g, Zenon DEF IInv, IdeTypes, DiskType
        <4>. QED BY <4>1, <4>3, <3>2, <2>3, Zenon
      <3>. QED BY <3>1, <3>2, <1>g, Zenon
    <2>a. /\ DriverType' /\ IdeProgress'
          /\ Len(data') = Len(data) + 1 /\ data'[Len(data')] = v
          /\ \A i \in 1 .. Len(data) : data'[i] = data[i]
          /\ Position' = Position + 1
      BY <2>v, <1>0, Zenon
    <2>7. IdeTypes'
      BY <1>u, <2>1, <2>5, <2>6, <2>a, Zenon DEF IInv, IdeTypes, DiskType, StatusType
    <2>8. IdeDevice'
      <3>1. command'.left = chunk' /\ (~busy' => ~drq' /\ ~(chunk' > 0))
        BY <2>1, <2>3, <2>5, <2>6, <1>b
      <3>2. command'.store # Nothing =>
              /\ request.op = "write" /\ Len(data') > 0 /\ command'.store = data'[Len(data')]
        BY <2>5, <2>v, <2>a, <1>n, <1>g, SMTT(30)
      <3>3. Pending' = IF request.op = "write" THEN 1 ELSE 0
        BY <2>5, <1>w, Zenon DEF Pending
      <3>4. /\ command'.lba + Pending' <= Position'
            /\ Addressable => command'.lba + Pending' = Position'
        <4>1. Position \in Nat
          BY <1>n DEF Position
        <4>. QED BY <2>4, <2>5, <2>a, <3>3, <1>n, <1>g, <4>1, SMTT(30)
      <3>5. ~busy' => command'.store = Nothing
        BY <2>5, <2>6, Zenon
      <3>6. command'.op = request.op /\ command'.drive = request.drive
        BY <2>3, <2>5, Zenon
      <3>. QED BY <1>u, <1>b, <2>1, <2>2, <3>1, <3>2, <3>4, <3>5, <3>6, Zenon DEF IdeDevice, Addressable
    <2>9. IdeContent'
      <3>. SUFFICES ASSUME Addressable, ~late, NEW i \in 1 .. Len(data'),
                           i < Len(data') \/ command'.store = Nothing
                    PROVE  data'[i] = disk[request.drive][request.start + i - 1]
        BY <1>u, <1>b, Zenon DEF IdeContent, Agree, Addressable
      <3>1. CASE i \in 1 .. Len(data)
        <4>1. Agree(i)
          BY <3>1, <1>b, <1>g, Zenon DEF IInv, IdeContent
        <4>. QED BY <4>1, <3>1, <2>a, Zenon DEF Agree
      <3>2. CASE i = Len(data')
        <4>1. request.op = "read"
          BY <3>2, <2>5, <2>a, <1>w, <1>g, <1>n, SMTT(30)
        <4>2. request.start + i - 1 = command.lba
          BY <3>2, <2>4, <2>a, <1>n, SMTT(30) DEF Position
        <4>. QED BY <4>1, <4>2, <3>2, <2>a, <2>v, Zenon
      <3>. QED BY <3>1, <3>2, <2>a, <1>n, SMTT(30)
    <2>. QED BY <1>4, <2>7, <2>8, <2>9, <2>a, Zenon DEF IInv
  <1>. QED BY <1>1, <1>2, Zenon

\* The assertion at the end of a command holds.
LEMMA EndOfChunkKeeps ==
    ASSUME IdeAssumptions, IInv, EndOfChunk PROVE IInv'
  <1>u. UNCHANGED <<disk, busy, drq, err, command, request, todo, chunk, data, requests, before, late>>
    BY Zenon DEF EndOfChunk, device
  <1>b. pc = "move" /\ chunk = 0 /\ ~busy
    BY Zenon DEF EndOfChunk, wait_until_free
  <1>d. ~drq
    <2>1. ~err => (drq <=> chunk > 0)
      BY <1>b, Zenon DEF IInv, IdeDevice
    <2>2. err => ~drq
      BY Zenon DEF IInv, IdeDevice
    <2>. QED BY <1>b, <2>1, <2>2
  <1>s. command.store = Nothing
    BY <1>b, Zenon DEF IInv, IdeDevice
  <1>r. pc' = "loop" /\ UNCHANGED result /\ start_sector' = request.start + Len(data)
    BY <1>d, Zenon DEF EndOfChunk
  <1>1. IdeTypes'
    <2>1. start_sector' \in Nat
      BY <1>r, IdeNumbers, SMTT(30)
    <2>. QED BY <1>u, <1>r, <2>1, Zenon DEF IInv, IdeTypes, DiskType, StatusType, DriverType
  <1>2. IdeProgress'
    BY <1>u, <1>b, <1>r, Zenon DEF IInv, IdeProgress, Position
  <1>3. IdeDevice'
    BY <1>u, <1>b, <1>d, <1>s, <1>r, Zenon DEF IdeDevice
  <1>4. IdeFrame'
    BY <1>u, Zenon DEF IInv, IdeFrame, Addressable, InRequest
  <1>5. IdeContent'
    BY <1>u, <1>b, <1>r, Zenon DEF IInv, IdeContent, Addressable, Agree
  <1>. QED BY <1>1, <1>2, <1>3, <1>4, <1>5, Zenon DEF IInv
--------------------------------------------------------------------------------
\* The drives start quiet, and what is on them is what was there before.
LEMMA InitIsOK == ASSUME IdeAssumptions, IdeInit PROVE IInv
  <1>1. IdeTypes
    <2>1. DiskType
      <3>1. \A d \in Drives : Sectors[d] \in Nat
        BY Zenon DEF IdeAssumptions
      <3>2. \A d \in Drives : \A s \in 0 .. Sectors[d] - 1 : Sector(d, 0, s) \in AnySector
        BY <3>1 DEF Sector, AnySector
      <3>. QED BY <3>2, Zenon DEF IdeInit, DiskType
    <2>2. StatusType
      BY Zenon DEF IdeInit, StatusType
    <2>3. command \in Commands
      BY Zenon DEF IdeInit, Commands, NoCommand
    <2>4. DriverType
      BY SMTT(30) DEF IdeInit, DriverType, Requests
    <2>. QED BY <2>1, <2>2, <2>3, <2>4, Zenon DEF IdeTypes
  <1>2. IdeProgress /\ IdeDevice
    BY Zenon DEF IdeInit, IdeProgress, IdeDevice, NoCommand
  <1>3. IdeFrame /\ IdeContent
    BY SMTT(30) DEF IdeInit, IdeFrame, IdeContent
  <1>. QED BY <1>1, <1>2, <1>3, Zenon DEF IInv

\* Every step of the driver and of the device preserves the invariant.
LEMMA NextKeeps == ASSUME IdeAssumptions, IInv, [IdeNext]_ide_vars PROVE IInv'
  <1>1. CASE UNCHANGED ide_vars
    <2>1. /\ UNCHANGED <<disk, busy, drq, err, command, pc, request, start_sector, todo, chunk>>
          /\ UNCHANGED <<data, result, requests, before, late>>
      BY <1>1, Zenon DEF ide_vars, device, driver
    <2>2. IdeTypes'
      BY <2>1, Zenon DEF IInv, IdeTypes, DiskType, StatusType, DriverType
    <2>3. IdeProgress' /\ IdeFrame'
      BY <2>1, Zenon DEF IInv, IdeProgress, Position, IdeFrame, Addressable, InRequest
    <2>4. IdeDevice' /\ IdeContent'
      BY <2>1, Zenon DEF IInv, IdeDevice, Position, Pending, IdeContent, Agree, Addressable
    <2>. QED BY <2>2, <2>3, <2>4, Zenon DEF IInv
  <1>2. CASE IdeNext
    BY <1>2, DeviceReadyKeeps, DeviceFailKeeps, BeginKeeps, LoopKeeps, WriteCommandKeeps,
       WritePacketKeeps, CheckErrorKeeps, MoveSectorKeeps, EndOfChunkKeeps, Zenon DEF IdeNext
  <1>. QED BY <1>1, <1>2, Zenon

\* Between requests the invariant is what a caller sees.
LEMMA IInvIsRight == ASSUME IdeAssumptions, IInv PROVE IdeMovesItsSectors
  <1>. SUFFICES ASSUME pc = "idle", Addressable PROVE
        /\ result # "panicked"
        /\ \A d \in Drives : \A s \in 0 .. Sectors[d] - 1 :
                request.op = "read" \/ ~InRequest(d, s) => disk[d][s] = before[d][s]
        /\ result = "Ok" /\ ~late =>
                /\ Len(data) = request.n
                /\ \A i \in 1 .. request.n :
                        data[i] = disk[request.drive][request.start + i - 1]
    BY Zenon DEF IdeMovesItsSectors
  <1>1. result # "panicked"
    BY Zenon DEF IInv, IdeProgress
  <1>2. \A d \in Drives : \A s \in 0 .. Sectors[d] - 1 :
            request.op = "read" \/ ~InRequest(d, s) => disk[d][s] = before[d][s]
    BY Zenon DEF IInv, IdeFrame
  <1>3. result = "Ok" /\ ~late =>
            Len(data) = request.n /\ \A i \in 1 .. Len(data) : Agree(i)
    BY Zenon DEF IInv, IdeContent
  <1>. QED BY <1>1, <1>2, <1>3, Zenon DEF Agree

\* Whatever the device does between two accesses of the driver: a request that
\* returns Ok has moved exactly its sectors, one that fails has changed no other,
\* and the assertions of the driver hold.
THEOREM IdeAlwaysMovesItsSectors ==
    ASSUME IdeAssumptions PROVE IdeSpec => []IdeMovesItsSectors
  <1>. QED BY InitIsOK, NextKeeps, IInvIsRight, PTL DEF IdeSpec
--------------------------------------------------------------------------------
(* The table of the FAT file system *)

\* What is written into the table, and the bytes it is made of
Entries == {FreeEntry, EndOfChainEntry, BadEntry} \union {NextEntry(n) : n \in TableLinks}
Bytes == [0 .. TableSize - 1 -> Octet]

\* The inductive invariant: the bytes of every entry hold the number of what was
\* last written for its cluster.
TableInv ==
    /\ fat_type \in FatTypes /\ TableClusters \subseteq 2 .. number_of_fat_entries - 1
    /\ buffer \in Bytes
    /\ chain \in [TableClusters -> Entries]
    /\ \A c \in TableClusters : /\ to_u32(fat_type, chain[c]) >= 0
                                /\ Raw(fat_type, buffer, c) = to_u32(fat_type, chain[c])
    /\ \A o \in 0 .. TableSize - 1 : buffer[o] # on_disk[o] => o \div TableSector \in dirty_bitmap

\* The size of the table is a number.
LEMMA SizeIsNat == ASSUME TableAssumptions PROVE TableSize \in Nat
  <1>1. \A m, n \in Nat : m * n \in Nat
    OBVIOUS
  <1>. QED BY <1>1, Zenon DEF TableAssumptions, TableSize

\* to_u32 gives numbers of the type's width, which from_u32 turns back.
LEMMA RoundTrip ==
    ASSUME TableAssumptions, NEW ty \in FatTypes, NEW e \in Entries, to_u32(ty, e) >= 0
    PROVE  to_u32(ty, e) \in Nat /\ to_u32(ty, e) < Top(ty) /\ from_u32(ty, to_u32(ty, e)) = e
  <1>1. Top(ty) \in {4096, 65536, 268435456}
    BY DEF Top, FatTypes
  <1>2. CASE e = FreeEntry
    <2>1. to_u32(ty, e) = 0
      BY <1>2, Zenon DEF to_u32, FreeEntry, EndOfChainEntry, BadEntry
    <2>. QED BY <1>1, <1>2, <2>1 DEF from_u32
  <1>3. CASE e = EndOfChainEntry
    <2>1. to_u32(ty, e) = Top(ty) - 8
      BY <1>3, Zenon DEF to_u32, FreeEntry, EndOfChainEntry, BadEntry
    <2>. QED BY <1>1, <1>3, <2>1 DEF from_u32
  <1>4. CASE e = BadEntry
    <2>1. to_u32(ty, e) = Top(ty) - 9
      BY <1>4, Zenon DEF to_u32, FreeEntry, EndOfChainEntry, BadEntry
    <2>. QED BY <1>1, <1>4, <2>1 DEF from_u32
  <1>5. CASE \E n \in TableLinks : e = NextEntry(n)
    <2>1. PICK n \in TableLinks : e = NextEntry(n)
      BY <1>5, Zenon
    <2>2. n \in Nat /\ e.kind = "Next" /\ e.next = n /\ e # FreeEntry /\ e # EndOfChainEntry /\ e # BadEntry
      BY <2>1, Zenon DEF NextEntry, FreeEntry, EndOfChainEntry, BadEntry, TableAssumptions
    <2>3. to_u32(ty, e) = n /\ n \in 2 .. Top(ty) - 10
      BY <1>1, <2>2 DEF to_u32
    <2>. QED BY <1>1, <2>1, <2>2, <2>3 DEF from_u32
  <1>. QED BY <1>2, <1>3, <1>4, <1>5, Zenon DEF Entries

\* The bytes of an entry lie in the table.
LEMMA Offsets ==
    ASSUME TableAssumptions, fat_type \in FatTypes, NEW c \in 2 .. number_of_fat_entries - 1
    PROVE  /\ fat_type = "Fat12" => /\ fat_offset(fat_type, c) = (c * 3) \div 2
                                    /\ (c * 3) \div 2 \in 0 .. TableSize - 2
           /\ fat_type = "Fat16" => fat_offset(fat_type, c) = c * 2 /\ c * 2 \in 0 .. TableSize - 2
           /\ fat_type = "Fat32" => fat_offset(fat_type, c) = c * 4 /\ c * 4 \in 0 .. TableSize - 4
  <1>1. TableSize \in Nat
    BY SizeIsNat, Zenon
  <1>. QED BY <1>1 DEF fat_offset, number_of_fat_entries, FatTypes

\* What the table holds are bytes.
LEMMA BufferBytes ==
    ASSUME buffer \in Bytes, NEW q \in 0 .. TableSize - 1
    PROVE  buffer[q] \in Octet
  BY Zenon DEF Bytes

\* r is b with a byte replaced.
Put(b, o, x, r) ==
    r \in Bytes /\ r[o] = x /\ \A q \in 0 .. TableSize - 1 : q # o => r[q] = b[q]

\* Storing a byte changes no other.
LEMMA OneByte ==
    ASSUME NEW b \in Bytes, NEW o \in 0 .. TableSize - 1, NEW x \in Octet
    PROVE  Put(b, o, x, [b EXCEPT ![o] = x])
  BY Zenon DEF Bytes, Put

\* The buffer with two bytes replaced
LEMMA TwoBytes ==
    ASSUME TableAssumptions, NEW b \in Bytes, NEW o, o \in 0 .. TableSize - 2,
           NEW x \in Octet, NEW y \in Octet
    PROVE  \E c : /\ Put(b, o, x, c)
                  /\ Put(c, o + 1, y, [b EXCEPT ![o] = x, ![o + 1] = y])
  <1>1. TableSize \in Nat /\ o \in 0 .. TableSize - 1 /\ o + 1 \in 0 .. TableSize - 1
    BY SizeIsNat
  <1>. DEFINE c == [b EXCEPT ![o] = x]
  <1>2. Put(b, o, x, c)
    BY <1>1, OneByte, Zenon
  <1>. HIDE DEF c
  <1>a. c \in Bytes
    BY <1>2, Zenon DEF Put
  <1>3. Put(c, o + 1, y, [c EXCEPT ![o + 1] = y])
    BY <1>1, <1>a, OneByte, Zenon
  <1>. QED BY <1>2, <1>3, Zenon DEF c

\* The buffer with four bytes replaced
LEMMA FourBytes ==
    ASSUME TableAssumptions, NEW b \in Bytes, NEW o, o \in 0 .. TableSize - 4,
           NEW w \in Octet, NEW x \in Octet, NEW y \in Octet, NEW z \in Octet
    PROVE  \E c, d, e :
              /\ Put(b, o, w, c) /\ Put(c, o + 1, x, d) /\ Put(d, o + 2, y, e)
              /\ Put(e, o + 3, z, [b EXCEPT ![o] = w, ![o + 1] = x, ![o + 2] = y, ![o + 3] = z])
  <1>1. /\ TableSize \in Nat /\ o \in 0 .. TableSize - 2
        /\ o + 2 \in 0 .. TableSize - 1 /\ o + 3 \in 0 .. TableSize - 1
    BY SizeIsNat
  <1>. DEFINE d == [b EXCEPT ![o] = w, ![o + 1] = x]
  <1>2. \E c : Put(b, o, w, c) /\ Put(c, o + 1, x, d)
    BY <1>1, TwoBytes, Zenon
  <1>. HIDE DEF d
  <1>a. d \in Bytes
    BY <1>2, Zenon DEF Put
  <1>. DEFINE e == [d EXCEPT ![o + 2] = y]
  <1>3. Put(d, o + 2, y, e)
    BY <1>1, <1>a, OneByte, Zenon
  <1>. HIDE DEF e
  <1>b. e \in Bytes
    BY <1>3, Zenon DEF Put
  <1>4. Put(e, o + 3, z, [e EXCEPT ![o + 3] = z])
    BY <1>1, <1>b, OneByte, Zenon
  <1>5. [e EXCEPT ![o + 3] = z] = [b EXCEPT ![o] = w, ![o + 1] = x, ![o + 2] = y, ![o + 3] = z]
    BY Zenon DEF d, e
  <1>. QED BY <1>2, <1>3, <1>4, <1>5, Zenon

\* What Packed does: the bytes stay bytes, the entry reads back as the number stored,
\* every other entry as before, the one that shares a byte with it included, and what
\* has changed is in a sector that is marked.
Stores(c, v, b) ==
    /\ b \in Bytes /\ Raw(fat_type, b, c) = v
    /\ \A d \in 2 .. number_of_fat_entries - 1 : d # c => Raw(fat_type, b, d) = Raw(fat_type, buffer, d)
    /\ \A q \in 0 .. TableSize - 1 : b[q] # buffer[q] => q \div TableSector \in Marked(c)

\* What entries of 12 bits are read and stored as
LEMMA Bytes12 ==
    ASSUME TableAssumptions, fat_type = "Fat12", buffer \in Bytes,
           NEW c \in 2 .. number_of_fat_entries - 1, NEW o, o = fat_offset(fat_type, c)
    PROVE  /\ c \in Nat /\ o = (c * 3) \div 2 /\ o # o + 1
           /\ o \in 0 .. TableSize - 1 /\ o + 1 \in 0 .. TableSize - 1 /\ o \in 0 .. TableSize - 2
           /\ \A b : Raw(fat_type, b, c) = From(c, b[o], b[o + 1])
           /\ \A v : Packed(c, v) = [buffer EXCEPT ![o] = Low(c, buffer[o], v),
                                                   ![o + 1] = High(c, buffer[o + 1], v)]
  <1>1. /\ c \in Nat /\ o = (c * 3) \div 2 /\ o # o + 1
        /\ o \in 0 .. TableSize - 1 /\ o + 1 \in 0 .. TableSize - 1 /\ o \in 0 .. TableSize - 2
    BY SizeIsNat, Offsets DEF FatTypes
  <1>2. c % 2 = 0 \/ c % 2 = 1
    BY <1>1
  <1>3. \A b : Raw(fat_type, b, c) = From(c, b[o], b[o + 1])
    <2>1. CASE c % 2 = 1
      BY <2>1 DEF Raw, From
    <2>2. CASE c % 2 = 0
      BY <2>2 DEF Raw, From
    <2>. QED BY <1>2, <2>1, <2>2, Zenon
  <1>4. ASSUME NEW v
        PROVE  Packed(c, v) = [buffer EXCEPT ![o] = Low(c, buffer[o], v),
                                             ![o + 1] = High(c, buffer[o + 1], v)]
    <2>1. CASE c % 2 = 1
      <3>1. Packed(c, v) = [buffer EXCEPT ![o] = (@ % 16) + ((v * 16) % 256), ![o + 1] = (v \div 16) % 256]
        BY <2>1 DEF Packed
      <3>2. Packed(c, v) = [buffer EXCEPT ![o] = (buffer[o] % 16) + ((v * 16) % 256), ![o + 1] = (v \div 16) % 256]
        BY <3>1, Zenon
      <3>. QED BY <2>1, <3>2 DEF Low, High
    <2>2. CASE c % 2 = 0
      <3>1. Packed(c, v) = [buffer EXCEPT ![o] = v % 256, ![o + 1] = (@ - (@ % 16)) + ((v \div 256) % 256)]
        BY <2>2 DEF Packed
      <3>2. Packed(c, v) = [buffer EXCEPT ![o] = v % 256, ![o + 1] = (buffer[o + 1] - (buffer[o + 1] % 16)) + ((v \div 256) % 256)]
        BY <3>1, <1>1, Zenon DEF Bytes
      <3>3. Low(c, buffer[o], v) = v % 256
        BY <2>2 DEF Low
      <3>4. High(c, buffer[o + 1], v) = (buffer[o + 1] - (buffer[o + 1] % 16)) + ((v \div 256) % 256)
        BY <2>2 DEF High
      <3>. QED BY <3>2, <3>3, <3>4, SMTT(30)
    <2>. QED BY <1>2, <2>1, <2>2, Zenon
  <1>. QED BY <1>1, <1>3, <1>4, Zenon

\* Two entries of 12 bits lie in three bytes: storing one leaves the other.
LEMMA Packs12 ==
    ASSUME TableAssumptions, fat_type = "Fat12", buffer \in Bytes,
           NEW c \in 2 .. number_of_fat_entries - 1, NEW v \in TwelveBits
    PROVE  Stores(c, v, Packed(c, v))
  <1>1. PICK o : o = fat_offset(fat_type, c)
    BY Zenon
  <1>2. PICK b : b = Packed(c, v)
    BY Zenon
  <1>. DEFINE x == buffer[o]
              y == buffer[o + 1]
  <1>3. /\ c \in Nat /\ o # o + 1
        /\ o \in 0 .. TableSize - 1 /\ o + 1 \in 0 .. TableSize - 1 /\ o \in 0 .. TableSize - 2
        /\ \A z : Raw(fat_type, z, c) = From(c, z[o], z[o + 1])
    BY <1>1, Bytes12, Zenon
  <1>4. x \in Octet /\ y \in Octet
    BY <1>3, BufferBytes, Zenon
  <1>. HIDE DEF x, y
  <1>5. /\ Low(c, x, v) \in Octet /\ High(c, y, v) \in Octet
        /\ From(c, Low(c, x, v), High(c, y, v)) = v
        /\ c % 2 = 1 => Low(c, x, v) % 16 = x % 16
        /\ c % 2 = 0 => High(c, y, v) \div 16 = y \div 16
    <2>1. Fits12(c, x, y, v)
      BY <1>3, <1>4, Numbers12, Zenon
    <2>. QED BY <2>1, Zenon DEF Fits12
  <1>6. PICK r : Put(buffer, o, Low(c, x, v), r) /\ Put(r, o + 1, High(c, y, v), b)
    <2>1. b = [buffer EXCEPT ![o] = Low(c, x, v), ![o + 1] = High(c, y, v)]
      BY <1>1, <1>2, Bytes12, SMTT(30) DEF x, y
    <2>2. \E r : Put(buffer, o, Low(c, x, v), r)
                 /\ Put(r, o + 1, High(c, y, v), [buffer EXCEPT ![o] = Low(c, x, v), ![o + 1] = High(c, y, v)])
      BY <1>3, <1>5, TwoBytes, Zenon
    <2>. QED BY <2>1, <2>2, Zenon
  <1>7. /\ b \in Bytes /\ b[o] = Low(c, x, v) /\ b[o + 1] = High(c, y, v)
        /\ \A q \in 0 .. TableSize - 1 : q # o /\ q # o + 1 => b[q] = buffer[q]
    BY <1>3, <1>6, Zenon DEF Put
  <1>8. Raw(fat_type, b, c) = v
    BY <1>3, <1>5, <1>7, Zenon
  <1>9. ASSUME NEW d \in 2 .. number_of_fat_entries - 1, d # c PROVE Raw(fat_type, b, d) = Raw(fat_type, buffer, d)
    <2>1. PICK p : p = fat_offset(fat_type, d)
      BY Zenon
    <2>2. /\ d \in Nat /\ p # p + 1 /\ p \in 0 .. TableSize - 1 /\ p + 1 \in 0 .. TableSize - 1
          /\ \A z : Raw(fat_type, z, d) = From(d, z[p], z[p + 1])
      BY <2>1, Bytes12, Zenon
    <2>3. /\ o # p /\ p + 1 # o + 1
          /\ d % 2 = 1 => p + 1 # o /\ (p = o + 1 => c % 2 = 0)
          /\ d % 2 # 1 => p # o + 1 /\ (p + 1 = o => c % 2 = 1)
      BY <1>1, <1>3, <1>9, <2>1, <2>2, Bytes12, Places12, SMTT(30)
    <2>4. CASE d % 2 = 1
      <3>1. b[p + 1] = buffer[p + 1] /\ b[p] \div 16 = buffer[p] \div 16
        BY <1>5, <1>7, <2>2, <2>3, <2>4, Zenon DEF y
      <3>. QED BY <2>2, <2>4, <3>1, SMTT(30) DEF From
    <2>5. CASE d % 2 # 1
      <3>1. b[p] = buffer[p] /\ b[p + 1] % 16 = buffer[p + 1] % 16
        BY <1>5, <1>7, <2>2, <2>3, <2>5, Zenon DEF x
      <3>. QED BY <2>2, <2>5, <3>1, SMTT(30) DEF From
    <2>. QED BY <2>4, <2>5, Zenon
  <1>10. ASSUME NEW q \in 0 .. TableSize - 1, b[q] # buffer[q] PROVE q \div TableSector \in Marked(c)
    BY <1>1, <1>7, <1>10, Zenon DEF Marked
  <1>. QED BY <1>2, <1>7, <1>8, <1>9, <1>10, Zenon DEF Stores

\* An aligned entry lies in one sector.
LEMMA SameSector ==
    ASSUME TableAssumptions, NEW c \in Nat
    PROVE  /\ (c * 2 + 1) \div TableSector = (c * 2) \div TableSector
           /\ \A j \in 1 .. 3 : (c * 4 + j) \div TableSector = (c * 4) \div TableSector
  <1>1. PICK k \in Nat \ {0} : TableSector = 4 * k
    <2>1. TableSector = 4 * (TableSector \div 4) /\ TableSector \div 4 \in Nat \ {0}
      BY DEF TableAssumptions
    <2>. QED BY <2>1, Zenon
  <1>2. ASSUME NEW a \in Nat, NEW q \in Nat, q * TableSector <= a, a < (q + 1) * TableSector
        PROVE  a \div TableSector = q
    BY <1>1, <1>2
  <1>3. ASSUME NEW a \in Nat
        PROVE  \E q \in Nat : q = a \div TableSector /\ q * TableSector <= a /\ a < (q + 1) * TableSector
    BY <1>1, <1>3
  <1>4. ASSUME NEW q \in Nat
        PROVE  \E m \in Nat : q * TableSector = 4 * m /\ (q + 1) * TableSector = 4 * m + 4 * k
    <2>1. q * k \in Nat /\ q * TableSector = 4 * (q * k) /\ (q + 1) * TableSector = 4 * (q * k) + 4 * k
      BY <1>1
    <2>. QED BY <2>1, Zenon
  <1>5. (c * 2 + 1) \div TableSector = (c * 2) \div TableSector
    <2>1. c * 2 \in Nat /\ c * 2 + 1 \in Nat
      OBVIOUS
    <2>2. PICK q \in Nat : /\ q = (c * 2) \div TableSector
                           /\ q * TableSector <= c * 2 /\ c * 2 < (q + 1) * TableSector
      BY <2>1, <1>3, Zenon
    <2>3. PICK m \in Nat : q * TableSector = 4 * m /\ (q + 1) * TableSector = 4 * m + 4 * k
      BY <1>4, Zenon
    <2>4. q * TableSector <= c * 2 + 1 /\ c * 2 + 1 < (q + 1) * TableSector
      BY <1>1, <2>2, <2>3
    <2>. QED BY <1>2, <2>1, <2>2, <2>4, Zenon
  <1>6. ASSUME NEW j \in 1 .. 3 PROVE (c * 4 + j) \div TableSector = (c * 4) \div TableSector
    <2>1. c * 4 \in Nat /\ c * 4 + j \in Nat
      OBVIOUS
    <2>2. PICK q \in Nat : /\ q = (c * 4) \div TableSector
                           /\ q * TableSector <= c * 4 /\ c * 4 < (q + 1) * TableSector
      BY <2>1, <1>3, Zenon
    <2>3. PICK m \in Nat : q * TableSector = 4 * m /\ (q + 1) * TableSector = 4 * m + 4 * k
      BY <1>4, Zenon
    <2>4. q * TableSector <= c * 4 + j /\ c * 4 + j < (q + 1) * TableSector
      BY <1>1, <2>2, <2>3
    <2>. QED BY <1>2, <2>1, <2>2, <2>4, Zenon
  <1>. QED BY <1>5, <1>6, Zenon

\* Entries of 16 bits
LEMMA Packs16 ==
    ASSUME TableAssumptions, fat_type = "Fat16", buffer \in Bytes,
           NEW c \in 2 .. number_of_fat_entries - 1, NEW v \in SixteenBits
    PROVE  Stores(c, v, Packed(c, v))
  <1>1. PICK b : b = Packed(c, v)
    OBVIOUS
  <1>2. PICK o : o = c * 2
    OBVIOUS
  <1>3. /\ c \in Nat /\ o # o + 1 /\ fat_offset(fat_type, c) = o
        /\ o \in 0 .. TableSize - 1 /\ o + 1 \in 0 .. TableSize - 1 /\ o \in 0 .. TableSize - 2
    BY <1>2, SizeIsNat, Offsets, SMTT(30) DEF FatTypes
  <1>4. PICK lo, hi : lo = v % 256 /\ hi = (v \div 256) % 256
    OBVIOUS
  <1>5. lo \in Octet /\ hi \in Octet /\ hi * 256 + lo = v
    BY <1>4, Numbers16, SMT
  <1>6. b = [buffer EXCEPT ![o] = lo, ![o + 1] = hi]
    <2>1. b = [buffer EXCEPT ![fat_offset(fat_type, c)] = v % 256, ![fat_offset(fat_type, c) + 1] = (v \div 256) % 256]
      BY <1>1, SMT DEF Packed
    <2>. QED BY <1>3, <1>4, <2>1, SMT
  <1>7. PICK r : Put(buffer, o, lo, r) /\ Put(r, o + 1, hi, b)
    <2>1. \E r : Put(buffer, o, lo, r) /\ Put(r, o + 1, hi, [buffer EXCEPT ![o] = lo, ![o + 1] = hi])
      BY <1>3, <1>5, TwoBytes, SMTT(30)
    <2>. QED BY <2>1, <1>6, SMT
  <1>8. /\ b \in Bytes /\ b[o] = lo /\ b[o + 1] = hi
        /\ \A q \in 0 .. TableSize - 1 : q # o /\ q # o + 1 => b[q] = buffer[q]
    BY <1>3, <1>7, SMTT(30) DEF Put
  <1>9. Raw(fat_type, b, c) = v
    BY <1>3, <1>5, <1>8, SMT DEF Raw
  <1>10. ASSUME NEW d \in 2 .. number_of_fat_entries - 1, d # c PROVE Raw(fat_type, b, d) = Raw(fat_type, buffer, d)
    <2>1. /\ d \in Nat /\ fat_offset(fat_type, d) = d * 2
          /\ d * 2 \in 0 .. TableSize - 1 /\ d * 2 + 1 \in 0 .. TableSize - 1
      BY SizeIsNat, Offsets, SMT DEF FatTypes
    <2>2. b[d * 2] = buffer[d * 2] /\ b[d * 2 + 1] = buffer[d * 2 + 1]
      BY <1>2, <1>3, <1>8, <1>10, <2>1, SMTT(30)
    <2>. QED BY <2>1, <2>2, SMT DEF Raw
  <1>11. ASSUME NEW q \in 0 .. TableSize - 1, b[q] # buffer[q] PROVE q \div TableSector \in Marked(c)
    <2>1. q = o \/ q = o + 1
      BY <1>8, <1>11, SMT
    <2>2. (o + 1) \div TableSector = o \div TableSector
      BY <1>2, <1>3, SameSector, SMT
    <2>. QED BY <1>3, <2>1, <2>2, SMT DEF Marked
  <1>. QED BY <1>1, <1>8, <1>9, <1>10, <1>11, Zenon DEF Stores

\* Entries of 32 bits, of which 28 are used
LEMMA Packs32 ==
    ASSUME TableAssumptions, fat_type = "Fat32", buffer \in Bytes,
           NEW c \in 2 .. number_of_fat_entries - 1, NEW v \in TwentyEightBits
    PROVE  Stores(c, v, Packed(c, v))
  <1>1. PICK b : b = Packed(c, v)
    OBVIOUS
  <1>2. PICK o : o = c * 4
    OBVIOUS
  <1>3. /\ c \in Nat /\ fat_offset(fat_type, c) = o /\ o \in 0 .. TableSize - 4
        /\ o \in 0 .. TableSize - 1 /\ o + 1 \in 0 .. TableSize - 1
        /\ o + 2 \in 0 .. TableSize - 1 /\ o + 3 \in 0 .. TableSize - 1
        /\ o # o + 1 /\ o # o + 2 /\ o # o + 3 /\ o + 1 # o + 2 /\ o + 1 # o + 3 /\ o + 2 # o + 3
    BY <1>2, SizeIsNat, Offsets, SMTT(30) DEF FatTypes
  <1>4. PICK w, x, y, z : /\ w = v % 256 /\ x = (v \div 256) % 256
                          /\ y = (v \div 65536) % 256 /\ z = (v \div 16777216) % 256
    OBVIOUS
  <1>5. /\ w \in Octet /\ x \in Octet /\ y \in Octet /\ z \in Octet
        /\ ((z % 16) * 256 + y) * 65536 + x * 256 + w = v
    BY <1>4, Numbers28, SMT
  <1>6. b = [buffer EXCEPT ![o] = w, ![o + 1] = x, ![o + 2] = y, ![o + 3] = z]
    <2>1. PICK f : f = fat_offset(fat_type, c)
      OBVIOUS
    <2>2. b = [buffer EXCEPT ![f] = v % 256, ![f + 1] = (v \div 256) % 256,
                             ![f + 2] = (v \div 65536) % 256, ![f + 3] = (v \div 16777216) % 256]
      BY <1>1, <2>1, SMT DEF Packed
    <2>. QED BY <1>3, <1>4, <2>1, <2>2, SMTT(30)
  <1>7. PICK r, s, t : /\ Put(buffer, o, w, r) /\ Put(r, o + 1, x, s)
                       /\ Put(s, o + 2, y, t) /\ Put(t, o + 3, z, b)
    <2>1. \E r, s, t : /\ Put(buffer, o, w, r) /\ Put(r, o + 1, x, s) /\ Put(s, o + 2, y, t)
                       /\ Put(t, o + 3, z, [buffer EXCEPT ![o] = w, ![o + 1] = x, ![o + 2] = y, ![o + 3] = z])
      BY <1>3, <1>5, FourBytes, SMTT(30)
    <2>. QED BY <2>1, <1>6, SMTT(30)
  <1>8. /\ b \in Bytes /\ b[o] = w /\ b[o + 1] = x /\ b[o + 2] = y /\ b[o + 3] = z
        /\ \A q \in 0 .. TableSize - 1 : q # o /\ q # o + 1 /\ q # o + 2 /\ q # o + 3 => b[q] = buffer[q]
    BY <1>3, <1>7, SMTT(30) DEF Put
  <1>9. Raw(fat_type, b, c) = v
    BY <1>3, <1>5, <1>8, SMT DEF Raw
  <1>10. ASSUME NEW d \in 2 .. number_of_fat_entries - 1, d # c PROVE Raw(fat_type, b, d) = Raw(fat_type, buffer, d)
    <2>1. /\ d \in Nat /\ fat_offset(fat_type, d) = d * 4
          /\ d * 4 \in 0 .. TableSize - 1 /\ d * 4 + 1 \in 0 .. TableSize - 1
          /\ d * 4 + 2 \in 0 .. TableSize - 1 /\ d * 4 + 3 \in 0 .. TableSize - 1
      BY SizeIsNat, Offsets, SMTT(30) DEF FatTypes
    <2>2. ASSUME NEW j \in 0 .. 3
          PROVE  d * 4 + j # o /\ d * 4 + j # o + 1 /\ d * 4 + j # o + 2 /\ d * 4 + j # o + 3
      BY <1>2, <1>3, <1>10, <2>1, SMTT(30)
    <2>3. /\ b[d * 4] = buffer[d * 4] /\ b[d * 4 + 1] = buffer[d * 4 + 1]
          /\ b[d * 4 + 2] = buffer[d * 4 + 2] /\ b[d * 4 + 3] = buffer[d * 4 + 3]
      BY <1>8, <2>1, <2>2, SMTT(30)
    <2>. QED BY <2>1, <2>3, SMT DEF Raw
  <1>11. ASSUME NEW q \in 0 .. TableSize - 1, b[q] # buffer[q] PROVE q \div TableSector \in Marked(c)
    <2>1. q = o \/ q = o + 1 \/ q = o + 2 \/ q = o + 3
      BY <1>8, <1>11, SMTT(30)
    <2>2. /\ (o + 1) \div TableSector = o \div TableSector
          /\ (o + 2) \div TableSector = o \div TableSector
          /\ (o + 3) \div TableSector = o \div TableSector
      BY <1>2, <1>3, SameSector, SMTT(30)
    <2>. QED BY <1>3, <2>1, <2>2, SMTT(30) DEF Marked
  <1>. QED BY <1>1, <1>8, <1>9, <1>10, <1>11, Zenon DEF Stores

\* So for every type of table
LEMMA Packs ==
    ASSUME TableAssumptions, fat_type \in FatTypes, buffer \in Bytes,
           NEW c \in 2 .. number_of_fat_entries - 1, NEW v \in Nat, v < Top(fat_type)
    PROVE  Stores(c, v, Packed(c, v))
  <1>1. CASE fat_type = "Fat12"
    <2>1. Top(fat_type) = 4096
      BY <1>1, SMT DEF Top
    <2>2. v \in TwelveBits
      BY <2>1, SMTT(30) DEF TwelveBits
    <2>. QED BY <1>1, <2>2, Packs12
  <1>2. CASE fat_type = "Fat16"
    <2>1. Top(fat_type) = 65536
      BY <1>2, SMT DEF Top
    <2>2. v \in SixteenBits
      BY <2>1, SMT DEF SixteenBits
    <2>. QED BY <1>2, <2>2, Packs16
  <1>3. CASE fat_type = "Fat32"
    <2>1. Top(fat_type) = 268435456
      BY <1>3, SMT DEF Top
    <2>2. v \in TwentyEightBits
      BY <2>1, SMT DEF TwentyEightBits
    <2>. QED BY <1>3, <2>2, Packs32
  <1>. QED BY <1>1, <1>2, <1>3 DEF FatTypes
-------------------------------------------------------------------------------
\* An empty table
LEMMA TableInitIsRight == ASSUME TableAssumptions, TableInit PROVE TableInv
  <1>1. /\ fat_type \in FatTypes /\ TableClusters \subseteq 2 .. number_of_fat_entries - 1
        /\ on_disk = buffer /\ chain = [c \in TableClusters |-> FreeEntry]
        /\ buffer = [o \in 0 .. TableSize - 1 |-> IF o = 0 THEN 248 ELSE 0]
    BY DEF TableInit
  <1>2. buffer \in Bytes /\ chain \in [TableClusters -> Entries]
    BY <1>1 DEF Bytes, Octet, Entries
  <1>3. to_u32(fat_type, FreeEntry) = 0
    BY DEF to_u32, FreeEntry, EndOfChainEntry, BadEntry
  <1>4. ASSUME NEW c \in TableClusters PROVE Raw(fat_type, buffer, c) = 0
    <2>1. c \in 2 .. number_of_fat_entries - 1 /\ TableSize \in Nat
      BY <1>1, SizeIsNat
    <2>2. \A q \in 1 .. TableSize - 1 : buffer[q] = 0
      BY <1>1, <2>1
    <2>3. CASE fat_type = "Fat12"
      <3>1. PICK o : o = fat_offset(fat_type, c)
        OBVIOUS
      <3>2. o \in 1 .. TableSize - 1 /\ o + 1 \in 1 .. TableSize - 1 /\ c \in Nat
        BY <1>1, <2>1, <2>3, <3>1, Offsets, SMTT(30)
      <3>3. Raw(fat_type, buffer, c) = From(c, buffer[o], buffer[o + 1])
        BY <1>2, <2>1, <2>3, <3>1, Bytes12, SMTT(30)
      <3>. QED BY <2>2, <3>2, <3>3 DEF From
    <2>4. CASE fat_type = "Fat16"
      <3>1. /\ fat_offset(fat_type, c) \in 1 .. TableSize - 1 /\ fat_offset(fat_type, c) + 1 \in 1 .. TableSize - 1
        BY <1>1, <2>1, <2>4, Offsets, SMTT(30)
      <3>. QED BY <2>2, <2>4, <3>1 DEF Raw
    <2>5. CASE fat_type = "Fat32"
      <3>1. /\ fat_offset(fat_type, c) \in 1 .. TableSize - 1 /\ fat_offset(fat_type, c) + 1 \in 1 .. TableSize - 1
            /\ fat_offset(fat_type, c) + 2 \in 1 .. TableSize - 1 /\ fat_offset(fat_type, c) + 3 \in 1 .. TableSize - 1
        BY <1>1, <2>1, <2>5, Offsets, SMTT(30)
      <3>. QED BY <2>2, <2>5, <3>1 DEF Raw
    <2>. QED BY <1>1, <2>3, <2>4, <2>5 DEF FatTypes
  <1>. QED BY <1>1, <1>2, <1>3, <1>4, SMTT(30) DEF TableInv

\* write_fat_entry and flush_fat keep the invariant.
LEMMA TableStep == ASSUME TableAssumptions, TableInv, [TableNext]_tableVars PROVE TableInv'
  <1>1. CASE UNCHANGED tableVars
    <2>1. number_of_fat_entries' = number_of_fat_entries
      BY <1>1 DEF tableVars, number_of_fat_entries
    <2>. QED BY <1>1, <2>1, Zenon DEF tableVars, TableInv
  <1>2. ASSUME NEW c \in TableClusters, NEW e \in Entries, write_fat_entry(c, e) PROVE TableInv'
    <2>. DEFINE v == to_u32(fat_type, e)
    <2>1. /\ v >= 0 /\ fat_type' = fat_type /\ on_disk' = on_disk /\ buffer' = Packed(c, v)
          /\ dirty_bitmap' = dirty_bitmap \union Marked(c) /\ chain' = [chain EXCEPT ![c] = e]
      BY <1>2 DEF write_fat_entry
    <2>2. /\ fat_type \in FatTypes /\ buffer \in Bytes /\ c \in 2 .. number_of_fat_entries - 1
          /\ TableClusters \subseteq 2 .. number_of_fat_entries - 1 /\ chain \in [TableClusters -> Entries]
          /\ number_of_fat_entries' = number_of_fat_entries
      BY <2>1, Zenon DEF TableInv, number_of_fat_entries
    <2>3. v \in Nat /\ v < Top(fat_type)
      BY <2>1, <2>2, RoundTrip, SMTT(30)
    <2>4. /\ buffer' \in Bytes /\ Raw(fat_type, buffer', c) = v
          /\ \A d \in 2 .. number_of_fat_entries - 1 :
                d # c => Raw(fat_type, buffer', d) = Raw(fat_type, buffer, d)
          /\ \A q \in 0 .. TableSize - 1 : buffer'[q] # buffer[q] => q \div TableSector \in Marked(c)
      BY <2>1, <2>2, <2>3, Packs, ZenonT(30) DEF Stores
    <2>5. chain' \in [TableClusters -> Entries] /\ chain'[c] = e /\ \A d \in TableClusters : d # c => chain'[d] = chain[d]
      BY <2>1, <2>2, Zenon
    <2>. HIDE DEF v
    <2>6. ASSUME NEW d \in TableClusters
          PROVE  to_u32(fat_type, chain'[d]) >= 0 /\ Raw(fat_type, buffer', d) = to_u32(fat_type, chain'[d])
      <3>1. CASE d = c
        BY <2>1, <2>4, <2>5, <3>1, Zenon DEF v
      <3>2. CASE d # c
        BY <2>2, <2>4, <2>5, <3>2, Zenon DEF TableInv
      <3>. QED BY <3>1, <3>2, SMTT(30)
    <2>7. ASSUME NEW q \in 0 .. TableSize - 1, buffer'[q] # on_disk'[q] PROVE q \div TableSector \in dirty_bitmap'
      BY <2>1, <2>4, <2>7, Zenon DEF TableInv
    <2>. QED BY <2>1, <2>2, <2>4, <2>5, <2>6, <2>7, Zenon DEF TableInv
  <1>3. CASE flush_table
    <2>1. /\ UNCHANGED <<fat_type, buffer, chain>>
          /\ \A o \in 0 .. TableSize - 1 : o \div TableSector \notin dirty_bitmap => on_disk'[o] = on_disk[o]
          /\ \A o \in 0 .. TableSize - 1 : o \div TableSector \in dirty_bitmap => on_disk'[o] = buffer[o]
      BY <1>3, SMTT(30) DEF flush_table
    <2>2. number_of_fat_entries' = number_of_fat_entries
      BY <2>1 DEF number_of_fat_entries
    <2>. QED BY <2>1, <2>2, Zenon DEF TableInv
  <1>. QED BY <1>1, <1>2, <1>3, Zenon DEF TableNext, Entries

\* A set of naturals has a least element: the first free cluster is one.
LEMMA Least == ASSUME NEW S, S \subseteq Nat, S # {} PROVE \E x \in S : \A y \in S : x <= y
  <1>1. PICK n \in S : TRUE BY Zenon
  <1> DEFINE T == {0 .. x : x \in {k \in S : k <= n}}
  <1> DEFINE R == StrictSubsetOrdering(0 .. n)
  <1>2. IsFiniteSet(0 .. n) BY <1>1, FS_Interval
  <1>3. IsWellFoundedOn(R, SUBSET (0 .. n))
    BY <1>2, FS_FiniteSubsetsOfFinite, FS_StrictSubsetOrderingWellFounded, Zenon
  <1>4. T \subseteq SUBSET (0 .. n)
    <2> SUFFICES ASSUME NEW k \in S, k <= n PROVE 0 .. k \subseteq 0 .. n BY Zenon
    <2> QED BY <1>1
  <1>5. T # {}
    <2>1. n <= n BY <1>1
    <2>2. 0 .. n \in T BY <1>1, <2>1, Zenon
    <2> QED BY <2>2, Zenon
  <1>6. PICK x \in T : \A y \in T : ~(<<y, x>> \in R)
    <2> HIDE DEF T, R
    <2> QED BY <1>3, <1>4, <1>5, WFMin, Zenon
  <1>7. PICK k \in S : k <= n /\ x = 0 .. k BY <1>6, Zenon
  <1>8. ASSUME NEW y \in S PROVE k <= y
    <2> SUFFICES ASSUME y < k PROVE FALSE BY <1>1, <1>7
    <2>1. y <= n BY <1>1, <1>7
    <2>2. 0 .. y \in T BY <2>1, Zenon
    <2>3. 0 .. y \subseteq 0 .. k /\ 0 .. y # 0 .. k BY <1>1, <1>7, SMTT(30)
    <2>4. 0 .. y \in SUBSET (0 .. n) /\ x \in SUBSET (0 .. n) BY <1>4, <2>2, Zenon
    <2>5. <<0 .. y, x>> \in R BY <2>3, <2>4, <1>7, Zenon DEF StrictSubsetOrdering
    <2> QED BY <1>6, <2>2, <2>5, Zenon
  <1> QED BY <1>8, <1>7, Zenon

\* What the invariant says of the table
LEMMA TableInvIsRight == ASSUME TableAssumptions, TableInv PROVE TableIsRight
  <1>1. \A c \in TableClusters : read_fat_entry(c) = chain[c]
    <2>. SUFFICES ASSUME NEW c \in TableClusters PROVE read_fat_entry(c) = chain[c]
      OBVIOUS
    <2>1. /\ chain[c] \in Entries /\ fat_type \in FatTypes /\ to_u32(fat_type, chain[c]) >= 0
          /\ Raw(fat_type, buffer, c) = to_u32(fat_type, chain[c])
      BY Zenon DEF TableInv
    <2>. QED BY <2>1, RoundTrip, Zenon DEF read_fat_entry
  <1>2. ASSUME first_free_in_fat # 0
        PROVE  /\ \A c \in TableClusters : chain[c] = FreeEntry => first_free_in_fat <= c
               /\ first_free_in_fat \in TableClusters => chain[first_free_in_fat] = FreeEntry
    <2>. DEFINE unused == {c \in 2 .. number_of_fat_entries - 1 : read_fat_entry(c) = FreeEntry}
    <2>1. unused # {} /\ first_free_in_fat = CHOOSE c \in unused : \A d \in unused : c <= d
      BY <1>2, Zenon DEF first_free_in_fat
    <2>2. unused \subseteq Nat
      BY DEF unused
    <2>3. \E c \in unused : \A d \in unused : c <= d
      BY <2>1, <2>2, Least, Zenon
    <2>4. first_free_in_fat \in unused /\ \A d \in unused : first_free_in_fat <= d
      BY <2>1, <2>3, Zenon
    <2>5. ASSUME NEW c \in TableClusters, chain[c] = FreeEntry PROVE c \in unused
      BY <1>1, <2>5, Zenon DEF TableInv
    <2>6. read_fat_entry(first_free_in_fat) = FreeEntry
      BY <2>4, Zenon
    <2>. QED BY <1>1, <2>4, <2>5, <2>6, Zenon
  <1>. QED BY <1>1, <1>2, Zenon DEF TableIsRight, TableInv

\* Whatever is written in whatever order to a table of 12, 16 or 32 bits per entry, of
\* whatever size, every entry reads back as it was last written, what a flush has still
\* to write is in sectors that are marked, and the first free cluster is found.
THEOREM TableAlwaysRight == ASSUME TableAssumptions PROVE TableSpec => []TableIsRight
  <1>1. TableInit => TableInv
    BY TableInitIsRight
  <1>2. TableInv /\ [TableNext]_tableVars => TableInv'
    BY TableStep
  <1>3. TableInv => TableIsRight
    BY TableInvIsRight
  <1>. QED BY <1>1, <1>2, <1>3, PTL DEF TableSpec
--------------------------------------------------------------------------------
(* The log *)

\* A piece of an event, and the log file of an earlier boot
Piece == (Nat \ {0}) \X Nat
OldLog == <<<<0, 0>>>>

\* What the driver of the log relies on: only the boot has a static buffer, a file
\* that is open was truncated, one that was not opened yet is the old one, and file
\* and buffer together hold what was logged.
LogTypes ==
    /\ log_buffer \in Seq(Piece) /\ logged \in Seq(Piece)
    /\ events \in Nat /\ saved \in Nat
    /\ dynamic \/ (boot = "early" /\ Len(log_buffer) <= StaticSize)
FileIsRight ==
    /\ log_disk \in Seq(Piece) \/ log_disk = OldLog
    /\ file => log_disk \in Seq(Piece)
    /\ ~file /\ ~shutdown => log_disk = OldLog
LogInv ==
    ~log_panicked =>
        /\ LogTypes /\ FileIsRight
        /\ InFile \o log_buffer = logged
        /\ saved > 0 => shutdown /\ Len(InFile) = saved

\* What the log file has of this boot
LEMMA InFileIs ==
    /\ log_disk \in Seq(Piece) => InFile = log_disk
    /\ log_disk = OldLog => InFile = <<>>
    /\ FileIsRight => InFile \in Seq(Piece)
  <1>1. ASSUME log_disk \in Seq(Piece) PROVE InFile = log_disk
    <2>1. CASE log_disk = <<>>
      BY <2>1 DEF InFile
    <2>2. CASE log_disk # <<>>
      <3>1. log_disk[1] \in Piece
        BY <1>1, <2>2
      <3>2. <<0, 0>> \notin Piece
        BY DEF Piece
      <3>. QED BY <3>1, <3>2, Zenon DEF InFile
    <2>. QED BY <2>1, <2>2
  <1>2. ASSUME log_disk = OldLog PROVE InFile = <<>>
    BY <1>2 DEF OldLog, InFile
  <1>3. <<>> \in Seq(Piece)
    OBVIOUS
  <1>. QED BY <1>1, <1>2, <1>3, Zenon DEF FileIsRight

\* The pieces of an event are new ones, and a static buffer takes what fits.
LEMMA PiecesFit ==
    ASSUME LogAssumptions, LogTypes
    PROVE  /\ EventPieces(Fits) \in Seq(Piece)
           /\ push_str(Fits) = log_buffer \o EventPieces(Fits)
           /\ log_buffer \o EventPieces(Fits) \in Seq(Piece)
           /\ ~dynamic => Len(log_buffer \o EventPieces(Fits)) <= StaticSize
  <1>. DEFINE n == Fits
              p == EventPieces(n)
  <1>1. Len(log_buffer) \in Nat /\ Pieces \in Nat /\ StaticSize \in Nat /\ events \in Nat
    BY DEF LogTypes, LogAssumptions
  <1>2. n \in Nat /\ (~dynamic => Len(log_buffer) + n <= StaticSize)
    <2>1. ~dynamic => Len(log_buffer) <= StaticSize
      BY Zenon DEF LogTypes
    <2>. QED BY <1>1, <2>1 DEF Fits
  <1>. HIDE DEF n
  <1>3. p = [i \in 1 .. n |-> <<events + 1, i>>]
    BY Zenon DEF EventPieces
  <1>4. p \in Seq(Piece) /\ Len(p) = n
    <2>1. \A i \in 1 .. n : <<events + 1, i>> \in Piece
      BY <1>1, <1>2 DEF Piece
    <2>. QED BY <1>2, <1>3, <2>1
  <1>. HIDE DEF p
  <1>5. log_buffer \in Seq(Piece)
    BY Zenon DEF LogTypes
  <1>6. log_buffer \o p \in Seq(Piece) /\ Len(log_buffer \o p) = Len(log_buffer) + Len(p)
    BY <1>4, <1>5
  <1>7. push_str(n) = log_buffer \o p
    BY Zenon DEF push_str, p
  <1>8. ~dynamic => Len(log_buffer \o p) <= StaticSize
    BY <1>2, <1>4, <1>6
  <1>. QED BY <1>4, <1>6, <1>7, <1>8, Zenon DEF n, p

\* A flush that succeeds moves the whole buffer behind what the file has.
LEMMA FlushKeeps ==
    ASSUME FileIsRight, NEW buf \in Seq(Piece), InFile \o buf \in Seq(Piece),
           NEW opens \in BOOLEAN, NEW succeeds \in BOOLEAN,
           flush(buf, opens, succeeds), ~log_panicked'
    PROVE  /\ log_buffer' \in Seq(Piece)
           /\ InFile' \o log_buffer' = InFile \o buf
           /\ Writes(buf, opens) =>
                /\ ~shutdown /\ log_disk' \in Seq(Piece) /\ log_buffer' = <<>>
                /\ InFile' = InFile \o buf
           /\ ~Writes(buf, opens) => log_disk' = log_disk /\ log_buffer' = buf
  <1>1. CASE ~Writes(buf, opens)
    <2>1. log_buffer' = buf /\ log_disk' = log_disk
      BY <1>1, Zenon DEF flush
    <2>2. InFile' = InFile
      BY <2>1, Zenon DEF InFile
    <2>. QED BY <1>1, <2>1, <2>2, Zenon
  <1>2. CASE Writes(buf, opens)
    <2>1. /\ ~shutdown /\ succeeds /\ log_buffer' = <<>>
          /\ log_disk' = (IF file THEN log_disk ELSE <<>>) \o buf
      BY <1>2, Zenon DEF flush, Writes
    <2>2. InFile = IF file THEN log_disk ELSE <<>>
      BY <2>1, InFileIs, Zenon DEF FileIsRight
    <2>3. log_disk' = InFile \o buf
      BY <2>1, <2>2, Zenon
    <2>4. InFile' = log_disk'
      <3>1. (log_disk \in Seq(Piece) => InFile = log_disk)'
        BY InFileIs, PTL
      <3>. QED BY <3>1, <2>3
    <2>5. InFile' \o <<>> = InFile'
      BY <2>3, <2>4
    <2>6. log_buffer' \in Seq(Piece)
      BY <2>1
    <2>. QED BY <1>2, <2>1, <2>3, <2>4, <2>5, <2>6, Zenon
  <1>. QED BY <1>1, <1>2, Zenon

\* Pieces behind the buffer are behind file and buffer.
LEMMA LastIsLast ==
    \A f, b, p \in Seq(Piece) : (f \o b) \o p = f \o (b \o p)
  BY SMTT(30)

\* file and buffer after an event, whose pieces come last
LEMMA EventIsLast ==
    ASSUME LogAssumptions, LogTypes, FileIsRight, InFile \o log_buffer = logged,
           logged' = logged \o EventPieces(Fits)
    PROVE  /\ InFile \o push_str(Fits) = logged'
           /\ push_str(Fits) \in Seq(Piece) /\ logged' \in Seq(Piece)
  <1>. DEFINE p == EventPieces(Fits)
  <1>1. /\ p \in Seq(Piece) /\ log_buffer \o p \in Seq(Piece)
        /\ push_str(Fits) = log_buffer \o p /\ logged' = logged \o p
    BY PiecesFit, Zenon
  <1>. HIDE DEF p
  <1>2. InFile \in Seq(Piece) /\ log_buffer \in Seq(Piece) /\ logged \in Seq(Piece)
    BY InFileIs, Zenon DEF LogTypes
  <1>3. (InFile \o log_buffer) \o p = InFile \o (log_buffer \o p)
    <2>1. InFile \in Seq(Piece) /\ log_buffer \in Seq(Piece) /\ p \in Seq(Piece)
      BY <1>1, <1>2, Zenon
    <2>. QED BY <2>1, LastIsLast, Zenon
  <1>4. logged \o p \in Seq(Piece)
    BY <1>1, <1>2
  <1>. QED BY <1>1, <1>3, <1>4, Zenon

\* Every step but a panic keeps the invariant.
LEMMA LogKeeps ==
    ASSUME LogAssumptions, LogInv, LogNext
    PROVE  LogInv'
  <1>. SUFFICES ASSUME ~log_panicked'
                PROVE  /\ LogTypes' /\ FileIsRight'
                       /\ InFile' \o log_buffer' = logged'
                       /\ saved' > 0 => shutdown' /\ Len(InFile') = saved'
    BY Zenon DEF LogInv
  <1>p. ~log_panicked
    BY SMTT(30) DEF LogNext, event, move_to_dynamic_buffer, Boot, flush_log_file,
           shutdown_log_file
  <1>h. /\ LogTypes /\ FileIsRight /\ InFile \o log_buffer = logged
        /\ saved > 0 => shutdown /\ Len(InFile) = saved
        /\ log_buffer \in Seq(Piece) /\ logged \in Seq(Piece) /\ events \in Nat /\ saved \in Nat
    BY <1>p, Zenon DEF LogInv, LogTypes
  <1>e. events + 1 \in Nat
    BY <1>h
  <1>1. ASSUME NEW grows \in BOOLEAN, event(grows) PROVE LogInv'
    <2>1. /\ log_buffer' = push_str(Fits) /\ logged' = logged \o EventPieces(Fits)
          /\ events' = events + 1 /\ UNCHANGED <<boot, dynamic, file, shutdown, log_disk, trace, saved>>
      BY <1>1, SMTT(30) DEF event
    <2>2. /\ InFile \o log_buffer' = logged' /\ log_buffer' \in Seq(Piece) /\ logged' \in Seq(Piece)
      BY <2>1, <1>h, EventIsLast, Zenon
    <2>3. ~dynamic => Len(log_buffer') <= StaticSize
      BY <2>1, <1>h, PiecesFit, Zenon
    <2>4. LogTypes'
      BY <2>1, <2>2, <2>3, <1>e, <1>h, Zenon DEF LogTypes
    <2>5. FileIsRight' /\ InFile' = InFile
      BY <2>1, <1>h, Zenon DEF FileIsRight, InFile
    <2>. QED BY <2>1, <2>2, <2>4, <2>5, <1>h, Zenon DEF LogInv
  <1>2. CASE move_to_dynamic_buffer \/ Boot
    <2>1. UNCHANGED <<log_buffer, file, shutdown, log_disk, events, logged, saved>>
      BY <1>2, Zenon DEF move_to_dynamic_buffer, Boot
    <2>2. dynamic'
      BY <1>2, <1>h, Zenon DEF move_to_dynamic_buffer, Boot, LogTypes
    <2>3. LogTypes'
      BY <2>1, <2>2, <1>h, Zenon DEF LogTypes
    <2>4. FileIsRight' /\ InFile' = InFile
      BY <2>1, <1>h, Zenon DEF FileIsRight, InFile
    <2>. QED BY <2>1, <2>3, <2>4, <1>h, Zenon DEF LogInv
  <1>3. ASSUME NEW opens \in BOOLEAN, NEW succeeds \in BOOLEAN, flush_log_file(opens, succeeds)
        PROVE  LogInv'
    <2>1. /\ flush(log_buffer, opens, succeeds) /\ file' = (file \/ Writes(log_buffer, opens))
          /\ boot # "early"
          /\ UNCHANGED <<boot, dynamic, shutdown, trace, events, logged, saved>>
      BY <1>3 DEF flush_log_file
    <2>2. /\ log_buffer' \in Seq(Piece) /\ InFile' \o log_buffer' = InFile \o log_buffer
          /\ Writes(log_buffer, opens) =>
                ~shutdown /\ log_disk' \in Seq(Piece) /\ log_buffer' = <<>> /\ InFile' = InFile \o log_buffer
          /\ ~Writes(log_buffer, opens) => log_disk' = log_disk /\ log_buffer' = log_buffer
      BY <2>1, <1>h, FlushKeeps, Zenon
    <2>3. LogTypes'
      BY <2>1, <2>2, <1>h, Zenon DEF LogTypes
    <2>4. FileIsRight'
      BY <2>1, <2>2, <1>h, Zenon DEF FileIsRight
    <2>5. saved > 0 => shutdown /\ Len(InFile') = saved
      BY <2>2, <1>h, Zenon DEF InFile
    <2>. QED BY <2>1, <2>2, <2>3, <2>4, <2>5, <1>h, Zenon DEF LogInv
  <1>4. ASSUME NEW opens \in BOOLEAN, NEW succeeds \in BOOLEAN, NEW grows \in BOOLEAN,
               shutdown_log_file(grows, opens, succeeds)
        PROVE  LogInv'
    <2>. DEFINE buf == push_str(Fits)
    <2>1. /\ LogShutdown(buf, opens, succeeds) /\ logged' = logged \o EventPieces(Fits)
          /\ events' = events + 1 /\ boot = "mounted" /\ ~shutdown
          /\ UNCHANGED <<boot, dynamic, trace>>
      BY <1>4, SMTT(30) DEF shutdown_log_file
    <2>2. InFile \o buf = logged' /\ buf \in Seq(Piece) /\ logged' \in Seq(Piece)
      BY <2>1, <1>h, EventIsLast, Zenon
    <2>. HIDE DEF buf
    <2>3. /\ flush(buf, opens, succeeds) /\ file' = FALSE /\ shutdown' = TRUE
          /\ saved' = IF Writes(buf, opens) THEN Len(logged') ELSE saved
      BY <2>1, Zenon DEF LogShutdown
    <2>4. /\ log_buffer' \in Seq(Piece) /\ InFile' \o log_buffer' = InFile \o buf
          /\ Writes(buf, opens) => log_disk' \in Seq(Piece) /\ InFile' = InFile \o buf
          /\ ~Writes(buf, opens) => log_disk' = log_disk
      BY <2>2, <2>3, <1>h, FlushKeeps, Zenon
    <2>5. dynamic /\ Len(logged') \in Nat
      <3>1. dynamic
        BY <2>1, <1>h, Zenon DEF LogTypes
      <3>2. Len(logged') \in Nat
        BY <2>2
      <3>. QED BY <3>1, <3>2
    <2>6. LogTypes'
      BY <2>1, <2>2, <2>3, <2>4, <2>5, <1>e, <1>h, Zenon DEF LogTypes
    <2>7. FileIsRight'
      BY <2>3, <2>4, <1>h, Zenon DEF FileIsRight
    <2>8. saved' > 0 => Len(InFile') = saved'
      BY <2>1, <2>2, <2>3, <2>4, <1>h, Zenon
    <2>. QED BY <2>2, <2>3, <2>4, <2>6, <2>7, <2>8, Zenon DEF LogInv
  <1>. QED BY <1>1, <1>2, <1>3, <1>4, Zenon DEF LogNext, LogInv

\* However events, flushes of the timer interrupt and the shutdown follow each other,
\* and whether the log file can be opened or not: unless the kernel has panicked the
\* log file and the buffer behind it are all that was logged, once and in order, and
\* what the shutdown saved stays as it is.
THEOREM LogAlwaysComplete ==
    ASSUME LogAssumptions PROVE LogSpec => []LogIsComplete
  <1>1. LogInit => LogInv
    <2>. SUFFICES ASSUME LogInit PROVE LogTypes /\ FileIsRight /\ InFile \o log_buffer = logged /\ saved = 0
      BY DEF LogInv
    <2>1. LogTypes
      BY DEF LogInit, LogTypes, LogAssumptions
    <2>2. FileIsRight
      BY Zenon DEF LogInit, FileIsRight, OldLog
    <2>3. InFile = <<>> /\ log_buffer = <<>> /\ logged = <<>> /\ saved = 0
      BY InFileIs, Zenon DEF LogInit, OldLog
    <2>. QED BY <2>1, <2>2, <2>3
  <1>2. LogInv /\ [LogNext]_log_vars => LogInv'
    <2>1. CASE UNCHANGED log_vars
      BY <2>1, Zenon DEF log_vars, LogInv, LogTypes, FileIsRight, InFile
    <2>. QED BY <2>1, LogKeeps
  <1>3. LogInv => LogIsComplete
    BY Zenon DEF LogInv, LogIsComplete
  <1>. QED BY <1>1, <1>2, <1>3, PTL DEF LogSpec

================================================================================
