---------------------------------- MODULE Ide ----------------------------------
(***************************************************************************)
(* Sector reads and writes of the IDE driver (kernel/src/devices/ide.rs):  *)
(* programmed I/O that polls the status register, on a channel shared by   *)
(* the drives.  The device runs on its own between two port accesses.  The *)
(* lock of a device turns interrupts off, so one request runs at a time.   *)
(* A sector is moved in one step.                                          *)
(***************************************************************************)
EXTENDS Integers, Sequences

CONSTANTS Drives,       \* the drives of the channel
          Type,         \* [Drives -> {"Ata", "Atapi"}]
          Sectors,      \* [Drives -> Nat]: number_of_sectors
          MaxChunk,     \* 255: sectors of one ATA command
          LbaSize,      \* 2^24: values of the three LBA registers
          MaxRequests,  \* bound: requests
          MaxLength     \* bound: sectors of a request

IdeAssumptions ==
    /\ Type \in [Drives -> {"Ata", "Atapi"}]
    /\ Sectors \in [Drives -> Nat \ {0}]
    /\ {MaxChunk, LbaSize, MaxRequests, MaxLength} \subseteq Nat \ {0}

VARIABLES disk,     \* [Drives -> contents of the sectors]
          busy, drq, err,   \* bits of the status register
          command,  \* device: what it runs, and the sector it is about to store
          pc,       \* driver: "idle", "loop", "command", "packet", "check", "move"
          request,  \* the call: op, drive, start, n
          start_sector, todo,   \* the loop of read_sync and write_sync
          chunk,    \* sectors the running command still has to move
          data,     \* sectors moved so far; what was read
          result,   \* "Ok", "DeviceError" or "BoundsExceeded"
          requests,
          before,   \* history: disk when the request began
          late      \* history: an error came after the status was checked

device == <<busy, drq, err, command>>
driver == <<pc, request, start_sector, todo, chunk, data, result, requests>>
ide_vars == <<disk, device, driver, before, late>>

Sector(who, call, at) == [who |-> who, call |-> call, at |-> at]
Garbage == Sector("garbage", 0, 0)     \* the data register when no data is there
Nothing == Sector("nothing", 0, 0)

NoCommand == [op |-> "none", drive |-> "none", lba |-> 0, left |-> 0, store |-> Nothing]

\* The drives have been identified (init_new).
IdeInit ==
    /\ disk = [d \in Drives |-> [s \in 0 .. Sectors[d] - 1 |-> Sector(d, 0, s)]]
    /\ busy = FALSE /\ drq = FALSE /\ err = FALSE /\ command = NoCommand
    /\ pc = "idle"
    /\ request = [op |-> "none", drive |-> "none", start |-> 0, n |-> 0]
    /\ start_sector = 0 /\ todo = 0 /\ chunk = 0
    /\ data = <<>> /\ result = "Ok" /\ requests = 0
    /\ before = disk /\ late = FALSE
--------------------------------------------------------------------------------
(* The device (external) *)

\* The running command gets to the next sector: what was written is stored, and
\* data is requested while sectors are left.
DeviceReady ==
    /\ busy
    /\ busy' = FALSE
    /\ drq' = (command.left > 0)
    /\ IF command.store = Nothing THEN UNCHANGED <<disk, command>>
       ELSE /\ disk' = [disk EXCEPT ![command.drive][command.lba] = command.store]
            /\ command' = [command EXCEPT !.lba = @ + 1, !.store = Nothing]
    /\ UNCHANGED <<err, driver, before, late>>

DeviceFail ==
    /\ busy
    /\ busy' = FALSE /\ drq' = FALSE /\ err' = TRUE
    /\ command' = NoCommand
    /\ late' = (late \/ pc = "move")
    /\ UNCHANGED <<disk, driver, before>>
--------------------------------------------------------------------------------
(* The driver *)

\* Both poll the status register.  The device requests no data with an error, so
\* the second does not fail.
wait_until_free == ~busy
wait_until_can_command == wait_until_free /\ ~drq

Return(r) == pc' = "idle" /\ result' = r

\* read_sync and write_sync up to the loop; writes to ATAPI are not implemented.
Begin(op, d, start, n) ==
    /\ pc = "idle" /\ requests < MaxRequests
    /\ op = "write" => Type[d] = "Ata"
    /\ requests' = requests + 1
    /\ request' = [op |-> op, drive |-> d, start |-> start, n |-> n]
    /\ before' = disk /\ late' = FALSE /\ data' = <<>>
    /\ start_sector' = start /\ todo' = n /\ chunk' = 0
    /\ IF start + n >= Sectors[d] THEN Return("BoundsExceeded")
       ELSE pc' = "loop" /\ result' = "none"
    /\ UNCHANGED <<disk, device>>

\* An ATAPI drive reads everything with one packet.
num_now ==
    IF Type[request.drive] = "Ata" /\ todo > MaxChunk THEN MaxChunk ELSE todo

Loop ==
    /\ pc = "loop"
    /\ IF todo = 0 THEN Return("Ok") /\ UNCHANGED <<todo, chunk>>
       ELSE /\ pc' = "command" /\ chunk' = num_now /\ todo' = todo - num_now
            /\ UNCHANGED result
    /\ UNCHANGED <<disk, device, request, start_sector, data, requests, before, late>>

\* wait_until_can_command, then AtaCommand::write or write_packet_command.
WriteCommand ==
    /\ pc = "command"
    /\ wait_until_can_command
    /\ busy' = TRUE /\ err' = FALSE
    /\ command' = [op |-> request.op, drive |-> request.drive,
                   lba |-> start_sector % LbaSize, left |-> chunk, store |-> Nothing]
    /\ pc' = IF Type[request.drive] = "Ata" THEN "check" ELSE "packet"
    /\ UNCHANGED <<disk, drq, request, start_sector, todo, chunk, data, result, requests,
                   before, late>>

\* AtapiPacketCommand::execute: wait, check the error, send the packet with the
\* full address.  The zeros pushed after it are dropped by the device.
WritePacket ==
    /\ pc = "packet"
    /\ wait_until_free
    /\ IF err THEN Return("DeviceError") /\ UNCHANGED device
       ELSE /\ pc' = "check" /\ UNCHANGED <<result, err>>
            /\ busy' = TRUE /\ drq' = FALSE
            /\ command' = [command EXCEPT !.lba = start_sector]
    /\ UNCHANGED <<disk, request, start_sector, todo, chunk, data, requests, before, late>>

\* The error check at the head of read_data_block and write_data_block does not
\* wait for the device.
CheckError ==
    /\ pc = "check"
    /\ IF err THEN Return("DeviceError")
       ELSE pc' = "move" /\ UNCHANGED result
    /\ UNCHANGED <<disk, device, request, start_sector, todo, chunk, data, requests, before, late>>

\* The sector written as the i-th of a request
Written(i) == Sector("caller", requests, i)

\* wait_until_free and one sector of the loop; without a request for data the
\* register gives garbage and what is written is lost.
MoveSector ==
    /\ pc = "move" /\ chunk > 0
    /\ wait_until_free
    /\ chunk' = chunk - 1
    /\ data' = Append(data, CASE request.op = "write" -> Written(Len(data) + 1)
                              [] request.op = "read" /\ drq -> disk[command.drive][command.lba]
                              [] OTHER -> Garbage)
    /\ IF ~drq THEN UNCHANGED device
       ELSE /\ drq' = FALSE
            /\ busy' = (request.op = "write" \/ command.left > 1)
            /\ command' = [command EXCEPT
                    !.left = @ - 1,
                    !.lba = IF request.op = "read" THEN @ + 1 ELSE @,
                    !.store = IF request.op = "write" THEN Written(Len(data) + 1) ELSE Nothing]
            /\ UNCHANGED err
    /\ UNCHANGED <<disk, pc, request, start_sector, todo, result, requests, before, late>>

\* The last wait and assertion of the command, and the step to the next chunk.
EndOfChunk_SameStart ==
    /\ pc = "move" /\ chunk = 0
    /\ wait_until_free
    /\ pc' = "loop"
    /\ UNCHANGED <<disk, device, start_sector, request, todo, chunk, data, result, requests, before, late>>

EndOfChunk ==
    /\ pc = "move" /\ chunk = 0
    /\ wait_until_free
    /\ IF drq THEN Return("panicked") ELSE pc' = "loop" /\ UNCHANGED result
    /\ start_sector' = request.start + Len(data)
    /\ UNCHANGED <<disk, device, request, todo, chunk, data, requests, before, late>>

IdeNext ==
    \/ DeviceReady \/ DeviceFail
    \/ \E op \in {"read", "write"}, d \in Drives, n \in 1 .. MaxLength :
            \E start \in 0 .. Sectors[d] : Begin(op, d, start, n)
    \/ Loop \/ WriteCommand \/ WritePacket \/ CheckError \/ MoveSector \/ EndOfChunk

IdeSpec == IdeInit /\ [][IdeNext]_ide_vars
--------------------------------------------------------------------------------
InRequest(d, s) ==
    d = request.drive /\ s \in request.start .. request.start + request.n - 1

\* The address fits into the registers the driver writes
Addressable ==
    request.drive \in Drives /\ Type[request.drive] = "Ata" =>
        request.start + request.n <= LbaSize

\* A request that returns Ok has read, or stored, exactly its sectors on its
\* drive, however it is cut into commands and wherever the device is busy; one
\* that fails has changed no other sector.  The assertions on the status hold.
\* Excepted are sectors beyond the 24 address bits the driver writes, and an
\* error the device reports after the only look at the error bit.
IdeMovesItsSectors ==
    pc = "idle" /\ Addressable =>
        /\ result # "panicked"
        /\ \A d \in Drives : \A s \in 0 .. Sectors[d] - 1 :
                request.op = "read" \/ ~InRequest(d, s) => disk[d][s] = before[d][s]
        /\ result = "Ok" /\ ~late =>
                /\ Len(data) = request.n
                /\ \A i \in 1 .. request.n :
                        data[i] = disk[request.drive][request.start + i - 1]
================================================================================
