--------------------------------- MODULE Acpi ---------------------------------
(***************************************************************************)
(* ACPI from the firmware's tables to the power switch: the search for the *)
(* tables and their reading (acpi/tables/mod.rs), the hand-over from the   *)
(* firmware, the sleep types, the system control interrupt and the sleep   *)
(* (acpi/mod.rs) through the registers of the FACP table                   *)
(* (acpi/tables/facp.rs), and the power command (power/mod.rs).            *)
(*                                                                         *)
(* A table lies in memory at an address.  Its bytes are its contents: AML  *)
(* code, the bytes of the structures of a MADT or SRAT, the address of the *)
(* DSDT for a FACP; whether all its bytes add up to 0 is a flag.           *)
(***************************************************************************)
EXTENDS AmlNamespace

CONSTANT MaxPolls       \* stands for the 10000 polls of the hand-over

VARIABLES firmware,     \* tables and wiring of this machine and the number of events it raises
          boot_pc,      \* where the boot processor is
          entries,      \* addresses of the tables that are still to be read
          tables,       \* BIOS_TABLES: the tables read so far
          polls,
          slp_type_data,
          status, enable, control,  \* the PM1 registers
          latched,      \* the interrupt waits to be delivered
          seen,         \* pm1_event while the handler runs, "idle" outside of it
          raised,       \* number of events raised so far
          CURRENT_CMD,  \* the power command
          served        \* events the handler has acted on
acpiVars == <<code, firmware, boot_pc, entries, tables, polls, slp_type_data, status, enable, control,
              latched, seen, raised, CURRENT_CMD, served>>

tableVars == <<entries, tables>>
pmVars == <<status, enable, control>>
eventVars == <<latched, seen, raised, CURRENT_CMD, served>>

-----------------------------------------------------------------------------
(* Tables.                                                                    *)
\* The RSDP: the loader's, or the first one in the BIOS area whose bytes add up.
Rsdp ==
    IF firmware.loader_rsdp # <<>> THEN firmware.loader_rsdp
    ELSE LET good == SelectSeq(firmware.bios_rsdps, LAMBDA r : r.sum = 0)
         IN  IF good = <<>> THEN <<>> ELSE <<good[1].rsdt>>

RsdtEntries == SelectSeq(firmware.mem[Rsdp[1]].body, LAMBDA a : a # 0)

\* Sizes of the structures of a MADT and of a SRAT, without type and length.
MadtSizes == 0 :> 6 @@ 1 :> 10 @@ 2 :> 8 @@ 3 :> 6 @@ 4 :> 4 @@ 5 :> 10
SratSizes == 0 :> 14 @@ 1 :> 38 @@ 2 :> 22 @@ 3 :> 16 @@ 4 :> 10 @@ 5 :> 30

\* The structures in bytes: each has a type and a length that counts both.  One
\* whose size is not its type's panics, an unknown type keeps its bytes.
RECURSIVE Structs(_, _)
Structs(bytes, sizes) ==
    LET len == bytes[2]
        body == SubSeq(bytes, 3, len)
        rest == Structs(SubSeq(bytes, len + 1, Len(bytes)), sizes)
    IN  IF bytes = <<>> THEN [ok |-> TRUE, structs |-> <<>>]
        ELSE IF Len(bytes) < 2 THEN [ok |-> FALSE, structs |-> <<>>]
        ELSE IF len < 2 \/ len > Len(bytes) \/ (bytes[1] \in DOMAIN sizes /\ Len(body) # sizes[bytes[1]])
        THEN [ok |-> FALSE, structs |-> <<>>]
        ELSE [ok |-> rest.ok, structs |-> <<[type |-> bytes[1], bytes |-> body]>> \o rest.structs]
\* Apic::from_body_bytes and Srat::from_body_bytes.
from_body_bytes(sig, body) ==
    LET skip == IF sig = "APIC" THEN 8 ELSE 12
        r == Structs(SubSeq(body, skip + 1, Len(body)), IF sig = "APIC" THEN MadtSizes ELSE SratSizes)
    IN  [r EXCEPT !.ok = @ /\ Len(body) >= skip]

Read(sig, dsdt, structs, ns) == [sig |-> sig, dsdt |-> dsdt, structs |-> structs, ns |-> ns]
HasStructs(sig) == sig \in {"APIC", "SRAT"}
IsAml(sig) == sig \in {"DSDT", "SSDT"}
FacpOf(read) == SelectSeq(read, LAMBDA t : t.sig = "FACP")

Goto(pc) == boot_pc' = pc
Panics == Goto("panic") /\ UNCHANGED <<code, tableVars>>

\* init_acpi_tables: the RSDP, and the addresses in its RSDT that are not 0.
init_acpi_tables ==
    /\ boot_pc = "rsdp"
    /\ IF Rsdp # <<>> /\ firmware.mem[Rsdp[1]].sum_ok
       THEN entries' = RsdtEntries /\ Goto("rsdt") /\ UNCHANGED <<code, tables>>
       ELSE Panics
    /\ UNCHANGED <<firmware, polls, slp_type_data, pmVars, eventVars>>

\* DescriptorTable::from_physical_ptr.  The code of a DSDT or SSDT is parsed by
\* ParseTable.
from_physical_ptr ==
    LET table == firmware.mem[Head(entries)]
        list == from_body_bytes(table.sig, table.body)
    IN  /\ boot_pc = "rsdt" /\ entries # <<>>
        /\ CASE ~table.sum_ok \/ (HasStructs(table.sig) /\ ~list.ok) -> Panics
             [] table.sum_ok /\ IsAml(table.sig) -> code' = table.body /\ Goto("parse") /\ UNCHANGED tableVars
             [] OTHER ->
                /\ tables' = Append(tables,
                        CASE HasStructs(table.sig) -> Read(table.sig, 0, list.structs, Empty)
                          [] table.sig = "FACP" -> Read(table.sig, table.body[1], <<>>, Empty)
                          [] OTHER -> Read(table.sig, 0, <<>>, Empty))
                /\ entries' = Tail(entries)
                /\ UNCHANGED <<code, boot_pc>>
        /\ UNCHANGED <<firmware, polls, slp_type_data, pmVars, eventVars>>

\* Xsdt::from_body_bytes: code that does not parse is unwrapped.
ParseTable ==
    LET Tree(result) ==
            IF result.out = "ok" THEN Structured(result.node.parts) ELSE [ok |-> FALSE, ns |-> Empty]
        Adds(tree) ==
            IF tree.ok
            THEN /\ tables' = Append(tables, Read(firmware.mem[Head(entries)].sig, 0, <<>>, tree.ns))
                 /\ entries' = Tail(entries)
                 /\ Goto("rsdt")
                 /\ UNCHANGED code
            ELSE Panics
    IN  /\ boot_pc = "parse"
        /\ Adds(Tree(parse_aml))
        /\ UNCHANGED <<firmware, polls, slp_type_data, pmVars, eventVars>>

\* Behind the last entry: the DSDT, whose address only the FACP has.
AddDsdt ==
    LET facp == FacpOf(tables)
        dsdt == IF facp = <<>> THEN 0 ELSE facp[1].dsdt
        added == Len(tables) > Len(RsdtEntries)
    IN  /\ boot_pc = "rsdt" /\ entries = <<>>
        /\ IF dsdt # 0 /\ ~added
           THEN entries' = <<dsdt>> /\ UNCHANGED boot_pc
           ELSE Goto("enable") /\ UNCHANGED entries
        /\ UNCHANGED <<code, firmware, tables, polls, slp_type_data, pmVars, eventVars>>

-----------------------------------------------------------------------------
(* The PM1 registers.  There is an event and a control block a, and perhaps a  *)
(* block b.  The status is read from block a and cleared by writing ones to    *)
(* both.                                                                       *)
Events == {"GBL", "SLPBTN", "RTC", "PWRBTN", "TMR"}
Blocks == IF firmware.has_b THEN {"a", "b"} ELSE {"a"}
write_pm1_status(bits) == status' = [b \in Blocks |-> status[b] \ bits]
write_pm1_enable(bits) == enable' = [b \in Blocks |-> bits]
is_acpi_enabled == control["a"].sci_en

\* The line of the system control interrupt; a rising edge is latched.
Line(s, e) == s["a"] \intersect e["a"] # {}
Latch ==
    latched' = (latched \/ (Line(status', enable') /\ (firmware.level \/ ~Line(status, enable))))

\* Acpi::enable, up to the command to the firmware.  Nobody has assigned the
\* interrupt before, so that a firmware that has enabled ACPI panics.
EnableAcpi ==
    /\ boot_pc = "enable"
    /\ \/ (FacpOf(tables) = <<>> \/ is_acpi_enabled) /\ Goto("panic") /\ UNCHANGED enable
       \/ /\ FacpOf(tables) # <<>> /\ ~is_acpi_enabled
          /\ write_pm1_enable({})
          /\ Goto("poll")
    /\ UNCHANGED <<code, firmware, tableVars, polls, slp_type_data, status, control, eventVars>>

\* The firmware's answer.
FirmwareEnables ==
    /\ boot_pc = "poll" /\ ~is_acpi_enabled
    /\ control' = [control EXCEPT !["a"].sci_en = TRUE]
    /\ UNCHANGED <<code, firmware, boot_pc, tableVars, polls, slp_type_data, status, enable, eventVars>>

Poll ==
    /\ boot_pc = "poll" /\ ~is_acpi_enabled
    /\ IF polls < MaxPolls THEN polls' = polls + 1 /\ UNCHANGED boot_pc ELSE Goto("panic") /\ UNCHANGED polls
    /\ UNCHANGED <<code, firmware, tableVars, slp_type_data, pmVars, eventVars>>

\* All events but the timer's.
EnableEvents ==
    /\ boot_pc = "poll" /\ is_acpi_enabled
    /\ write_pm1_enable({"GBL", "PWRBTN", "SLPBTN", "RTC"})
    /\ status' = status /\ Latch
    /\ Goto("fetch")
    /\ UNCHANGED <<code, firmware, tableVars, polls, slp_type_data, control, seen, raised, CURRENT_CMD, served>>

-----------------------------------------------------------------------------
(* Sleep types.                                                               *)
SleepSeg(i) == UNKW + i     \* the segment _S1_ .. _S5_

\* IntegerData::as_u8, in a sequence of at most one.
as_u8(e) ==
    CASE e.kind = "ByteConst" -> e.val
      [] e.kind = "ConstZero" -> <<0>>
      [] e.kind = "ConstOne" -> <<1>>
      [] e.kind = "ConstOnes" -> <<255>>
      [] OTHER -> <<>>

\* Of a package, the first two elements; what it lacks is 0.
fetch_s_array(ns, i) ==
    LET obj == execute(ns, <<<<SleepSeg(i)>>>>)
        items == SubSeq(obj.parts, 2, IF Len(obj.parts) < 3 THEN Len(obj.parts) ELSE 3)
        bytes == [k \in DOMAIN items |-> as_u8(items[k])]
    IN  IF obj.kind # "Package" \/ \E k \in DOMAIN items : bytes[k] = <<>> THEN <<>>
        ELSE [k \in 1..2 |-> IF k \in DOMAIN bytes THEN bytes[k][1] % 8 ELSE 0]

\* Acpi::init after enable: for each type the first table that has it.
FetchSleepTypes ==
    LET aml == SelectSeq(tables, LAMBDA t : IsAml(t.sig))
        having(i) == {k \in DOMAIN aml : fetch_s_array(aml[k].ns, i) # <<>>}
        first(i) == CHOOSE k \in having(i) : \A l \in having(i) : k <= l
        \* it looks no further once it has a type
        looked(i) == {k \in DOMAIN aml : having(i) = {} \/ k <= first(i)}
    IN  /\ boot_pc = "fetch"
        /\ IF \E i \in 1..5 : \E k \in looked(i) : execute(aml[k].ns, <<<<SleepSeg(i)>>>>).kind = "panic"
           THEN Goto("panic") /\ UNCHANGED slp_type_data
           ELSE /\ slp_type_data' = [i \in 1..5 |-> IF having(i) = {} THEN <<>>
                                                   ELSE fetch_s_array(aml[first(i)].ns, i)]
                /\ Goto("running")
        /\ UNCHANGED <<code, firmware, tableVars, polls, pmVars, eventVars>>

-----------------------------------------------------------------------------
(* Running.  Interrupts are enabled after acpi::init, until the power sequence *)
(* is finished.                                                                *)
Raise(event) ==
    /\ boot_pc \in {"poll", "fetch", "running", "finish"} /\ raised < firmware.events /\ event \notin status["a"]
    /\ status' = [status EXCEPT !["a"] = @ \union {event}]
    /\ raised' = raised + 1
    /\ enable' = enable /\ Latch
    /\ UNCHANGED <<code, firmware, boot_pc, tableVars, polls, slp_type_data, control, seen, CURRENT_CMD, served>>

start_power_sequence(cmd) == CURRENT_CMD' = IF CURRENT_CMD = "none" THEN cmd ELSE CURRENT_CMD

\* acpi_handler reads the status once ...
HandlerReads ==
    /\ boot_pc = "running" /\ seen = {"idle"} /\ latched
    /\ seen' = status["a"]
    /\ latched' = FALSE
    /\ UNCHANGED <<code, firmware, boot_pc, tableVars, polls, slp_type_data, pmVars, raised, CURRENT_CMD, served>>

\* ... and takes the first event it finds in it.
First(bits) ==
    CASE "GBL" \in bits -> {"GBL"}
      [] "GBL" \notin bits /\ "SLPBTN" \in bits -> {"SLPBTN"}
      [] bits \intersect {"GBL", "SLPBTN"} = {} /\ "RTC" \in bits -> {"RTC"}
      [] bits \intersect {"GBL", "SLPBTN", "RTC"} = {} /\ "PWRBTN" \in bits -> {"PWRBTN"}
      [] bits = {"TMR"} -> {"TMR"}
      [] OTHER -> {}

\* Mutant: every event that was read is cleared.
acpi_handler_ClearsAll ==
    LET event == First(seen)
    IN  /\ seen # {"idle"}
        /\ write_pm1_status(seen)
        /\ enable' = enable /\ Latch
        /\ served' = served \union event
        /\ IF event = {"PWRBTN"} THEN start_power_sequence("Shutdown") ELSE UNCHANGED CURRENT_CMD
        /\ seen' = {"idle"}
        /\ UNCHANGED <<code, firmware, boot_pc, tableVars, polls, slp_type_data, control, raised>>

acpi_handler ==
    LET event == First(seen)
    IN  /\ seen # {"idle"}
        /\ write_pm1_status(event)
        /\ enable' = enable /\ Latch
        /\ served' = served \union event
        /\ IF event = {"PWRBTN"} THEN start_power_sequence("Shutdown") ELSE UNCHANGED CURRENT_CMD
        /\ seen' = {"idle"}
        /\ UNCHANGED <<code, firmware, boot_pc, tableVars, polls, slp_type_data, control, raised>>

\* PowerDevice::write of a command and nothing but blanks behind it.
PowerWrite(cmd) ==
    /\ boot_pc = "running" /\ seen = {"idle"}
    /\ start_power_sequence(cmd)
    /\ UNCHANGED <<code, firmware, boot_pc, tableVars, polls, slp_type_data, pmVars, latched, seen, raised, served>>

\* The scheduler stops: finish_power_sequence, with interrupts off.
SchedulerStops ==
    /\ boot_pc = "running" /\ seen = {"idle"} /\ CURRENT_CMD # "none"
    /\ Goto(IF CURRENT_CMD = "Reboot" THEN "reset"
            ELSE IF slp_type_data[5] = <<>> THEN "panic" ELSE "finish")
    /\ UNCHANGED <<code, firmware, tableVars, polls, slp_type_data, pmVars, eventVars>>

\* Acpi::sleep(5): the type to block b, if there is one, then to block a with
\* the bit that makes the machine sleep.
SleepB ==
    /\ boot_pc = "finish"
    /\ control' = [b \in Blocks |-> IF b = "b" THEN [control[b] EXCEPT !.slp_typ = slp_type_data[5][2]] ELSE control[b]]
    /\ Goto("sleep")
    /\ UNCHANGED <<code, firmware, tableVars, polls, slp_type_data, status, enable, eventVars>>

\* Mutant: block a gets the type of block b.
SleepA_OtherType ==
    /\ boot_pc = "sleep"
    /\ control' = [control EXCEPT !["a"] = [@ EXCEPT !.slp_typ = slp_type_data[5][2], !.slp_en = TRUE]]
    /\ Goto("asleep")
    /\ UNCHANGED <<code, firmware, tableVars, polls, slp_type_data, status, enable, eventVars>>

SleepA ==
    /\ boot_pc = "sleep"
    /\ control' = [control EXCEPT !["a"] = [@ EXCEPT !.slp_typ = slp_type_data[5][1], !.slp_en = TRUE]]
    /\ Goto("asleep")
    /\ UNCHANGED <<code, firmware, tableVars, polls, slp_type_data, status, enable, eventVars>>

Boot ==
    init_acpi_tables \/ from_physical_ptr \/ ParseTable \/ AddDsdt \/ EnableAcpi \/ FirmwareEnables \/ Poll
    \/ EnableEvents \/ FetchSleepTypes
Power == SchedulerStops \/ SleepB \/ SleepA
AcpiNext ==
    \/ Boot \/ Power \/ HandlerReads \/ acpi_handler
    \/ \E event \in Events : Raise(event)
    \/ \E cmd \in {"Shutdown", "Reboot"} : PowerWrite(cmd)

AcpiInit ==
    /\ code = <<>> /\ boot_pc = "rsdp" /\ entries = <<>> /\ tables = <<>> /\ polls = 0
    /\ slp_type_data = [i \in 1..5 |-> <<>>]
    /\ status = [b \in Blocks |-> {}]
    /\ enable = [b \in Blocks |-> {"PWRBTN"}]
    /\ control = [b \in Blocks |-> [sci_en |-> b = "a" /\ firmware.enabled, slp_typ |-> 0, slp_en |-> FALSE, other |-> b]]
    /\ latched = FALSE /\ seen = {"idle"} /\ raised = 0 /\ CURRENT_CMD = "none" /\ served = {}
===============================================================================
