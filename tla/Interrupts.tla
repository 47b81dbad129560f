------------------------------ MODULE Interrupts ------------------------------
(***************************************************************************)
(* How interrupts find their handlers: the interrupt descriptor table, the *)
(* vectors given out to its entries, the local APIC and the I/O APICs, set *)
(* up by the boot sequence on a machine that its ACPI tables describe.     *)
(*                                                                         *)
(* Every step runs on one processor under the lock of the table or of the  *)
(* APIC, which turns interrupts off, and is one action.  An IDT index is a *)
(* vector less USER_INTERRUPTS_START; the exceptions below are not here.   *)
(***************************************************************************)
EXTENDS Integers, Sequences, SequencesExt, FiniteSetsExt

CONSTANT Machines   \* what the ACPI tables say: [madt, acpi_enabled, sci, hpet, routes]

VARIABLES
    machine,
    stage,          \* the step of the boot that runs next, or "running"
    idt,            \* field of Interrupts: the handler, "default" or "stub", by index
    redirected,     \* REDIRECTED_INTERRUPTS: what the stub calls
    last_used_user_interrupt,   \* field of Interrupts
    local,          \* registers of the local APIC
    entries,        \* redirection entries of the I/O APICs, by global interrupt
    assigned,       \* history: the irq and handler of each successful assignment
    panicked

vars == <<machine, stage, idt, redirected, last_used_user_interrupt, local, entries,
          assigned, panicked>>

USER_INTERRUPTS_START == 32
MAX_USER_INTERRUPTS == 208
SPECIAL_SCHEDULER_INTERRUPT == 223
SPECIAL_SYSCALL_INTERRUPT == 128 - USER_INTERRUPTS_START
MAX_CPUS == 8

KEYBOARD_INT_NUM == 1
MOUSE_INT_NUM == 12
DEFAULT_INTERRUPT == 0              \* of the PIT
DEFAULT_PRIMARY_INTERRUPT == 14
DEFAULT_SECONDARY_INTERRUPT == 15

Indices == 0..223
Pins == 0..31
--------------------------------------------------------------------------------
(* The MADT: the processors, I/O APICs and overrides that Apic::new keeps.     *)
Structs(type) == SelectSeq(machine.madt, LAMBDA s : s.type = type)
EnabledCpus == SelectSeq(Structs("cpu"), LAMBDA s : s.enabled)
n_cpus == Min({Len(EnabledCpus), MAX_CPUS})
io_apics == Structs("io_apic")
source_overrides == Structs("override")

\* The override of an irq, in a sequence of at most one.
OverrideOf(irq) ==
    LET found == SelectSeq(source_overrides, LAMBDA o : o.source = irq)
    IN  IF found = <<>> THEN <<>> ELSE <<Head(found)>>

GlobalInterrupt(irq) == IF OverrideOf(irq) = <<>> THEN irq ELSE OverrideOf(irq)[1].gsi

\* The pin, in a set of at most one: it has to belong to an I/O APIC.
get_irq_ioapic_entry(irq) ==
    {p \in {GlobalInterrupt(irq)} : \E i \in DOMAIN io_apics :
        p \in io_apics[i].base..io_apics[i].base + io_apics[i].n_entries - 1}

is_entry_taken_Never(p) == FALSE
is_entry_taken(p) == entries[p].vector # 0
is_irq_assigned(irq) == \E p \in get_irq_ioapic_entry(irq) : is_entry_taken(p)

Trigger(irq) == IF OverrideOf(irq) = <<>> THEN 0 ELSE (OverrideOf(irq)[1].flags \div 4) % 4
Polarity(irq) == IF OverrideOf(irq) = <<>> THEN 1 ELSE OverrideOf(irq)[1].flags % 4

\* The destination is the upper byte of an entry; the code puts the number of the
\* processor into its upper five bits.
with_destination(apic_id) == apic_id * 8
--------------------------------------------------------------------------------
NoEntry == [vector |-> 0, masked |-> TRUE, level |-> FALSE, low |-> FALSE, destination |-> 0]

\* What the firmware leaves in the I/O APICs is not empty.
Init ==
    /\ machine \in Machines /\ stage = "init_interrupts"
    /\ idt = [i \in Indices |-> "none"] /\ redirected = [i \in Indices |-> "none"]
    /\ last_used_user_interrupt = 0
    /\ local = [spurious |-> 0, timer |-> 0, error |-> 0]
    /\ entries = [p \in Pins |-> [NoEntry EXCEPT !.vector = 8 + p, !.masked = FALSE]]
    /\ assigned = <<>> /\ panicked = FALSE

At(step) == stage = step /\ ~panicked

Panic ==
    /\ panicked' = TRUE
    /\ UNCHANGED <<machine, stage, idt, redirected, last_used_user_interrupt, local,
                   entries, assigned>>

init_interrupts ==
    /\ At("init_interrupts") /\ stage' = "spurious"
    /\ idt' = [i \in Indices |-> "default"]
    /\ UNCHANGED <<machine, redirected, last_used_user_interrupt, local, entries, assigned,
                   panicked>>

Allocated == last_used_user_interrupt
get_next_interrupt == last_used_user_interrupt' = Allocated + 1
CanAllocate == last_used_user_interrupt < MAX_USER_INTERRUPTS

set_handler(i, handler) == idt' = [idt EXCEPT ![i] = handler] /\ UNCHANGED redirected
set_handler_with_number(i, handler) ==
    idt' = [idt EXCEPT ![i] = "stub"] /\ redirected' = [redirected EXCEPT ![i] = handler]

\* Gives the next vector to a handler, which takes the frame or all registers.
allocate_user_interrupt(handler, all_saved) ==
    /\ get_next_interrupt
    /\ IF all_saved THEN set_handler_with_number(Allocated, handler)
                    ELSE set_handler(Allocated, handler)
AllocatedVector == Allocated + USER_INTERRUPTS_START

(* Apic::new: the tables are read, the I/O APICs cleared, then three vectors   *)
(* of the local APIC are set.                                                  *)
MadtIsUsable == n_cpus > 0 /\ io_apics # <<>> /\ Structs("nmi") = <<>>

reset_all_interrupts ==
    [p \in Pins |-> IF \E i \in DOMAIN io_apics :
                        p \in io_apics[i].base..io_apics[i].base + io_apics[i].n_entries - 1
                    THEN NoEntry ELSE entries[p]]

initialize_spurious_interrupt ==
    /\ At("spurious")
    /\ IF ~MadtIsUsable THEN Panic
       ELSE /\ stage' = "timer" /\ entries' = reset_all_interrupts
            /\ local' = [local EXCEPT !.spurious = AllocatedVector]
            /\ allocate_user_interrupt("spurious_handler", FALSE)
            /\ UNCHANGED <<machine, assigned, panicked>>

initialize_timer ==
    /\ At("timer") /\ stage' = "error"
    /\ local' = [local EXCEPT !.timer = AllocatedVector]
    /\ allocate_user_interrupt("apic_timer_handler", TRUE)
    /\ UNCHANGED <<machine, entries, assigned, panicked>>

setup_error_interrupt ==
    /\ At("error") /\ stage' = "acpi"
    /\ local' = [local EXCEPT !.error = AllocatedVector]
    /\ allocate_user_interrupt("error_interrupt_handler", FALSE)
    /\ UNCHANGED <<machine, entries, assigned, panicked>>
--------------------------------------------------------------------------------
Assignable(irq) ==
    /\ n_cpus > 0 /\ irq < 24
    /\ \E p \in get_irq_ioapic_entry(irq) : ~is_entry_taken(p)
    /\ Trigger(irq) # 2 /\ Polarity(irq) # 2
    /\ CanAllocate /\ EnabledCpus[1].apic_id < 32

NewEntry(irq) ==
    [vector |-> AllocatedVector, masked |-> FALSE, level |-> Trigger(irq) = 3,
     low |-> Polarity(irq) # 1, destination |-> with_destination(EnabledCpus[1].apic_id)]

\* The device that uses the irq, the handler, and the step that follows.
assign_io_irq(irq, handler, all_saved, next) ==
    IF ~Assignable(irq) THEN Panic
    ELSE /\ allocate_user_interrupt(handler, all_saved)
         /\ entries' = [entries EXCEPT ![GlobalInterrupt(irq)] = NewEntry(irq)]
         /\ assigned' = Append(assigned, [irq |-> irq, handler |-> handler])
         /\ stage' = next
         /\ UNCHANGED <<machine, local, panicked>>

\* Acpi::enable.  If the firmware has enabled ACPI an assignment is asserted.
acpi_enable ==
    /\ At("acpi")
    /\ IF ~machine.acpi_enabled
       THEN assign_io_irq(machine.sci, "acpi_handler", FALSE, "hardware_timer")
       ELSE IF ~is_irq_assigned(machine.sci) THEN Panic
       ELSE stage' = "hardware_timer" /\ UNCHANGED <<machine, idt, redirected,
                last_used_user_interrupt, local, entries, assigned, panicked>>

(* The route of the HPET's timer: the first above 15, else the first one that  *)
(* is not assigned.  Asking about a route without an I/O APIC is a panic.      *)
above_15_routes == {r \in machine.routes : r > 15}
unassigned_routes == {r \in machine.routes : ~is_irq_assigned(r)}
first_available_route == Min(unassigned_routes)
AskedRoutes == {r \in machine.routes : \A s \in unassigned_routes : r <= s}
chosen_route ==
    IF above_15_routes # {} THEN Min(above_15_routes) ELSE first_available_route

hardware_timer ==
    /\ At("hardware_timer")
    /\ IF ~machine.hpet
       THEN assign_io_irq(DEFAULT_INTERRUPT, "pit_interrupt", FALSE, "keyboard")
       ELSE IF \/ above_15_routes \cup unassigned_routes = {}
               \/ \E r \in AskedRoutes : get_irq_ioapic_entry(r) = {}
       THEN Panic
       ELSE assign_io_irq(chosen_route, "timer0_handler", TRUE, "keyboard")

keyboard == At("keyboard") /\ assign_io_irq(KEYBOARD_INT_NUM, "ps2_interrupt_handler", FALSE, "mouse")
mouse == At("mouse") /\ assign_io_irq(MOUSE_INT_NUM, "ps2_interrupt_handler", FALSE, "ide_primary")
ide_primary ==
    At("ide_primary") /\ assign_io_irq(DEFAULT_PRIMARY_INTERRUPT, "ide_interrupt_primary", FALSE, "ide_secondary")
ide_secondary ==
    At("ide_secondary") /\ assign_io_irq(DEFAULT_SECONDARY_INTERRUPT, "ide_interrupt_secondary", FALSE, "scheduler")

\* The first call of schedule().
create_scheduler_interrupt ==
    /\ At("scheduler") /\ stage' = "syscall"
    /\ set_handler_with_number(SPECIAL_SCHEDULER_INTERRUPT, "scheduler_interrupt_handler")
    /\ UNCHANGED <<machine, last_used_user_interrupt, local, entries, assigned, panicked>>

create_syscall_interrupt ==
    /\ At("syscall") /\ stage' = "running"
    /\ set_handler_with_number(SPECIAL_SYSCALL_INTERRUPT, "syscall_interrupt_handler")
    /\ UNCHANGED <<machine, last_used_user_interrupt, local, entries, assigned, panicked>>

Next ==
    \/ init_interrupts \/ initialize_spurious_interrupt \/ initialize_timer
    \/ setup_error_interrupt \/ acpi_enable \/ hardware_timer \/ keyboard \/ mouse
    \/ ide_primary \/ ide_secondary \/ create_scheduler_interrupt \/ create_syscall_interrupt
--------------------------------------------------------------------------------
\* What runs when the processor receives a vector.
Dispatch(vector) ==
    LET i == vector - USER_INTERRUPTS_START
    IN  IF i \notin Indices THEN "exception"
        ELSE IF idt[i] = "stub" THEN redirected[i] ELSE idt[i]

\* A legacy device raises the pin its override names; the HPET raises its route.
PinOf(a) == IF a.handler = "timer0_handler" THEN a.irq ELSE GlobalInterrupt(a.irq)
RouteIsOverridden(a) == a.handler = "timer0_handler" /\ GlobalInterrupt(a.irq) # a.irq

IsDelivered(a) ==
    LET e == entries[PinOf(a)]
    IN  /\ ~e.masked /\ Dispatch(e.vector) = a.handler
        /\ e.level <=> Trigger(a.irq) = 3
        /\ EnabledCpus[1].apic_id = 0 => e.destination = 0

\* The boot can only stop on tables it does not handle, or because the HPET has
\* to share a pin: its route above 15 is taken without a look at the SCI, and a
\* route below can be one that a device asks for later.
HpetClashes ==
    /\ machine.hpet
    /\ \/ GlobalInterrupt(machine.sci) \in above_15_routes
       \/ above_15_routes = {} /\ machine.routes # {}
Unsupported ==
    \/ ~MadtIsUsable \/ machine.acpi_enabled \/ EnabledCpus[1].apic_id >= 32
    \/ machine.sci >= 24
    \/ machine.hpet /\ (machine.routes = {} \/ \E r \in machine.routes : r >= 24)
    \/ \E i \in DOMAIN source_overrides :
        LET f == source_overrides[i].flags IN f % 4 = 2 \/ (f \div 4) % 4 = 2
    \/ \E irq \in 0..23 : get_irq_ioapic_entry(irq) = {}
    \/ \E a, b \in {0, 1, 12, 14, 15, machine.sci} :
        a # b /\ GlobalInterrupt(a) = GlobalInterrupt(b)

\* Every device whose interrupt was assigned reaches its own handler, with the
\* trigger mode of its override and at the boot processor; every other pin is
\* masked; the vectors of the local APIC and the two fixed vectors reach theirs,
\* whatever was assigned before or after; and the boot panics only on tables it
\* does not handle or on an HPET route that is in use.
VectorsAreRight ==
    /\ \A i \in DOMAIN assigned : RouteIsOverridden(assigned[i]) \/ IsDelivered(assigned[i])
    /\ stage \notin {"init_interrupts", "spurious"} => \A p \in Pins :
        \/ entries[p].masked \/ \E i \in DOMAIN assigned : p = GlobalInterrupt(assigned[i].irq)
        \/ \A irq \in Pins : p \notin get_irq_ioapic_entry(irq)
    /\ stage \notin {"init_interrupts", "spurious", "timer", "error"} =>
        /\ Dispatch(local.spurious) = "spurious_handler"
        /\ Dispatch(local.timer) = "apic_timer_handler"
        /\ Dispatch(local.error) = "error_interrupt_handler"
    /\ stage = "running" =>
        /\ Dispatch(255) = "scheduler_interrupt_handler"
        /\ Dispatch(128) = "syscall_interrupt_handler"
    /\ panicked => Unsupported \/ HpetClashes
================================================================================
