------------------------------- MODULE MCDevices -------------------------------
(***************************************************************************)
(* Devices and what the timer interrupt does besides scheduling, side by   *)
(* side: the system time, a read of the real time clock, requests to IDE   *)
(* drives, the log file, keyboard and mouse, the text console, the graphic *)
(* screen and the setup of the interrupts.  "part" names the one that     *)
(* moves, the others stay in an initial state.                             *)
(***************************************************************************)
EXTENDS Clock, Ide, LogFile

CONSTANTS Dates, MaxUpdates,
          Scancodes, Mice, Movements, Received, BufferSize, MaxActions,
          TextWidth, TextHeight, Outputs, MaxWrites,
          Processes, ScreenWidth, ScreenHeight, CharWidth, LineHeight, Text, Regions, MaxSteps,
          Machines

VARIABLES part,
          rtc_time, rtc_next, updating, unix, updates, format, rtc_pc, reg, round,
          new_round, called,
          wire, port, last, mouse_id, has_extra_byte, input_pc, bytes, active_modifiers,
          active_toggles, sent, at, got, received, console, held, lit, typed, moved,
          joined, lagged, broken, actions,
          console_cmd_buffer, current_attrib, capture, text, text_pos, attrib, serial,
          captured, given, strayed, writes, halted,
          owner_process, memory, pos, drawing, paper, scrolled, pixels, foreign,
          display_panicked, steps,
          machine, stage, idt, redirected, last_used_user_interrupt, local, entries,
          assigned, boot_panicked

rtc_vars == <<rtc_time, rtc_next, updating, unix, updates, format, rtc_pc, reg,
              round, new_round, called>>
input_vars == <<wire, port, last, mouse_id, has_extra_byte, input_pc, bytes,
                active_modifiers, active_toggles, sent, at, got, received, console, held,
                lit, typed, moved, joined, lagged, broken, actions>>
console_vars == <<console_cmd_buffer, current_attrib, capture, text, text_pos, attrib,
                  serial, captured, given, strayed, writes, halted>>
display_vars == <<owner_process, memory, pos, drawing, paper, scrolled, pixels, foreign,
                  display_panicked, steps>>
irq_vars == <<machine, stage, idt, redirected, last_used_user_interrupt, local, entries,
              assigned, boot_panicked>>
device_vars == <<part, vars, rtc_vars, ide_vars, log_vars, input_vars, console_vars,
                 display_vars, irq_vars>>

Chip == INSTANCE Rtc WITH time <- rtc_time, next <- rtc_next, pc <- rtc_pc,
                          t <- round, t_new <- new_round
Events == INSTANCE Input WITH pc <- input_pc, uart <- received
Terminal == INSTANCE Console WITH width <- TextWidth, height <- TextHeight, memory <- text,
                                  pos <- text_pos, uart <- serial
Screen == INSTANCE Display WITH width <- ScreenWidth, height <- ScreenHeight, pc <- drawing,
                                panicked <- display_panicked
Irqs == INSTANCE Interrupts WITH panicked <- boot_panicked

ASSUME /\ ClockAssumptions /\ Chip!RtcAssumptions
       /\ IdeAssumptions /\ LogAssumptions
       /\ Events!InputAssumptions /\ Terminal!ConsoleAssumptions /\ Screen!DisplayAssumptions

--------------------------------------------------------------------------------
(* Seconds before the end of a century, of a year, of February with and        *)
(* without a leap day and of other months, and at noon.                        *)
Date(y, mo, d, h, mi, s) ==
    [year |-> y, month |-> mo, day_of_month |-> d, hours |-> h, minutes |-> mi, seconds |-> s]
SomeDates == {Date(1970, 1, 1, 0, 0, 0), Date(1999, 12, 31, 23, 59, 58),
              Date(2000, 3, 1, 0, 0, 0), Date(2023, 2, 28, 23, 59, 59),
              Date(2024, 2, 28, 23, 59, 59), Date(2024, 12, 31, 23, 59, 59),
              Date(2026, 4, 30, 12, 59, 59), Date(2037, 9, 30, 11, 59, 59)}

(* A hard disk larger than its addresses, and a CD.                            *)
DriveTypes == [d \in Drives |-> IF d = "cd" THEN "Atapi" ELSE "Ata"]
DriveSizes == [d \in Drives |-> IF d = "cd" THEN 3 ELSE 6]

(* Keys: a letter, shift, caps lock, and an extended key.  Movements in either  *)
(* direction with every button, with a wheel, and one that overflows.          *)
SomeKeys == {<<30>>, <<42>>, <<58>>, <<224, 29>>}
Movement(x, y, buttons, scroll, overflow) ==
    [x |-> x, y |-> y, buttons |-> buttons, scroll |-> scroll, overflow |-> overflow]
SomeMovements == {Movement(-1, 255, 17, "HorizontalNegative", FALSE),
                  Movement(-256, 0, 2, "None", FALSE), Movement(0, 0, 0, "None", TRUE)}

(* Text, a line's end, a backspace, and escape sequences whole and in parts.   *)
SomeWrites == {<<65>>, <<66, 10>>, <<8>>, <<27>>, <<91, 51, 49>>, <<109>>, <<59, 49, 109, 67>>}

SomeRegions == {[x |-> 1, y |-> 1, width |-> 2, height |-> 2]}

(* Machines: processors disabled, too many or none; one I/O APIC, two, or one  *)
(* that is too small; the usual overrides, one above 15, reserved flags.       *)
Processors(ids) ==
    [i \in 1..Len(ids) |-> [type |-> "cpu", enabled |-> ids[i] >= 0, apic_id |-> ids[i]]]
IoApic(b, n) == [type |-> "io_apic", base |-> b, n_entries |-> n]
Override(s, g, f) == [type |-> "override", source |-> s, gsi |-> g, flags |-> f]
UsualOverrides == <<Override(0, 2, 0), Override(9, 9, 13)>>
Madts ==
    {Processors(c) \o i \o o :
        c \in {<<0>>, <<-1, 1, 0>>, <<0, 1, 2, 3, 4, 5, 6, 7, 8>>, <<-1>>},
        i \in {<<IoApic(0, 24)>>, <<IoApic(0, 16), IoApic(16, 8)>>, <<IoApic(0, 16)>>},
        o \in {<<>>, UsualOverrides, <<Override(0, 2, 0), Override(9, 20, 15)>>,
               <<Override(9, 9, 10)>>, <<[type |-> "nmi"]>>}}
SomeMachines ==
    [madt : Madts, acpi_enabled : BOOLEAN, sci : {9, 20}, hpet : BOOLEAN,
     routes : {{}, {0}, {2}, {1, 2, 9}, 16..23, {20, 21, 30}}]
Qemu == [madt |-> Processors(<<0>>) \o <<IoApic(0, 24)>> \o UsualOverrides,
         acpi_enabled |-> FALSE, sci |-> 9, hpet |-> TRUE, routes |-> {2}]
--------------------------------------------------------------------------------
\* The parts that do not move start in one of their initial states.
DevicesInit ==
    /\ part \in {"clock", "rtc", "ide", "log", "input", "console", "display", "irq"}
    /\ Init /\ (part # "clock" => phase = 0 /\ \A s \in StartTimes : now <= s)
    /\ Chip!Init
    /\ part # "rtc" =>
        /\ unix = 0 /\ ~updating
        /\ format = [bcd |-> TRUE, half |-> FALSE, century_reg |-> TRUE]
    /\ IdeInit
    /\ LogInit /\ (part # "log" => ~trace)
    /\ Events!Init /\ (part # "input" => mouse_id = 0)
    /\ Terminal!Init /\ Screen!Init
    /\ Irqs!Init /\ (part # "irq" => machine = Qemu)

ClockNext ==
    /\ part = "clock" /\ Next
    /\ UNCHANGED <<part, rtc_vars, ide_vars, log_vars, input_vars, console_vars, display_vars, irq_vars>>
RtcNext ==
    /\ part = "rtc" /\ Chip!Next
    /\ UNCHANGED <<part, vars, ide_vars, log_vars, input_vars, console_vars, display_vars, irq_vars>>
DisksNext ==
    /\ part = "ide" /\ IdeNext
    /\ UNCHANGED <<part, vars, rtc_vars, log_vars, input_vars, console_vars, display_vars, irq_vars>>
TracingNext ==
    /\ part = "log" /\ LogNext
    /\ UNCHANGED <<part, vars, rtc_vars, ide_vars, input_vars, console_vars, display_vars, irq_vars>>
InputNext ==
    /\ part = "input" /\ Events!Next
    /\ UNCHANGED <<part, vars, rtc_vars, ide_vars, log_vars, console_vars, display_vars, irq_vars>>
ConsoleNext ==
    /\ part = "console" /\ Terminal!Next
    /\ UNCHANGED <<part, vars, rtc_vars, ide_vars, log_vars, input_vars, display_vars, irq_vars>>
DisplayNext ==
    /\ part = "display" /\ Screen!Next
    /\ UNCHANGED <<part, vars, rtc_vars, ide_vars, log_vars, input_vars, console_vars, irq_vars>>
IrqNext ==
    /\ part = "irq" /\ Irqs!Next
    /\ UNCHANGED <<part, vars, rtc_vars, ide_vars, log_vars, input_vars, console_vars, display_vars>>

DevicesNext ==
    \/ ClockNext \/ RtcNext \/ DisksNext \/ TracingNext
    \/ InputNext \/ ConsoleNext \/ DisplayNext \/ IrqNext
DevicesSpec == DevicesInit /\ [][DevicesNext]_device_vars
--------------------------------------------------------------------------------
\* The time read from the chip is one it had during the read, to the second,
\* and the date arithmetic agrees with counting days (a 12-hour clock at 12
\* excepted).
RtcIsRight == part = "rtc" => Chip!RtcIsRight

\* The handler turns the bytes of keyboard and mouse into the events of the user's
\* actions, and readers get them all, unless bytes were lost or mixed on their way.
InputIsRight == part = "input" => Events!InputIsRight

\* The text screen and a terminal on the serial port show the same, and a capture
\* returns what was written; on the framebuffer nobody draws on a screen another
\* owns, and the console's lines are the last lines printed.
ScreensAreRight ==
    /\ part = "console" => Terminal!ScreenIsSerial
    /\ part = "display" => Screen!DisplayIsRight

\* Every interrupt assigned at boot reaches its own handler, and nothing else is
\* unmasked.
VectorsAreRight == part = "irq" => Irqs!VectorsAreRight
================================================================================
