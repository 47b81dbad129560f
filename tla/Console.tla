-------------------------------- MODULE Console --------------------------------
(***************************************************************************)
(* Writing to the console: colour commands are cut out of the bytes        *)
(* written, the text goes to a screen in text mode and, with the complete  *)
(* commands, to the serial port.  A write runs under the console's lock,   *)
(* with interrupts off, and is one step; a panic inside it finds the       *)
(* console borrowed and prints through a fresh early console, on the       *)
(* serial port only.                                                       *)
(***************************************************************************)
EXTENDS Integers, Sequences, SequencesExt, FiniteSetsExt

CONSTANTS
    width, height,      \* size of the screen: fields of VgaText
    Outputs,             \* the byte strings written
    MaxWrites           \* bound on the number of writes

VARIABLES
    console_cmd_buffer, \* field of LateConsole: <<>> for None, <<bytes>> for Some
    current_attrib,     \* field of LateConsole
    capture,            \* field of LateConsole: <<>> for None, <<bytes>> for Some
    memory, pos, attrib,    \* fields of VgaText: cells by line and column, cursor, colours
    uart,               \* history: the bytes sent on the serial port
    captured,           \* history: what stop_capture and start_capture returned
    given,              \* history: the bytes written while capturing
    strayed,            \* history: a backspace met a line's start, or ESC was sent as text
    writes, halted      \* history: number of writes; the kernel panicked

vars == <<console_cmd_buffer, current_attrib, capture, memory, pos, attrib, uart, captured,
          given, strayed, writes, halted>>
screen_vars == <<console_cmd_buffer, current_attrib, memory, pos, attrib, uart, strayed>>

BS == 8
NL == 10
ESC == 27
SPACE == 32
ConsoleAssumptions ==
    /\ width \in Nat \ {0} /\ height \in Nat \ {0} /\ MaxWrites \in Nat
    /\ \A src \in Outputs : \A i \in DOMAIN src : src[i] \in 0..127
--------------------------------------------------------------------------------
(* Colour commands.                                                            *)
Digits == 48..57
default == [foreground |-> 7, background |-> 0, bold |-> FALSE, faint |-> FALSE]

\* split(';') and parse::<u8>(), -1 for a failure
split(buf) ==
    FoldLeft(LAMBDA parts, c : IF c = 59 THEN Append(parts, <<>>)
                               ELSE [parts EXCEPT ![Len(parts)] = Append(@, c)],
             << <<>> >>, buf)
parse(part) ==
    LET value == FoldLeft(LAMBDA n, c : Min({256, 10 * n + (c - 48)}), 0, part)
    IN  IF part = <<>> \/ ~(ToSet(part) \subseteq Digits) \/ value > 255 THEN -1 ELSE value

Applied(a, cmd) ==
    CASE cmd = 0 -> default
      [] cmd = 1 -> [a EXCEPT !.bold = TRUE, !.faint = FALSE]
      [] cmd = 2 -> [a EXCEPT !.bold = FALSE, !.faint = TRUE]
      [] cmd \in 30..37 -> [a EXCEPT !.foreground = cmd - 30]
      [] cmd \in 90..97 -> [a EXCEPT !.foreground = cmd - 90 + 8]
      [] cmd \in 40..47 -> [a EXCEPT !.background = cmd - 40]
      [] cmd \in 100..107 -> [a EXCEPT !.background = cmd - 100 + 8]
      [] OTHER -> a
AllApplied(a, inner_cmd) ==
    FoldLeft(LAMBDA acc, part : Applied(acc, parse(part)), a, split(inner_cmd))

Parses(inner_cmd) == \E i \in DOMAIN split(inner_cmd) : parse(split(inner_cmd)[i]) # -1

\* VgaText::set_attrib
to_vga_color(color) == <<0, 4, 2, 6, 1, 5, 3, 7, 8, 12, 10, 14, 9, 13, 11, 15>>[color + 1]
VgaAttrib(a) ==
    LET fg == a.foreground
        index == CASE a.faint /\ fg >= 8 -> fg - 8 [] a.bold /\ fg < 8 -> fg + 8 [] OTHER -> fg
    IN  16 * to_vga_color(a.background) + to_vga_color(index)
--------------------------------------------------------------------------------
(* The text screen; "s" is the whole state a byte changes.                     *)
BlankLine == [x \in 0..width - 1 |-> <<SPACE, 0>>]

fix_after_advance_NoClear(s) ==
    LET wrapped == IF s.x >= width THEN [s EXCEPT !.x = 0, !.y = @ + 1] ELSE s
    IN  IF wrapped.y < height THEN wrapped
        ELSE [wrapped EXCEPT
                !.memory = [y \in 0..height - 1 |-> IF y < height - 1 THEN @[y + 1] ELSE @[y]],
                !.y = @ - 1]
fix_after_advance(s) ==
    LET wrapped == IF s.x >= width THEN [s EXCEPT !.x = 0, !.y = @ + 1] ELSE s
    IN  IF wrapped.y < height THEN wrapped
        ELSE [wrapped EXCEPT
                !.memory = [y \in 0..height - 1 |-> IF y < height - 1 THEN @[y + 1] ELSE BlankLine],
                !.y = @ - 1]

video_write_byte(s, c) ==
    fix_after_advance(
        IF c = NL THEN [s EXCEPT !.x = 0, !.y = @ + 1]
        ELSE [s EXCEPT !.memory[s.y][s.x] = <<c, s.attrib>>, !.x = @ + 1])

video_backspace(s) ==
    LET moved == IF s.x # 0 THEN [s EXCEPT !.x = @ - 1]
                 ELSE [s EXCEPT !.x = width - 1, !.y = @ - 1, !.strayed = TRUE]
    IN  IF s.x = 0 /\ s.y = 0 THEN [s EXCEPT !.strayed = TRUE]
        ELSE [moved EXCEPT !.memory[moved.y][moved.x] = <<SPACE, s.attrib>>]

write_byte_inner(s, byte) ==
    IF byte = BS THEN [video_backspace(s) EXCEPT !.uart = @ \o <<BS, SPACE, BS>>]
    ELSE [video_write_byte(s, byte) EXCEPT !.uart = Append(@, byte), !.strayed = @ \/ byte = ESC]

\* LateConsole::write_byte
write_byte(s, byte) ==
    LET buf == s.cmd[1]
        ended == [s EXCEPT !.cmd = <<>>]
    IN  IF s.cmd = <<>>
        THEN IF byte = ESC THEN [s EXCEPT !.cmd = << <<>> >>] ELSE write_byte_inner(s, byte)
        ELSE IF byte \in Digits \union {59, 91} THEN [s EXCEPT !.cmd = <<Append(buf, byte)>>]
        ELSE IF byte = 109 /\ buf # <<>> /\ buf[1] = 91
        THEN LET a == AllApplied(s.current, Tail(buf))
             IN  [ended EXCEPT !.current = a,
                    !.attrib = IF Parses(Tail(buf)) THEN VgaAttrib(a) ELSE @,
                    !.uart = @ \o <<ESC>> \o buf \o <<109>>]
        ELSE write_byte_inner(ended, byte)

Written(src) ==
    FoldLeft(write_byte,
        [cmd |-> console_cmd_buffer, current |-> current_attrib, memory |-> memory,
         x |-> pos[1], y |-> pos[2], attrib |-> attrib, uart |-> uart, strayed |-> strayed], src)
Becomes(s) ==
    /\ console_cmd_buffer' = s.cmd /\ current_attrib' = s.current
    /\ memory' = s.memory /\ pos' = <<s.x, s.y>> /\ attrib' = s.attrib
    /\ uart' = s.uart /\ strayed' = s.strayed
--------------------------------------------------------------------------------
\* The screen starts with what the boot loader left, here blank; the attribute
\* is the default until the first colour command.
Init ==
    /\ console_cmd_buffer = <<>> /\ current_attrib = default /\ capture = <<>>
    /\ memory = [y \in 0..height - 1 |-> BlankLine] /\ pos = <<0, 0>> /\ attrib = 15
    /\ uart = <<>> /\ captured = <<>> /\ given = <<>> /\ strayed = FALSE
    /\ writes = 0 /\ halted = FALSE

MayWrite == ~halted /\ writes < MaxWrites /\ writes' = writes + 1

write(src) ==
    /\ MayWrite
    /\ IF capture # <<>>
       THEN capture' = <<capture[1] \o src>> /\ given' = given \o src /\ UNCHANGED screen_vars
       ELSE Becomes(Written(src)) /\ UNCHANGED <<capture, given>>
    /\ UNCHANGED <<captured, halted>>

start_capture ==
    /\ MayWrite
    /\ captured' = IF capture = <<>> THEN captured ELSE captured \o capture[1]
    /\ capture' = << <<>> >>
    /\ UNCHANGED <<screen_vars, given, halted>>
stop_capture ==
    /\ MayWrite
    /\ captured' = IF capture = <<>> THEN captured ELSE captured \o capture[1]
    /\ capture' = <<>>
    /\ UNCHANGED <<screen_vars, given, halted>>

\* A panic after the first n bytes of a write: run_with cannot borrow the console.
PanicInWrite(src, n, message) ==
    /\ MayWrite /\ capture = <<>>
    /\ LET s == Written(SubSeq(src, 1, n)) IN Becomes([s EXCEPT !.uart = @ \o message])
    /\ halted' = TRUE
    /\ UNCHANGED <<capture, captured, given>>

Next ==
    \/ \E src \in Outputs : write(src)
    \/ start_capture \/ stop_capture
    \/ \E src \in Outputs : \E n \in 0..Len(src) - 1 : PanicInWrite(src, n, <<80>>)
--------------------------------------------------------------------------------
(* A terminal at the other end of the serial port: it keeps all lines, wraps   *)
(* like the screen, does not go back over a line's start.                      *)
TerminalByte(t, c) ==
    LET line == t.lines[Len(t.lines)]
        put == SubSeq(line, 1, t.col) \o << <<c, t.attrib>> >>
               \o SubSeq(line, t.col + 2, Len(line))
        moved == [t EXCEPT !.lines[Len(t.lines)] = put, !.col = @ + 1]
        next == [t EXCEPT !.lines = Append(@, <<>>), !.col = 0]
    IN  CASE t.esc # <<>> /\ c = 109 ->
                LET inner_cmd == SubSeq(t.esc, 3, Len(t.esc))
                    a == AllApplied(t.current, inner_cmd)
                IN  [t EXCEPT !.esc = <<>>, !.current = a,
                              !.attrib = IF Parses(inner_cmd) THEN VgaAttrib(a) ELSE @]
          [] t.esc # <<>> /\ c # 109 -> [t EXCEPT !.esc = Append(@, c)]
          [] t.esc = <<>> /\ c = ESC -> [t EXCEPT !.esc = <<ESC>>]
          [] t.esc = <<>> /\ c = NL -> next
          [] t.esc = <<>> /\ c = BS -> [t EXCEPT !.col = Max({0, @ - 1})]
          [] OTHER -> IF moved.col < width THEN moved
                      ELSE [moved EXCEPT !.lines = Append(@, <<>>), !.col = 0]
Terminal ==
    FoldLeft(TerminalByte,
             [lines |-> << <<>> >>, col |-> 0, esc |-> <<>>, current |-> default, attrib |-> 15], uart)

\* What is on the screen is what a terminal on the serial port shows: the last
\* lines of the text, each character in the colours of the commands before it,
\* and the cursor in the same place, however commands and text are cut into
\* writes, wrap and scroll; a backspace over a line's start and an escape inside
\* a command, which goes out as a character, excepted.  Captured text is on
\* neither, and comes back complete.
ScreenIsSerial ==
    /\ pos \in (0..width - 1) \X (0..height - 1)
    /\ given = captured \o (IF capture = <<>> THEN <<>> ELSE capture[1])
    /\ ~strayed /\ ~halted =>
        LET top == Max({0, Len(Terminal.lines) - height})
        IN  /\ pos = <<Terminal.col, Len(Terminal.lines) - top - 1>>
            /\ \A y \in 0..pos[2], x \in 0..width - 1 :
                LET line == Terminal.lines[top + y + 1]
                IN  memory[y][x] = IF x < Len(line) THEN line[x + 1] ELSE <<SPACE, 0>>
================================================================================
