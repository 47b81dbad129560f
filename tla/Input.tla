---------------------------------- MODULE Input ----------------------------------
(***************************************************************************)
(* The keyboard and the mouse behind one PS/2 controller, the interrupt    *)
(* handler that empties the controller, and the readers of key and mouse   *)
(* events: processes that opened the devices, and the console, which also  *)
(* reads the serial port.                                                  *)
(*                                                                         *)
(* The controller shows one byte at a time, from either device, and the    *)
(* handler reads the rest of an extended key or of a mouse packet without  *)
(* looking at the status again: it gets the last byte again when the next  *)
(* has not come, or the other device's.  Readers run with interrupts off,  *)
(* so between two runs of the handler.                                     *)
(***************************************************************************)
EXTENDS Integers, Sequences, FiniteSets, SequencesExt, FiniteSetsExt

CONSTANTS
    Scancodes,      \* the keys of the keyboard, by what they send: <<c>> or <<0xE0, c>>
    Mice,           \* the types a mouse can become: 0, 3 (a wheel), 4 (two more buttons)
    Movements,      \* what the mouse may report
    Received,       \* the bytes that may come on the serial port
    BufferSize,     \* events a channel keeps: KEYBOARD_BUFFER_SIZE, MOUSE_BUFFER_SIZE
    MaxActions      \* bound on what the user does

VARIABLES
    wire,               \* bytes each device has ready, and whether one is damaged
    port,               \* what the controller shows: a byte, or nothing
    last,               \* the byte last read from the data port
    mouse_id,           \* the type of mouse at the end of its initialisation
    has_extra_byte,     \* field of Mouse
    pc, bytes,          \* where the handler is, the bytes of a packet read so far
    active_modifiers, active_toggles,   \* fields of Keyboard, sets of bits
    sent,               \* events sent on the two channels so far
    at, got,            \* per reader: its place in the channel (-1: not open), what it has returned
    uart, console,      \* bytes waiting at the serial port; what the console has returned
    held, lit,          \* history: keys down, toggles on
    typed, moved,       \* history: the events that the user's actions are
    joined, lagged,     \* history: where a reader started, whether it was overrun
    broken,             \* history: a sequence was cut, mixed or damaged
    actions             \* history: number of the user's actions

vars == <<wire, port, last, mouse_id, has_extra_byte, pc, bytes, active_modifiers,
          active_toggles, sent, at, got, uart, console, held, lit, typed, moved,
          joined, lagged, broken, actions>>
user_vars == <<held, lit, typed, moved, actions>>
mouse_vars == <<mouse_id, has_extra_byte>>
reader_vars == <<at, got, uart, console, joined, lagged>>

NoKey == -1         \* None for a key type or a byte
Nothing == [device |-> "none", byte |-> 0, bad |-> FALSE]      \* an empty port
SHIFT == 1
CTRL == 2
ALT == 4
CAPS_LOCK == 8
NUM_LOCK == 16
SCROLL_LOCK == 32
PRESSED == 128

Bit(b, byte) == (byte \div b) % 2 = 1
BitsOf(byte) == {b \in {1, 2, 4, 8, 16, 32, 64} : Bit(b, byte)}
ByteOf(bits) == SumSet(bits)

InputAssumptions ==
    /\ Mice \subseteq {0, 3, 4} /\ BufferSize \in Nat \ {0} /\ MaxActions \in Nat
    /\ \A code \in Scancodes : \E c \in 0..127 : code \in {<<c>>, <<224, c>>}
    /\ \A m \in Movements : m.x \in -256..255 /\ m.y \in -256..255 /\ m.buttons \in 0..31
--------------------------------------------------------------------------------
(* Keys.  A key type is its place in the enum KeyType: the plain scan code, or *)
(* for extended keys the place of the code in the match below after F12.       *)
ExtendedCodes ==
    <<16, 25, 28, 29, 32, 33, 34, 36, 46, 48, 50, 53, 56, 71, 72, 73, 75, 77, 79, 80,
      81, 82, 83, 91, 92, 93, 94, 95, 99, 101, 102, 103, 104, 105, 106, 107, 108, 109>>
F12 == 88

key_type_from_device(value) ==
    IF value < 128
    THEN IF value <= F12 /\ value \notin {0, 84, 85, 86} THEN value ELSE NoKey
    ELSE IF \E i \in DOMAIN ExtendedCodes : ExtendedCodes[i] = value % 128
         THEN F12 + CHOOSE i \in DOMAIN ExtendedCodes : ExtendedCodes[i] = value % 128
         ELSE NoKey

get_modifier(key) ==
    CASE key \in {42, 54} -> {SHIFT} [] key = 29 -> {CTRL} [] key = 56 -> {ALT} [] OTHER -> {}
get_toggle(key) ==
    CASE key = 58 -> {CAPS_LOCK} [] key = 69 -> {NUM_LOCK} [] key = 70 -> {SCROLL_LOCK}
      [] OTHER -> {}

Key(pressed, modifiers, key_type) ==
    [pressed |-> pressed, modifiers |-> modifiers, key_type |-> key_type]

as_bytes(key) ==
    <<ByteOf(key.modifiers) + (IF key.pressed THEN PRESSED ELSE 0), key.key_type>>
from_bytes(b) == Key(Bit(PRESSED, b[1]), BitsOf(b[1]), b[2])

(* The two key maps, by which entries are not 0: a character is the key and    *)
(* the map it comes from.                                                      *)
Printing == (1..57) \ {29, 42, 54, 56}
virtual_char(key) ==
    LET shifted == SHIFT \in key.modifiers
        mapped == Printing \union (IF shifted THEN {74, 76, 78} ELSE (71..83) \union {91, 100})
    IN  IF key.key_type \in mapped THEN <<key.key_type, shifted>> ELSE <<>>
--------------------------------------------------------------------------------
(* The mouse.  Its type changes when three sample rates are set in a row.      *)
IdAfterRates(best, id, rates) ==
    CASE rates = <<200, 100, 80>> /\ best >= 3 -> 3
      [] rates = <<200, 200, 80>> /\ id = 3 /\ best = 4 -> 4
      [] OTHER -> id

\* Mouse::new for a mouse that can become a "best".
MouseNew(best) ==
    LET first == 0
        second == IF first # 3 THEN IdAfterRates(best, first, <<200, 100, 80>>) ELSE first
        third == IF second = 3 THEN IdAfterRates(best, second, <<200, 200, 80>>) ELSE second
    IN  [id |-> third, extra |-> third \in {3, 4}]

Scrolls == <<"None", "VerticalUp", "VerticalDown", "HorizontalRight", "HorizontalNegative">>
Nibbles == <<0, 1, 15, 2, 14>>
ScrollNibble(scroll) == Nibbles[CHOOSE i \in 1..5 : Scrolls[i] = scroll]

\* The packet for a movement, as the device sends it.
Packet(m) ==
    <<8 + (m.buttons % 8) + (IF m.x < 0 THEN 16 ELSE 0) + (IF m.y < 0 THEN 32 ELSE 0)
        + (IF m.overflow THEN 64 ELSE 0), m.x % 256, m.y % 256>>
    \o IF mouse_id \in {3, 4} THEN <<ScrollNibble(m.scroll) + 16 * (m.buttons \div 8)>>
                              ELSE <<>>

MouseEvent(x, y, buttons, scroll) ==
    [x |-> x, y |-> y, buttons |-> buttons, scroll |-> scroll]

\* The part of handle_mouse_data after the packet is read: the event, if any.
PacketEvent(d) ==
    LET fourth == IF Len(d) = 4 THEN d[4] ELSE 0
        scrolls == {i \in 1..5 : Nibbles[i] = fourth % 16}
    IN  IF Bit(64, d[1]) \/ Bit(128, d[1]) THEN <<>>
        ELSE <<MouseEvent(d[2] - (IF Bit(16, d[1]) THEN 256 ELSE 0),
                          d[3] - (IF Bit(32, d[1]) THEN 256 ELSE 0),
                          (d[1] % 8) + 8 * ((fourth \div 16) % 4),
                          Scrolls[IF scrolls = {} THEN 1 ELSE CHOOSE i \in scrolls : TRUE])>>

event_as_bytes(e) ==
    <<e.x % 256, (e.x % 65536) \div 256, e.y % 256, (e.y % 65536) \div 256,
      e.buttons + 32 * ((CHOOSE i \in 1..5 : Scrolls[i] = e.scroll) - 1)>>
I16(low, high) == low + 256 * high - (IF high >= 128 THEN 65536 ELSE 0)
event_from_bytes(b) ==
    MouseEvent(I16(b[1], b[2]), I16(b[3], b[4]), b[5] % 32, Scrolls[1 + b[5] \div 32])
--------------------------------------------------------------------------------
Channel == [console |-> "keyboard", keys |-> "keyboard", pointer |-> "mouse"]
Readers == DOMAIN Channel

Init ==
    /\ wire = [keyboard |-> <<>>, mouse |-> <<>>] /\ port = Nothing /\ last = 0
    /\ \E best \in Mice : /\ mouse_id = MouseNew(best).id
                               /\ has_extra_byte = MouseNew(best).extra
    /\ pc = "idle" /\ bytes = <<>>
    /\ active_modifiers = {} /\ active_toggles = {}
    /\ sent = [keyboard |-> <<>>, mouse |-> <<>>]
    /\ at = [r \in Readers |-> IF r = "console" THEN 0 ELSE -1]
    /\ got = [r \in Readers |-> <<>>] /\ joined = [r \in Readers |-> 0]
    /\ uart = NoKey /\ console = <<>>
    /\ held = {} /\ lit = {} /\ typed = <<>> /\ moved = <<>> /\ actions = 0
    /\ lagged = {} /\ broken = FALSE
--------------------------------------------------------------------------------
(* The user.  A key held down repeats its code.                                *)
Codes(code, pressed) ==
    [code EXCEPT ![Len(code)] = IF pressed THEN @ ELSE @ + 128]
TypeOf(code) ==
    key_type_from_device(IF Len(code) = 2 THEN code[2] + 128 ELSE code[1])
HeldModifiers(keys) == UNION {get_modifier(code[1]) : code \in keys}

\* Bounds: a number of actions, none after bytes were cut, mixed or damaged.
MayAct == actions < MaxActions /\ ~broken

Act(keys, on, code, pressed) ==
    /\ MayAct /\ actions' = actions + 1
    /\ held' = keys /\ lit' = on
    /\ wire' = [wire EXCEPT !.keyboard = @ \o Codes(code, pressed)]
    /\ typed' = IF TypeOf(code) = NoKey THEN typed
                ELSE Append(typed, Key(pressed, HeldModifiers(keys) \union on, TypeOf(code)))
    /\ broken' = (broken \/ {<<42>>, <<54>>} \subseteq keys)
    /\ UNCHANGED <<port, last, mouse_vars, pc, bytes, active_modifiers, active_toggles,
                   sent, reader_vars, moved>>

Press(code) ==
    /\ code \notin held
    /\ Act(held \union {code}, SymDiff(lit, get_toggle(code[1])), code, TRUE)
Repeat(code) == code \in held /\ Act(held, lit, code, TRUE)
Release(code) == code \in held /\ Act(held \ {code}, lit, code, FALSE)

\* A mouse without a wheel, or without the two extra buttons, does not report them.
Move(m) ==
    /\ MayAct /\ actions' = actions + 1
    /\ mouse_id = 0 => m.scroll = "None"
    /\ mouse_id # 4 => m.buttons < 8
    /\ wire' = [wire EXCEPT !.mouse = @ \o Packet(m)]
    /\ moved' = IF m.overflow THEN moved
                ELSE Append(moved, MouseEvent(m.x, m.y, m.buttons, m.scroll))
    /\ UNCHANGED <<port, last, mouse_vars, pc, bytes, active_modifiers, active_toggles,
                   sent, reader_vars, held, lit, typed, broken>>

\* The controller shows the next byte of a device, perhaps damaged on its way.
Present(device, bad) ==
    /\ port = Nothing /\ wire[device] # <<>> /\ ~broken
    /\ port' = [device |-> device, byte |-> Head(wire[device]), bad |-> bad]
    /\ wire' = [wire EXCEPT ![device] = Tail(@)]
    /\ UNCHANGED <<last, mouse_vars, pc, bytes, active_modifiers, active_toggles, sent,
                   reader_vars, user_vars, broken>>
--------------------------------------------------------------------------------
(* The handler, entered from the PS/2 interrupts and from the timer.           *)
poll_events ==
    /\ pc = "idle" /\ pc' = "fetch"
    /\ UNCHANGED <<wire, port, last, mouse_vars, bytes, active_modifiers, active_toggles,
                   sent, reader_vars, user_vars, broken>>

\* What the data port gives: without a new byte the last one again.
read_data == IF port = Nothing THEN last ELSE port.byte
Took(device) ==
    /\ port' = Nothing /\ last' = read_data
    /\ broken' = (broken \/ port = Nothing \/ port.bad \/ port.device # device)

fetch_next_data ==
    /\ pc = "fetch"
    /\ IF port = Nothing THEN pc' = "idle" /\ UNCHANGED <<port, last, broken, bytes>>
       ELSE IF port.bad THEN pc' = "idle" /\ Took(port.device) /\ UNCHANGED bytes
       ELSE /\ pc' = IF port.device = "mouse" THEN "packet" ELSE "key"
            /\ bytes' = <<>> /\ UNCHANGED <<port, last, broken>>
    /\ UNCHANGED <<wire, mouse_vars, active_modifiers, active_toggles, sent, reader_vars,
                   user_vars>>

modifiers(active, toggles) ==
    (active \ {CAPS_LOCK, NUM_LOCK, SCROLL_LOCK}) \union toggles

should_toggle_Always(pressed, toggle) == pressed
should_toggle(pressed, toggle) == pressed /\ active_modifiers \intersect toggle = {}

\* handle_keyboard_data from the stripping of the pressed bit on, the channel
\* being "before".
HandleKey(data, before) ==
    LET pressed == data < 128
        key == data % 128
        bits == get_modifier(key) \union get_toggle(key)
        active == IF pressed THEN active_modifiers \union bits ELSE active_modifiers \ bits
        toggles == IF should_toggle(pressed, get_toggle(key))
                   THEN SymDiff(active_toggles, get_toggle(key)) ELSE active_toggles
        key_type == key_type_from_device(key)
    IN  /\ active_modifiers' = active /\ active_toggles' = toggles
        /\ sent' = [sent EXCEPT !.keyboard =
                IF key_type = NoKey THEN before
                ELSE Append(before, Key(pressed, modifiers(active, toggles), key_type))]

handle_keyboard_data ==
    /\ pc = "key" /\ Took("keyboard")
    /\ IF read_data = 224
       THEN pc' = "extended" /\ UNCHANGED <<active_modifiers, active_toggles, sent>>
       ELSE pc' = "fetch" /\ HandleKey(read_data, sent.keyboard)
    /\ UNCHANGED <<wire, mouse_vars, bytes, reader_vars, user_vars>>

\* The second byte of an extended key, read at once; when it is a key, the code
\* goes on to handle the prefix as if it were a plain key.
ExtendedKey ==
    /\ pc = "extended" /\ Took("keyboard") /\ pc' = "fetch"
    /\ LET key_type == key_type_from_device((read_data % 128) + 128)
       IN  IF key_type = NoKey THEN UNCHANGED <<active_modifiers, active_toggles, sent>>
           ELSE HandleKey(224, Append(sent.keyboard,
                    Key(read_data < 128, modifiers(active_modifiers, active_toggles), key_type)))
    /\ UNCHANGED <<wire, mouse_vars, bytes, reader_vars, user_vars>>

read_len == IF has_extra_byte THEN 4 ELSE 3
handle_mouse_data ==
    /\ pc = "packet" /\ Took("mouse")
    /\ bytes' = Append(bytes, read_data)
    /\ IF Len(bytes') < read_len THEN UNCHANGED <<pc, sent>>
       ELSE pc' = "fetch" /\ sent' = [sent EXCEPT !.mouse = @ \o PacketEvent(bytes')]
    /\ UNCHANGED <<wire, mouse_vars, active_modifiers, active_toggles, reader_vars, user_vars>>
--------------------------------------------------------------------------------
(* Readers.  A channel keeps its newest events; a reader that fell behind goes *)
(* on with the oldest one kept.                                                *)
\* A reader's step commutes with what the user and the controller do, and waits
\* until the bytes on their way are handled: the order of reads and sends, which
\* it sees, is still arbitrary.
Quiet == pc = "idle" /\ port = Nothing /\ \A d \in DOMAIN wire : wire[d] = <<>>

Place(r) == Max({at[r], Len(sent[Channel[r]]) - BufferSize})
Unread(r) == SubSeq(sent[Channel[r]], Place(r) + 1, Len(sent[Channel[r]]))

\* try_create of the two devices: a reader of its own, for events from now on.
\* Bound: one process that opens one of them.
Open(r) ==
    /\ Quiet /\ \A q \in Readers \ {"console"} : at[q] = -1
    /\ r # "console"
    /\ at' = [at EXCEPT ![r] = Len(sent[Channel[r]])]
    /\ joined' = [joined EXCEPT ![r] = Len(sent[Channel[r]])]
    /\ UNCHANGED <<wire, port, last, mouse_vars, pc, bytes, active_modifiers, active_toggles,
                   sent, got, uart, console, lagged, user_vars, broken>>

\* read of KeyboardDevice and MouseDevice with room for n events: bytes to the
\* process, which takes them apart again.
read(r, n) ==
    LET count == Min({n, Len(Unread(r))})
        Copied(e) == IF Channel[r] = "mouse" THEN event_from_bytes(event_as_bytes(e))
                                             ELSE from_bytes(as_bytes(e))
    IN  /\ Quiet /\ r # "console" /\ at[r] # -1 /\ count > 0
        /\ got' = [got EXCEPT ![r] = @ \o [i \in 1..count |-> Copied(Unread(r)[i])]]
        /\ at' = [at EXCEPT ![r] = Place(r) + count]
        /\ lagged' = IF Place(r) > at[r] THEN lagged \union {r} ELSE lagged
        /\ UNCHANGED <<wire, port, last, mouse_vars, pc, bytes, active_modifiers,
                       active_toggles, sent, uart, console, joined, user_vars, broken>>

\* The serial port keeps one byte, its queue is off.
Receive(byte) ==
    /\ MayAct /\ actions' = actions + 1
    /\ uart' = byte
    /\ UNCHANGED <<wire, port, last, mouse_vars, pc, bytes, active_modifiers, active_toggles,
                   sent, at, got, console, joined, lagged, held, lit, typed, moved, broken>>
read_uart(byte) == CASE byte = 13 -> 10 [] byte = 127 -> 8 [] OTHER -> byte

\* One turn of the loop of LateConsole::read.
ReadTurn(st, i) ==
    LET key == IF st.keys = <<>> THEN <<>>
               ELSE IF Head(st.keys).pressed THEN virtual_char(Head(st.keys)) ELSE <<>>
        rest == IF st.keys = <<>> THEN <<>> ELSE Tail(st.keys)
    IN  IF st.done THEN st
        ELSE IF key # <<>> THEN [st EXCEPT !.keys = rest, !.out = Append(@, key)]
        ELSE IF st.uart # NoKey
             THEN [st EXCEPT !.keys = rest, !.out = Append(@, <<read_uart(st.uart)>>), !.uart = NoKey]
        ELSE [st EXCEPT !.keys = rest, !.done = TRUE]

console_read(n) ==
    LET after == FoldLeft(ReadTurn,
                    [keys |-> Unread("console"), uart |-> uart, out |-> <<>>, done |-> FALSE],
                    [i \in 1..n |-> i])
    IN  /\ Quiet /\ (Unread("console") # <<>> \/ uart # NoKey)
        /\ console' = console \o after.out /\ uart' = after.uart
        /\ at' = [at EXCEPT !.console = Len(sent.keyboard) - Len(after.keys)]
        /\ lagged' = IF Place("console") > at["console"] THEN lagged \union {"console"} ELSE lagged
        /\ UNCHANGED <<wire, port, last, mouse_vars, pc, bytes, active_modifiers,
                       active_toggles, sent, got, joined, user_vars, broken>>

Next ==
    \/ \E code \in Scancodes : Press(code) \/ Repeat(code) \/ Release(code)
    \/ \E m \in Movements : Move(m)
    \/ \E byte \in Received : Receive(byte)
    \/ \E device \in {"keyboard", "mouse"}, bad \in BOOLEAN : Present(device, bad)
    \/ poll_events \/ fetch_next_data \/ handle_keyboard_data \/ ExtendedKey \/ handle_mouse_data
    \/ \E r \in Readers : Open(r) \/ \E n \in 1..2 : read(r, n)
    \/ \E n \in 1..2 : console_read(n)
--------------------------------------------------------------------------------
CharsOf(keys) ==
    SelectSeq([i \in DOMAIN keys |-> IF keys[i].pressed THEN virtual_char(keys[i]) ELSE <<>>],
              LAMBDA c : c # <<>>)
KeyChars(out) == SelectSeq(out, LAMBDA c : Len(c) = 2)

\* Unless the bytes of a key or packet were damaged, came late or were mixed
\* with the other device's, or both shift keys were down: the handler turns them
\* into exactly the events of the user's actions, in order and with the
\* modifiers held then; a reader that is not overrun returns all events since it
\* was opened; the console returns every character typed, even where a read
\* stopped at a key without one.  Whatever the bytes, an event survives the
\* bytes it is copied as.
InputIsRight ==
    /\ \A e \in ToSet(sent.keyboard) : from_bytes(as_bytes(e)) = e /\ e.key_type < 127
    /\ \A e \in ToSet(sent.mouse) : event_from_bytes(event_as_bytes(e)) = e
    /\ ~broken =>
        /\ IsPrefix(sent.keyboard, typed) /\ IsPrefix(sent.mouse, moved)
        /\ pc = "idle" /\ port = Nothing /\ wire.keyboard = <<>> => sent.keyboard = typed
        /\ pc = "idle" /\ port = Nothing /\ wire.mouse = <<>> => sent.mouse = moved
        /\ \A r \in Readers \ ({"console"} \union lagged) :
                got[r] = SubSeq(sent[Channel[r]], joined[r] + 1, at[r])
        /\ "console" \notin lagged => KeyChars(console) = CharsOf(SubSeq(typed, 1, at["console"]))
================================================================================
