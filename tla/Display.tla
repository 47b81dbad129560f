-------------------------------- MODULE Display --------------------------------
(***************************************************************************)
(* The graphics screen: processes take and release it and copy pixels to   *)
(* it, the kernel's console draws its text on it while nobody owns it.     *)
(*                                                                         *)
(* A system call runs with interrupts on until it takes the display's      *)
(* lock, so a process can be preempted between the check of the owner and  *)
(* the drawing; the console draws under its own lock, in one step.         *)
(***************************************************************************)
EXTENDS Integers, Sequences, SequencesExt, FiniteSetsExt

CONSTANTS
    Processes,
    width, height,      \* fields of the framebuffer's info
    CharWidth, LineHeight,  \* of the font
    Text,               \* the bytes printed: "newline", "return", "backspace" or a letter
    Regions,            \* the regions copied: [x, y, width, height] inside the screen
    MaxSteps            \* bound on what is printed and copied

VARIABLES
    owner_process,      \* field of VgaDisplayController, -1 for nobody
    memory,             \* the colour of each pixel, by row and column
    pos,                \* field of VgaGraphics
    pc,                 \* per process: "run", "copying" after the check, "exited"
    paper,              \* history: the lines of text printed on an unbounded page
    scrolled,           \* history: number of lines that have left the screen
    pixels,             \* history: a process has drawn, or a backspace has erased
    foreign,            \* history: someone drew on a screen owned by another
    panicked, steps     \* history

vars == <<owner_process, memory, pos, pc, paper, scrolled, pixels, foreign, panicked, steps>>

Rows == 0..height - 1
Columns == 0..width - 1
Black == "black"

DisplayAssumptions ==
    /\ CharWidth \in Nat \ {0} /\ LineHeight \in Nat \ {0, 1} /\ MaxSteps \in Nat
    /\ width > 2 * CharWidth /\ height > 2 * LineHeight
    /\ \A r \in Regions : r.x + r.width <= width /\ r.y + r.height <= height
--------------------------------------------------------------------------------
(* VgaDisplay.  "ok" is FALSE where an assertion or unwrap of the code fails.  *)
Painted(m, x, y, w, h, colour) ==
    [row \in Rows |-> [col \in Columns |->
        IF row \in y..y + h - 1 /\ col \in x..x + w - 1 THEN colour ELSE m[row][col]]]

clear_rect(s, x, y, w, h) ==
    IF ~(x + w <= width /\ y + h <= height) THEN [s EXCEPT !.ok = FALSE]
    ELSE IF h = 0 \/ w = 0 THEN s
    ELSE IF y + 1 >= height THEN [s EXCEPT !.ok = FALSE]
    ELSE [s EXCEPT !.memory = Painted(@, x, y, w, h, Black)]

\* Moves h whole rows up from row src to row dest.
blit_inner_ranges(s, src, dest, h) ==
    IF ~(src + h <= height /\ dest + h <= src) THEN [s EXCEPT !.ok = FALSE]
    ELSE [s EXCEPT !.memory =
            [row \in Rows |-> IF row \in dest..dest + h - 1 THEN @[src + row - dest] ELSE @[row]]]

\* put_pixel ignores what is outside of the screen.  The bottom of a glyph is in
\* row y.
draw_string(s, c) ==
    [s EXCEPT !.memory = Painted(@, s.x, s.y - LineHeight + 1, CharWidth, LineHeight, c),
              !.x = @ + CharWidth]
--------------------------------------------------------------------------------
(* VgaGraphics.                                                                *)
scroll(s) ==
    LET turns == (height - 2 * LineHeight + LineHeight - 1) \div LineHeight
        moved == FoldLeft(LAMBDA acc, i :
                    blit_inner_ranges(acc, i * LineHeight, (i - 1) * LineHeight, LineHeight),
                    s, [i \in 1..turns |-> i])
    IN  [moved EXCEPT !.y = @ - LineHeight, !.gone = @ + 1]

clear_current_text_line(s) == clear_rect(s, 0, s.y, width, LineHeight)

\* One scroll is enough: the recursion of the code finds nothing more to do.
fix_after_advance(s) ==
    LET wrapped == IF s.x + CharWidth >= width
                   THEN [s EXCEPT !.x = 0, !.y = @ + LineHeight] ELSE s
    IN  IF wrapped.y + LineHeight >= height THEN clear_current_text_line(scroll(wrapped))
        ELSE wrapped

write_byte(s, c) ==
    fix_after_advance(
        CASE c = "newline" -> [s EXCEPT !.x = 0, !.y = @ + LineHeight]
          [] c = "return" -> [s EXCEPT !.x = 0]
          [] OTHER -> draw_string(s, c))

backspace(s) ==
    LET back == IF s.x >= CharWidth THEN [s EXCEPT !.x = @ - CharWidth]
                ELSE IF s.y >= LineHeight
                THEN [s EXCEPT !.y = @ - LineHeight, !.x = width - CharWidth] ELSE s
    IN  clear_rect(back, back.x, Max({0, back.y - LineHeight}), CharWidth, LineHeight)
--------------------------------------------------------------------------------
Blank == [i \in {} |-> Black]
\* Nothing clears the screen; the boot loader left it black.
Init ==
    /\ owner_process = -1 /\ pc = [p \in Processes |-> "run"]
    /\ memory = [row \in Rows |-> [col \in Columns |-> Black]] /\ pos = <<0, 0>>
    /\ paper = <<Blank>> /\ scrolled = 0 /\ pixels = FALSE /\ foreign = FALSE
    /\ panicked = FALSE /\ steps = 0

(* System calls.                                                               *)
take_ownership(p) ==
    /\ ~panicked /\ pc[p] = "run"
    /\ owner_process = -1 /\ owner_process' = p
    /\ UNCHANGED <<memory, pos, pc, paper, scrolled, pixels, foreign, panicked, steps>>

Released_Always(p) == -1
Released(p) == IF owner_process = p THEN -1 ELSE owner_process
release(p) ==
    /\ ~panicked /\ pc[p] = "run"
    /\ owner_process' = Released(p)
    /\ UNCHANGED <<memory, pos, pc, paper, scrolled, pixels, foreign, panicked, steps>>

\* Process::exit
exit(p) ==
    /\ ~panicked /\ pc[p] = "run"
    /\ owner_process' = Released(p)
    /\ pc' = [pc EXCEPT ![p] = "exited"]
    /\ UNCHANGED <<memory, pos, paper, scrolled, pixels, foreign, panicked, steps>>

\* The check of lock_process; a process that is not the owner gets an error.
lock_process(p) ==
    /\ ~panicked /\ pc[p] = "run" /\ steps < MaxSteps
    /\ owner_process = p
    /\ pc' = [pc EXCEPT ![p] = "copying"]
    /\ UNCHANGED <<owner_process, memory, pos, paper, scrolled, pixels, foreign, panicked, steps>>

\* The lock and blit, whose fast and slow way both copy the region's colours.
blit(p, r) ==
    /\ ~panicked /\ pc[p] = "copying"
    /\ pc' = [pc EXCEPT ![p] = "run"]
    /\ memory' = Painted(memory, r.x, r.y, r.width, r.height, "process")
    /\ pixels' = TRUE /\ foreign' = (foreign \/ owner_process # p)
    /\ steps' = steps + 1
    /\ UNCHANGED <<owner_process, pos, paper, scrolled, panicked>>

\* The page after a character, a line longer than the screen being continued on
\* the next.
LineLength == CHOOSE n \in 0..width : n * CharWidth < width /\ (n + 1) * CharWidth >= width
Printed(c) ==
    LET line == Last(paper)
        col == pos[1] \div CharWidth
        written == Append(Front(paper), [i \in DOMAIN line \union {col} |->
                                            IF i = col THEN c ELSE line[i]])
    IN  CASE c = "newline" -> Append(paper, Blank)
          [] c = "return" -> paper
          [] OTHER -> IF col + 1 < LineLength THEN written ELSE Append(written, Blank)

\* A byte of the console; lock_kernel drops it while the screen is owned.
print(c) ==
    /\ ~panicked /\ steps < MaxSteps /\ steps' = steps + 1
    /\ IF owner_process # -1 THEN UNCHANGED <<memory, pos, paper, scrolled, pixels, panicked>>
       ELSE LET s == [memory |-> memory, x |-> pos[1], y |-> pos[2], gone |-> scrolled, ok |-> TRUE]
                after == IF c = "backspace" THEN backspace(s) ELSE write_byte(s, c)
            IN  /\ memory' = after.memory /\ pos' = <<after.x, after.y>>
                /\ scrolled' = after.gone /\ panicked' = ~after.ok
                /\ IF c = "backspace" THEN pixels' = TRUE /\ UNCHANGED paper
                   ELSE UNCHANGED pixels /\ paper' = IF pixels THEN paper ELSE Printed(c)
    /\ UNCHANGED <<owner_process, pc, foreign>>

Next ==
    \/ \E p \in Processes : \/ take_ownership(p) \/ release(p) \/ exit(p) \/ lock_process(p)
                            \/ \E r \in Regions : blit(p, r)
    \/ \E c \in Text : print(c)
--------------------------------------------------------------------------------
\* A pixel in row y belongs to the text line whose glyphs cover the row.
LineAt(y) == (y + LineHeight - 1) \div LineHeight
ShouldBe(x, y) ==
    LET k == LineAt(y) + scrolled + 1
        col == x \div CharWidth
    IN  IF k \in DOMAIN paper /\ col \in DOMAIN paper[k] THEN paper[k][col] ELSE Black

\* Nobody draws on a screen another owns, the owner is a process that has not
\* exited, no drawing of the console is out of bounds; and until a process draws
\* or a backspace erases, the screen shows exactly the last lines printed, with
\* nothing left over from the lines that scrolled away.
DisplayIsRight ==
    /\ ~foreign /\ ~panicked
    /\ owner_process # -1 => pc[owner_process] # "exited"
    /\ pos[1] + CharWidth <= width /\ pos[2] + LineHeight < height
    /\ ~pixels => \A y \in Rows, x \in Columns : memory[y][x] = ShouldBe(x, y)
================================================================================
