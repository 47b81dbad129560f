-------------------------------- MODULE LogFile --------------------------------
(***************************************************************************)
(* The log (kernel/src/io/console/tracing.rs): events are appended to a    *)
(* static buffer, then to one on the heap, and the timer interrupt writes  *)
(* what has piled up to the log file once the file system is there.  The   *)
(* log is behind a mutex, which turns interrupts off, so an event, a flush *)
(* and the shutdown are one step each.  A piece is what one write_str puts *)
(* into the log.                                                           *)
(***************************************************************************)
EXTENDS Integers, Sequences

CONSTANTS StaticSize,   \* pieces that fit into INITIAL_BUFFER
          Pieces,       \* write_str calls of an event
          MaxEvents     \* bound: events

LogAssumptions == {StaticSize, Pieces, MaxEvents} \subseteq Nat \ {0}

VARIABLES boot,     \* "early", "heap", "interrupts", "mounted", "unmounted"
          dynamic,  \* Buffer::Dynamic or Buffer::Static
          log_buffer,
          file,     \* the log file is open
          shutdown,
          log_disk,     \* contents of the log file, at first those of an earlier boot
          trace,    \* max_log_level lets the events of the page mapper through
          log_panicked,
          events,
          logged,   \* history: pieces of all events that fitted when they came
          saved     \* history: number of pieces a shutdown had to save

log_vars == <<boot, dynamic, log_buffer, file, shutdown, log_disk, trace, log_panicked, events,
              logged, saved>>

LogInit ==
    /\ boot = "early"
    /\ dynamic = FALSE /\ log_buffer = <<>>
    /\ file = FALSE /\ shutdown = FALSE
    /\ log_disk = <<<<0, 0>>>>
    /\ trace \in BOOLEAN /\ log_panicked = FALSE
    /\ events = 0 /\ logged = <<>> /\ saved = 0
--------------------------------------------------------------------------------
\* The pieces of an event that push_str takes: a full static buffer keeps what it
\* has and drops the rest.
Fits ==
    IF dynamic \/ Len(log_buffer) + Pieces <= StaticSize THEN Pieces
    ELSE StaticSize - Len(log_buffer)

EventPieces(n) == [i \in 1 .. n |-> <<events + 1, i>>]

push_str(n) == log_buffer \o EventPieces(n)

\* ConsoleSubscriber::event.  A heap buffer may have to grow; if that maps pages
\* and the mapper's own trace! events are on, the second event locks the log again
\* on the same processor, which panics.
event(grows) ==
    /\ ~log_panicked /\ events < MaxEvents
    /\ grows => dynamic
    /\ events' = events + 1
    /\ IF grows /\ trace THEN log_panicked' = TRUE /\ UNCHANGED <<log_buffer, logged>>
       ELSE /\ log_buffer' = push_str(Fits)
            /\ logged' = logged \o EventPieces(Fits)
            /\ UNCHANGED log_panicked
    /\ UNCHANGED <<boot, dynamic, file, shutdown, log_disk, trace, saved>>

move_to_dynamic_buffer ==
    /\ boot = "early"
    /\ boot' = "heap" /\ dynamic' = TRUE
    /\ UNCHANGED <<log_buffer, file, shutdown, log_disk, trace, log_panicked, events, logged, saved>>

\* Next phases of kernel_main and of the power sequence
Boot ==
    /\ \/ boot = "heap" /\ boot' = "interrupts"
       \/ boot = "interrupts" /\ boot' = "mounted"
       \/ boot = "mounted" /\ shutdown /\ boot' = "unmounted"
    /\ UNCHANGED <<dynamic, log_buffer, file, shutdown, log_disk, trace, log_panicked, events, logged, saved>>

\* LogFile::flush goes on to write if there is something, the log is not shut down
\* and the file is open or can be opened ("opens").
Writes_Reopens(buf, opens) == buf # <<>> /\ (file \/ opens)
Writes(buf, opens) == buf # <<>> /\ ~shutdown /\ (file \/ opens)

\* LogFile::flush of a log that holds buf.  Opening truncates the file; a write
\* that fails is a panic.
flush(buf, opens, succeeds) ==
    IF ~Writes(buf, opens) THEN log_buffer' = buf /\ UNCHANGED <<log_disk, log_panicked>>
    ELSE /\ log_disk' = (IF file THEN log_disk ELSE <<>>) \o (IF succeeds THEN buf ELSE <<>>)
         /\ log_buffer' = IF succeeds THEN <<>> ELSE buf
         /\ log_panicked' = ~succeeds

\* flush_log_file in the timer interrupt.  Before the mount the open fails with
\* FileNotFound; later it may fail with another error, which is printed.
flush_log_file(opens, succeeds) ==
    /\ boot \in {"interrupts", "mounted", "unmounted"} /\ ~log_panicked
    /\ opens => boot = "mounted"
    /\ flush(log_buffer, opens, succeeds)
    /\ file' = (file \/ Writes(log_buffer, opens))
    /\ UNCHANGED <<boot, dynamic, shutdown, trace, events, logged, saved>>

\* LogFile::shutdown of a log that holds buf
LogShutdown(buf, opens, succeeds) ==
    /\ flush(buf, opens, succeeds)
    /\ file' = FALSE
    /\ shutdown' = TRUE
    /\ saved' = IF Writes(buf, opens) THEN Len(logged') ELSE saved

\* shutdown_log_file in finish_power_sequence, its own event included
shutdown_log_file(grows, opens, succeeds) ==
    /\ boot = "mounted" /\ ~log_panicked /\ ~shutdown
    /\ events' = events + 1
    /\ IF grows /\ trace
       THEN log_panicked' = TRUE /\ UNCHANGED <<log_buffer, file, shutdown, log_disk, logged, saved>>
       ELSE /\ logged' = logged \o EventPieces(Fits)
            /\ LogShutdown(push_str(Fits), opens, succeeds)
    /\ UNCHANGED <<boot, dynamic, trace>>

LogNext ==
    \/ \E grows \in BOOLEAN : event(grows)
    \/ move_to_dynamic_buffer \/ Boot
    \/ \E opens, succeeds \in BOOLEAN :
            \/ flush_log_file(opens, succeeds)
            \/ \E grows \in BOOLEAN : shutdown_log_file(grows, opens, succeeds)

LogSpec == LogInit /\ [][LogNext]_log_vars
--------------------------------------------------------------------------------
InFile == IF log_disk # <<>> /\ log_disk[1] = <<0, 0>> THEN <<>> ELSE log_disk

\* Unless the kernel has panicked, the log file followed by the buffer is every
\* piece logged, once and in order, through the move to the heap and however
\* flushes fall between events; after the shutdown the file has everything up to
\* it and is not touched again, although the timer goes on flushing.
LogIsComplete ==
    ~log_panicked =>
        /\ InFile \o log_buffer = logged
        /\ saved > 0 => Len(InFile) = saved
================================================================================
