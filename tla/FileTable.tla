------------------------------ MODULE FileTable ------------------------------
(***************************************************************************)
(* Open files of processes and the pipes between them: the descriptor      *)
(* table of a Process (kernel/src/process/mod.rs), the system calls on it  *)
(* (process/syscalls/mod.rs), File handles (fs/mod.rs) and the pipe device *)
(* (devices/pipe.rs).                                                      *)
(*                                                                         *)
(* A system call works on the table inside one critical section and is one *)
(* action; the exception is a blocking read, which takes the file out of   *)
(* the table and polls the device with interrupts on (ReadBegin, then      *)
(* ReadStep until it returns).  A process has one thread, so between the   *)
(* two sections of spawn its table does not change.                        *)
(***************************************************************************)
EXTENDS Naturals, Sequences, FiniteSets, FiniteSetsExt

CONSTANTS Pids,         \* process ids; 0 is init
          Pipes,
          Newline, Bytes,
          SpawnMappings,\* the file mappings spawn is called with: sequences of
                        \* records [src, dst] without duplicates
          UserFds,      \* bound: the descriptors processes use
          SetModes,     \* the modes processes switch files to
          MaxFd,        \* bound: descriptors of a process are 0 .. MaxFd
          MaxSent       \* bound: bytes ever written into a pipe

ASSUME FileTableAssumptions ==
    /\ SetModes \subseteq {"None", "Line", "Block"}
    /\ UserFds \subseteq 0 .. MaxFd
    /\ 0 \in Pids /\ IsFiniteSet(Pids) /\ Newline \in Bytes
    /\ MaxFd \in Nat /\ MaxFd >= 3 /\ MaxSent \in Nat
    /\ SpawnMappings \subseteq Seq([src : 0 .. MaxFd, dst : 0 .. MaxFd])
    /\ \A ms \in SpawnMappings : \A i, j \in 1 .. Len(ms) :
          i # j => ms[i].src # ms[j].src /\ ms[i].dst # ms[j].dst

VARIABLES table,        \* pid -> open_filesystem_nodes
          next_id,      \* pid -> file_index_allocator.next_id
          state,        \* pid -> "unborn", "ready", "reading", "exited", "gone"
          hand,         \* pid -> what its blocking read holds: [fd, file, got]
          clones,       \* pipe side -> PipeSide.clones
          available,    \* pipe side -> read_/write_side_available
          buffer,       \* pipe -> the bytes in it, oldest first
          sent, received, \* pipe -> history of the bytes written and read
          panicked,     \* a kernel assertion failed
          shutdown      \* "no", "stopping", "unmounted"

vars == <<table, next_id, state, hand, clones, available, buffer, sent,
          received, panicked, shutdown>>

Side(pipe, end) == <<pipe, end>>
Sides == Pipes \X {"r", "w"}
Console == <<"console", "rw">>
Modes == {"None", "Line", "Block"}
File == [dev : Sides \cup {Console}, mode : Modes]
Std == 0 .. 2
Empty == [fd \in {} |-> 0]
NoRead == [fd |-> MaxFd + 1]

CanRead(f)  == f.dev[2] \in {"r", "rw"}
CanWrite(f) == f.dev[2] \in {"w", "rw"}
IsPipe(f)   == f.dev # Console

\* load_init_process: init owns the console three times.
Init ==
    /\ table = [p \in Pids |-> IF p = 0
                   THEN [fd \in Std |-> [dev |-> Console, mode |-> "Line"]]
                   ELSE Empty]
    /\ next_id = [p \in Pids |-> IF p = 0 THEN 3 ELSE 0]
    /\ state = [p \in Pids |-> IF p = 0 THEN "ready" ELSE "unborn"]
    /\ hand = [p \in Pids |-> NoRead]
    /\ clones = [s \in Sides |-> 0]
    /\ available = [s \in Sides |-> FALSE]
    /\ buffer = [q \in Pipes |-> <<>>]
    /\ sent = [q \in Pipes |-> <<>>] /\ received = [q \in Pipes |-> <<>>]
    /\ panicked = FALSE /\ shutdown = "no"

-----------------------------------------------------------------------------
\* The process can enter a system call.
Ready(p) == state[p] = "ready" /\ ~panicked /\ shutdown = "no"
Opened(p, fd) == fd \in DOMAIN table[p]
Without(t, fds) == [fd \in DOMAIN t \ fds |-> t[fd]]
With(t, fd, f) == [x \in DOMAIN t \cup {fd} |-> IF x = fd THEN f ELSE t[x]]

\* Of a set of files, given as <<tag, file>>, how many are of side s.
Files(dropped, s) == Cardinality({h \in dropped : h[2].dev = s})

\* Mutant: the last close marks the other side.
close_Other(dropped) ==
    LET Last(s) == Files(dropped, s) > 0 /\ clones[s] = Files(dropped, s)
    IN  /\ clones' = [s \in Sides |-> clones[s] - Files(dropped, s)]
        /\ available' = [s \in Sides |->
               available[s] /\ ~\E t \in Sides : t[1] = s[1] /\ t # s /\ Last(t)]

\* Drop of a set of files: FileNode::drop calls close, which marks the side
\* unavailable when its last clone goes.
close(dropped) ==
    /\ clones' = [s \in Sides |-> clones[s] - Files(dropped, s)]
    /\ available' = [s \in Sides |->
           available[s] /\ ~(Files(dropped, s) > 0 /\ clones[s] = Files(dropped, s))]

Handles(t) == {<<fd, t[fd]>> : fd \in DOMAIN t}

\* push_fs_node: the next index must be free ("fd already exists").
push_fs_node(p, f) ==
    /\ next_id[p] <= MaxFd
    /\ IF Opened(p, next_id[p])
       THEN panicked' = TRUE /\ UNCHANGED <<table, next_id>>
       ELSE /\ table' = [table EXCEPT ![p] = With(@, next_id[p], f)]
            /\ next_id' = [next_id EXCEPT ![p] = @ + 1]
            /\ UNCHANGED panicked

\* sys_open of a device that exists.
sys_open(p) ==
    /\ Ready(p)
    /\ push_fs_node(p, [dev |-> Console, mode |-> "None"])
    /\ UNCHANGED <<state, hand, clones, available, buffer, sent, received, shutdown>>

\* sys_create_pipe: create_pipe_pair and two pushes.
sys_create_pipe(p, q) ==
    /\ Ready(p)
    /\ clones[Side(q, "r")] = 0 /\ clones[Side(q, "w")] = 0 /\ sent[q] = <<>>
    /\ next_id[p] < MaxFd
    /\ IF Opened(p, next_id[p]) \/ Opened(p, next_id[p] + 1)
       THEN panicked' = TRUE /\ UNCHANGED <<table, next_id, clones, available>>
       ELSE /\ table' = [table EXCEPT ![p] =
                   With(With(@, next_id[p], [dev |-> Side(q, "r"), mode |-> "Block"]),
                        next_id[p] + 1, [dev |-> Side(q, "w"), mode |-> "None"])]
            /\ next_id' = [next_id EXCEPT ![p] = @ + 2]
            /\ clones' = [clones EXCEPT ![Side(q, "r")] = 1, ![Side(q, "w")] = 1]
            /\ available' = [available EXCEPT ![Side(q, "r")] = TRUE, ![Side(q, "w")] = TRUE]
            /\ UNCHANGED panicked
    /\ UNCHANGED <<state, hand, buffer, sent, received, shutdown>>

\* sys_write on the write side of a pipe; without a reader it is an error.
sys_write(p, fd, b) ==
    /\ Ready(p) /\ Opened(p, fd)
    /\ LET f == table[p][fd]
           q == f.dev[1]
       IN  /\ CanWrite(f) /\ IsPipe(f)
           /\ available[Side(q, "r")]
           /\ Len(sent[q]) < MaxSent
           /\ buffer' = [buffer EXCEPT ![q] = Append(@, b)]
           /\ sent' = [sent EXCEPT ![q] = Append(@, b)]
    /\ UNCHANGED <<table, next_id, state, hand, clones, available, received,
                   panicked, shutdown>>

Take_Newest(q) ==
    /\ received' = [received EXCEPT ![q] = Append(@, buffer[q][Len(buffer[q])])]
    /\ buffer' = [buffer EXCEPT ![q] = SubSeq(@, 1, Len(@) - 1)]
\* A byte leaves the pipe.
Take(q) ==
    /\ received' = [received EXCEPT ![q] = Append(@, Head(buffer[q]))]
    /\ buffer' = [buffer EXCEPT ![q] = Tail(@)]

\* sys_read on a file that is not blocking: one attempt inside the section.
ReadNow(p, fd) ==
    /\ Ready(p) /\ Opened(p, fd)
    /\ LET f == table[p][fd]
       IN  /\ CanRead(f) /\ IsPipe(f) /\ f.mode = "None"
           /\ buffer[f.dev[1]] # <<>>
           /\ Take(f.dev[1])
    /\ UNCHANGED <<table, next_id, state, hand, clones, available, sent,
                   panicked, shutdown>>

ReadBegin_Leaves(p, fd) ==
    /\ Ready(p) /\ Opened(p, fd) /\ table[p][fd].mode # "None"
    /\ hand' = [hand EXCEPT ![p] = [fd |-> fd, file |-> table[p][fd]]]
    /\ state' = [state EXCEPT ![p] = "reading"]
    /\ clones' = [s \in Sides |-> IF s = table[p][fd].dev THEN clones[s] + 1 ELSE clones[s]]
    /\ UNCHANGED <<table, next_id, available, buffer, sent, received, panicked, shutdown>>
\* sys_read on a blocking file: the file is taken out of the table.
ReadBegin(p, fd) ==
    /\ Ready(p) /\ Opened(p, fd) /\ table[p][fd].mode # "None"
    /\ hand' = [hand EXCEPT ![p] = [fd |-> fd, file |-> table[p][fd]]]
    /\ table' = [table EXCEPT ![p] = Without(@, {fd})]
    /\ state' = [state EXCEPT ![p] = "reading"]
    /\ UNCHANGED <<next_id, clones, available, buffer, sent, received,
                   panicked, shutdown>>

Reading(p) == state[p] = "reading" /\ ~panicked /\ shutdown # "unmounted"

\* The read returned Ok: put_fs_node.
PutBack(p) ==
    /\ IF Opened(p, hand[p].fd)
       THEN panicked' = TRUE /\ UNCHANGED table
       ELSE table' = [table EXCEPT ![p] = With(@, hand[p].fd, hand[p].file)] /\ UNCHANGED panicked
    /\ hand' = [hand EXCEPT ![p] = NoRead]
    /\ state' = [state EXCEPT ![p] = "ready"]

at_eof_Never(q) == Len(buffer[q]) > MaxSent
\* PipeSide::read answers EndOfFile.
at_eof(q) == ~available[Side(q, "w")] /\ buffer[q] = <<>>

\* One poll of a pipe.  Block returns with the first byte, Line goes on until
\* a newline; both return what they have at the end of the file.
ReadPipe(p) ==
    /\ Reading(p) /\ CanRead(hand[p].file) /\ IsPipe(hand[p].file)
    /\ LET q == hand[p].file.dev[1]
       IN  \/ at_eof(q) /\ PutBack(p) /\ UNCHANGED <<buffer, received>>
           \/ /\ buffer[q] # <<>>
              /\ Take(q)
              /\ IF hand[p].file.mode = "Line" /\ Head(buffer[q]) # Newline
                 THEN UNCHANGED <<table, hand, state, panicked>>
                 ELSE PutBack(p)
    /\ UNCHANGED <<next_id, clones, available, sent, shutdown>>

\* A line arrives at the console (external).
ReadConsole(p) ==
    /\ Reading(p) /\ hand[p].file.dev = Console
    /\ PutBack(p)
    /\ UNCHANGED <<next_id, clones, available, buffer, sent, received, shutdown>>

\* File::read fails (the handle has no read access): the ? leaves sys_read
\* before put_fs_node and the file is dropped.
ReadError(p) ==
    /\ Reading(p) /\ ~CanRead(hand[p].file)
    /\ close({<<0, hand[p].file>>})
    /\ hand' = [hand EXCEPT ![p] = NoRead]
    /\ state' = [state EXCEPT ![p] = "ready"]
    /\ UNCHANGED <<table, next_id, buffer, sent, received, panicked, shutdown>>

sys_set_blocking(p, fd, m) ==
    /\ Ready(p) /\ Opened(p, fd)
    /\ table' = [table EXCEPT ![p][fd].mode = m]
    /\ UNCHANGED <<next_id, state, hand, clones, available, buffer, sent,
                   received, panicked, shutdown>>

sys_close(p, fd) ==
    /\ Ready(p) /\ Opened(p, fd)
    /\ close({<<fd, table[p][fd]>>})
    /\ table' = [table EXCEPT ![p] = Without(@, {fd})]
    /\ UNCHANGED <<next_id, state, hand, buffer, sent, received, panicked, shutdown>>

-----------------------------------------------------------------------------
\* sys_spawn.  The mapped files move to the child, the standard files that are
\* not mapped are inherited from what the parent still has.
Sources(ms) == {ms[i].src : i \in 1 .. Len(ms)}
Targets(ms) == {ms[i].dst : i \in 1 .. Len(ms)}
std_needed(ms) == Std \ Targets(ms)
Left(p, ms) == Without(table[p], Sources(ms))
Moved(p, ms) == [d \in Targets(ms) |->
                    table[p][ms[CHOOSE i \in 1 .. Len(ms) : ms[i].dst = d].src]]
Inherited(p, fds) == [fd \in fds |-> table[p][fd]]

\* The table of the child.
Child(p, ms) == [fd \in Targets(ms) \cup std_needed(ms) |->
                    IF fd \in Targets(ms) THEN Moved(p, ms)[fd]
                    ELSE Inherited(p, std_needed(ms))[fd]]

\* clone_inherit of every file of t.
clone_device(t) ==
    clones' = [s \in Sides |-> clones[s] + Cardinality({fd \in DOMAIN t : t[fd].dev = s})]

\* attach_fs_node_to_fd sets next_id after the descriptor attached last, then
\* finish_stdio raises it to 3.
NextId(ms) ==
    LET last == IF std_needed(ms) # {} THEN Max(std_needed(ms)) ELSE ms[Len(ms)].dst
    IN  Max({last + 1, 3})

SpawnOk(p, c, ms) ==
    /\ Ready(p) /\ state[c] = "unborn"
    /\ Sources(ms) \subseteq DOMAIN table[p]
    /\ std_needed(ms) \subseteq DOMAIN Left(p, ms)
    /\ table' = [table EXCEPT ![p] = Left(p, ms), ![c] = Child(p, ms)]
    /\ clone_device(Inherited(p, std_needed(ms)))
    /\ next_id' = [next_id EXCEPT ![c] = NextId(ms)]
    /\ state' = [state EXCEPT ![c] = "ready"]
    /\ UNCHANGED <<hand, available, buffer, sent, received, panicked, shutdown>>

SpawnFail_Leaks(p, ms) ==
    /\ Ready(p) /\ ms # <<>>
    /\ Sources(ms) \subseteq DOMAIN table[p]
    /\ ~(std_needed(ms) \subseteq DOMAIN Left(p, ms))
    /\ table' = [table EXCEPT ![p] = Left(p, ms)]
    /\ UNCHANGED <<next_id, state, hand, clones, available, buffer, sent,
                   received, panicked, shutdown>>
\* A standard file is missing: the new process, with what was moved into it,
\* is dropped.
SpawnFail(p, ms) ==
    /\ Ready(p) /\ ms # <<>>
    /\ Sources(ms) \subseteq DOMAIN table[p]
    /\ ~(std_needed(ms) \subseteq DOMAIN Left(p, ms))
    /\ table' = [table EXCEPT ![p] = Left(p, ms)]
    /\ close(Handles(Moved(p, ms)))
    /\ UNCHANGED <<next_id, state, hand, buffer, sent, received, panicked, shutdown>>

sys_exit(p) ==
    /\ Ready(p) /\ p # 0
    /\ state' = [state EXCEPT ![p] = "exited"]
    /\ UNCHANGED <<table, next_id, hand, clones, available, buffer, sent,
                   received, panicked, shutdown>>

\* schedule() drops the exited process and with it its files.
Reap(p) ==
    /\ state[p] = "exited" /\ ~panicked
    /\ close(Handles(table[p]))
    /\ table' = [table EXCEPT ![p] = Empty]
    /\ state' = [state EXCEPT ![p] = "gone"]
    /\ UNCHANGED <<next_id, hand, buffer, sent, received, panicked, shutdown>>

\* exit_idle_processes: every process is dropped where it stands.  A file in
\* the hand of a blocking read is on the kernel stack and is not dropped.
Shutdown ==
    /\ shutdown = "no" /\ ~panicked
    /\ shutdown' = "stopping"
    /\ close(UNION {{<<<<p, h[1]>>, h[2]>> : h \in Handles(table[p])} : p \in Pids})
    /\ table' = [p \in Pids |-> Empty]
    /\ state' = [p \in Pids |-> IF state[p] = "unborn" THEN "unborn" ELSE "gone"]
    /\ UNCHANGED <<next_id, hand, buffer, sent, received, panicked>>

\* finish_power_sequence: unmounting /devices asserts that no handle is left.
Unmount ==
    /\ shutdown = "stopping"
    /\ shutdown' = "unmounted"
    /\ panicked' = \E p \in Pids : hand[p] # NoRead /\ hand[p].file.dev = Console
    /\ UNCHANGED <<table, next_id, state, hand, clones, available, buffer, sent, received>>

ReadStep(p) == ReadPipe(p) \/ ReadError(p)

Next ==
    \/ \E p \in Pids :
          \/ sys_open(p) \/ sys_exit(p) \/ Reap(p)
          \/ ReadPipe(p) \/ ReadConsole(p) \/ ReadError(p)
          \/ \E q \in Pipes : sys_create_pipe(p, q)
          \/ \E fd \in UserFds :
                \/ ReadNow(p, fd) \/ ReadBegin(p, fd) \/ sys_close(p, fd)
                \/ \E b \in Bytes : sys_write(p, fd, b)
                \/ \E m \in SetModes : sys_set_blocking(p, fd, m)
          \/ \E ms \in SpawnMappings :
                SpawnFail(p, ms) \/ \E c \in Pids : SpawnOk(p, c, ms)
    \/ Shutdown \/ Unmount

\* The scheduler runs every process and reaps the exited ones.
Fairness == \A p \in Pids : WF_vars(ReadStep(p)) /\ WF_vars(Reap(p))
Spec == Init /\ [][Next]_vars /\ Fairness

-----------------------------------------------------------------------------
\* Every variable has its type.
TypeOK ==
    /\ \A p \in Pids : /\ DOMAIN table[p] \subseteq 0 .. MaxFd
                       /\ \A fd \in DOMAIN table[p] : table[p][fd] \in File
                       /\ hand[p] = NoRead \/ hand[p] \in [fd : 0 .. MaxFd, file : File]
    /\ next_id \in [Pids -> 0 .. MaxFd + 1]
    /\ state \in [Pids -> {"unborn", "ready", "reading", "exited", "gone"}]
    /\ clones \in [Sides -> Nat]
    /\ available \in [Sides -> BOOLEAN]
    /\ buffer \in [Pipes -> Seq(Bytes)]
    /\ panicked \in BOOLEAN

\* The handles on a pipe side: descriptors, and files that a blocking read holds.
InTable(s) == {h \in Pids \X (0 .. MaxFd) : Opened(h[1], h[2]) /\ table[h[1]][h[2]].dev = s}
InHand(s) == {h \in Pids \X {MaxFd + 1} : hand[h[1]] # NoRead /\ hand[h[1]].file.dev = s}
HandlesOf(s) == InTable(s) \cup InHand(s)

\* The clone counter of a pipe side is the number of handles on it over all
\* processes, blocking reads and failed spawns included.
ClonesCountHandles == TypeOK /\ \A s \in Sides : clones[s] = Cardinality(HandlesOf(s))

\* Bytes come out of a pipe in the order they went in, none lost or repeated,
\* whoever reads and in whatever mode.
PipeIsFifo == \A q \in Pipes : sent[q] = received[q] \o buffer[q]

\* A reader that got the end of the file has seen everything: once the write
\* side is gone nothing is written any more.
EofIsFinal ==
    [][\A q \in Pipes : sent[q] # <<>> /\ ~available[Side(q, "w")]
            => sent'[q] = sent[q]]_vars

\* The assertions of put_fs_node and push_fs_node never fail: the descriptor of
\* a blocking read is still free when the file is put back, and the next index
\* is free ("so that next push_file will not overwrite this fd") for children
\* whose files are mapped to the standard descriptors.
DescriptorsAreFree ==
    \A p \in Pids :
        /\ state[p] = "reading" => ~Opened(p, hand[p].fd)
        /\ state[p] = "ready" => ~Opened(p, next_id[p])

\* Handles are counted and found by descriptors that are theirs alone.
HandlesAreRight == ClonesCountHandles /\ DescriptorsAreFree

\* A blocking read of a pipe ends once the last writer is gone.
ReaderReleased ==
    \A p \in Pids : \A q \in Pipes :
        (/\ state[p] = "reading" /\ hand[p].file.dev = Side(q, "r")
         /\ ~available[Side(q, "w")])
        ~> (state[p] # "reading" \/ panicked)

\* A shell's pipeline: the child gets a side of the pipe as a standard file.
To(s, d) == [src |-> s, dst |-> d]
Pipelines == {<<>>, <<To(3, 0)>>, <<To(4, 1)>>}
==============================================================================
