------------------------------ MODULE Scheduler ------------------------------
(***************************************************************************)
(* The process scheduler: kernel/src/process/scheduler.rs, the system      *)
(* calls that act on it (kernel/src/process/syscalls/mod.rs) and the timer *)
(* interrupt that preempts processes (kernel/src/cpu/interrupts).          *)
(*                                                                         *)
(* The kernel runs on one processor (cpu::cpu() is always CPUS[0]), so a   *)
(* section that holds the SCHEDULER mutex, or that lies between push_cli   *)
(* and pop_cli, runs with interrupts off and is one atomic step here.      *)
(* Between two such sections the timer may preempt a process, in user mode *)
(* and in the middle of a system call alike (the system call gate leaves   *)
(* interrupts on): syscall_pc records where a preempted system call will   *)
(* resume.                                                                 *)
(*                                                                         *)
(* A kernel panic is the control state "panicked", which nothing leaves.   *)
(***************************************************************************)
EXTENDS Integers, FiniteSets, Cpu

CONSTANTS
    MaxProcesses,        \* bound: number of process ids ever allocated
    U64_MAX,             \* stands for u64::MAX, the top of the counters
    MIN_PRIORITY_VALUE,  \* below this the counters are reset (100 in the code)
    PriorityLevels,      \* the levels a process may ask for, of 1 .. 5
    ExitCodes,           \* the codes processes exit with
    Sleeps,              \* the durations processes sleep for
    MaxTime              \* bound: the last clock reading

Normal == 3              \* PriorityLevel::Normal, the level of a new process

ASSUME SchedulerAssumption ==
    /\ MaxProcesses \in Nat \ {0}
    /\ U64_MAX \in Nat
    /\ MIN_PRIORITY_VALUE \in 5 .. U64_MAX
    /\ PriorityLevels \subseteq 1 .. 5
    /\ ExitCodes \subseteq Int
    /\ Sleeps \subseteq Nat
    /\ MaxTime \in Nat

Pid == 0 .. MaxProcesses - 1

VARIABLES
    \* the Scheduler structure
    scheduled_processes,    \* the binary heap, as the set of its pids
    running_waiting_procs,  \* the BTreeMap of running and waiting processes
    exited_processes,       \* exited, their parents not yet told
    max_priority,
    SHUTDOWN,
    \* per process
    state,                  \* ProcessState
    wait_pid,               \* the pid of WaitingForPid, and of the last call
    deadline,               \* the time of WaitingForTime
    priority_counter,
    priority,
    parent_id,
    exit_code,
    children_exits,         \* the children known to have exited, with codes
    wait_result,            \* what the last wait_pid call returned
    syscall_pc,             \* where in a system call the process is
    next_pid,               \* PROCESS_ID_ALLOCATOR
    \* the processor
    cpu,                    \* n_cli and the interrupt flag
    kernel_intr,            \* the flag in the saved context of schedule()
    context,                \* is cpu.context Some?
    process_id,             \* cpu.process_id
    scheduling,
    control,                \* who runs: the schedule() loop or a process
    now                     \* clock::time_since_startup()

procVars  == <<state, wait_pid, deadline, priority_counter, priority,
               parent_id, exit_code, children_exits>>
queueVars == <<scheduled_processes, running_waiting_procs, exited_processes,
               max_priority>>
cpuVars   == <<cpu, kernel_intr, context, process_id, scheduling, control>>
vars == <<queueVars, procVars, cpuVars, SHUTDOWN, wait_result, syscall_pc,
          next_pid, now>>

States == {"Running", "Scheduled", "WaitingForPid", "WaitingForTime"}
Controls == {"schedule", "dispatch", "process", "halted", "returned",
             "panicked"}
SyscallPoints == {"user", "wait_check", "wait_commit", "sleep_commit",
                  "return"}

\* What wait_pid returns: an exit code or an error.
ExitedWith(code) == [kind |-> "ExitCode", code |-> code]
Answer(kind)     == [kind |-> kind, code |-> 0]
NoResult         == Answer("none")
Answers == [kind : {"none", "ExitCode", "PidNotFound", "ProcessStillRunning"},
            code : Int]
------------------------------------------------------------------------------
(***************************************************************************)
(* kernel_main has pushed the init process (pid 0, its own parent) and     *)
(* entered schedule().                                                     *)
(***************************************************************************)
Init ==
    /\ scheduled_processes = {0}
    /\ running_waiting_procs = {}
    /\ exited_processes = {}
    /\ max_priority = U64_MAX
    /\ SHUTDOWN = FALSE
    /\ state = [p \in Pid |-> "Scheduled"]
    /\ wait_pid = [p \in Pid |-> 0]
    /\ deadline = [p \in Pid |-> 0]
    /\ priority_counter = [p \in Pid |-> U64_MAX]
    /\ priority = [p \in Pid |-> Normal]
    /\ parent_id = [p \in Pid |-> 0]
    /\ exit_code = [p \in Pid |-> 0]
    /\ children_exits = [p \in Pid |-> {}]
    /\ wait_result = [p \in Pid |-> NoResult]
    /\ syscall_pc = [p \in Pid |-> "user"]
    /\ next_pid = 1
    /\ cpu = BootCpu
    /\ kernel_intr = On
    /\ context = FALSE
    /\ process_id = 0
    /\ scheduling = FALSE
    /\ control = "schedule"
    /\ now = 0
------------------------------------------------------------------------------
(***************************************************************************)
(* try_wake_waiting_processes.  The map is walked in pid order, and an     *)
(* exited process leaves exited_processes as soon as the walk meets its    *)
(* parent waiting for a pid: waiters behind that parent do not see it.     *)
(***************************************************************************)
ParentMet(e) ==
    /\ parent_id[e] \in running_waiting_procs
    /\ state[parent_id[e]] \in {"WaitingForPid", "Running"}

\* Mutant: the process that exited is rescheduled, not the one that waited.
WokenByExit_Swapped ==
    {wait_pid[w] : w \in {x \in running_waiting_procs :
        state[x] = "WaitingForPid" /\ wait_pid[x] \in exited_processes}}

WokenByExit ==
    {w \in running_waiting_procs :
        /\ state[w] = "WaitingForPid"
        /\ wait_pid[w] \in exited_processes
        /\ ParentMet(wait_pid[w]) => w <= parent_id[wait_pid[w]]}

\* Mutant: a sleep does not end on the exact tick.
WokenByTime_Late ==
    {w \in running_waiting_procs :
        state[w] = "WaitingForTime" /\ deadline[w] < now}

WokenByTime ==
    {w \in running_waiting_procs :
        state[w] = "WaitingForTime" /\ deadline[w] <= now}

Woken == WokenByExit \cup WokenByTime

\* The heap once the woken processes are back in it, and their counters.
Runnable == scheduled_processes \cup Woken

\* Mutant: a process that waited starts again at the top.
WokenCounter_ToTop ==
    [p \in Pid |-> IF p \in Woken THEN U64_MAX ELSE priority_counter[p]]

WokenCounter ==
    LET woken == Woken IN
    [p \in Pid |-> IF p \in woken THEN max_priority ELSE priority_counter[p]]

\* Exits are told to the parents met in the walk, then to those in the heap.
ToldParent(e) == ParentMet(e) \/ parent_id[e] \in Runnable

ChildrenTold ==
    [p \in Pid |-> children_exits[p] \cup
        {<<e, exit_code[e]>> : e \in {x \in exited_processes :
                                        parent_id[x] = p /\ ToldParent(x)}}]

WaitersAnswered ==
    [p \in Pid |-> IF p \in WokenByExit
                   THEN ExitedWith(exit_code[wait_pid[p]])
                   ELSE wait_result[p]]

\* reset_scheduled_processes_counters, done when the top is below the minimum.
\* Mutants: an off-by-one in the minimum, and no reset at all.
CountersAreLow_OffByOne ==
    \A p \in Runnable : WokenCounter[p] < MIN_PRIORITY_VALUE - 1

CountersAreLow_Never == FALSE

CountersAreLow ==
    LET counter == WokenCounter IN
    \A p \in Runnable : counter[p] < MIN_PRIORITY_VALUE

ResetCounter ==
    IF CountersAreLow
    THEN [p \in Pid |-> IF p \in Runnable THEN U64_MAX ELSE priority_counter[p]]
    ELSE WokenCounter

\* BinaryHeap::pop: a process with a largest counter; ties in any order.
IsTop(p) ==
    LET counter == ResetCounter IN
    p \in Runnable /\ \A q \in Runnable : counter[q] <= counter[p]

\* The higher the level, the slower the counter falls.
Decrement(p) == 6 - priority[p]

\* What one pass of try_wake leaves behind, whether or not something runs.
\* Mutant: the exited processes are told again in the next pass.
WakePass_KeepsExited ==
    /\ UNCHANGED exited_processes
    /\ children_exits' = ChildrenTold
    /\ wait_result' = WaitersAnswered

WakePass ==
    /\ exited_processes' = {}
    /\ children_exits' = ChildrenTold
    /\ wait_result' = WaitersAnswered

(***************************************************************************)
(* One iteration of the loop in schedule(): the mutex is taken (push_cli), *)
(* push_cli is called once more, sleeping and waiting processes are woken, *)
(* and the top of the heap, if there is one, becomes the current process.  *)
(* pop_cli is only called on that branch.                                  *)
(***************************************************************************)
SchedulePick(p) ==
    LET counter == ResetCounter[p] - Decrement(p) IN
    /\ control = "schedule" /\ ~SHUTDOWN
    /\ IsTop(p)
    /\ WakePass
    /\ scheduled_processes' = Runnable \ {p}
    /\ running_waiting_procs' = (running_waiting_procs \ Woken) \cup {p}
    /\ state' = [q \in Pid |-> IF q = p THEN "Running"
                               ELSE IF q \in Woken THEN "Scheduled"
                               ELSE state[q]]
    /\ priority_counter' = [ResetCounter EXCEPT ![p] = counter]
    /\ max_priority' = counter
    /\ process_id' = p
    /\ context' = TRUE
    /\ scheduling' = TRUE
    /\ cpu' = pop_cli(pop_cli(push_cli(push_cli(cpu))))
    /\ control' = "dispatch"
    /\ deadline' = [q \in Pid |-> IF q \in Woken THEN 0 ELSE deadline[q]]
    /\ UNCHANGED <<wait_pid, priority, parent_id, exit_code, SHUTDOWN,
                   syscall_pc, next_pid, now, kernel_intr>>

\* Nothing to run: hlt returns at the next interrupt, if they are enabled.
ScheduleIdle ==
    /\ control = "schedule" /\ ~SHUTDOWN
    /\ Runnable = {}
    /\ WakePass
    /\ cpu' = pop_cli(push_cli(push_cli(cpu)))
    /\ control' = IF cpu'.intr = On THEN "schedule" ELSE "halted"
    /\ UNCHANGED <<scheduled_processes, running_waiting_procs, max_priority,
                   state, wait_pid, deadline, priority_counter, priority,
                   parent_id, exit_code, SHUTDOWN, syscall_pc, next_pid, now,
                   kernel_intr, context, process_id, scheduling>>

\* Mutant: exit_idle_processes forgets the processes that wait.
ScheduleShutdown_KeepsWaiting ==
    /\ control = "schedule" /\ SHUTDOWN
    /\ scheduled_processes' = {}
    /\ UNCHANGED running_waiting_procs
    /\ exited_processes' = {}
    /\ exit_code' = [p \in Pid |-> IF p \in scheduled_processes
                                   THEN 0 ELSE exit_code[p]]
    /\ cpu' = pop_cli(push_cli(push_cli(cpu)))
    /\ control' = IF running_waiting_procs = {} /\ ~context
                  THEN "returned" ELSE "halted"
    /\ UNCHANGED <<max_priority, state, wait_pid, deadline, priority_counter,
                   priority, parent_id, children_exits, SHUTDOWN, wait_result,
                   syscall_pc, next_pid, now, kernel_intr, context, process_id,
                   scheduling>>

(***************************************************************************)
(* The pass after stop_scheduler: exit_idle_processes destroys everything  *)
(* that is not running, then schedule() returns to kernel_main, which      *)
(* continues with power::finish_power_sequence.                            *)
(***************************************************************************)
ScheduleShutdown ==
    LET idle == {p \in running_waiting_procs : state[p] # "Running"}
        left == running_waiting_procs \ idle IN
    /\ control = "schedule" /\ SHUTDOWN
    /\ scheduled_processes' = {}
    /\ running_waiting_procs' = left
    /\ exited_processes' = {}
    /\ exit_code' = [p \in Pid |-> IF p \in scheduled_processes \cup idle
                                   THEN 0 ELSE exit_code[p]]
    /\ cpu' = pop_cli(push_cli(push_cli(cpu)))
    /\ control' = IF left = {} /\ ~context THEN "returned" ELSE "halted"
    /\ UNCHANGED <<max_priority, state, wait_pid, deadline, priority_counter,
                   priority, parent_id, children_exits, SHUTDOWN, wait_result,
                   syscall_pc, next_pid, now, kernel_intr, context, process_id,
                   scheduling>>

\* int 0xff: scheduler_interrupt_handler swaps the flags of schedule() with
\* those of the process, which has interrupts enabled.
Dispatch ==
    /\ control = "dispatch" /\ context /\ scheduling
    /\ scheduling' = FALSE
    /\ kernel_intr' = cpu.intr
    /\ cpu' = [cpu EXCEPT !.intr = On]
    /\ control' = "process"
    /\ UNCHANGED <<queueVars, procVars, context, process_id, SHUTDOWN,
                   wait_result, syscall_pc, next_pid, now>>
------------------------------------------------------------------------------
(***************************************************************************)
(* Giving up the processor.  All three routines swap the context of the    *)
(* schedule() loop back in and leave cpu.context empty.                    *)
(***************************************************************************)
Current(p) == control = "process" /\ process_id = p

\* c is the processor at the end of the handler, before iretq.
LeaveCpu(c) ==
    /\ context' = FALSE
    /\ control' = "schedule"
    /\ cpu' = [c EXCEPT !.intr = kernel_intr]
    /\ UNCHANGED <<kernel_intr, process_id, scheduling>>

\* take_current_process expects its pid in the map, in state Running.
TakeCurrent(p) ==
    /\ p \in running_waiting_procs /\ state[p] = "Running"
    /\ running_waiting_procs' = running_waiting_procs \ {p}

\* reschedule_process; during a shutdown the process is exited instead.
\* Mutant: whoever is rescheduled goes to the top of the counters.
Reschedule_ToTop(p) ==
    IF SHUTDOWN
    THEN /\ exit_code' = [exit_code EXCEPT ![p] = 255]
         /\ exited_processes' = exited_processes \cup {p}
         /\ UNCHANGED <<scheduled_processes, priority_counter, state>>
    ELSE /\ priority_counter' = [priority_counter EXCEPT ![p] = U64_MAX]
         /\ state' = [state EXCEPT ![p] = "Scheduled"]
         /\ scheduled_processes' = scheduled_processes \cup {p}
         /\ UNCHANGED <<exit_code, exited_processes>>

Reschedule(p) ==
    IF SHUTDOWN
    THEN /\ exit_code' = [exit_code EXCEPT ![p] = 255]
         /\ exited_processes' = exited_processes \cup {p}
         /\ UNCHANGED <<scheduled_processes, priority_counter, state>>
    ELSE /\ priority_counter' = [priority_counter EXCEPT ![p] = max_priority]
         /\ state' = [state EXCEPT ![p] = "Scheduled"]
         /\ scheduled_processes' = scheduled_processes \cup {p}
         /\ UNCHANGED <<exit_code, exited_processes>>

\* Mutant: the flag that marks the middle of scheduling is not looked at.
yield_current_if_any_Always(p, c) ==
    /\ context
    /\ TakeCurrent(p)
    /\ Reschedule(p)
    /\ LeaveCpu(pop_cli(push_cli(c)))
    /\ UNCHANGED <<max_priority, wait_pid, deadline, priority, parent_id,
                   children_exits, SHUTDOWN, wait_result, next_pid, now>>

\* c is the processor when the handler calls this.
yield_current_if_any(p, c) ==
    /\ context /\ ~scheduling
    /\ TakeCurrent(p)
    /\ Reschedule(p)
    /\ LeaveCpu(pop_cli(push_cli(c)))
    /\ UNCHANGED <<max_priority, wait_pid, deadline, priority, parent_id,
                   children_exits, SHUTDOWN, wait_result, next_pid, now>>

\* apic_timer_handler.  Entering it clears the interrupt flag.  It can also
\* arrive between the choice of a process and int 0xff; it then does nothing.
TimerInterrupt(p) ==
    /\ control \in {"process", "dispatch"} /\ process_id = p
    /\ cpu.intr = On
    /\ yield_current_if_any(p, [cpu EXCEPT !.intr = Off])
    /\ UNCHANGED syscall_pc

\* The end of handle_syscall: the caller yields.
SyscallReturn(p) ==
    /\ Current(p) /\ syscall_pc[p] = "return"
    /\ yield_current_if_any(p, cpu)
    /\ syscall_pc' = [syscall_pc EXCEPT ![p] = "user"]
------------------------------------------------------------------------------
(***************************************************************************)
(* System calls.                                                           *)
(***************************************************************************)
EnterSyscall(p, pc) ==
    /\ Current(p) /\ syscall_pc[p] = "user"
    /\ syscall_pc' = [syscall_pc EXCEPT ![p] = pc]

LeaveSyscall(p, pc) ==
    /\ Current(p) /\ syscall_pc[p] = pc
    /\ syscall_pc' = [syscall_pc EXCEPT ![p] = "return"]

\* sys_spawn, from allocate_process (a fresh pid, the caller as parent) to
\* push_process.
SysSpawn(p) ==
    /\ EnterSyscall(p, "return")
    /\ next_pid < MaxProcesses
    /\ next_pid' = next_pid + 1
    /\ parent_id' = [parent_id EXCEPT ![next_pid] = p]
    /\ Reschedule(next_pid)
    /\ UNCHANGED <<running_waiting_procs, max_priority, wait_pid, deadline,
                   priority, children_exits, cpuVars, SHUTDOWN, wait_result,
                   now>>

\* sys_exit: exit_current_process moves the process to exited_processes,
\* then syscall_result_to_u64 asserts that the encoded code is not negative.
\* Of a process there only its id, parent and code are read before it is
\* dropped, so the other fields become those of no process.
SysExit(p, code) ==
    /\ EnterSyscall(p, "user")
    /\ TakeCurrent(p)
    /\ exit_code' = [exit_code EXCEPT ![p] = code]
    /\ exited_processes' = exited_processes \cup {p}
    /\ context' = FALSE
    /\ cpu' = [pop_cli(push_cli(cpu)) EXCEPT !.intr = kernel_intr]
    /\ control' = IF code < 0 THEN "panicked" ELSE "schedule"
    /\ priority_counter' = [priority_counter EXCEPT ![p] = U64_MAX]
    /\ priority' = [priority EXCEPT ![p] = Normal]
    /\ wait_pid' = [wait_pid EXCEPT ![p] = 0]
    /\ wait_result' = [wait_result EXCEPT ![p] = NoResult]
    /\ UNCHANGED <<scheduled_processes, max_priority, state, deadline,
                   parent_id, children_exits, kernel_intr, process_id,
                   scheduling, SHUTDOWN, next_pid, now>>

\* sys_sleep reads the clock, then sleep_current_process parks the caller.
SysSleep(p, duration) ==
    /\ EnterSyscall(p, "sleep_commit")
    /\ now + duration <= MaxTime
    /\ deadline' = [deadline EXCEPT ![p] = now + duration]
    /\ UNCHANGED <<queueVars, state, wait_pid, priority_counter, priority,
                   parent_id, exit_code, children_exits, cpuVars, SHUTDOWN,
                   wait_result, next_pid, now>>

\* Mutant: the pop_cli after the closure is forgotten.
Park_NoPop(p, how) ==
    /\ p \in running_waiting_procs /\ state[p] = "Running"
    /\ state' = [state EXCEPT ![p] = how]
    /\ LeaveCpu(pop_cli(push_cli(push_cli(cpu))))
    /\ syscall_pc' = [syscall_pc EXCEPT ![p] = "user"]

\* The tail that sleep_current_process and wait_for_pid share: the process
\* stays in the map, marked as waiting, and the schedule() loop resumes.
Park(p, how) ==
    /\ p \in running_waiting_procs /\ state[p] = "Running"
    /\ state' = [state EXCEPT ![p] = how]
    /\ LeaveCpu(pop_cli(pop_cli(push_cli(push_cli(cpu)))))
    /\ syscall_pc' = [syscall_pc EXCEPT ![p] = "user"]

SleepCommit(p) ==
    /\ Current(p) /\ syscall_pc[p] = "sleep_commit"
    /\ Park(p, "WaitingForTime")
    /\ UNCHANGED <<queueVars, wait_pid, deadline, priority_counter, priority,
                   parent_id, exit_code, children_exits, SHUTDOWN,
                   wait_result, next_pid, now>>

\* is_process_running: in the map or in the heap.
is_process_running(t) == t \in running_waiting_procs \cup scheduled_processes

\* sys_wait_pid, first section: take the code out of children_exits.  A
\* negative code fails the assertion of syscall_result_to_u64.
SysWaitPid(p, t) ==
    LET known == {x \in children_exits[p] : x[1] = t}
        code  == (CHOOSE x \in known : TRUE)[2] IN
    /\ EnterSyscall(p, IF known = {} THEN "wait_check" ELSE "return")
    /\ wait_pid' = [wait_pid EXCEPT ![p] = t]
    /\ children_exits' = [children_exits EXCEPT ![p] = @ \ known]
    /\ wait_result' = [wait_result EXCEPT ![p] =
                         IF known = {} THEN NoResult ELSE ExitedWith(code)]
    /\ control' = IF known # {} /\ code < 0 THEN "panicked" ELSE "process"
    /\ UNCHANGED <<queueVars, state, deadline, priority_counter, priority,
                   parent_id, exit_code, cpu, kernel_intr, context,
                   process_id, scheduling, SHUTDOWN, next_pid, now>>

\* The non-blocking call only reports whether the process runs.
WaitCheckNonBlocking(p) ==
    /\ LeaveSyscall(p, "wait_check")
    /\ wait_result' = [wait_result EXCEPT ![p] =
                         Answer(IF is_process_running(wait_pid[p])
                                THEN "ProcessStillRunning" ELSE "PidNotFound")]
    /\ UNCHANGED <<queueVars, procVars, cpuVars, SHUTDOWN, next_pid, now>>

\* wait_for_pid, first section: the mutex is released after the check.
WaitCheckBlocking(p) ==
    LET found == is_process_running(wait_pid[p]) IN
    /\ Current(p) /\ syscall_pc[p] = "wait_check"
    /\ syscall_pc' = [syscall_pc EXCEPT ![p] =
                        IF found THEN "wait_commit" ELSE "return"]
    /\ wait_result' = [wait_result EXCEPT ![p] =
                        Answer(IF found THEN "none" ELSE "PidNotFound")]
    /\ UNCHANGED <<queueVars, procVars, cpuVars, SHUTDOWN, next_pid, now>>

\* wait_for_pid, second section: park the caller.
WaitCommit(p) ==
    /\ Current(p) /\ syscall_pc[p] = "wait_commit"
    /\ Park(p, "WaitingForPid")
    /\ UNCHANGED <<queueVars, wait_pid, deadline, priority_counter, priority,
                   parent_id, exit_code, children_exits, SHUTDOWN,
                   wait_result, next_pid, now>>

\* sys_priority: with_process panics when the pid is neither in the map nor
\* in the heap.
SysPriority(p, t, level) ==
    /\ EnterSyscall(p, "return")
    /\ priority' = IF is_process_running(t)
                   THEN [priority EXCEPT ![t] = level] ELSE priority
    /\ control' = IF is_process_running(t) THEN "process" ELSE "panicked"
    /\ UNCHANGED <<queueVars, state, wait_pid, deadline, priority_counter,
                   parent_id, exit_code, children_exits, cpu, kernel_intr,
                   context, process_id, scheduling, SHUTDOWN, wait_result,
                   next_pid, now>>

\* A write to /devices/power: start_power_sequence calls stop_scheduler.
StopScheduler(p) ==
    /\ EnterSyscall(p, "return")
    /\ SHUTDOWN' = TRUE
    /\ UNCHANGED <<queueVars, procVars, cpuVars, wait_result, next_pid, now>>

\* The clock device advances on its own.
Tick ==
    /\ now < MaxTime
    /\ now' = now + 1
    /\ UNCHANGED <<queueVars, procVars, cpuVars, SHUTDOWN, wait_result,
                   syscall_pc, next_pid>>
------------------------------------------------------------------------------
Syscall(p) ==
    \/ SysSpawn(p)
    \/ \E code \in ExitCodes : SysExit(p, code)
    \/ \E duration \in Sleeps : SysSleep(p, duration)
    \/ SleepCommit(p)
    \/ \E t \in Pid : SysWaitPid(p, t)
    \/ WaitCheckNonBlocking(p)
    \/ WaitCheckBlocking(p)
    \/ WaitCommit(p)
    \/ \E t \in Pid, level \in PriorityLevels : SysPriority(p, t, level)
    \/ StopScheduler(p)
    \/ SyscallReturn(p)

ScheduleStep ==
    \/ \E p \in Pid : SchedulePick(p)
    \/ ScheduleIdle
    \/ ScheduleShutdown
    \/ Dispatch

Next ==
    \/ ScheduleStep
    \/ \E p \in Pid : TimerInterrupt(p)
    \/ \E p \in Pid : Syscall(p)
    \/ Tick

Spec == Init /\ [][Next]_vars

(***************************************************************************)
(* The schedule() loop is the kernel's own thread, the timer is periodic   *)
(* and the clock device never stops: each of them is weakly fair.  Nothing *)
(* is assumed of what a process does.                                      *)
(***************************************************************************)
Fairness ==
    /\ WF_vars(ScheduleStep)
    /\ WF_vars(\E p \in Pid : TimerInterrupt(p))
    /\ WF_vars(Tick)

FairSpec == Spec /\ Fairness
------------------------------------------------------------------------------
(***************************************************************************)
(* Properties.                                                             *)
(***************************************************************************)
QueueTypes ==
    /\ scheduled_processes \subseteq Pid
    /\ running_waiting_procs \subseteq Pid
    /\ exited_processes \subseteq Pid
    /\ max_priority \in 0 .. U64_MAX
    /\ next_pid \in 1 .. MaxProcesses

ProcessTypes ==
    /\ state \in [Pid -> States]
    /\ wait_pid \in [Pid -> Pid]
    /\ deadline \in [Pid -> Nat]
    /\ priority_counter \in [Pid -> 0 .. U64_MAX]
    /\ priority \in [Pid -> 1 .. 5]
    /\ parent_id \in [Pid -> Pid]
    /\ exit_code \in [Pid -> Int]
    /\ children_exits \in [Pid -> SUBSET (Pid \X Int)]
    /\ wait_result \in [Pid -> Answers]
    /\ syscall_pc \in [Pid -> SyscallPoints]

CpuTypes ==
    /\ cpu \in Cpu
    /\ kernel_intr \in Flag
    /\ process_id \in Pid
    /\ control \in Controls
    /\ now \in Nat

BooleanTypes ==
    /\ SHUTDOWN \in BOOLEAN
    /\ context \in BOOLEAN
    /\ scheduling \in BOOLEAN

\* The fields of the Scheduler, of the processes and of the Cpu structure
\* hold values of their types; in particular no counter leaves u64.
TypeOK == QueueTypes /\ ProcessTypes /\ CpuTypes /\ BooleanTypes

Live == scheduled_processes \cup running_waiting_procs
Allocated == 0 .. next_pid - 1

ListsDisjoint ==
    /\ scheduled_processes \cap running_waiting_procs = {}
    /\ exited_processes \cap Live = {}
    /\ Live \cup exited_processes \subseteq Allocated

StatesMatchLists ==
    /\ \A p \in scheduled_processes : state[p] = "Scheduled"
    /\ \A p \in running_waiting_procs : state[p] # "Scheduled"

CurrentIsRunning ==
    /\ \A p \in running_waiting_procs :
          state[p] = "Running" => context /\ process_id = p
    /\ context => /\ process_id \in running_waiting_procs
                  /\ state[process_id] = "Running"

ControlMatchesCpu ==
    /\ control \in {"dispatch", "process"} => context
    /\ control \in {"schedule", "halted", "returned"} => ~context
    /\ scheduling <=> control = "dispatch"

\* No process is in two lists of the scheduler, the states agree with the
\* lists, and a process is Running exactly when the processor holds its
\* context: what the assertions, the expect and the unreachable! of
\* scheduler.rs rely on, in whatever order interrupts arrive.
ListsConsistent ==
    ListsDisjoint /\ StatesMatchLists /\ CurrentIsRunning /\ ControlMatchesCpu

\* Every lock and push_cli of the scheduler's paths is matched: a process
\* always runs with interrupts on and no pending push_cli, and so does the
\* schedule() loop when it starts an iteration, whichever way the previous
\* process gave up the processor.
CliBalanced ==
    control \in {"schedule", "dispatch", "process"} =>
        cpu.n_cli = 0 /\ cpu.intr = On

\* "we don't want to get to 0, as it will result in underflow on subtract":
\* the counter of the process about to be picked covers its decrement.
NoUnderflow ==
    control = "schedule" =>
        \A p \in Runnable : IsTop(p) => ResetCounter[p] >= Decrement(p)

\* A process that slept, waited or is new does not get to hog the processor:
\* between two resets, the process that is picked is never more than one
\* turn ahead of the one that was picked before it.
NoHog ==
    [][~CountersAreLow => max_priority' <= max_priority + 4]_vars

\* add_child_exit asserts that the child is not in the list yet: no exit is
\* told twice, and a process in exited_processes has been told to nobody.
ChildExitUnique ==
    /\ \A p \in Pid : \A x, y \in children_exits[p] : x[1] = y[1] => x = y
    /\ \A p \in Pid : \A x \in children_exits[p] :
          x[1] \in Allocated /\ x[1] \notin Live \cup exited_processes

\* A code that wait_pid returns, from children_exits at once or from the
\* scheduler after blocking, is the exit code of the process it named, and
\* that process is gone.
WaitReturnsExitCode ==
    \A p \in Pid : wait_result[p].kind = "ExitCode" =>
        /\ wait_pid[p] \notin Live
        /\ wait_result[p].code = exit_code[wait_pid[p]]

\* Exits are reported once and with the right code.
ExitsReported == ChildExitUnique /\ WaitReturnsExitCode

\* A process that has left all lists never comes back.
DeadStayDead ==
    [][\A p \in Allocated : p \notin Live => p \notin Live']_vars

Stopped == SHUTDOWN \/ control = "panicked"

\* Every process in the heap and every process that sleeps gets to run, whatever
\* the others do and whatever the priorities are: the counters leave nobody
\* behind and a sleep ends, unless the loop finds nothing to run at some point
\* (and halts, which no process in the heap can meet).
NoStarvation ==
    \A p \in Pid : p \in scheduled_processes \/ state[p] = "WaitingForTime" ~>
        (process_id = p /\ context) \/ Stopped \/ control = "halted"

\* After stop_scheduler, schedule() returns to kernel_main.
ShutdownCompletes ==
    SHUTDOWN ~> control \in {"returned", "panicked"}
------------------------------------------------------------------------------
(***************************************************************************)
(* What the comments and the book say and the code does not do.            *)
(***************************************************************************)
\* "no process to run, just wait for interrupts" (scheduler.rs).
IdleWaitsForInterrupts == control # "halted"

\* "we can't wait for a process that doesn't exist now" (wait_for_pid): the
\* process waited for is alive, or its exit is still to be handled.
WaitsForExisting ==
    \A p \in running_waiting_procs : state[p] = "WaitingForPid" =>
        wait_pid[p] \in Live \cup exited_processes
==============================================================================
