--------------------------- MODULE SchedulerProofs ---------------------------
(***************************************************************************)
(* Proofs about Scheduler, for any number of processes, any counter range  *)
(* and any minimum of at least 5.                                          *)
(*                                                                         *)
(* The inductive invariant is TypeOK /\ ListsConsistent /\ CliBalanced     *)
(* strengthened with KernelFlagsSaved: the interrupt flag that a process   *)
(* restores when it gives up the processor was saved by Dispatch.  Exits   *)
(* and the fairness of the counters each add an invariant on top of it.    *)
(***************************************************************************)
EXTENDS Scheduler, TLAPS

KernelFlagsSaved == control = "process" => kernel_intr = On

IInv == TypeOK /\ ListsConsistent /\ CliBalanced /\ KernelFlagsSaved
------------------------------------------------------------------------------
(***************************************************************************)
(* push_cli and pop_cli.                                                   *)
(***************************************************************************)
\* One matched pair restores the depth, and the flag at depth 0.
LEMMA PushPop ==
    ASSUME NEW c \in Cpu, c.n_cli = 0
    PROVE  /\ pop_cli(push_cli(c)) \in Cpu
           /\ pop_cli(push_cli(c)).n_cli = 0
           /\ pop_cli(push_cli(c)).intr = c.intr
  BY DEF Cpu, push_cli, pop_cli, Flag, On, Off

\* So do two nested pairs; with the outer pop missing, interrupts stay off.
LEMMA PushPushPopPop ==
    ASSUME NEW c \in Cpu, c.n_cli = 0
    PROVE  /\ pop_cli(push_cli(push_cli(c))) \in Cpu
           /\ pop_cli(push_cli(push_cli(c))).intr = Off
           /\ pop_cli(pop_cli(push_cli(push_cli(c)))) \in Cpu
           /\ pop_cli(pop_cli(push_cli(push_cli(c)))).n_cli = 0
           /\ pop_cli(pop_cli(push_cli(push_cli(c)))).intr = c.intr
  <1>. DEFINE b == push_cli(push_cli(c))
              d == pop_cli(b)
  <1>1. b = [n_cli |-> 2, intr |-> Off, old_interrupt_enable |-> c.intr]
    BY DEF push_cli, Cpu
  <1>. HIDE DEF b
  <1>2. d = [n_cli |-> 1, intr |-> Off, old_interrupt_enable |-> c.intr]
    BY <1>1 DEF pop_cli
  <1>. HIDE DEF d
  <1>3. pop_cli(d) = [n_cli |-> 0, intr |-> c.intr,
                      old_interrupt_enable |-> c.intr]
    BY <1>2 DEF pop_cli
  <1>4. c.intr \in Flag
    BY Zenon DEF Cpu
  <1>. QED
    BY <1>2, <1>3, <1>4 DEF b, d, Cpu, Flag, Off
------------------------------------------------------------------------------
(***************************************************************************)
(* The counters.                                                           *)
(***************************************************************************)
\* The operators of the wake pass have the types of what they replace.
LEMMA WakeTypes ==
    ASSUME TypeOK
    PROVE  /\ Woken \subseteq running_waiting_procs
           /\ Runnable \subseteq Pid
           /\ WokenCounter \in [Pid -> 0 .. U64_MAX]
           /\ ResetCounter \in [Pid -> 0 .. U64_MAX]
           /\ ChildrenTold \in [Pid -> SUBSET (Pid \X Int)]
           /\ WaitersAnswered \in [Pid -> Answers]
  <1>1. Woken \subseteq running_waiting_procs
    BY Zenon DEF Woken, WokenByExit, WokenByTime
  <1>2. Runnable \subseteq Pid
    BY <1>1, Zenon DEF Runnable, TypeOK, QueueTypes
  <1>3. WokenCounter \in [Pid -> 0 .. U64_MAX]
    BY Zenon DEF WokenCounter, TypeOK, ProcessTypes, QueueTypes
  <1>4. ResetCounter \in [Pid -> 0 .. U64_MAX]
    BY <1>3, SchedulerAssumption DEF ResetCounter, TypeOK, ProcessTypes
  <1>5. ChildrenTold \in [Pid -> SUBSET (Pid \X Int)]
    BY DEF ChildrenTold, TypeOK, ProcessTypes, QueueTypes
  <1>6. WaitersAnswered \in [Pid -> Answers]
    BY Zenon DEF WaitersAnswered, ExitedWith, Answers, WokenByExit, TypeOK,
           ProcessTypes
  <1>. QED
    BY <1>1, <1>2, <1>3, <1>4, <1>5, <1>6, Zenon

\* The process on top of the heap has a counter of at least the minimum.
LEMMA TopIsHigh ==
    ASSUME TypeOK, NEW p \in Pid, IsTop(p)
    PROVE  ResetCounter[p] >= MIN_PRIORITY_VALUE
  <1>1. CASE CountersAreLow
    <2>1. ResetCounter[p] = U64_MAX
      BY <1>1, Zenon DEF ResetCounter, IsTop
    <2>. QED
      BY <2>1, SchedulerAssumption
  <1>2. CASE ~CountersAreLow
    <2>1. PICK q \in Runnable : ~(WokenCounter[q] < MIN_PRIORITY_VALUE)
      BY <1>2, Zenon DEF CountersAreLow
    <2>2. q \in Pid
      BY <2>1, WakeTypes, Zenon
    <2>3. /\ ResetCounter[p] = WokenCounter[p]
          /\ ResetCounter[q] = WokenCounter[q]
      BY <1>2, <2>2, Zenon DEF ResetCounter
    <2>4. ResetCounter[q] <= ResetCounter[p]
      BY <2>1, Zenon DEF IsTop
    <2>. QED
      BY <2>1, <2>2, <2>3, <2>4, WakeTypes, SchedulerAssumption
  <1>. QED
    BY <1>1, <1>2, Zenon

\* So subtracting the decrement stays within u64.
LEMMA PickInRange ==
    ASSUME TypeOK, NEW p \in Pid, IsTop(p)
    PROVE  /\ ResetCounter[p] >= Decrement(p)
           /\ ResetCounter[p] - Decrement(p) \in 0 .. U64_MAX
  <1>1. Decrement(p) \in 1 .. 5
    BY DEF Decrement, TypeOK, ProcessTypes
  <1>. QED
    BY <1>1, TopIsHigh, WakeTypes, SchedulerAssumption
------------------------------------------------------------------------------
LEMMA InitIInv == Init => IInv
  <1>. SUFFICES ASSUME Init PROVE IInv
    BY Zenon
  <1>. USE SchedulerAssumption
  <1>1. 0 \in Pid
    BY DEF Pid
  <1>2. cpu \in Cpu
    BY Zenon DEF Init, BootCpu, Cpu, Flag, On, Off
  <1>3. NoResult \in Answers
    BY DEF NoResult, Answer, Answers
  <1>4. TypeOK
    <2>1. QueueTypes
      BY <1>1 DEF Init, QueueTypes
    <2>2. ProcessTypes
      BY <1>1, <1>3 DEF Init, ProcessTypes, States, SyscallPoints, Normal
    <2>3. CpuTypes
      BY <1>1, <1>2, Zenon DEF Init, CpuTypes, Controls, Flag, On
    <2>4. BooleanTypes
      BY ZenonT(30) DEF Init, BooleanTypes
    <2>. QED
      BY <2>1, <2>2, <2>3, <2>4, Zenon DEF TypeOK
  <1>5. ListsConsistent
    <2>1. ListsDisjoint
      BY DEF Init, ListsDisjoint, Live, Allocated
    <2>2. StatesMatchLists
      BY <1>1, Zenon DEF Init, StatesMatchLists
    <2>3. CurrentIsRunning
      BY Zenon DEF Init, CurrentIsRunning
    <2>4. ControlMatchesCpu
      BY Zenon DEF Init, ControlMatchesCpu
    <2>. QED
      BY <2>1, <2>2, <2>3, <2>4, Zenon DEF ListsConsistent
  <1>6. CliBalanced
    BY Zenon DEF Init, CliBalanced, BootCpu
  <1>7. KernelFlagsSaved
    BY Zenon DEF Init, KernelFlagsSaved
  <1>. QED
    BY <1>4, <1>5, <1>6, <1>7, Zenon DEF IInv
------------------------------------------------------------------------------
(***************************************************************************)
(* Each step preserves the invariant.                                      *)
(***************************************************************************)
LEMMA SchedulePickStep ==
    ASSUME IInv, NEW p \in Pid, SchedulePick(p)
    PROVE  IInv'
  <1>. USE DEF IInv, TypeOK, ListsConsistent, SchedulePick
  <1>1. QueueTypes'
    BY Zenon, PickInRange, WakeTypes DEF QueueTypes, WakePass
  <1>2. ProcessTypes'
    BY Zenon, PickInRange, WakeTypes DEF ProcessTypes, WakePass, QueueTypes, States
  <1>3. CpuTypes'
    BY PushPushPopPop, Zenon DEF CpuTypes, WakePass, CliBalanced, Controls
  <1>4. BooleanTypes'
    BY Zenon DEF BooleanTypes, WakePass
  <1>5. ListsDisjoint'
    BY ZenonT(30), WakeTypes
       DEF ListsDisjoint, Live, Allocated, WakePass, Runnable, IsTop, Pid,
           QueueTypes
  <1>6. StatesMatchLists'
    BY WakeTypes, Zenon
       DEF StatesMatchLists, ListsDisjoint, Live, WakePass, Runnable, IsTop,
           QueueTypes, ProcessTypes
  <1>7. CurrentIsRunning'
    BY WakeTypes, Zenon
       DEF CurrentIsRunning, ControlMatchesCpu, StatesMatchLists,
           ListsDisjoint, Live, BooleanTypes, WakePass, QueueTypes,
           ProcessTypes
  <1>8. ControlMatchesCpu'
    BY Zenon DEF ControlMatchesCpu, BooleanTypes, WakePass
  <1>9. CliBalanced'
    BY Zenon, PushPushPopPop DEF CliBalanced, WakePass, CpuTypes
  <1>10. KernelFlagsSaved'
    BY Zenon DEF KernelFlagsSaved, CliBalanced, WakePass
  <1>. QED
    BY Zenon, <1>1, <1>2, <1>3, <1>4, <1>5, <1>6, <1>7, <1>8, <1>9, <1>10

LEMMA ScheduleIdleStep ==
    ASSUME IInv, ScheduleIdle
    PROVE  IInv'
  <1>. USE DEF IInv, TypeOK, ListsConsistent, ScheduleIdle
  <1>1. QueueTypes'
    BY Zenon DEF QueueTypes, WakePass
  <1>2. ProcessTypes'
    BY Zenon, WakeTypes DEF ProcessTypes, WakePass
  <1>3. CpuTypes'
    BY PushPushPopPop, Zenon DEF CpuTypes, WakePass, CliBalanced, Controls
  <1>4. BooleanTypes'
    BY Zenon DEF BooleanTypes, WakePass
  <1>5. ListsDisjoint'
    BY Zenon DEF ListsDisjoint, Live, Allocated, WakePass
  <1>6. StatesMatchLists'
    BY Zenon DEF StatesMatchLists, ListsDisjoint, Live, WakePass
  <1>7. CurrentIsRunning'
    BY Zenon DEF CurrentIsRunning, ControlMatchesCpu, StatesMatchLists,
           ListsDisjoint, Live, BooleanTypes, WakePass
  <1>8. ControlMatchesCpu'
    BY Zenon DEF ControlMatchesCpu, BooleanTypes, WakePass
  <1>9. CliBalanced'
    BY SMTT(30), PushPushPopPop DEF CliBalanced, WakePass, CpuTypes, On, Off
  <1>10. KernelFlagsSaved'
    BY Zenon DEF KernelFlagsSaved, CliBalanced, WakePass
  <1>. QED
    BY <1>1, <1>2, <1>3, <1>4, <1>5, <1>6, <1>7, <1>8, <1>9, <1>10, Zenon

LEMMA ScheduleShutdownStep ==
    ASSUME IInv, ScheduleShutdown
    PROVE  IInv'
  <1>. USE DEF IInv, TypeOK, ListsConsistent, ScheduleShutdown
  <1>1. QueueTypes'
    BY Zenon DEF QueueTypes
  <1>2. ProcessTypes'
    BY SMTT(30) DEF ProcessTypes
  <1>3. CpuTypes'
    BY PushPushPopPop, Zenon DEF CpuTypes, CliBalanced, Controls
  <1>4. BooleanTypes'
    BY ZenonT(30) DEF BooleanTypes
  <1>5. ListsDisjoint'
    BY Zenon DEF ListsDisjoint, Live, Allocated
  <1>6. StatesMatchLists'
    BY Zenon DEF StatesMatchLists, ListsDisjoint, Live
  <1>7. CurrentIsRunning'
    BY Zenon DEF CurrentIsRunning, ControlMatchesCpu, StatesMatchLists,
           ListsDisjoint, Live, BooleanTypes
  <1>8. ControlMatchesCpu'
    BY Zenon DEF ControlMatchesCpu, BooleanTypes
  <1>9. CliBalanced'
    BY Zenon DEF CliBalanced
  <1>10. KernelFlagsSaved'
    BY Zenon DEF KernelFlagsSaved, CliBalanced
  <1>. QED
    BY Zenon, <1>1, <1>2, <1>3, <1>4, <1>5, <1>6, <1>7, <1>8, <1>9, <1>10

LEMMA DispatchStep ==
    ASSUME IInv, Dispatch
    PROVE  IInv'
  <1>. USE DEF IInv, TypeOK, ListsConsistent, Dispatch
  <1>1. QueueTypes'
    BY Zenon DEF QueueTypes, queueVars, procVars, cpuVars
  <1>2. ProcessTypes'
    BY Zenon DEF ProcessTypes, queueVars, procVars, cpuVars
  <1>3. CpuTypes'
    BY Zenon DEF CpuTypes, queueVars, procVars, cpuVars, CliBalanced, Controls, Cpu,
           Flag, On
  <1>4. BooleanTypes'
    BY ZenonT(30) DEF BooleanTypes, queueVars, procVars, cpuVars
  <1>5. ListsDisjoint'
    BY Zenon DEF ListsDisjoint, Live, Allocated, queueVars, procVars, cpuVars
  <1>6. StatesMatchLists'
    BY Zenon DEF StatesMatchLists, ListsDisjoint, Live, queueVars, procVars, cpuVars
  <1>7. CurrentIsRunning'
    BY Zenon DEF CurrentIsRunning, ControlMatchesCpu, StatesMatchLists,
           ListsDisjoint, Live, BooleanTypes, queueVars, procVars, cpuVars
  <1>8. ControlMatchesCpu'
    BY Zenon DEF ControlMatchesCpu, BooleanTypes, queueVars, procVars, cpuVars
  <1>9. CliBalanced'
    BY Zenon DEF CliBalanced, queueVars, procVars, cpuVars, CpuTypes, Cpu
  <1>10. KernelFlagsSaved'
    BY Zenon DEF KernelFlagsSaved, CliBalanced, queueVars, procVars, cpuVars
  <1>. QED
    BY <1>1, <1>2, <1>3, <1>4, <1>5, <1>6, <1>7, <1>8, <1>9, <1>10, Zenon

LEMMA TimerInterruptStep ==
    ASSUME IInv, NEW p \in Pid, TimerInterrupt(p)
    PROVE  IInv'
  <1>. USE DEF IInv, TypeOK, ListsConsistent, TimerInterrupt
  <1>a. /\ pop_cli(push_cli([cpu EXCEPT !.intr = Off])) \in Cpu
        /\ pop_cli(push_cli([cpu EXCEPT !.intr = Off])).n_cli = 0
    BY PushPop DEF CliBalanced, CpuTypes, Cpu, Flag, Off
  <1>1. QueueTypes'
    BY Zenon DEF QueueTypes, yield_current_if_any, TakeCurrent, Reschedule, LeaveCpu
  <1>2. ProcessTypes'
    BY SMTT(30) DEF ProcessTypes, yield_current_if_any, TakeCurrent, Reschedule,
           LeaveCpu, States, QueueTypes, SyscallPoints
  <1>3. CpuTypes'
    BY <1>a, Zenon
       DEF CpuTypes, yield_current_if_any, TakeCurrent, Reschedule, LeaveCpu,
           CliBalanced, ControlMatchesCpu, KernelFlagsSaved, Controls, Cpu,
           Flag, On, Off
  <1>4. BooleanTypes'
    BY ZenonT(30) DEF BooleanTypes, yield_current_if_any, TakeCurrent, Reschedule,
           LeaveCpu
  <1>5. ListsDisjoint'
    BY DEF ListsDisjoint, Live, Allocated, yield_current_if_any, TakeCurrent,
           Reschedule, LeaveCpu, ControlMatchesCpu, StatesMatchLists
  <1>6. StatesMatchLists'
    BY DEF StatesMatchLists, ListsDisjoint, Live, yield_current_if_any,
           TakeCurrent, Reschedule, LeaveCpu, ProcessTypes, QueueTypes
  <1>7. CurrentIsRunning'
    BY DEF CurrentIsRunning, ControlMatchesCpu, StatesMatchLists,
           ListsDisjoint, Live, BooleanTypes, yield_current_if_any,
           TakeCurrent, Reschedule, LeaveCpu, ProcessTypes, QueueTypes
  <1>8. ControlMatchesCpu'
    BY Zenon DEF ControlMatchesCpu, BooleanTypes, yield_current_if_any, TakeCurrent,
           Reschedule, LeaveCpu
  <1>9. CliBalanced'
    BY <1>a, Zenon
       DEF CliBalanced, yield_current_if_any, TakeCurrent, Reschedule,
           LeaveCpu, CpuTypes, ControlMatchesCpu, KernelFlagsSaved, Cpu
  <1>10. KernelFlagsSaved'
    BY Zenon DEF KernelFlagsSaved, CliBalanced, yield_current_if_any, TakeCurrent,
           Reschedule, LeaveCpu
  <1>. QED
    BY <1>1, <1>2, <1>3, <1>4, <1>5, <1>6, <1>7, <1>8, <1>9, <1>10, Zenon

LEMMA SyscallReturnStep ==
    ASSUME IInv, NEW p \in Pid, SyscallReturn(p)
    PROVE  IInv'
  <1>. USE DEF IInv, TypeOK, ListsConsistent, SyscallReturn
  <1>1. QueueTypes'
    BY Zenon DEF QueueTypes, yield_current_if_any, TakeCurrent, Reschedule,
           LeaveCpu, Current
  <1>2. ProcessTypes'
    BY SMTT(30) DEF ProcessTypes, yield_current_if_any, TakeCurrent, Reschedule,
           LeaveCpu, Current, States, QueueTypes, SyscallPoints
  <1>3. CpuTypes'
    BY PushPop, Zenon
       DEF CpuTypes, yield_current_if_any, TakeCurrent, Reschedule, LeaveCpu,
           Current, CliBalanced, ControlMatchesCpu, KernelFlagsSaved,
           Controls, Cpu, Flag, On, Off
  <1>4. BooleanTypes'
    BY ZenonT(30) DEF BooleanTypes, yield_current_if_any, TakeCurrent, Reschedule,
           LeaveCpu, Current
  <1>5. ListsDisjoint'
    BY DEF ListsDisjoint, Live, Allocated, yield_current_if_any, TakeCurrent,
           Reschedule, LeaveCpu, Current, ControlMatchesCpu, StatesMatchLists
  <1>6. StatesMatchLists'
    BY DEF StatesMatchLists, ListsDisjoint, Live, yield_current_if_any,
           TakeCurrent, Reschedule, LeaveCpu, Current, ProcessTypes,
           QueueTypes
  <1>7. CurrentIsRunning'
    BY DEF CurrentIsRunning, ControlMatchesCpu, StatesMatchLists,
           ListsDisjoint, Live, BooleanTypes, yield_current_if_any,
           TakeCurrent, Reschedule, LeaveCpu, Current, ProcessTypes,
           QueueTypes
  <1>8. ControlMatchesCpu'
    BY Zenon DEF ControlMatchesCpu, BooleanTypes, yield_current_if_any, TakeCurrent,
           Reschedule, LeaveCpu, Current
  <1>9. CliBalanced'
    BY PushPop, Zenon
       DEF CliBalanced, yield_current_if_any, TakeCurrent, Reschedule,
           LeaveCpu, Current, CpuTypes, ControlMatchesCpu, KernelFlagsSaved,
           Cpu
  <1>10. KernelFlagsSaved'
    BY Zenon DEF KernelFlagsSaved, CliBalanced, yield_current_if_any, TakeCurrent,
           Reschedule, LeaveCpu, Current
  <1>. QED
    BY <1>1, <1>2, <1>3, <1>4, <1>5, <1>6, <1>7, <1>8, <1>9, <1>10, Zenon

LEMMA SysSpawnStep ==
    ASSUME IInv, NEW p \in Pid, SysSpawn(p)
    PROVE  IInv'
  <1>. USE DEF IInv, TypeOK, ListsConsistent, SysSpawn
  <1>a. /\ next_pid \in Pid /\ next_pid \in Nat
        /\ next_pid + 1 \in 1 .. MaxProcesses
        /\ next_pid \notin Live \cup exited_processes
    BY SchedulerAssumption DEF QueueTypes, Pid, ListsDisjoint, Allocated
  <1>b. Allocated' = Allocated \cup {next_pid}
    BY <1>a DEF Allocated
  <1>1. QueueTypes'
    BY ZenonT(30), <1>a DEF QueueTypes, EnterSyscall, Current, Reschedule, cpuVars
  <1>2. ProcessTypes'
    BY SMTT(30), <1>a
       DEF ProcessTypes, EnterSyscall, Current, Reschedule, cpuVars, States,
           SyscallPoints, QueueTypes
  <1>3. CpuTypes'
    BY Zenon DEF CpuTypes, EnterSyscall, Current, Reschedule, cpuVars
  <1>4. BooleanTypes'
    BY ZenonT(30) DEF BooleanTypes, EnterSyscall, Current, Reschedule, cpuVars
  <1>5. ListsDisjoint'
    BY <1>a, <1>b DEF ListsDisjoint, Live, EnterSyscall, Reschedule
  <1>6. StatesMatchLists'
    <2>1. next_pid \notin running_waiting_procs
      BY <1>a, Zenon DEF Live
    <2>2. CASE SHUTDOWN
      BY <2>2, Zenon DEF StatesMatchLists, Reschedule
    <2>3. CASE ~SHUTDOWN
      BY ZenonT(30), <1>a, <2>1, <2>3 DEF StatesMatchLists, Reschedule, QueueTypes,
                              ProcessTypes
    <2>. QED
      BY <2>2, <2>3, Zenon
  <1>7. CurrentIsRunning'
    BY <1>a
       DEF CurrentIsRunning, ControlMatchesCpu, StatesMatchLists,
           ListsDisjoint, Live, BooleanTypes, EnterSyscall, Current,
           Reschedule, cpuVars, QueueTypes, ProcessTypes
  <1>8. ControlMatchesCpu'
    BY Zenon DEF ControlMatchesCpu, BooleanTypes, EnterSyscall, Current, Reschedule,
           cpuVars
  <1>9. CliBalanced'
    BY Zenon DEF CliBalanced, EnterSyscall, Current, Reschedule, cpuVars
  <1>10. KernelFlagsSaved'
    BY Zenon DEF KernelFlagsSaved, CliBalanced, EnterSyscall, Current, Reschedule,
           cpuVars
  <1>. QED
    BY Zenon, <1>1, <1>2, <1>3, <1>4, <1>5, <1>6, <1>7, <1>8, <1>9, <1>10

LEMMA SysExitStep ==
    ASSUME IInv, NEW p \in Pid, NEW code \in ExitCodes, SysExit(p, code)
    PROVE  IInv'
  <1>. USE DEF IInv, TypeOK, ListsConsistent, SysExit
  <1>1. QueueTypes'
    BY Zenon DEF QueueTypes, EnterSyscall, Current, TakeCurrent
  <1>2. ProcessTypes'
    <2>1. 0 \in Pid /\ U64_MAX \in 0 .. U64_MAX /\ Normal \in 1 .. 5 /\ code \in Int
      BY SchedulerAssumption DEF Pid, Normal
    <2>2. NoResult \in Answers
      BY DEF NoResult, Answer, Answers
    <2>. QED
      BY Zenon, <2>1, <2>2
         DEF ProcessTypes, EnterSyscall, Current, TakeCurrent, SyscallPoints
  <1>3. CpuTypes'
    BY PushPop, Zenon
       DEF CpuTypes, EnterSyscall, Current, TakeCurrent, CliBalanced,
           Controls, Cpu, Flag
  <1>4. BooleanTypes'
    BY ZenonT(30) DEF BooleanTypes, EnterSyscall, Current, TakeCurrent
  <1>5. ListsDisjoint'
    BY Zenon DEF ListsDisjoint, Live, Allocated, EnterSyscall, Current, TakeCurrent
  <1>6. StatesMatchLists'
    BY Zenon DEF StatesMatchLists, ListsDisjoint, Live, EnterSyscall, Current,
           TakeCurrent
  <1>7. CurrentIsRunning'
    BY Zenon DEF CurrentIsRunning, ControlMatchesCpu, StatesMatchLists,
           ListsDisjoint, Live, BooleanTypes, EnterSyscall, Current,
           TakeCurrent
  <1>8. ControlMatchesCpu'
    BY Zenon DEF ControlMatchesCpu, BooleanTypes, EnterSyscall, Current, TakeCurrent
  <1>9. CliBalanced'
    BY PushPop, Zenon
       DEF CliBalanced, EnterSyscall, Current, TakeCurrent, CpuTypes,
           KernelFlagsSaved, Cpu
  <1>10. KernelFlagsSaved'
    BY Zenon DEF KernelFlagsSaved, CliBalanced, EnterSyscall, Current, TakeCurrent
  <1>. QED
    BY <1>1, <1>2, <1>3, <1>4, <1>5, <1>6, <1>7, <1>8, <1>9, <1>10, Zenon

LEMMA SysSleepStep ==
    ASSUME IInv, NEW p \in Pid, NEW duration \in Sleeps, SysSleep(p, duration)
    PROVE  IInv'
  <1>. USE DEF IInv, TypeOK, ListsConsistent, SysSleep
  <1>1. QueueTypes'
    BY Zenon DEF QueueTypes, EnterSyscall, Current, queueVars, procVars, cpuVars
  <1>2. ProcessTypes'
    BY SMTT(30), SchedulerAssumption
       DEF ProcessTypes, EnterSyscall, Current, queueVars, procVars, cpuVars,
           SyscallPoints, CpuTypes
  <1>3. CpuTypes'
    BY Zenon DEF CpuTypes, EnterSyscall, Current, queueVars, procVars, cpuVars
  <1>4. BooleanTypes'
    BY ZenonT(30) DEF BooleanTypes, EnterSyscall, Current, queueVars, procVars, cpuVars
  <1>5. ListsDisjoint'
    BY Zenon DEF ListsDisjoint, Live, Allocated, EnterSyscall, Current, queueVars,
           procVars, cpuVars
  <1>6. StatesMatchLists'
    BY Zenon DEF StatesMatchLists, ListsDisjoint, Live, EnterSyscall, Current,
           queueVars, procVars, cpuVars
  <1>7. CurrentIsRunning'
    BY Zenon DEF CurrentIsRunning, ControlMatchesCpu, StatesMatchLists,
           ListsDisjoint, Live, BooleanTypes, EnterSyscall, Current,
           queueVars, procVars, cpuVars
  <1>8. ControlMatchesCpu'
    BY Zenon DEF ControlMatchesCpu, BooleanTypes, EnterSyscall, Current, queueVars,
           procVars, cpuVars
  <1>9. CliBalanced'
    BY Zenon DEF CliBalanced, EnterSyscall, Current, queueVars, procVars, cpuVars
  <1>10. KernelFlagsSaved'
    BY Zenon DEF KernelFlagsSaved, CliBalanced, EnterSyscall, Current, queueVars,
           procVars, cpuVars
  <1>. QED
    BY Zenon, <1>1, <1>2, <1>3, <1>4, <1>5, <1>6, <1>7, <1>8, <1>9, <1>10

LEMMA SleepCommitStep ==
    ASSUME IInv, NEW p \in Pid, SleepCommit(p)
    PROVE  IInv'
  <1>. USE DEF IInv, TypeOK, ListsConsistent, SleepCommit
  <1>1. QueueTypes'
    BY Zenon DEF QueueTypes, Current, Park, LeaveCpu, queueVars
  <1>2. ProcessTypes'
    BY Zenon DEF ProcessTypes, Current, Park, LeaveCpu, queueVars, States,
           SyscallPoints
  <1>3. CpuTypes'
    BY PushPushPopPop, Zenon
       DEF CpuTypes, Current, Park, LeaveCpu, queueVars, CliBalanced,
           Controls, Cpu, Flag
  <1>4. BooleanTypes'
    BY ZenonT(30) DEF BooleanTypes, Current, Park, LeaveCpu, queueVars
  <1>5. ListsDisjoint'
    BY Zenon DEF ListsDisjoint, Live, Allocated, Current, Park, LeaveCpu, queueVars
  <1>6. StatesMatchLists'
    BY Zenon DEF StatesMatchLists, ListsDisjoint, Live, Current, Park, LeaveCpu,
           queueVars, ProcessTypes, QueueTypes
  <1>7. CurrentIsRunning'
    BY Zenon DEF CurrentIsRunning, ControlMatchesCpu, StatesMatchLists,
           ListsDisjoint, Live, BooleanTypes, Current, Park, LeaveCpu,
           queueVars, ProcessTypes, QueueTypes
  <1>8. ControlMatchesCpu'
    BY Zenon DEF ControlMatchesCpu, BooleanTypes, Current, Park, LeaveCpu, queueVars
  <1>9. CliBalanced'
    BY PushPushPopPop, Zenon
       DEF CliBalanced, Current, Park, LeaveCpu, queueVars, CpuTypes,
           KernelFlagsSaved, Cpu
  <1>10. KernelFlagsSaved'
    BY Zenon DEF KernelFlagsSaved, CliBalanced, Current, Park, LeaveCpu, queueVars
  <1>. QED
    BY <1>1, <1>2, <1>3, <1>4, <1>5, <1>6, <1>7, <1>8, <1>9, <1>10, Zenon

LEMMA WaitCommitStep ==
    ASSUME IInv, NEW p \in Pid, WaitCommit(p)
    PROVE  IInv'
  <1>. USE DEF IInv, TypeOK, ListsConsistent, WaitCommit
  <1>1. QueueTypes'
    BY Zenon DEF QueueTypes, Current, Park, LeaveCpu, queueVars
  <1>2. ProcessTypes'
    BY Zenon DEF ProcessTypes, Current, Park, LeaveCpu, queueVars, States,
           SyscallPoints
  <1>3. CpuTypes'
    BY PushPushPopPop, Zenon
       DEF CpuTypes, Current, Park, LeaveCpu, queueVars, CliBalanced,
           Controls, Cpu, Flag
  <1>4. BooleanTypes'
    BY ZenonT(30) DEF BooleanTypes, Current, Park, LeaveCpu, queueVars
  <1>5. ListsDisjoint'
    BY Zenon DEF ListsDisjoint, Live, Allocated, Current, Park, LeaveCpu, queueVars
  <1>6. StatesMatchLists'
    BY Zenon DEF StatesMatchLists, ListsDisjoint, Live, Current, Park, LeaveCpu,
           queueVars, ProcessTypes, QueueTypes
  <1>7. CurrentIsRunning'
    BY Zenon DEF CurrentIsRunning, ControlMatchesCpu, StatesMatchLists,
           ListsDisjoint, Live, BooleanTypes, Current, Park, LeaveCpu,
           queueVars, ProcessTypes, QueueTypes
  <1>8. ControlMatchesCpu'
    BY Zenon DEF ControlMatchesCpu, BooleanTypes, Current, Park, LeaveCpu, queueVars
  <1>9. CliBalanced'
    BY PushPushPopPop, Zenon
       DEF CliBalanced, Current, Park, LeaveCpu, queueVars, CpuTypes,
           KernelFlagsSaved, Cpu
  <1>10. KernelFlagsSaved'
    BY Zenon DEF KernelFlagsSaved, CliBalanced, Current, Park, LeaveCpu, queueVars
  <1>. QED
    BY Zenon, <1>1, <1>2, <1>3, <1>4, <1>5, <1>6, <1>7, <1>8, <1>9, <1>10

LEMMA SysWaitPidStep ==
    ASSUME IInv, NEW p \in Pid, NEW t \in Pid, SysWaitPid(p, t)
    PROVE  IInv'
  <1>. USE DEF IInv, TypeOK, ListsConsistent, SysWaitPid
  <1>. DEFINE known == {x \in children_exits[p] : x[1] = t}
  <1>a. (IF known = {} THEN NoResult
         ELSE ExitedWith((CHOOSE x \in known : TRUE)[2])) \in Answers
    BY SMTT(30) DEF ProcessTypes, NoResult, Answer, ExitedWith, Answers
  <1>1. QueueTypes'
    BY Zenon DEF QueueTypes, EnterSyscall, Current, queueVars
  <1>2. ProcessTypes'
    BY Zenon, <1>a DEF ProcessTypes, EnterSyscall, Current, queueVars, SyscallPoints
  <1>3. CpuTypes'
    BY Zenon DEF CpuTypes, EnterSyscall, Current, queueVars, Controls
  <1>4. BooleanTypes'
    BY ZenonT(30) DEF BooleanTypes, EnterSyscall, Current, queueVars
  <1>5. ListsDisjoint'
    BY Zenon DEF ListsDisjoint, Live, Allocated, EnterSyscall, Current, queueVars
  <1>6. StatesMatchLists'
    BY Zenon DEF StatesMatchLists, ListsDisjoint, Live, EnterSyscall, Current,
           queueVars
  <1>7. CurrentIsRunning'
    BY Zenon DEF CurrentIsRunning, ControlMatchesCpu, StatesMatchLists,
           ListsDisjoint, Live, BooleanTypes, EnterSyscall, Current, queueVars
  <1>8. ControlMatchesCpu'
    BY Zenon DEF ControlMatchesCpu, BooleanTypes, EnterSyscall, Current, queueVars
  <1>9. CliBalanced'
    BY Zenon DEF CliBalanced, EnterSyscall, Current, queueVars
  <1>10. KernelFlagsSaved'
    BY Zenon DEF KernelFlagsSaved, CliBalanced, EnterSyscall, Current, queueVars
  <1>. QED
    BY Zenon, <1>1, <1>2, <1>3, <1>4, <1>5, <1>6, <1>7, <1>8, <1>9, <1>10

LEMMA WaitCheckNonBlockingStep ==
    ASSUME IInv, NEW p \in Pid, WaitCheckNonBlocking(p)
    PROVE  IInv'
  <1>. USE DEF IInv, TypeOK, ListsConsistent, WaitCheckNonBlocking
  <1>1. QueueTypes'
    BY Zenon DEF QueueTypes, LeaveSyscall, Current, queueVars, procVars, cpuVars
  <1>2. ProcessTypes'
    BY SMTT(30) DEF ProcessTypes, LeaveSyscall, Current, queueVars, procVars, cpuVars,
           SyscallPoints, Answer, Answers
  <1>3. CpuTypes'
    BY Zenon DEF CpuTypes, LeaveSyscall, Current, queueVars, procVars, cpuVars
  <1>4. BooleanTypes'
    BY ZenonT(30) DEF BooleanTypes, LeaveSyscall, Current, queueVars, procVars, cpuVars
  <1>5. ListsDisjoint'
    BY Zenon DEF ListsDisjoint, Live, Allocated, LeaveSyscall, Current, queueVars,
           procVars, cpuVars
  <1>6. StatesMatchLists'
    BY Zenon DEF StatesMatchLists, ListsDisjoint, Live, LeaveSyscall, Current,
           queueVars, procVars, cpuVars
  <1>7. CurrentIsRunning'
    BY Zenon DEF CurrentIsRunning, ControlMatchesCpu, StatesMatchLists,
           ListsDisjoint, Live, BooleanTypes, LeaveSyscall, Current,
           queueVars, procVars, cpuVars
  <1>8. ControlMatchesCpu'
    BY Zenon DEF ControlMatchesCpu, BooleanTypes, LeaveSyscall, Current, queueVars,
           procVars, cpuVars
  <1>9. CliBalanced'
    BY ZenonT(30) DEF CliBalanced, LeaveSyscall, Current, queueVars, procVars, cpuVars
  <1>10. KernelFlagsSaved'
    BY Zenon DEF KernelFlagsSaved, CliBalanced, LeaveSyscall, Current, queueVars,
           procVars, cpuVars
  <1>. QED
    BY Zenon, <1>1, <1>2, <1>3, <1>4, <1>5, <1>6, <1>7, <1>8, <1>9, <1>10

LEMMA WaitCheckBlockingStep ==
    ASSUME IInv, NEW p \in Pid, WaitCheckBlocking(p)
    PROVE  IInv'
  <1>. USE DEF IInv, TypeOK, ListsConsistent, WaitCheckBlocking
  <1>1. QueueTypes'
    BY Zenon DEF QueueTypes, Current, queueVars, procVars, cpuVars
  <1>2. ProcessTypes'
    BY SMTT(30) DEF ProcessTypes, Current, queueVars, procVars, cpuVars, SyscallPoints,
           Answer, Answers
  <1>3. CpuTypes'
    BY Zenon DEF CpuTypes, Current, queueVars, procVars, cpuVars
  <1>4. BooleanTypes'
    BY ZenonT(30) DEF BooleanTypes, Current, queueVars, procVars, cpuVars
  <1>5. ListsDisjoint'
    BY Zenon DEF ListsDisjoint, Live, Allocated, Current, queueVars, procVars,
           cpuVars
  <1>6. StatesMatchLists'
    BY Zenon DEF StatesMatchLists, ListsDisjoint, Live, Current, queueVars,
           procVars, cpuVars
  <1>7. CurrentIsRunning'
    BY Zenon DEF CurrentIsRunning, ControlMatchesCpu, StatesMatchLists,
           ListsDisjoint, Live, BooleanTypes, Current, queueVars, procVars,
           cpuVars
  <1>8. ControlMatchesCpu'
    BY Zenon DEF ControlMatchesCpu, BooleanTypes, Current, queueVars, procVars,
           cpuVars
  <1>9. CliBalanced'
    BY Zenon DEF CliBalanced, Current, queueVars, procVars, cpuVars
  <1>10. KernelFlagsSaved'
    BY Zenon DEF KernelFlagsSaved, CliBalanced, Current, queueVars, procVars, cpuVars
  <1>. QED
    BY Zenon, <1>1, <1>2, <1>3, <1>4, <1>5, <1>6, <1>7, <1>8, <1>9, <1>10

LEMMA SysPriorityStep ==
    ASSUME IInv, NEW p \in Pid, NEW t \in Pid, NEW level \in PriorityLevels,
           SysPriority(p, t, level)
    PROVE  IInv'
  <1>. USE DEF IInv, TypeOK, ListsConsistent, SysPriority
  <1>1. QueueTypes'
    BY Zenon DEF QueueTypes, EnterSyscall, Current, queueVars
  <1>2. ProcessTypes'
    BY Zenon, SchedulerAssumption
       DEF ProcessTypes, EnterSyscall, Current, queueVars, SyscallPoints
  <1>3. CpuTypes'
    BY Zenon DEF CpuTypes, EnterSyscall, Current, queueVars, Controls
  <1>4. BooleanTypes'
    BY ZenonT(30) DEF BooleanTypes, EnterSyscall, Current, queueVars
  <1>5. ListsDisjoint'
    BY Zenon DEF ListsDisjoint, Live, Allocated, EnterSyscall, Current, queueVars
  <1>6. StatesMatchLists'
    BY Zenon DEF StatesMatchLists, ListsDisjoint, Live, EnterSyscall, Current,
           queueVars
  <1>7. CurrentIsRunning'
    BY Zenon DEF CurrentIsRunning, ControlMatchesCpu, StatesMatchLists,
           ListsDisjoint, Live, BooleanTypes, EnterSyscall, Current, queueVars
  <1>8. ControlMatchesCpu'
    BY Zenon DEF ControlMatchesCpu, BooleanTypes, EnterSyscall, Current, queueVars
  <1>9. CliBalanced'
    BY Zenon DEF CliBalanced, EnterSyscall, Current, queueVars
  <1>10. KernelFlagsSaved'
    BY Zenon DEF KernelFlagsSaved, CliBalanced, EnterSyscall, Current, queueVars
  <1>. QED
    BY Zenon, <1>1, <1>2, <1>3, <1>4, <1>5, <1>6, <1>7, <1>8, <1>9, <1>10

LEMMA StopSchedulerStep ==
    ASSUME IInv, NEW p \in Pid, StopScheduler(p)
    PROVE  IInv'
  <1>. USE DEF IInv, TypeOK, ListsConsistent, StopScheduler
  <1>1. QueueTypes'
    BY Zenon DEF QueueTypes, EnterSyscall, Current, queueVars, procVars, cpuVars
  <1>2. ProcessTypes'
    BY Zenon DEF ProcessTypes, EnterSyscall, Current, queueVars, procVars, cpuVars,
           SyscallPoints
  <1>3. CpuTypes'
    BY Zenon DEF CpuTypes, EnterSyscall, Current, queueVars, procVars, cpuVars
  <1>4. BooleanTypes'
    BY ZenonT(30) DEF BooleanTypes, EnterSyscall, Current, queueVars, procVars, cpuVars
  <1>5. ListsDisjoint'
    BY Zenon DEF ListsDisjoint, Live, Allocated, EnterSyscall, Current, queueVars,
           procVars, cpuVars
  <1>6. StatesMatchLists'
    BY Zenon DEF StatesMatchLists, ListsDisjoint, Live, EnterSyscall, Current,
           queueVars, procVars, cpuVars
  <1>7. CurrentIsRunning'
    BY Zenon DEF CurrentIsRunning, ControlMatchesCpu, StatesMatchLists,
           ListsDisjoint, Live, BooleanTypes, EnterSyscall, Current,
           queueVars, procVars, cpuVars
  <1>8. ControlMatchesCpu'
    BY Zenon DEF ControlMatchesCpu, BooleanTypes, EnterSyscall, Current, queueVars,
           procVars, cpuVars
  <1>9. CliBalanced'
    BY Zenon DEF CliBalanced, EnterSyscall, Current, queueVars, procVars, cpuVars
  <1>10. KernelFlagsSaved'
    BY Zenon DEF KernelFlagsSaved, CliBalanced, EnterSyscall, Current, queueVars,
           procVars, cpuVars
  <1>. QED
    BY Zenon, <1>1, <1>2, <1>3, <1>4, <1>5, <1>6, <1>7, <1>8, <1>9, <1>10

LEMMA TickStep ==
    ASSUME IInv, Tick
    PROVE  IInv'
  <1>. USE DEF IInv, TypeOK, ListsConsistent, Tick
  <1>1. QueueTypes'
    BY Zenon DEF QueueTypes, queueVars, procVars, cpuVars
  <1>2. ProcessTypes'
    BY Zenon DEF ProcessTypes, queueVars, procVars, cpuVars
  <1>3. CpuTypes'
    BY SMTT(30) DEF CpuTypes, queueVars, procVars, cpuVars
  <1>4. BooleanTypes'
    BY ZenonT(30) DEF BooleanTypes, queueVars, procVars, cpuVars
  <1>5. ListsDisjoint'
    BY Zenon DEF ListsDisjoint, Live, Allocated, queueVars, procVars, cpuVars
  <1>6. StatesMatchLists'
    BY Zenon DEF StatesMatchLists, ListsDisjoint, Live, queueVars, procVars, cpuVars
  <1>7. CurrentIsRunning'
    BY Zenon DEF CurrentIsRunning, ControlMatchesCpu, StatesMatchLists,
           ListsDisjoint, Live, BooleanTypes, queueVars, procVars, cpuVars
  <1>8. ControlMatchesCpu'
    BY Zenon DEF ControlMatchesCpu, BooleanTypes, queueVars, procVars, cpuVars
  <1>9. CliBalanced'
    BY Zenon DEF CliBalanced, queueVars, procVars, cpuVars
  <1>10. KernelFlagsSaved'
    BY Zenon DEF KernelFlagsSaved, CliBalanced, queueVars, procVars, cpuVars
  <1>. QED
    BY Zenon, <1>1, <1>2, <1>3, <1>4, <1>5, <1>6, <1>7, <1>8, <1>9, <1>10

LEMMA StutterStep ==
    ASSUME IInv, UNCHANGED vars
    PROVE  IInv'
  <1>1. TypeOK'
    BY Zenon DEF IInv, TypeOK, QueueTypes, ProcessTypes, CpuTypes, BooleanTypes,
           vars, queueVars, procVars, cpuVars
  <1>2. ListsConsistent'
    BY Zenon DEF IInv, ListsConsistent, ListsDisjoint, StatesMatchLists,
           CurrentIsRunning, ControlMatchesCpu, Live, Allocated, vars,
           queueVars, procVars, cpuVars
  <1>3. CliBalanced' /\ KernelFlagsSaved'
    BY Zenon DEF IInv, CliBalanced, KernelFlagsSaved, vars, cpuVars
  <1>. QED
    BY Zenon, <1>1, <1>2, <1>3 DEF IInv

LEMMA NextStep == IInv /\ [Next]_vars => IInv'
  <1>. SUFFICES ASSUME IInv, [Next]_vars
                PROVE  IInv'
    BY Zenon
  <1>1. ASSUME NEW p \in Pid, SchedulePick(p) PROVE IInv'
    BY <1>1, SchedulePickStep, Zenon
  <1>2. CASE ScheduleIdle
    BY <1>2, ScheduleIdleStep, Zenon
  <1>3. CASE ScheduleShutdown
    BY Zenon, <1>3, ScheduleShutdownStep
  <1>4. CASE Dispatch
    BY <1>4, DispatchStep, Zenon
  <1>5. ASSUME NEW p \in Pid, TimerInterrupt(p) PROVE IInv'
    BY <1>5, TimerInterruptStep, Zenon
  <1>6. ASSUME NEW p \in Pid, Syscall(p) PROVE IInv'
    <2>1. CASE SysSpawn(p)
      BY <2>1, SysSpawnStep, Zenon
    <2>2. ASSUME NEW code \in ExitCodes, SysExit(p, code) PROVE IInv'
      BY <2>2, SysExitStep, Zenon
    <2>3. ASSUME NEW duration \in Sleeps, SysSleep(p, duration) PROVE IInv'
      BY <2>3, SysSleepStep, Zenon
    <2>4. CASE SleepCommit(p)
      BY <2>4, SleepCommitStep, Zenon
    <2>5. ASSUME NEW t \in Pid, SysWaitPid(p, t) PROVE IInv'
      BY Zenon, <2>5, SysWaitPidStep
    <2>6. CASE WaitCheckNonBlocking(p)
      BY <2>6, WaitCheckNonBlockingStep, Zenon
    <2>7. CASE WaitCheckBlocking(p)
      BY <2>7, WaitCheckBlockingStep, Zenon
    <2>8. CASE WaitCommit(p)
      BY <2>8, WaitCommitStep, Zenon
    <2>9. ASSUME NEW t \in Pid, NEW level \in PriorityLevels,
                 SysPriority(p, t, level)
          PROVE  IInv'
      BY <2>9, SysPriorityStep, Zenon
    <2>10. CASE StopScheduler(p)
      BY <2>10, StopSchedulerStep, Zenon
    <2>11. CASE SyscallReturn(p)
      BY <2>11, SyscallReturnStep, Zenon
    <2>. QED
      BY Zenon, <1>6, <2>1, <2>2, <2>3, <2>4, <2>5, <2>6, <2>7, <2>8, <2>9, <2>10,
         <2>11 DEF Syscall
  <1>7. CASE Tick
    BY <1>7, TickStep, Zenon
  <1>8. CASE UNCHANGED vars
    BY <1>8, StutterStep, Zenon
  <1>. QED
    BY <1>1, <1>2, <1>3, <1>4, <1>5, <1>6, <1>7, <1>8, Zenon DEF Next, ScheduleStep

\* The strengthened invariant holds in every reachable state.
THEOREM InductiveInvariant == Spec => []IInv
  BY InitIInv, NextStep, PTL DEF Spec
------------------------------------------------------------------------------
(***************************************************************************)
(* The theorems.                                                           *)
(***************************************************************************)
\* The structures of the scheduler stay well typed; with it, no priority
\* counter underflows or leaves u64.
THEOREM TypeCorrect == Spec => []TypeOK
  <1>1. IInv => TypeOK
    BY Zenon DEF IInv
  <1>. QED
    BY <1>1, InductiveInvariant, PTL

\* A process is in one list at a time, in the state that list requires, and
\* is Running exactly when the processor holds its context.
THEOREM ListsAlwaysConsistent == Spec => []ListsConsistent
  <1>1. IInv => ListsConsistent
    BY Zenon DEF IInv
  <1>. QED
    BY <1>1, InductiveInvariant, PTL

\* push_cli and pop_cli match on every path in and out of a process.
THEOREM CliAlwaysBalanced == Spec => []CliBalanced
  <1>1. IInv => CliBalanced
    BY Zenon DEF IInv
  <1>. QED
    BY <1>1, InductiveInvariant, PTL

\* The counter of the process that schedule() picks covers its decrement.
THEOREM CountersNeverUnderflow == Spec => []NoUnderflow
  <1>1. IInv => NoUnderflow
    BY PickInRange, WakeTypes, Zenon DEF IInv, NoUnderflow
  <1>. QED
    BY <1>1, InductiveInvariant, PTL

\* A process that has left the heap and the map never comes back to them.
THEOREM DeadNeverReturn == Spec => DeadStayDead
  <1>. DEFINE Stay == \A p \in Allocated : p \notin Live => p \notin Live'
  <1>1. IInv /\ [Next]_vars => [Stay]_vars
    <2>. SUFFICES ASSUME IInv, Next PROVE Stay
      BY Zenon
    <2>. USE DEF Live
    <2>1. ASSUME NEW p \in Pid, SchedulePick(p) PROVE Stay
      BY Zenon, <2>1, WakeTypes DEF SchedulePick, IsTop, Runnable, IInv
    <2>2. CASE ScheduleIdle
      BY Zenon, <2>2 DEF ScheduleIdle
    <2>3. CASE ScheduleShutdown
      BY <2>3, Zenon DEF ScheduleShutdown
    <2>4. CASE Dispatch
      BY <2>4, Zenon DEF Dispatch, queueVars
    <2>5. ASSUME NEW p \in Pid, TimerInterrupt(p) PROVE Stay
      BY Zenon, <2>5 DEF TimerInterrupt, yield_current_if_any, TakeCurrent,
                  Reschedule
    <2>6. ASSUME NEW p \in Pid, Syscall(p) PROVE Stay
      <3>1. CASE SysSpawn(p)
        <4>1. next_pid \notin Allocated
          BY SMTT(30) DEF Allocated, IInv, TypeOK, QueueTypes
        <4>. QED
          BY <3>1, <4>1, Zenon DEF SysSpawn, Reschedule
      <3>2. CASE SyscallReturn(p)
        BY <3>2, Zenon DEF SyscallReturn, yield_current_if_any, TakeCurrent,
                    Reschedule
      <3>3. ASSUME NEW code \in ExitCodes, SysExit(p, code) PROVE Stay
        BY Zenon, <3>3 DEF SysExit, TakeCurrent
      <3>4. ASSUME ~SysSpawn(p), ~SyscallReturn(p),
                   ~\E code \in ExitCodes : SysExit(p, code)
            PROVE  Stay
        BY <2>6, <3>4, Zenon DEF Syscall, SysSleep, SleepCommit, SysWaitPid,
             WaitCheckNonBlocking, WaitCheckBlocking, WaitCommit,
             SysPriority, StopScheduler, queueVars
      <3>. QED
        BY Zenon, <3>1, <3>2, <3>3, <3>4
    <2>7. CASE Tick
      BY Zenon, <2>7 DEF Tick, queueVars
    <2>. QED
      BY <2>1, <2>2, <2>3, <2>4, <2>5, <2>6, <2>7, Zenon DEF Next, ScheduleStep
  <1>. QED
    BY <1>1, InductiveInvariant, PTL DEF Spec, DeadStayDead

(***************************************************************************)
(* Exits.  What ExitsReported says is not inductive: a code in             *)
(* children_exits must be the code of the process it is about for          *)
(* wait_pid to return the right one later, and the pid that a call named   *)
(* must not be given out again.                                            *)
(***************************************************************************)
\* A process that is known to have exited, and that no list holds.
Told(x) == x[1] \in Allocated \ (Live \cup exited_processes) /\ x[2] = exit_code[x[1]]

\* All that children_exits says is true of processes that are gone ...
ExitsKnown == \A p \in Pid : \A x \in children_exits[p] : Told(x)

\* ... and so are the codes that calls of wait_pid have returned.
AnswersKnown ==
    \A p \in Pid : wait_result[p].kind = "ExitCode" =>
        /\ wait_pid[p] \in Allocated \ Live
        /\ wait_result[p].code = exit_code[wait_pid[p]]

\* What no step may undo about a process that has left the heap and the map.
StaysDead(q) ==
    /\ q \in Allocated' \ Live'
    /\ exit_code'[q] = exit_code[q]
    /\ q \in exited_processes' => q \in exited_processes

\* No step changes the exit code of a process that has exited, gives out its pid
\* again, or puts it back into a list.
LEMMA DeadKeep ==
    ASSUME IInv, Next, NEW q \in Allocated \ Live
    PROVE  StaysDead(q)
  <1>0. /\ q \in Pid /\ next_pid \in Nat
        /\ exit_code \in [Pid -> Int]
        /\ q \notin scheduled_processes /\ q \notin running_waiting_procs
    <2>1. next_pid \in 1 .. MaxProcesses /\ q \in 0 .. next_pid - 1
      BY Zenon DEF IInv, TypeOK, QueueTypes, Allocated
    <2>2. q \in Pid /\ next_pid \in Nat
      BY <2>1, SchedulerAssumption DEF Pid
    <2>3. exit_code \in [Pid -> Int]
      BY Zenon DEF IInv, TypeOK, ProcessTypes
    <2>. QED BY <2>2, <2>3, Zenon DEF Live
  <1>1. ASSUME NEW p \in Pid, SchedulePick(p) PROVE StaysDead(q)
    BY <1>0, <1>1, WakeTypes, Zenon DEF StaysDead, Live, Allocated, SchedulePick, WakePass, IsTop, Runnable, IInv
  <1>2. CASE ScheduleIdle
    BY <1>0, <1>2, Zenon DEF StaysDead, Live, Allocated, ScheduleIdle, WakePass
  <1>3. CASE ScheduleShutdown
    BY <1>0, <1>3, Zenon DEF StaysDead, Live, Allocated, ScheduleShutdown
  <1>4. CASE Dispatch \/ Tick
    BY <1>0, <1>4, Zenon DEF StaysDead, Live, Allocated, Dispatch, Tick, queueVars, procVars
  <1>5. ASSUME NEW p \in Pid, NEW c, yield_current_if_any(p, c) PROVE StaysDead(q)
    BY <1>0, <1>5 DEF StaysDead, Live, Allocated, yield_current_if_any, TakeCurrent, Reschedule
  <1>6. ASSUME NEW p \in Pid, Syscall(p) PROVE StaysDead(q)
    <2>1. CASE SysSpawn(p)
      BY <1>0, <2>1, SMTT(30) DEF StaysDead, Live, Allocated, SysSpawn, Reschedule
    <2>2. CASE SyscallReturn(p)
      BY <1>5, <2>2, Zenon DEF SyscallReturn
    <2>3. ASSUME NEW code \in ExitCodes, SysExit(p, code) PROVE StaysDead(q)
      BY <1>0, <2>3, Zenon DEF StaysDead, Live, Allocated, SysExit, TakeCurrent
    <2>4. ASSUME ~SysSpawn(p), ~SyscallReturn(p),
                 ~\E code \in ExitCodes : SysExit(p, code)
          PROVE  StaysDead(q)
      BY <1>0, <1>6, <2>4, Zenon
         DEF StaysDead, Live, Allocated, Syscall, SysSleep, SleepCommit, SysWaitPid,
             WaitCheckNonBlocking, WaitCheckBlocking, WaitCommit,
             SysPriority, StopScheduler, queueVars, procVars
    <2>. QED
      BY <2>1, <2>2, <2>3, <2>4, Zenon
  <1>7. ASSUME NEW p \in Pid, TimerInterrupt(p) PROVE StaysDead(q)
    BY <1>5, <1>7, Zenon DEF TimerInterrupt
  <1>. QED
    BY <1>1, <1>2, <1>3, <1>4, <1>6, <1>7, Zenon DEF Next, ScheduleStep

\* The pass of try_wake tells only about processes in exited_processes, with their
\* codes, and empties it.
LEMMA WakeTold ==
    ASSUME IInv, Next, ExitsKnown, AnswersKnown, WakePass,
           UNCHANGED wait_pid
    PROVE  ExitsKnown' /\ AnswersKnown'
  <1>1. \A e \in exited_processes : e \in Allocated \ Live /\ e \in Pid
    BY Zenon DEF IInv, ListsConsistent, ListsDisjoint, TypeOK, QueueTypes
  <1>2. \A e \in exited_processes :
           e \in Allocated' \ (Live' \cup exited_processes') /\ exit_code'[e] = exit_code[e]
    BY <1>1, DeadKeep, Zenon DEF WakePass, StaysDead
  <1>3. ExitsKnown'
    <2>. SUFFICES ASSUME NEW p \in Pid, NEW x \in children_exits'[p] PROVE Told(x)'
      BY Zenon DEF ExitsKnown
    <2>1. \/ x \in children_exits[p]
          \/ \E e \in exited_processes : x = <<e, exit_code[e]>>
      BY Zenon DEF WakePass, ChildrenTold
    <2>2. CASE x \in children_exits[p]
      <3>1. Told(x)
        BY <2>2, Zenon DEF ExitsKnown
      <3>. QED BY <3>1, DeadKeep, Zenon DEF Told, StaysDead
    <2>3. ASSUME NEW e \in exited_processes, x = <<e, exit_code[e]>> PROVE Told(x)'
      <3>1. x[1] = e /\ x[2] = exit_code[e]
        BY <2>3, Zenon
      <3>. QED BY <1>2, <3>1, Zenon DEF Told
    <2>. QED BY <2>1, <2>2, <2>3, Zenon
  <1>4. AnswersKnown'
    <2>. SUFFICES ASSUME NEW p \in Pid, wait_result'[p].kind = "ExitCode"
                  PROVE  /\ wait_pid[p] \in Allocated' \ Live'
                         /\ wait_result'[p].code = exit_code'[wait_pid[p]]
      BY Zenon DEF AnswersKnown
    <2>1. CASE p \in WokenByExit
      <3>1. wait_pid[p] \in exited_processes
        BY <2>1, Zenon DEF WokenByExit
      <3>2. wait_result'[p].code = exit_code[wait_pid[p]]
        BY <2>1, Zenon DEF WakePass, WaitersAnswered, ExitedWith
      <3>. QED BY <1>2, <3>1, <3>2, Zenon
    <2>2. CASE p \notin WokenByExit
      <3>1. wait_result'[p] = wait_result[p]
        BY <2>2, Zenon DEF WakePass, WaitersAnswered
      <3>2. /\ wait_pid[p] \in Allocated \ Live
            /\ wait_result[p].code = exit_code[wait_pid[p]]
        BY <3>1, Zenon DEF AnswersKnown
      <3>. QED BY <3>1, <3>2, DeadKeep, Zenon DEF StaysDead
    <2>. QED BY <2>1, <2>2, Zenon
  <1>. QED BY <1>3, <1>4, Zenon

\* Every step preserves both.
LEMMA ExitsStep ==
    ASSUME IInv, ExitsKnown, AnswersKnown, [Next]_vars
    PROVE  ExitsKnown' /\ AnswersKnown'
  <1>0. CASE UNCHANGED vars
    BY <1>0, Zenon DEF ExitsKnown, AnswersKnown, Told, Live, Allocated, vars, queueVars,
                procVars
  <1>. SUFFICES ASSUME Next PROVE ExitsKnown' /\ AnswersKnown'
    BY <1>0, Zenon
  <1>1. ASSUME NEW p \in Pid, SchedulePick(p) PROVE ExitsKnown' /\ AnswersKnown'
    <2>1. WakePass /\ UNCHANGED wait_pid
      BY <1>1, Zenon DEF SchedulePick
    <2>. QED BY <2>1, WakeTold, Zenon
  <1>2. CASE ScheduleIdle
    <2>1. WakePass /\ UNCHANGED wait_pid
      BY <1>2, Zenon DEF ScheduleIdle
    <2>. QED BY <2>1, WakeTold, Zenon
  <1>3. ASSUME \A q \in Pid : children_exits'[q] \subseteq children_exits[q]
        PROVE  ExitsKnown'
    <2>. SUFFICES ASSUME NEW q \in Pid, NEW x \in children_exits'[q] PROVE Told(x)'
      BY Zenon DEF ExitsKnown
    <2>1. Told(x)
      BY <1>3, Zenon DEF ExitsKnown
    <2>. QED BY <2>1, DeadKeep, Zenon DEF Told, StaysDead
  <1>4. ASSUME NEW q \in Pid, wait_pid'[q] = wait_pid[q], wait_result'[q] = wait_result[q],
               wait_result'[q].kind = "ExitCode"
        PROVE  /\ wait_pid'[q] \in Allocated' \ Live'
               /\ wait_result'[q].code = exit_code'[wait_pid'[q]]
    <2>1. /\ wait_pid[q] \in Allocated \ Live
          /\ wait_result[q].code = exit_code[wait_pid[q]]
      BY <1>4, Zenon DEF AnswersKnown
    <2>. QED BY <1>4, <2>1, DeadKeep, Zenon DEF StaysDead
  <1>5. ASSUME children_exits' = children_exits, wait_pid' = wait_pid,
               wait_result' = wait_result
        PROVE  ExitsKnown' /\ AnswersKnown'
    BY <1>3, <1>4, <1>5, Zenon DEF AnswersKnown
  <1>6. CASE ScheduleShutdown \/ Dispatch \/ Tick
    BY <1>5, <1>6, Zenon DEF ScheduleShutdown, Dispatch, Tick, procVars
  <1>7. ASSUME NEW p \in Pid, TimerInterrupt(p) PROVE ExitsKnown' /\ AnswersKnown'
    BY <1>5, <1>7, Zenon DEF TimerInterrupt, yield_current_if_any
  <1>8. ASSUME NEW p \in Pid, Syscall(p) PROVE ExitsKnown' /\ AnswersKnown'
    <2>0. /\ wait_pid \in [Pid -> Pid] /\ wait_result \in [Pid -> Answers]
          /\ children_exits \in [Pid -> SUBSET (Pid \X Int)]
      BY Zenon DEF IInv, TypeOK, ProcessTypes
    \* the caller's own answer is not an exit code, and no other answer changes
    <2>1. ASSUME wait_result'[p].kind # "ExitCode",
                 \A q \in Pid \ {p} : /\ wait_pid'[q] = wait_pid[q]
                                      /\ wait_result'[q] = wait_result[q]
          PROVE  AnswersKnown'
      BY <1>4, <2>1, Zenon DEF AnswersKnown
    <2>2. \A k : Answer(k).kind = k
      BY Zenon DEF Answer
    <2>3. ASSUME NEW code \in ExitCodes, SysExit(p, code)
          PROVE  ExitsKnown' /\ AnswersKnown'
      <3>1. 0 \in Pid /\ NoResult \in Answers /\ NoResult.kind # "ExitCode"
        BY SchedulerAssumption DEF Pid, NoResult, Answer, Answers
      <3>2. /\ wait_pid' = [wait_pid EXCEPT ![p] = 0]
            /\ wait_result' = [wait_result EXCEPT ![p] = NoResult]
            /\ children_exits' = children_exits
        BY <2>3, Zenon DEF SysExit
      <3>3. AnswersKnown'
        BY <2>0, <2>1, <3>1, <3>2, Zenon
      <3>. QED BY <1>3, <3>2, <3>3, Zenon
    <2>4. CASE WaitCheckNonBlocking(p) \/ WaitCheckBlocking(p)
      <3>1. PICK k \in {"none", "ProcessStillRunning", "PidNotFound"} :
               wait_result' = [wait_result EXCEPT ![p] = Answer(k)]
        BY <2>4, Zenon DEF WaitCheckNonBlocking, WaitCheckBlocking
      <3>2. Answer(k) \in Answers /\ Answer(k).kind # "ExitCode"
        BY <2>2 DEF Answer, Answers
      <3>3. children_exits' = children_exits /\ wait_pid' = wait_pid
        BY <2>4, Zenon DEF WaitCheckNonBlocking, WaitCheckBlocking, procVars
      <3>4. AnswersKnown'
        BY <2>0, <2>1, <3>1, <3>2, <3>3, Zenon
      <3>. QED BY <1>3, <3>3, <3>4, Zenon
    <2>5. ASSUME NEW t \in Pid, SysWaitPid(p, t)
          PROVE  ExitsKnown' /\ AnswersKnown'
      <3>. DEFINE known == {x \in children_exits[p] : x[1] = t}
                  first == CHOOSE x \in known : TRUE
      <3>1. /\ wait_pid' = [wait_pid EXCEPT ![p] = t]
            /\ children_exits' = [children_exits EXCEPT ![p] = @ \ known]
            /\ wait_result' = [wait_result EXCEPT ![p] =
                 IF known = {} THEN NoResult ELSE ExitedWith(first[2])]
        BY <2>5, Zenon DEF SysWaitPid
      <3>2. ExitsKnown'
        BY <1>3, <2>0, <3>1, Zenon
      <3>3. CASE known = {}
        <4>1. NoResult \in Answers /\ NoResult.kind # "ExitCode"
          BY DEF NoResult, Answer, Answers
        <4>2. wait_result' = [wait_result EXCEPT ![p] = NoResult]
          BY <3>1, <3>3, Zenon
        <4>3. AnswersKnown'
          BY <2>0, <2>1, <3>1, <4>1, <4>2, SMTT(30)
        <4>. QED BY <3>2, <4>3, Zenon
      <3>4. CASE known # {}
        <4>1. first \in children_exits[p] /\ first[1] = t
          BY <3>4, Zenon
        <4>2. t \in Allocated \ Live /\ first[2] = exit_code[t]
          BY <4>1, Zenon DEF ExitsKnown, Told
        <4>3. t \in Allocated' \ Live' /\ first[2] = exit_code'[t]
          BY <4>2, DeadKeep, Zenon DEF StaysDead
        <4>4. wait_pid'[p] = t /\ wait_result'[p] = ExitedWith(first[2])
          BY <2>0, <3>1, <3>4, Zenon
        <4>5. wait_result'[p].code = first[2]
          BY <4>4, SMTT(30) DEF ExitedWith
        <4>6. \A q \in Pid \ {p} : wait_pid'[q] = wait_pid[q] /\ wait_result'[q] = wait_result[q]
          BY <2>0, <3>1, Zenon
        <4>7. AnswersKnown'
          BY <1>4, <4>3, <4>4, <4>5, <4>6, Zenon DEF AnswersKnown
        <4>. QED BY <3>2, <4>7, Zenon
      <3>. QED BY <3>3, <3>4, Zenon
    <2>6. ASSUME children_exits' = children_exits, wait_pid' = wait_pid,
                 wait_result' = wait_result
          PROVE  ExitsKnown' /\ AnswersKnown'
      BY <1>5, <2>6, Zenon
    <2>. QED
      BY <1>8, <2>3, <2>4, <2>5, <2>6, Zenon
         DEF Syscall, SysSpawn, SysSleep, SleepCommit, WaitCommit, SysPriority,
             StopScheduler, SyscallReturn, yield_current_if_any, procVars
  <1>. QED
    BY <1>1, <1>2, <1>6, <1>7, <1>8, Zenon DEF Next, ScheduleStep

\* A process that wait_pid waits for is reported once and with the code it exited
\* with, whether the call finds it in children_exits or blocks, and whatever
\* exits, spawns and waits the other processes do meanwhile.
THEOREM ExitsAlwaysReported == Spec => []ExitsReported
  <1>1. Init => ExitsKnown /\ AnswersKnown
    BY SMTT(30) DEF Init, ExitsKnown, AnswersKnown, NoResult, Answer
  <1>2. IInv /\ ExitsKnown /\ AnswersKnown => ExitsReported
    <2>. SUFFICES ASSUME IInv, ExitsKnown, AnswersKnown PROVE ExitsReported
      BY Zenon
    <2>1. \A p \in Pid : children_exits[p] \subseteq Pid \X Int
      BY Zenon DEF IInv, TypeOK, ProcessTypes
    <2>2. ASSUME NEW p \in Pid, NEW x \in children_exits[p], NEW y \in children_exits[p],
                 x[1] = y[1]
          PROVE  x = y
      <3>1. x[2] = y[2]
        <4>1. Told(x) /\ Told(y)
          BY <2>2, Zenon DEF ExitsKnown
        <4>2. x[2] = exit_code[x[1]] /\ y[2] = exit_code[y[1]]
          BY <4>1, Zenon DEF Told
        <4>. QED BY <2>2, <4>2, Zenon
      <3>2. x \in Pid \X Int /\ y \in Pid \X Int
        BY <2>1, <2>2, Zenon
      <3>3. \A z \in Pid \X Int : z = <<z[1], z[2]>>
        OBVIOUS
      <3>. QED BY <2>2, <3>1, <3>2, <3>3, Zenon
    <2>3. ChildExitUnique
      BY <2>2, Zenon DEF ChildExitUnique, ExitsKnown, Told
    <2>4. WaitReturnsExitCode
      BY Zenon DEF WaitReturnsExitCode, AnswersKnown
    <2>. QED BY <2>3, <2>4, Zenon DEF ExitsReported
  <1>. QED
    BY <1>1, <1>2, ExitsStep, InductiveInvariant, PTL DEF Spec

(***************************************************************************)
(* Fairness of the counters: no counter in the heap is more than one       *)
(* decrement above the counter that was picked last.                       *)
(***************************************************************************)
HeapNearMax ==
    \A p \in scheduled_processes : priority_counter[p] <= max_priority + 5

LEMMA HeapNearMaxStep == IInv /\ HeapNearMax /\ [Next]_vars => HeapNearMax'
  <1>. SUFFICES ASSUME IInv, HeapNearMax, [Next]_vars
                PROVE  HeapNearMax'
    BY Zenon
  <1>. USE DEF HeapNearMax
  <1>1. ASSUME NEW p \in Pid, SchedulePick(p) PROVE HeapNearMax'
    <2>1. max_priority' = ResetCounter[p] - Decrement(p)
      BY Zenon, <1>1 DEF SchedulePick
    <2>2. Decrement(p) \in 1 .. 5
      BY SMTT(30) DEF Decrement, IInv, TypeOK, ProcessTypes
    <2>3. ASSUME NEW q \in scheduled_processes'
          PROVE  priority_counter'[q] <= max_priority' + 5
      <3>1. q \in Runnable /\ q # p /\ q \in Pid
        BY ZenonT(30), <1>1, WakeTypes DEF SchedulePick, IInv
      <3>2. priority_counter'[q] = ResetCounter[q]
        <4>1. priority_counter' = [ResetCounter EXCEPT
                                      ![p] = ResetCounter[p] - Decrement(p)]
          BY <1>1, Zenon DEF SchedulePick
        <4>2. DOMAIN ResetCounter = Pid
          BY Zenon DEF ResetCounter, WokenCounter
        <4>. QED
          BY Zenon, <3>1, <4>1, <4>2
      <3>3. ResetCounter[q] <= ResetCounter[p]
        BY Zenon, <1>1, <3>1 DEF SchedulePick, IsTop
      <3>4. ResetCounter[q] \in Nat /\ ResetCounter[p] \in Nat
        BY SMTT(30), <3>1, WakeTypes DEF IInv
      <3>. QED
        BY SMTT(30), <2>1, <2>2, <3>2, <3>3, <3>4
    <2>. QED
      BY Zenon, <2>3
  <1>2. ASSUME NEW p \in Pid, NEW c, yield_current_if_any(p, c)
        PROVE  HeapNearMax'
    BY <1>2, SMTT(30) DEF yield_current_if_any, Reschedule, IInv, TypeOK, QueueTypes,
                ProcessTypes
  <1>3. ASSUME NEW p \in Pid, SysSpawn(p) PROVE HeapNearMax'
    <2>1. next_pid \in Pid
      BY SMTT(30), <1>3, SchedulerAssumption DEF SysSpawn, IInv, TypeOK, QueueTypes, Pid
    <2>2. CASE SHUTDOWN
      BY <1>3, <2>2, Zenon DEF SysSpawn, Reschedule
    <2>3. CASE ~SHUTDOWN
      <3>1. /\ scheduled_processes' = scheduled_processes \cup {next_pid}
            /\ priority_counter' = [priority_counter EXCEPT
                                       ![next_pid] = max_priority]
            /\ max_priority' = max_priority
        BY Zenon, <1>3, <2>3 DEF SysSpawn, Reschedule
      <3>2. /\ max_priority \in Nat
            /\ priority_counter \in [Pid -> Nat]
            /\ scheduled_processes \subseteq Pid
        BY SMTT(30) DEF IInv, TypeOK, QueueTypes, ProcessTypes
      <3>. QED
        BY SMTT(30), <2>1, <3>1, <3>2
    <2>. QED
      BY Zenon, <2>2, <2>3
  <1>4. CASE ScheduleIdle \/ ScheduleShutdown
    BY ZenonT(30), <1>4 DEF ScheduleIdle, ScheduleShutdown
  <1>5. ASSUME UNCHANGED <<scheduled_processes, max_priority,
                           priority_counter>>
        PROVE  HeapNearMax'
    BY Zenon, <1>5
  <1>6. ASSUME NEW p \in Pid, Syscall(p) PROVE HeapNearMax'
    <2>1. CASE SyscallReturn(p)
      BY Zenon, <1>2, <2>1 DEF SyscallReturn
    <2>3. ASSUME NEW code \in ExitCodes, SysExit(p, code) PROVE HeapNearMax'
      <3>1. p \notin scheduled_processes
        BY Zenon, <2>3
           DEF SysExit, TakeCurrent, IInv, ListsConsistent, ListsDisjoint
      <3>2. /\ scheduled_processes' = scheduled_processes
            /\ max_priority' = max_priority
            /\ priority_counter' = [priority_counter EXCEPT ![p] = U64_MAX]
        BY ZenonT(30), <2>3 DEF SysExit
      <3>3. priority_counter \in [Pid -> 0 .. U64_MAX] /\ scheduled_processes \subseteq Pid
        BY Zenon DEF IInv, TypeOK, QueueTypes, ProcessTypes
      <3>. QED
        BY Zenon, <3>1, <3>2, <3>3
    <2>2. ASSUME ~SysSpawn(p), ~SyscallReturn(p),
                 ~\E code \in ExitCodes : SysExit(p, code)
          PROVE  HeapNearMax'
      BY <1>5, <1>6, <2>2, Zenon
         DEF Syscall, SysSleep, SleepCommit, SysWaitPid,
             WaitCheckNonBlocking, WaitCheckBlocking, WaitCommit,
             SysPriority, StopScheduler, queueVars, procVars
    <2>. QED
      BY ZenonT(30), <1>3, <2>1, <2>2, <2>3
  <1>7. ASSUME NEW p \in Pid, TimerInterrupt(p) PROVE HeapNearMax'
    BY <1>2, <1>7, Zenon DEF TimerInterrupt
  <1>8. CASE Dispatch \/ Tick \/ UNCHANGED vars
    BY <1>5, <1>8, Zenon DEF Dispatch, Tick, vars, queueVars, procVars
  <1>. QED
    BY <1>1, <1>4, <1>6, <1>7, <1>8, Zenon DEF Next, ScheduleStep

\* Between two resets, the process that is picked is at most one turn ahead
\* of the previous one, however long it slept or waited.
THEOREM NobodyHogs == Spec => NoHog
  <1>. DEFINE Near == ~CountersAreLow => max_priority' <= max_priority + 4
  <1>1. Init => HeapNearMax
    BY SMTT(30), SchedulerAssumption DEF Init, HeapNearMax, Pid
  <1>2. IInv /\ HeapNearMax /\ [Next]_vars => [Near]_vars
    <2>. SUFFICES ASSUME IInv, HeapNearMax, Next, ~CountersAreLow
                  PROVE  max_priority' <= max_priority + 4
      BY Zenon
    <2>1. max_priority \in Nat
      BY DEF IInv, TypeOK, QueueTypes
    <2>2. ASSUME NEW p \in Pid, SchedulePick(p)
          PROVE  max_priority' <= max_priority + 4
      <3>1. max_priority' = WokenCounter[p] - Decrement(p)
        <4>1. max_priority' = ResetCounter[p] - Decrement(p)
          BY <2>2, Zenon DEF SchedulePick
        <4>2. ResetCounter = WokenCounter
          BY Zenon DEF ResetCounter
        <4>. QED BY <4>1, <4>2, Zenon
      <3>2. Decrement(p) \in 1 .. 5
        BY SMTT(30) DEF Decrement, IInv, TypeOK, ProcessTypes
      <3>3. WokenCounter[p] \in Nat
        <4>1. WokenCounter \in [Pid -> 0 .. U64_MAX]
          BY Zenon, WakeTypes DEF IInv
        <4>. QED
          BY SMTT(30), <4>1, SchedulerAssumption
      <3>4. p \in Runnable
        BY <2>2, Zenon DEF SchedulePick, IsTop
      <3>5. WokenCounter[p] = IF p \in Woken THEN max_priority
                              ELSE priority_counter[p]
        BY Zenon DEF WokenCounter
      <3>6. p \notin Woken => priority_counter[p] <= max_priority + 5
        BY Zenon, <3>4 DEF Runnable, HeapNearMax
      <3>7. WokenCounter[p] <= max_priority + 5
        BY <2>1, <3>5, <3>6
      <3>. QED
        BY <2>1, <3>1, <3>2, <3>3, <3>7
    <2>3. CASE UNCHANGED max_priority
      BY <2>1, <2>3
    <2>. QED
      BY ZenonT(30), <2>2, <2>3
         DEF Next, ScheduleStep, ScheduleIdle, ScheduleShutdown, Dispatch,
             TimerInterrupt, yield_current_if_any, Syscall, SysSpawn, SysExit,
             SysSleep, SleepCommit, SysWaitPid, WaitCheckNonBlocking,
             WaitCheckBlocking, WaitCommit, SysPriority, StopScheduler,
             SyscallReturn, Tick, queueVars
  <1>. QED
    BY <1>1, <1>2, HeapNearMaxStep, InductiveInvariant, PTL DEF Spec, NoHog
==============================================================================
