----------------------------- MODULE MCProcessor -----------------------------
(***************************************************************************)
(* What shares a processor: the processes under the scheduler, and the     *)
(* kernel's contexts at its locks (kernel/src/sync: the spin locks, and    *)
(* OnceLock).  "part" names the one that moves, the others stay in an      *)
(* initial state.                                                          *)
(***************************************************************************)
EXTENDS Scheduler, TLC

CONSTANTS Cpus, Tasks, Handler, Mutexes, ReMutexes, RwLocks, TryLocks, MASK, MaxGuards, MaxLeaks,
          Callers, Values, Uninit

VARIABLES part,
          lock, owner_cpu, lock_count, cpus, running, pc, guards, reading, panicked, leaked,
          once_state, once_value, once_pc, once_op, once_arg, once_got

lock_vars == <<lock, owner_cpu, lock_count, cpus, running, pc, guards, reading, panicked, leaked>>
once_vars == <<once_state, once_value, once_pc, once_op, once_arg, once_got>>
processor_vars == <<part, vars, lock_vars, once_vars>>

Spin == INSTANCE SpinLocks WITH cpu <- cpus
Once == INSTANCE OnceLock
            WITH state <- once_state, value <- once_value, pc <- once_pc,
                 op <- once_op, arg <- once_arg, got <- once_got

ASSUME PartAssumptions == Spin!LockAssumptions /\ Once!ValuesAssumption

\* A code that sys_exit can encode, and one that it cannot
Codes == {-1, 1}

\* The tasks of a processor are interchangeable.
TaskSymmetry == Permutations(Tasks \ {Handler})

ProcessorInit ==
    /\ part \in {"scheduler", "spin", "once"}
    /\ Init
    /\ Spin!Init /\ (part # "spin" => \A c, d \in Cpus : running[c] = running[d])
    /\ Once!Init /\ (part # "once" => once_arg = [x \in Callers |-> CHOOSE v \in Values : TRUE])

SchedulerNext == part = "scheduler" /\ Next /\ UNCHANGED <<part, lock_vars, once_vars>>
SpinNext == part = "spin" /\ Spin!Next /\ UNCHANGED <<part, vars, once_vars>>
OnceNext == part = "once" /\ Once!Next /\ UNCHANGED <<part, vars, lock_vars>>

ProcessorSpec == ProcessorInit /\ [][SchedulerNext \/ SpinNext \/ OnceNext]_processor_vars
------------------------------------------------------------------------------
\* Two contexts never hold a Mutex, ReMutex or RwLock at once unless both read,
\* on any processor and with interrupts at any time; interrupts stay off as long
\* as a context holds a guard, and come on again with the last; and the processor
\* that waits for a Mutex or ReMutex with interrupts off never waits for itself
\* ("disable interrupts to avoid deadlock", mutex.rs).
LocksAreSound ==
    part = "spin" => Spin!MutualExclusion /\ Spin!CliMatchesGuards /\ Spin!NoSelfDeadlock

\* A reference handed out by OnceLock's get, try_get or get_or_init is to the
\* initialised value, the same for all callers.
OnceGetsTheValue == part = "once" => Once!TypeOK /\ Once!GetsTheValue
==============================================================================
