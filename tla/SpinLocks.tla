------------------------------ MODULE SpinLocks ------------------------------
(***************************************************************************)
(* The spin locks of kernel/src/sync/spin: the raw Lock, and Mutex,        *)
(* ReMutex and RwLock built on it.                                         *)
(*                                                                         *)
(* Every processor runs one context at a time: one of its tasks, or the    *)
(* interrupt handler that interrupted a task.  An interrupt arrives only   *)
(* while the processor's flag is on; on its way out the handler may switch *)
(* to another task.  Only the running context of a processor takes steps,  *)
(* the processors interleave at every atomic access to a lock.             *)
(*                                                                         *)
(* The exclusive side of the three locks (lock, write) differs only in     *)
(* what happens when the processor already owns the lock.                  *)
(***************************************************************************)
EXTENDS Integers, FiniteSets, Cpu

CONSTANTS Cpus,         \* ids of the processors
          Tasks,        \* the kernel contexts of a processor...
          Handler,      \* ...one of which is its interrupt handler
          Mutexes, ReMutexes, RwLocks,
          TryLocks,     \* the locks some caller uses try_lock/try_write on
          MASK,         \* 2^30 - 1 in the code
          MaxGuards,    \* bound: guards of a context at a time
          MaxLeaks      \* bound: once try_lock of a ReMutex has failed that
                        \* often on a processor, it is not called any more

Locks == Mutexes \cup ReMutexes \cup RwLocks

LockAssumptions ==
    /\ Cpus \subseteq Nat /\ IsFiniteSet(Cpus) /\ IsFiniteSet(Tasks)
    /\ Handler \in Tasks
    /\ Mutexes \cap ReMutexes = {} /\ Mutexes \cap RwLocks = {}
    /\ ReMutexes \cap RwLocks = {}
    /\ TryLocks \subseteq Locks
    /\ MASK \in Nat /\ MASK > 2
    /\ MaxGuards \in Nat /\ MaxLeaks \in Nat

VARIABLES lock,         \* Lock.state of every lock
          owner_cpu,
          lock_count,   \* ReMutex only
          cpu,          \* per processor: the record of module Cpu
          running,      \* per processor: the context it executes
          pc,           \* per context: where it is inside an operation
          guards,       \* per context: the exclusive guards it holds,
                        \* <<l, k>> is the k-th guard on l
          reading,      \* per context: the number of read guards on a lock
          panicked,     \* contexts that panicked because of a lock
          leaked        \* history: failures of ReMutex::try_lock per processor

vars == <<lock, owner_cpu, lock_count, cpu, running, pc, guards, reading,
          panicked, leaked>>

Ctx == Cpus \X Tasks
NoOwner == -1
UNLOCKED == 0
WRITE_LOCKED == MASK
MAX_READERS == MASK - 1

Steps == {"lock", "try", "own", "unlock", "read"}
Idle == [at |-> "idle"]
At(s, l) == [at |-> s, lock |-> l]

Init ==
    /\ lock = [l \in Locks |-> UNLOCKED]
    /\ owner_cpu = [l \in Locks |-> NoOwner]
    /\ lock_count = [l \in Locks |-> 0]
    /\ cpu = [c \in Cpus |-> BootCpu]
    /\ running \in [Cpus -> Tasks \ {Handler}]
    /\ pc = [x \in Ctx |-> Idle]
    /\ guards = [x \in Ctx |-> {}]
    /\ reading = [x \in Ctx |-> [l \in RwLocks |-> 0]]
    /\ panicked = {}
    /\ leaked = [c \in Cpus |-> 0]

-----------------------------------------------------------------------------
\* The context executes: it is the one its processor runs.
Runs(x) == running[x[1]] = x[2] /\ x \notin panicked

PushCli(x) == cpu' = [cpu EXCEPT ![x[1]] = push_cli(@)]
PopCli(x)  == cpu' = [cpu EXCEPT ![x[1]] = pop_cli(@)]

\* Mutant: the owner is not looked at.
OwnedHere_Never(x, l) == FALSE

OwnedHere(x, l) == owner_cpu[l] = x[1]

NewGuard(x, l) ==
    guards' = [guards EXCEPT ![x] = @ \cup {<<l, lock_count'[l]>>}]

\* Another guard for the processor that already owns the ReMutex.
Reenter(x, l) ==
    /\ lock_count' = [lock_count EXCEPT ![l] = @ + 1]
    /\ NewGuard(x, l)
    /\ UNCHANGED <<pc, panicked>>

\* Mutex::lock, ReMutex::lock, RwLock::write: interrupts off, owner check.
LockEnter(x, l) ==
    /\ Runs(x) /\ pc[x] = Idle /\ Cardinality(guards[x]) < MaxGuards
    /\ PushCli(x)
    /\ \/ /\ OwnedHere(x, l) /\ l \in ReMutexes
          /\ Reenter(x, l)
       \/ /\ OwnedHere(x, l) /\ l \notin ReMutexes
          /\ panicked' = panicked \cup {x}
          /\ UNCHANGED <<pc, guards, lock_count>>
       \/ /\ ~OwnedHere(x, l)
          /\ pc' = [pc EXCEPT ![x] = At("lock", l)]
          /\ UNCHANGED <<guards, lock_count, panicked>>
    /\ UNCHANGED <<lock, owner_cpu, running, reading, leaked>>

\* Mutex::try_lock, ReMutex::try_lock, RwLock::try_write.
TryEnter(x, l) ==
    /\ Runs(x) /\ pc[x] = Idle /\ Cardinality(guards[x]) < MaxGuards
    /\ l \in TryLocks /\ (l \in ReMutexes => \A c \in Cpus : leaked[c] < MaxLeaks)
    /\ \/ /\ OwnedHere(x, l) /\ l \in ReMutexes
          /\ PushCli(x) /\ Reenter(x, l)
       \/ /\ OwnedHere(x, l) /\ l \notin ReMutexes
          /\ cpu' = [cpu EXCEPT ![x[1]] = pop_cli(push_cli(@))]
          /\ UNCHANGED <<pc, guards, lock_count, panicked>>
       \/ /\ ~OwnedHere(x, l)
          /\ PushCli(x)
          /\ pc' = [pc EXCEPT ![x] = At("try", l)]
          /\ UNCHANGED <<guards, lock_count, panicked>>
    /\ UNCHANGED <<lock, owner_cpu, running, reading, leaked>>

try_write_lock_NotAtomic(l) == lock[l] < WRITE_LOCKED /\ lock' = [lock EXCEPT ![l] = WRITE_LOCKED]
\* Lock::try_write_lock: the compare_exchange.
try_write_lock(l) ==
    lock[l] = UNLOCKED /\ lock' = [lock EXCEPT ![l] = WRITE_LOCKED]

\* The spinning of Lock::write_lock ends, or try_write_lock succeeds.
WriteLock(x, l) ==
    /\ Runs(x) /\ pc[x] \in {At("lock", l), At("try", l)}
    /\ try_write_lock(l)
    /\ pc' = [pc EXCEPT ![x] = At("own", l)]
    /\ UNCHANGED <<owner_cpu, lock_count, cpu, running, guards, reading, panicked, leaked>>

TryFail_NoPop(x, l) ==
    /\ Runs(x) /\ pc[x] = At("try", l) /\ lock[l] # UNLOCKED
    /\ pc' = [pc EXCEPT ![x] = Idle]
    /\ UNCHANGED <<lock, owner_cpu, lock_count, cpu, running, guards, reading, panicked, leaked>>
\* try_write_lock fails: Mutex and RwLock undo push_cli, ReMutex does not.
TryFail(x, l) ==
    /\ Runs(x) /\ pc[x] = At("try", l) /\ lock[l] # UNLOCKED
    /\ \/ /\ l \in ReMutexes
          /\ leaked' = [leaked EXCEPT ![x[1]] = @ + 1] /\ UNCHANGED cpu
       \/ /\ l \notin ReMutexes
          /\ PopCli(x) /\ UNCHANGED leaked
    /\ pc' = [pc EXCEPT ![x] = Idle]
    /\ UNCHANGED <<lock, owner_cpu, lock_count, running, guards, reading, panicked>>

\* The new owner records itself and returns the guard.
Own(x, l) ==
    /\ Runs(x) /\ pc[x] = At("own", l)
    /\ owner_cpu' = [owner_cpu EXCEPT ![l] = x[1]]
    /\ lock_count' = [lock_count EXCEPT ![l] = 1]
    /\ NewGuard(x, l)
    /\ pc' = [pc EXCEPT ![x] = Idle]
    /\ UNCHANGED <<lock, cpu, running, reading, panicked, leaked>>

TopGuard(l) == <<l, lock_count[l]>>

\* ReMutexGuard::drop of a guard that is not the last.
DropNested(x, l) ==
    /\ Runs(x) /\ pc[x] = Idle /\ TopGuard(l) \in guards[x]
    /\ lock_count[l] > 1
    /\ lock_count' = [lock_count EXCEPT ![l] = @ - 1]
    /\ guards' = [guards EXCEPT ![x] = @ \ {TopGuard(l)}]
    /\ PopCli(x)
    /\ UNCHANGED <<lock, owner_cpu, running, pc, reading, panicked, leaked>>

\* Drop of the last guard: the owner is cleared first...
DropLast(x, l) ==
    /\ Runs(x) /\ pc[x] = Idle /\ TopGuard(l) \in guards[x]
    /\ lock_count[l] = 1
    /\ lock_count' = [lock_count EXCEPT ![l] = 0]
    /\ owner_cpu' = [owner_cpu EXCEPT ![l] = NoOwner]
    /\ guards' = [guards EXCEPT ![x] = @ \ {TopGuard(l)}]
    /\ pc' = [pc EXCEPT ![x] = At("unlock", l)]
    /\ UNCHANGED <<lock, cpu, running, reading, panicked, leaked>>

\* ...then write_unlock frees the lock and pop_cli restores the flag.
Unlock(x, l) ==
    /\ Runs(x) /\ pc[x] = At("unlock", l)
    /\ lock' = [lock EXCEPT ![l] = @ - WRITE_LOCKED]
    /\ PopCli(x)
    /\ pc' = [pc EXCEPT ![x] = Idle]
    /\ UNCHANGED <<owner_cpu, lock_count, running, guards, reading, panicked, leaked>>

is_read_lockable(state) == state < MAX_READERS

\* RwLock::read and try_read: the counter goes up with interrupts as they are.
ReadLock(x, l) ==
    /\ Runs(x) /\ pc[x] = Idle
    /\ is_read_lockable(lock[l])
    /\ lock' = [lock EXCEPT ![l] = @ + 1]
    /\ pc' = [pc EXCEPT ![x] = At("read", l)]
    /\ UNCHANGED <<owner_cpu, lock_count, cpu, running, guards, reading, panicked, leaked>>

\* ...and the owner is set to "none" before the guard is returned.
ReadOwn(x, l) ==
    /\ Runs(x) /\ pc[x] = At("read", l)
    /\ owner_cpu' = [owner_cpu EXCEPT ![l] = NoOwner]
    /\ reading' = [reading EXCEPT ![x][l] = @ + 1]
    /\ pc' = [pc EXCEPT ![x] = Idle]
    /\ UNCHANGED <<lock, lock_count, cpu, running, guards, panicked, leaked>>

\* RwLockReadGuard::drop.
ReadDrop(x, l) ==
    /\ Runs(x) /\ pc[x] = Idle /\ reading[x][l] > 0
    /\ lock' = [lock EXCEPT ![l] = @ - 1]
    /\ reading' = [reading EXCEPT ![x][l] = @ - 1]
    /\ UNCHANGED <<owner_cpu, lock_count, cpu, running, pc, guards, panicked, leaked>>

\* An interrupt: the gate clears the flag.
Interrupt(c) ==
    /\ cpu[c].intr = On
    /\ running[c] # Handler
    /\ running' = [running EXCEPT ![c] = Handler]
    /\ cpu' = [cpu EXCEPT ![c].intr = Off]
    /\ UNCHANGED <<lock, owner_cpu, lock_count, pc, guards, reading, panicked, leaked>>

\* The handler is done: iret to the task it interrupted, or to another one.
Iret(c, t) ==
    /\ running[c] = Handler /\ t # Handler
    /\ pc[<<c, Handler>>] = Idle
    /\ guards[<<c, Handler>>] = {}
    /\ \A l \in RwLocks : reading[<<c, Handler>>][l] = 0
    /\ running' = [running EXCEPT ![c] = t]
    /\ cpu' = [cpu EXCEPT ![c].intr = On]
    /\ UNCHANGED <<lock, owner_cpu, lock_count, pc, guards, reading, panicked, leaked>>

Next ==
    \/ \E c \in Cpus, l \in Locks :
          LET x == <<c, running[c]>> IN
          \/ LockEnter(x, l) \/ TryEnter(x, l) \/ WriteLock(x, l)
          \/ TryFail(x, l) \/ Own(x, l)
          \/ DropNested(x, l) \/ DropLast(x, l) \/ Unlock(x, l)
    \/ \E c \in Cpus, l \in RwLocks :
          LET x == <<c, running[c]>> IN
          ReadLock(x, l) \/ ReadOwn(x, l) \/ ReadDrop(x, l)
    \/ \E c \in Cpus : Interrupt(c) \/ \E t \in Tasks : Iret(c, t)

Spec == Init /\ [][Next]_vars

-----------------------------------------------------------------------------
\* Every variable has its type; a lock is free, write locked or has fewer
\* readers than MAX_READERS allows (the counter never meets WRITE_LOCKED).
TypeOK ==
    /\ lock \in [Locks -> 0 .. WRITE_LOCKED]
    /\ owner_cpu \in [Locks -> Cpus \cup {NoOwner}]
    /\ lock_count \in [Locks -> Nat]
    /\ cpu \in [Cpus -> Cpu]
    /\ running \in [Cpus -> Tasks]
    /\ pc \in [Ctx -> {Idle} \cup [at : Steps, lock : Locks]]
    /\ guards \in [Ctx -> SUBSET (Locks \X Nat)]
    /\ reading \in [Ctx -> [RwLocks -> Nat]]
    /\ panicked \subseteq Ctx
    /\ leaked \in [Cpus -> 0 .. MaxLeaks]

Writes(x, l) == \E g \in guards[x] : g[1] = l

\* x has an exclusive guard of l, or is about to get it or to give it up.
Holds(x, l) == Writes(x, l) \/ pc[x] \in {At("own", l), At("unlock", l)}

\* The read guards of l that read() has returned, and the calls it will return one to.
ReadGuards(l) == {r \in Ctx \X (1 .. MASK) : r[2] <= reading[r[1]][l]}
InRead(l) == {x \in Ctx : pc[x] = At("read", l)}

\* No two contexts hold guards on a lock unless all of them read: what Deref
\* and DerefMut of the guards rely on.
GuardsExclude ==
    \A l \in Locks, x \in Ctx : Writes(x, l) =>
        \A y \in Ctx \ {x} : ~Writes(y, l) /\ (l \in RwLocks => reading[y][l] = 0)

\* Lock::write_unlock asserts that the state returns to UNLOCKED, and
\* RwLockWriteGuard::drop that the owner it clears is set; lock() panics with
\* "already locked by this CPU" only when the very context that calls it holds
\* the lock.
AssertionsHold ==
    /\ \A x \in Ctx, l \in Locks :
        /\ pc[x] = At("unlock", l) => lock[l] = WRITE_LOCKED
        /\ Writes(x, l) => owner_cpu[l] = x[1]
    /\ \A x \in panicked : \E l \in Mutexes \cup RwLocks : Writes(x, l)

\* The state word means what lock.rs says: write locked, or the number of
\* readers, the ones that have not returned from read() yet included.
StateCountsReaders ==
    \A l \in RwLocks :
        /\ lock[l] = WRITE_LOCKED <=> \E x \in Ctx : Holds(x, l)
        /\ \/ \E x \in Ctx : Holds(x, l)
           \/ lock[l] = Cardinality(ReadGuards(l)) + Cardinality(InRead(l))

\* Guards exclude each other, and the state word of a lock says who holds it,
\* over every interleaving of the processors, tasks and interrupts, so that the
\* assertions of the unlocks hold.
MutualExclusion == TypeOK /\ GuardsExclude /\ StateCountsReaders /\ AssertionsHold

InSection(x) == pc[x].at \in {"lock", "try", "own", "unlock"}

\* The exclusive guards that x holds, is acquiring or is releasing.
Depth(x) == Cardinality(guards[x]) + (IF InSection(x) THEN 1 ELSE 0)

\* The nesting depth of push_cli is the number of exclusive guards that the
\* running context holds, is acquiring or is releasing, and one more for each
\* ReMutex::try_lock that failed on the processor, whose push_cli nobody pops;
\* a preempted context holds no exclusive guard.
CliMatchesGuards ==
    \A c \in Cpus, t \in Tasks :
        /\ running[c] = t /\ <<c, t>> \notin panicked =>
              cpu[c].n_cli = Depth(<<c, t>>) + leaked[c]
        /\ running[c] # t => Depth(<<c, t>>) = 0

\* The processor that waits for a Mutex or ReMutex with interrupts off never
\* waits for itself ("disable interrupts to avoid deadlock", mutex.rs).
NoSelfDeadlock ==
    \A x \in Ctx, l \in Mutexes \cup ReMutexes : pc[x] = At("lock", l) =>
        \A y \in Ctx : Holds(y, l) => y[1] # x[1]

\* The same for RwLock::write, which carries the same comment: the reader it
\* waits for is never a context that its own processor has preempted.
NoSelfDeadlockOnRead ==
    \A x \in Ctx, l \in RwLocks, y \in Ctx :
        pc[x] = At("lock", l) /\ reading[y][l] > 0 /\ y # x => y[1] # x[1]
=============================================================================
