--------------------------- MODULE ProcessorProofs ---------------------------
(***************************************************************************)
(* The theorems about the spin locks and the once cell for                 *)
(* the processor of MCProcessor, of which one part moves at a time.        *)
(***************************************************************************)
EXTENDS MCProcessor, TLAPS

SpinP == INSTANCE SpinLocksProofs WITH cpu <- cpus

ProcessorNext == [SchedulerNext \/ SpinNext \/ OnceNext]_processor_vars
------------------------------------------------------------------------------
(***************************************************************************)
(* Spin and SpinP are one module under two names.                          *)
(***************************************************************************)
\* The two instances of SpinLocks, the one the runs check and the one the proofs are
\* about, have the same constants and state functions.
LEMMA SameSets ==
    /\ \A S : Spin!IsFiniteSet(S) <=> SpinP!IsFiniteSet(S)
    /\ \A S : Spin!Cardinality(S) = SpinP!Cardinality(S)
  <1>1. \A S : Spin!IsFiniteSet(S) <=> SpinP!IsFiniteSet(S)
    BY Zenon DEF Spin!IsFiniteSet, SpinP!IsFiniteSet
  <1>2. \A S : Spin!Cardinality(S) = SpinP!Cardinality(S)
    BY Zenon DEF Spin!Cardinality, SpinP!Cardinality
  <1>. QED BY <1>1, <1>2, Zenon

\* The assumptions on the lock constants hold in this composition.
LEMMA SpinAssumptions == SpinP!LockAssumptions
  BY PartAssumptions, SameSets, Zenon DEF Spin!LockAssumptions, SpinP!LockAssumptions, Spin!Locks, SpinP!Locks

\* They start in the same states,
LEMMA SameInit == ASSUME Spin!Init PROVE SpinP!Init
  BY Zenon DEF Spin!Init, SpinP!Init, Spin!Locks, SpinP!Locks, Spin!Ctx, SpinP!Ctx,
         Spin!NoOwner, SpinP!NoOwner, Spin!UNLOCKED, SpinP!UNLOCKED, Spin!Idle, SpinP!Idle,
         Spin!BootCpu, SpinP!BootCpu, Spin!On, SpinP!On, Spin!Off, SpinP!Off

\* take the same steps,
LEMMA SameNext == ASSUME Spin!Next PROVE SpinP!Next
  <1>. USE SameSets
       DEF Spin!Locks, SpinP!Locks, Spin!NoOwner, SpinP!NoOwner,
           Spin!UNLOCKED, SpinP!UNLOCKED, Spin!WRITE_LOCKED, SpinP!WRITE_LOCKED,
           Spin!MAX_READERS, SpinP!MAX_READERS, Spin!Idle, SpinP!Idle, Spin!At, SpinP!At,
           Spin!Runs, SpinP!Runs, Spin!PushCli, SpinP!PushCli, Spin!PopCli, SpinP!PopCli,
           Spin!push_cli, SpinP!push_cli, Spin!pop_cli, SpinP!pop_cli, Spin!On, SpinP!On,
           Spin!Off, SpinP!Off, Spin!OwnedHere, SpinP!OwnedHere,
           Spin!NewGuard, SpinP!NewGuard, Spin!Reenter, SpinP!Reenter
  <1>1. \A x, l : Spin!LockEnter(x, l) => SpinP!LockEnter(x, l)
    BY SMTT(30) DEF Spin!LockEnter, SpinP!LockEnter
  <1>2. \A x, l : Spin!TryEnter(x, l) => SpinP!TryEnter(x, l)
    BY SMTT(30) DEF Spin!TryEnter, SpinP!TryEnter
  <1>3. \A x, l : Spin!WriteLock(x, l) \/ Spin!TryFail(x, l) \/ Spin!Own(x, l) =>
                  SpinP!WriteLock(x, l) \/ SpinP!TryFail(x, l) \/ SpinP!Own(x, l)
    BY SMTT(30) DEF Spin!WriteLock, SpinP!WriteLock, Spin!try_write_lock, SpinP!try_write_lock,
           Spin!TryFail, SpinP!TryFail, Spin!Own, SpinP!Own
  <1>4. \A x, l : Spin!DropNested(x, l) \/ Spin!DropLast(x, l) \/ Spin!Unlock(x, l) =>
                  SpinP!DropNested(x, l) \/ SpinP!DropLast(x, l) \/ SpinP!Unlock(x, l)
    BY SMTT(30) DEF Spin!DropNested, SpinP!DropNested, Spin!DropLast, SpinP!DropLast,
           Spin!TopGuard, SpinP!TopGuard, Spin!Unlock, SpinP!Unlock
  <1>5. \A x, l : Spin!ReadLock(x, l) \/ Spin!ReadOwn(x, l) \/ Spin!ReadDrop(x, l) =>
                  SpinP!ReadLock(x, l) \/ SpinP!ReadOwn(x, l) \/ SpinP!ReadDrop(x, l)
    BY SMTT(30) DEF Spin!ReadLock, SpinP!ReadLock, Spin!is_read_lockable, SpinP!is_read_lockable,
           Spin!ReadOwn, SpinP!ReadOwn, Spin!ReadDrop, SpinP!ReadDrop
  <1>6. \A c : /\ Spin!Interrupt(c) => SpinP!Interrupt(c)
               /\ \A t : Spin!Iret(c, t) => SpinP!Iret(c, t)
    BY Zenon DEF Spin!Interrupt, SpinP!Interrupt, Spin!Iret, SpinP!Iret
  <1>. QED BY <1>1, <1>2, <1>3, <1>4, <1>5, <1>6, SMTT(30) DEF Spin!Next, SpinP!Next

\* and have the same properties.
LEMMA SameProperties ==
    ASSUME SpinP!MutualExclusion /\ SpinP!CliMatchesGuards /\ SpinP!NoSelfDeadlock
    PROVE  Spin!MutualExclusion /\ Spin!CliMatchesGuards /\ Spin!NoSelfDeadlock
  <1>. USE SameSets
       DEF Spin!Locks, SpinP!Locks, Spin!Ctx, SpinP!Ctx, Spin!NoOwner, SpinP!NoOwner,
           Spin!WRITE_LOCKED, SpinP!WRITE_LOCKED, Spin!Idle, SpinP!Idle, Spin!At, SpinP!At,
           Spin!Steps, SpinP!Steps, Spin!Writes, SpinP!Writes, Spin!Holds, SpinP!Holds
  <1>1. Spin!TypeOK
    BY Zenon DEF Spin!MutualExclusion, SpinP!MutualExclusion, Spin!TypeOK, SpinP!TypeOK,
           Spin!Cpu, SpinP!Cpu, Spin!Flag, SpinP!Flag, Spin!On, SpinP!On,
           Spin!Off, SpinP!Off
  <1>2. Spin!GuardsExclude /\ Spin!AssertionsHold
    BY Zenon DEF Spin!MutualExclusion, SpinP!MutualExclusion,
           Spin!GuardsExclude, SpinP!GuardsExclude,
           Spin!AssertionsHold, SpinP!AssertionsHold
  <1>3. Spin!StateCountsReaders
    BY Zenon DEF Spin!MutualExclusion, SpinP!MutualExclusion,
           Spin!StateCountsReaders, SpinP!StateCountsReaders,
           Spin!ReadGuards, SpinP!ReadGuards, Spin!InRead, SpinP!InRead
  <1>4. Spin!CliMatchesGuards
    BY Zenon DEF Spin!CliMatchesGuards, SpinP!CliMatchesGuards, Spin!Depth, SpinP!Depth,
           Spin!InSection, SpinP!InSection
  <1>5. Spin!NoSelfDeadlock
    BY Zenon DEF Spin!NoSelfDeadlock, SpinP!NoSelfDeadlock
  <1>. QED BY <1>1, <1>2, <1>3, <1>4, <1>5, Zenon DEF Spin!MutualExclusion
------------------------------------------------------------------------------
\* On a processor whose contexts take spin locks, guards exclude each other, the
\* state words and the nesting of push_cli are right, and nobody waits for a lock of
\* its own processor, for any number of processors, tasks and locks.
THEOREM LocksAlwaysSound == ProcessorSpec => []LocksAreSound
  <1>. DEFINE Inv == part = "spin" => SpinP!IInv
  <1>1. ProcessorInit => Inv
    BY SpinAssumptions, SameInit, SpinP!InitIsRight, Zenon DEF ProcessorInit
  <1>2. Inv /\ ProcessorNext => Inv'
    <2>. SUFFICES ASSUME Inv, ProcessorNext, part' = "spin" PROVE SpinP!IInv'
      BY Zenon
    <2>1. part = "spin" /\ (Spin!Next \/ lock_vars' = lock_vars)
      BY Zenon DEF ProcessorNext, SchedulerNext, SpinNext, OnceNext, processor_vars
    <2>2. SpinP!IInv /\ [SpinP!Next]_SpinP!vars
      BY <2>1, SameNext, Zenon DEF lock_vars, SpinP!vars
    <2>. QED BY <2>2, SpinAssumptions, SpinP!NextStep, Zenon
  <1>3. Inv => LocksAreSound
    BY SpinAssumptions, SpinP!LocksFollow, SameProperties, Zenon DEF LocksAreSound
  <1>. QED BY <1>1, <1>2, <1>3, PTL DEF ProcessorSpec, ProcessorNext

------------------------------------------------------------------------------
(***************************************************************************)
(* The once cell.  OnceGetsTheValue is inductive once it is known that the *)
(* slot is written by one caller only, while the state is RUNNING.         *)
(***************************************************************************)
OnceInv ==
    /\ Once!TypeOK /\ Once!GetsTheValue
    /\ once_state = Once!DONE => once_value # Uninit
    /\ \A x \in Callers :
        /\ once_pc[x] = "closure" => once_state = Once!RUNNING
        /\ once_pc[x] = "done" => once_state = Once!RUNNING /\ once_value # Uninit
        /\ once_pc[x] = "got" => once_state = Once!DONE
        /\ \A y \in Callers :
              /\ once_pc[x] \in {"closure", "done"}
              /\ once_pc[y] \in {"closure", "done"}
              => x = y

\* The cell starts empty, with nobody in it.
LEMMA OnceInitIsRight == ASSUME Once!Init PROVE OnceInv
  BY PartAssumptions DEF Once!ValuesAssumption, Once!Init, OnceInv, Once!TypeOK,
     Once!GetsTheValue, Once!INIT, Once!RUNNING, Once!DONE

\* Every step of every caller preserves the invariant.
LEMMA OnceNextStep == ASSUME OnceInv, [Once!Next]_once_vars PROVE OnceInv'
  <1>. USE PartAssumptions
  <1>. USE DEF Once!ValuesAssumption, OnceInv, Once!TypeOK, Once!GetsTheValue,
               Once!INIT, Once!RUNNING, Once!DONE, Once!Become, Once!is_completed,
               Once!Return
  <1>1. ASSUME NEW x \in Callers, Once!set(x) PROVE OnceInv'
    BY <1>1, SMTT(30) DEF Once!set
  <1>2. ASSUME NEW x \in Callers, Once!get_or_init(x) PROVE OnceInv'
    BY <1>2, SMTT(30) DEF Once!get_or_init
  <1>3. ASSUME NEW x \in Callers, Once!try_get(x) PROVE OnceInv'
    BY <1>3, SMTT(30) DEF Once!try_get
  <1>4. ASSUME NEW x \in Callers, Once!call(x) PROVE OnceInv'
    BY <1>4, SMTT(30) DEF Once!call
  <1>5. ASSUME NEW x \in Callers, Once!closure(x) PROVE OnceInv'
    BY <1>5 DEF Once!closure
  <1>6. ASSUME NEW x \in Callers, Once!finish(x) PROVE OnceInv'
    BY <1>6, SMTT(30) DEF Once!finish
  <1>7. CASE UNCHANGED once_vars
    BY <1>7, Zenon DEF once_vars
  <1>. QED BY <1>1, <1>2, <1>3, <1>4, <1>5, <1>6, <1>7, Zenon DEF Once!Next

\* On a processor whose contexts race for a once cell, every reference handed out
\* is to the one value stored, for any number of callers.
THEOREM OnceAlwaysGetsTheValue == ProcessorSpec => []OnceGetsTheValue
  <1>. DEFINE Inv == part = "once" => OnceInv
  <1>1. ProcessorInit => Inv
    BY OnceInitIsRight, Zenon DEF ProcessorInit
  <1>2. Inv /\ ProcessorNext => Inv'
    <2>. SUFFICES ASSUME Inv, ProcessorNext, part' = "once" PROVE OnceInv'
      BY Zenon
    <2>1. part = "once" /\ (Once!Next \/ once_vars' = once_vars)
      BY Zenon DEF ProcessorNext, SchedulerNext, SpinNext, OnceNext, processor_vars
    <2>. QED BY <2>1, OnceNextStep, Zenon
  <1>3. Inv => OnceGetsTheValue
    BY Zenon DEF OnceGetsTheValue, OnceInv
  <1>. QED BY <1>1, <1>2, <1>3, PTL DEF ProcessorSpec, ProcessorNext
==============================================================================
