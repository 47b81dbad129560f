--------------------------- MODULE SpinLocksProofs ---------------------------
(***************************************************************************)
(* Proofs about SpinLocks, for any number of processors, tasks and locks.  *)
(*                                                                         *)
(* Mutual exclusion does not follow from the state word alone: a lock is   *)
(* taken in two steps (the word, then owner_cpu) and given back in two     *)
(* (the other way round), and owner_cpu names a processor, not a context.  *)
(* The invariant says who holds a lock at each of these points             *)
(* (OneHolder), what the word is then (WordIsRight), that a holder keeps   *)
(* its processor because interrupts are off as long as it holds anything   *)
(* (CliMatchesGuards, FlagsAreRight), and so that "this processor owns the *)
(* lock" means "this context owns it".                                     *)
(***************************************************************************)
EXTENDS SpinLocks, FiniteSetTheorems, TLAPS

\* A processor with interrupts on runs a context without exclusive guards; one
\* that panicked keeps its processor for ever.
FlagsAreRight ==
    /\ \A c \in Cpus : cpu[c].intr = On =>
          <<c, running[c]>> \notin panicked /\ Depth(<<c, running[c]>>) = 0
    /\ \A x \in panicked : running[x[1]] = x[2] /\ pc[x] = Idle

\* A context inside an operation: read() is of a RwLock, one that waits for a lock
\* has no guard of it, and ReMutex::try_lock may fail once more.
StepsAreRight ==
    \A x \in Ctx, l \in Locks :
        /\ pc[x] = At("read", l) => l \in RwLocks
        /\ pc[x] \in {At("lock", l), At("try", l)} => ~Writes(x, l)
        /\ pc[x] = At("try", l) /\ l \in ReMutexes => leaked[x[1]] < MaxLeaks

\* At most one context holds a lock; the guards of its owner are numbered from 1 to
\* lock_count, and nobody owns the lock as long as there is none.
OneHolder ==
    /\ \A l \in Locks, x, y \in Ctx : Holds(x, l) /\ Holds(y, l) => x = y
    /\ \A x \in Ctx : IsFiniteSet(guards[x])
    /\ \A x \in Ctx : \A g \in guards[x] :
          /\ g[2] \in 1 .. lock_count[g[1]]
          /\ \A k \in 1 .. lock_count[g[1]] : <<g[1], k>> \in guards[x]
    /\ \A x \in Ctx, l \in Locks :
          /\ Writes(x, l) => owner_cpu[l] = x[1]
          /\ pc[x] \in {At("own", l), At("unlock", l)} => ~Writes(x, l)
    /\ \A l \in Locks : owner_cpu[l] # NoOwner =>
          \E x \in Ctx : Writes(x, l)

\* The state word of every lock; a lock that is held has no readers.
WordIsRight ==
    \A l \in Locks :
        /\ lock[l] = WRITE_LOCKED <=> \E x \in Ctx : Holds(x, l)
        /\ l \notin RwLocks => lock[l] \in {UNLOCKED, WRITE_LOCKED}
        /\ l \in RwLocks /\ lock[l] # WRITE_LOCKED =>
              lock[l] = Cardinality(ReadGuards(l)) + Cardinality(InRead(l))
        /\ l \in RwLocks /\ lock[l] = WRITE_LOCKED =>
              ReadGuards(l) = {} /\ InRead(l) = {}
        /\ l \in RwLocks => \A x \in Ctx : reading[x][l] <= MASK

\* A context that panicked did so over a lock it holds itself.
PanicsAreRight == \A x \in panicked : \E l \in Mutexes \cup RwLocks : Writes(x, l)

\* The inductive invariant.
IInv ==
    /\ TypeOK /\ CliMatchesGuards /\ FlagsAreRight /\ StepsAreRight
    /\ OneHolder /\ WordIsRight /\ PanicsAreRight
------------------------------------------------------------------------------
\* Being at a step of an operation on a lock determines both, and is not being idle.
LEMMA PcFacts ==
    /\ Idle.at = "idle"
    /\ \A s, l : At(s, l).at = s /\ At(s, l).lock = l
    /\ \A s \in Steps : \A l : At(s, l) # Idle
    /\ \A s \in Steps, l \in Locks : At(s, l) \in [at : Steps, lock : Locks]
  BY Zenon DEF Idle, At, Steps

\* The shared guards of a lock and the contexts inside read() can be counted.
LEMMA ReadersFinite ==
    ASSUME LockAssumptions, NEW l
    PROVE  IsFiniteSet(ReadGuards(l)) /\ IsFiniteSet(InRead(l))
  <1>1. IsFiniteSet(Ctx)
    BY FS_Product, Zenon DEF LockAssumptions, Ctx
  <1>2. IsFiniteSet(Ctx \X (1 .. MASK))
    <2>1. IsFiniteSet(1 .. MASK)
      BY FS_Interval DEF LockAssumptions
    <2>. QED BY <1>1, <2>1, FS_Product, Zenon
  <1>. QED BY <1>1, <1>2, FS_Subset, Zenon DEF ReadGuards, InRead

\* A context without exclusive guards, and outside the operations that get one.
LEMMA DepthIsZero ==
    ASSUME NEW x \in Ctx, IsFiniteSet(guards[x])
    PROVE  /\ Cardinality(guards[x]) \in Nat /\ Depth(x) \in Nat
           /\ Depth(x) = 0 <=> guards[x] = {} /\ ~InSection(x)
  <1>1. Cardinality(guards[x]) \in Nat /\ (Cardinality(guards[x]) = 0 <=> guards[x] = {})
    BY FS_CardinalityType, FS_EmptySet, Zenon
  <1>. QED BY <1>1 DEF Depth

\* Whoever holds a lock or waits for one runs, with interrupts off.
LEMMA HoldersRun ==
    ASSUME IInv, NEW x \in Ctx, NEW l \in Locks, 
           Holds(x, l) \/ pc[x] \in {At("lock", l), At("try", l)}
    PROVE  /\ Depth(x) \in Nat \ {0}
           /\ running[x[1]] = x[2]
           /\ cpu[x[1]].intr = Off
  <1>1. IsFiniteSet(guards[x])
    BY Zenon DEF IInv, OneHolder
  <1>2. guards[x] # {} \/ InSection(x)
    BY PcFacts DEF Holds, Writes, InSection
  <1>3. Depth(x) \in Nat \ {0}
    BY <1>1, <1>2, DepthIsZero, Zenon
  <1>4. x = <<x[1], x[2]>> /\ x[1] \in Cpus /\ x[2] \in Tasks
    BY DEF Ctx
  <1>5. running[x[1]] = x[2]
    BY <1>3, <1>4 DEF IInv, CliMatchesGuards
  <1>6. cpu[x[1]].intr \in {On, Off}
    BY <1>4, Zenon DEF IInv, TypeOK, Cpu, Flag
  <1>7. cpu[x[1]].intr # On
    BY <1>3, <1>4, <1>5, Zenon DEF IInv, FlagsAreRight
  <1>. QED BY <1>3, <1>5, <1>6, <1>7, Zenon

\* At boot every lock is free and every processor has interrupts on.
LEMMA InitIsRight == ASSUME LockAssumptions, Init PROVE IInv
  <1>. USE DEF LockAssumptions, Init
  <1>1. TypeOK
    BY DEF TypeOK, Cpu, BootCpu, Flag, On, Off, Locks, NoOwner, UNLOCKED, WRITE_LOCKED
  <1>2. \A x \in Ctx : ~InSection(x) /\ guards[x] = {} /\ IsFiniteSet(guards[x]) /\ Depth(x) = 0
    BY PcFacts, FS_EmptySet, DepthIsZero, Zenon DEF InSection
  <1>3. CliMatchesGuards
    BY <1>2 DEF CliMatchesGuards, Ctx, BootCpu
  <1>4. FlagsAreRight
    BY <1>2, Zenon DEF FlagsAreRight, Ctx
  <1>5. StepsAreRight
    BY PcFacts, Zenon DEF StepsAreRight, Steps
  <1>6. \A x \in Ctx, l \in Locks : ~Holds(x, l)
    BY <1>2, PcFacts, Zenon DEF Holds, Writes, Steps
  <1>7. OneHolder
    BY <1>2, <1>6, Zenon DEF OneHolder, Holds
  <1>8. \A l \in RwLocks : ReadGuards(l) = {} /\ InRead(l) = {}
    BY PcFacts DEF ReadGuards, InRead, Steps
  <1>9. \A l \in RwLocks : Cardinality(ReadGuards(l)) + Cardinality(InRead(l)) = 0
    <2>1. Cardinality({}) = 0
      BY FS_EmptySet, Zenon
    <2>2. 0 + 0 = 0
      OBVIOUS
    <2>. QED BY <1>8, <2>1, <2>2, Zenon
  <1>10. WordIsRight
    BY <1>6, <1>8, <1>9 DEF WordIsRight, UNLOCKED, WRITE_LOCKED
  <1>. QED BY <1>1, <1>3, <1>4, <1>5, <1>7, <1>10, Zenon DEF IInv, PanicsAreRight
------------------------------------------------------------------------------
(***************************************************************************)
(* What a step of one context x leaves alone.                              *)
(***************************************************************************)
\* A step of one context leaves what the others hold and count alone.
LEMMA OthersKeep ==
    ASSUME NEW x \in Ctx,
           \A y \in Ctx \ {x} : guards'[y] = guards[y] /\ pc'[y] = pc[y]
    PROVE  \A y \in Ctx \ {x} :
              /\ Depth(y)' = Depth(y)
              /\ \A l : (Writes(y, l)' <=> Writes(y, l)) /\ (Holds(y, l)' <=> Holds(y, l))
  BY Zenon DEF Depth, InSection, Writes, Holds

\* A step of x keeps the nesting depths and the flags right when it does so for x.
LEMMA CliStep ==
    ASSUME LockAssumptions, IInv, NEW x \in Ctx, Runs(x),
           \A y \in Ctx \ {x} : guards'[y] = guards[y] /\ pc'[y] = pc[y],
           \A c \in Cpus \ {x[1]} : cpu'[c] = cpu[c] /\ leaked'[c] = leaked[c],
           running' = running,
           \/ panicked' = panicked
           \/ panicked' = panicked \cup {x} /\ pc'[x] = Idle,
           x \notin panicked' => cpu'[x[1]].n_cli = Depth(x)' + leaked'[x[1]],
           cpu'[x[1]].intr = On => x \notin panicked' /\ Depth(x)' = 0
    PROVE  CliMatchesGuards' /\ FlagsAreRight'
  <1>1. x = <<x[1], x[2]>> /\ x[1] \in Cpus /\ x[2] \in Tasks /\ running[x[1]] = x[2] /\ x \notin panicked
    BY DEF Ctx, Runs
  <1>2. \A y \in Ctx \ {x} : Depth(y)' = Depth(y)
    BY OthersKeep, Zenon
  <1>3. \A c \in Cpus, t \in Tasks : <<c, t>> \in Ctx /\ (<<c, t>> = x <=> c = x[1] /\ t = x[2])
    BY <1>1 DEF Ctx
  <1>4. CliMatchesGuards'
    <2>. SUFFICES ASSUME NEW c \in Cpus, NEW t \in Tasks
                  PROVE  /\ running[c] = t /\ <<c, t>> \notin panicked' =>
                               cpu'[c].n_cli = Depth(<<c, t>>)' + leaked'[c]
                         /\ running[c] # t => Depth(<<c, t>>)' = 0
      BY Zenon DEF CliMatchesGuards
    <2>1. CASE <<c, t>> = x
      BY <2>1, <1>1, <1>3, Zenon
    <2>2. CASE <<c, t>> # x
      <3>1. Depth(<<c, t>>)' = Depth(<<c, t>>)
        BY <2>2, <1>2, <1>3, Zenon
      <3>. QED BY <2>2, <3>1, <1>1, <1>3 DEF IInv, CliMatchesGuards
    <2>. QED BY <2>1, <2>2, Zenon
  <1>5. ASSUME NEW c \in Cpus, cpu'[c].intr = On
        PROVE  <<c, running'[c]>> \notin panicked' /\ Depth(<<c, running[c]>>)' = 0
    <2>. running[c] \in Tasks
      BY Zenon DEF IInv, TypeOK
    <2>1. CASE c = x[1]
      BY <2>1, <1>1, <1>5, Zenon
    <2>2. CASE c # x[1]
      <3>1. Depth(<<c, running[c]>>)' = Depth(<<c, running[c]>>)
        BY <2>2, <1>2, <1>3, Zenon
      <3>. QED BY <2>2, <3>1, <1>1, <1>3, <1>5, Zenon DEF IInv, FlagsAreRight
    <2>. QED BY <2>1, <2>2, Zenon
  <1>6. ASSUME NEW y \in panicked' PROVE running[y[1]] = y[2] /\ pc'[y] = Idle
    BY <1>1, <1>6 DEF IInv, FlagsAreRight, TypeOK
  <1>. QED BY <1>4, <1>5, <1>6, Zenon DEF FlagsAreRight

\* push_cli turns interrupts off and counts one more.
LEMMA PushCliStep ==
    ASSUME NEW x \in Ctx, cpu \in [Cpus -> Cpu], PushCli(x)
    PROVE  /\ cpu' \in [Cpus -> Cpu]
           /\ \A c \in Cpus \ {x[1]} : cpu'[c] = cpu[c]
           /\ cpu'[x[1]].n_cli = cpu[x[1]].n_cli + 1
           /\ cpu'[x[1]].intr = Off
  BY DEF Ctx, PushCli, push_cli, Cpu, Flag, On, Off

\* pop_cli counts one less, and turns interrupts on only when it was the last.
LEMMA PopCliStep ==
    ASSUME NEW x \in Ctx, cpu \in [Cpus -> Cpu], PopCli(x), cpu[x[1]].n_cli > 0
    PROVE  /\ cpu' \in [Cpus -> Cpu]
           /\ \A c \in Cpus \ {x[1]} : cpu'[c] = cpu[c]
           /\ cpu'[x[1]].n_cli = cpu[x[1]].n_cli - 1
           /\ cpu'[x[1]].intr = On => cpu[x[1]].n_cli = 1
  BY DEF Ctx, PopCli, pop_cli, Cpu, Flag, On, Off

\* The state words stay right when no word, reader or holder changes.
LEMMA WordKeeps ==
    ASSUME WordIsRight, lock' = lock, reading' = reading,
           \A l \in Locks : (\E x \in Ctx : Holds(x, l))' <=> \E x \in Ctx : Holds(x, l),
           \A l \in RwLocks : InRead(l)' = InRead(l)
    PROVE  WordIsRight'
  BY Zenon DEF WordIsRight, ReadGuards

\* A lock whose owner is the processor of the running context is held by that context.
LEMMA OwnerWrites ==
    ASSUME LockAssumptions, IInv, NEW x \in Ctx, NEW l \in Locks, Runs(x), OwnedHere(x, l)
    PROVE  Writes(x, l)
  <1>1. x = <<x[1], x[2]>> /\ x[1] \in Cpus /\ running[x[1]] = x[2]
    BY DEF Ctx, Runs
  <1>2. PICK y \in Ctx : Writes(y, l) /\ y[1] = x[1]
    BY <1>1 DEF IInv, OneHolder, OwnedHere, NoOwner, LockAssumptions
  <1>3. y = <<y[1], y[2]>> /\ running[y[1]] = y[2]
    BY <1>2, HoldersRun DEF Ctx, Holds
  <1>. QED BY <1>1, <1>2, <1>3, Zenon

\* The running context and its processor.
LEMMA RunnerFacts ==
    ASSUME LockAssumptions, IInv, NEW x \in Ctx, Runs(x)
    PROVE  /\ x = <<x[1], x[2]>> /\ x[1] \in Cpus /\ x[2] \in Tasks
           /\ IsFiniteSet(guards[x]) /\ Cardinality(guards[x]) \in Nat
           /\ Depth(x) \in Nat /\ leaked[x[1]] \in Nat
           /\ cpu \in [Cpus -> Cpu]
           /\ cpu[x[1]].n_cli = Depth(x) + leaked[x[1]]
  <1>1. x = <<x[1], x[2]>> /\ x[1] \in Cpus /\ x[2] \in Tasks
    BY DEF Ctx
  <1>2. IsFiniteSet(guards[x])
    BY Zenon DEF IInv, OneHolder
  <1>3. leaked \in [Cpus -> 0 .. MaxLeaks] /\ cpu \in [Cpus -> Cpu]
    BY Zenon DEF IInv, TypeOK
  <1>4. leaked[x[1]] \in Nat
    BY <1>1, <1>3 DEF LockAssumptions
  <1>5. cpu[x[1]].n_cli = Depth(x) + leaked[x[1]]
    BY <1>1, Zenon DEF IInv, CliMatchesGuards, Runs
  <1>. QED BY <1>1, <1>2, <1>3, <1>4, <1>5, DepthIsZero, Zenon

\* The owner of a ReMutex gets one more guard.
LEMMA ReenterStep ==
    ASSUME LockAssumptions, IInv, NEW x \in Ctx, NEW l \in Locks, Runs(x), pc[x] = Idle,
           OwnedHere(x, l), PushCli(x), Reenter(x, l),
           UNCHANGED <<lock, owner_cpu, running, reading, leaked>>
    PROVE  IInv'
  <1>. DEFINE g == <<l, lock_count[l] + 1>>
  <1>1. /\ guards' = [guards EXCEPT ![x] = @ \cup {g}]
        /\ lock_count' = [lock_count EXCEPT ![l] = @ + 1]
        /\ pc' = pc /\ panicked' = panicked
    BY Zenon DEF Reenter, NewGuard, IInv, TypeOK
  <1>2. guards \in [Ctx -> SUBSET (Locks \X Nat)] /\ lock_count \in [Locks -> Nat]
    BY Zenon DEF IInv, TypeOK
  <1>3. g \notin guards[x]
    BY <1>2 DEF IInv, OneHolder
  <1>4. Writes(x, l)
    BY OwnerWrites, Zenon
  <1>5. /\ IsFiniteSet(guards'[x])
        /\ Cardinality(guards'[x]) = Cardinality(guards[x]) + 1
    <2>1. guards'[x] = guards[x] \cup {g}
      BY <1>1, <1>2, Zenon
    <2>2. IsFiniteSet(guards[x])
      BY RunnerFacts, Zenon
    <2>. HIDE DEF g
    <2>. QED BY <1>3, <2>1, <2>2, FS_AddElement, Zenon
  <1>6. \A y \in Ctx \ {x} : guards'[y] = guards[y] /\ pc'[y] = pc[y]
    BY <1>1, <1>2, Zenon
  <1>7. \A y \in Ctx, m \in Locks :
          (Writes(y, m)' <=> Writes(y, m)) /\ (Holds(y, m)' <=> Holds(y, m))
    BY <1>1, <1>2, <1>4, OthersKeep DEF Writes, Holds
  <1>8. TypeOK'
    BY <1>1, <1>2, PushCliStep DEF IInv, TypeOK
  <1>9. CliMatchesGuards' /\ FlagsAreRight'
    <2>1. Depth(x)' = Depth(x) + 1
      BY <1>1, <1>5, RunnerFacts DEF Depth, InSection
    <2>2. cpu'[x[1]].n_cli = Depth(x)' + leaked'[x[1]] /\ cpu'[x[1]].intr # On
      BY <2>1, RunnerFacts, PushCliStep DEF On, Off
    <2>3. \A c \in Cpus \ {x[1]} : cpu'[c] = cpu[c] /\ leaked'[c] = leaked[c]
      BY RunnerFacts, PushCliStep, Zenon
    <2>. QED BY <1>1, <1>6, <2>2, <2>3, CliStep, Zenon
  <1>10. StepsAreRight' /\ PanicsAreRight'
    BY <1>1, <1>7, Zenon DEF IInv, TypeOK, StepsAreRight, PanicsAreRight, Locks
  <1>11. OneHolder'
    <2>1. \A y \in Ctx : IsFiniteSet(guards'[y])
      BY <1>5, <1>6, Zenon DEF IInv, OneHolder
    <2>2. ASSUME NEW y \in Ctx, NEW h \in guards'[y]
          PROVE  /\ h[2] \in 1 .. lock_count'[h[1]]
                 /\ \A k \in 1 .. lock_count'[h[1]] : <<h[1], k>> \in guards'[y]
      <3>1. CASE h[1] # l
        BY <1>1, <1>2, <3>1 DEF IInv, OneHolder
      <3>2. CASE h[1] = l
        <4>1. y = x
          BY <1>4, <1>7, <2>2, <3>2 DEF IInv, OneHolder, Writes, Holds
        <4>2. PICK h0 \in guards[x] : h0[1] = l
          BY <1>4, Zenon DEF Writes
        <4>3. \A k \in 1 .. lock_count[l] : <<l, k>> \in guards[x]
          BY <4>2, Zenon DEF IInv, OneHolder
        <4>4. lock_count'[l] = lock_count[l] + 1 /\ lock_count[l] \in Nat
          BY <1>1, <1>2, Zenon
        <4>5. h = g \/ h \in guards[x]
          BY <1>1, <1>2, <4>1, Zenon
        <4>6. h[2] \in 1 .. lock_count'[l]
          BY <4>4, <4>5, <3>2 DEF IInv, OneHolder
        <4>7. \A k \in 1 .. lock_count'[l] : <<l, k>> \in guards'[x]
          BY <1>1, <1>2, <4>3, <4>4
        <4>. QED BY <3>2, <4>1, <4>6, <4>7, Zenon
      <3>. QED BY <3>1, <3>2, Zenon
    <2>. QED BY <1>1, <1>7, <2>1, <2>2, Zenon DEF IInv, OneHolder
  <1>12. WordIsRight'
    BY <1>1, <1>7, WordKeeps, Zenon DEF IInv, InRead
  <1>. QED BY <1>8, <1>9, <1>10, <1>11, <1>12, Zenon DEF IInv

\* A context that does not own the lock starts to wait for it, or to try it.
LEMMA WaitStep ==
    ASSUME LockAssumptions, IInv, NEW x \in Ctx, NEW l \in Locks, Runs(x), pc[x] = Idle,
           ~OwnedHere(x, l), PushCli(x), NEW s \in {"lock", "try"},
           s = "try" /\ l \in ReMutexes => leaked[x[1]] < MaxLeaks,
           pc' = [pc EXCEPT ![x] = At(s, l)],
           UNCHANGED <<lock, owner_cpu, lock_count, running, guards, reading, panicked, leaked>>
    PROVE  IInv'
  <1>1. pc \in [Ctx -> {Idle} \cup [at : Steps, lock : Locks]]
    BY Zenon DEF IInv, TypeOK
  <1>2. pc'[x] = At(s, l) /\ \A y \in Ctx \ {x} : guards'[y] = guards[y] /\ pc'[y] = pc[y]
    BY <1>1, Zenon
  <1>3. \A y \in Ctx, m \in Locks :
          (Writes(y, m)' <=> Writes(y, m)) /\ (Holds(y, m)' <=> Holds(y, m))
    BY <1>2, PcFacts DEF Writes, Holds, Steps
  <1>4. TypeOK'
    BY <1>1, PcFacts, PushCliStep, Zenon DEF IInv, TypeOK, Steps
  <1>5. CliMatchesGuards' /\ FlagsAreRight'
    <2>1. ~InSection(x) /\ InSection(x)'
      BY <1>2, PcFacts DEF InSection
    <2>2. Depth(x)' = Depth(x) + 1
      BY <2>1, RunnerFacts DEF Depth
    <2>3. cpu'[x[1]].n_cli = Depth(x)' + leaked'[x[1]] /\ cpu'[x[1]].intr # On
      BY <2>2, RunnerFacts, PushCliStep DEF On, Off
    <2>4. \A c \in Cpus \ {x[1]} : cpu'[c] = cpu[c] /\ leaked'[c] = leaked[c]
      BY RunnerFacts, PushCliStep, Zenon
    <2>5. running' = running /\ panicked' = panicked
      BY Zenon
    <2>. QED BY <1>2, <2>3, <2>4, <2>5, CliStep, Zenon
  <1>6. ~Writes(x, l)
    BY Zenon DEF IInv, OneHolder, OwnedHere
  <1>7. StepsAreRight' /\ PanicsAreRight'
    BY <1>2, <1>3, <1>6, PcFacts, SMTT(30) DEF IInv, TypeOK, StepsAreRight, PanicsAreRight, Locks, Steps
  <1>8. OneHolder'
    BY <1>2, <1>3, PcFacts DEF IInv, OneHolder, Steps
  <1>9. WordIsRight'
    <2>1. \A m \in RwLocks : InRead(m)' = InRead(m)
      BY <1>1, <1>2, PcFacts DEF InRead, Steps
    <2>. QED BY <1>3, <2>1, WordKeeps, Zenon DEF IInv
  <1>. QED BY <1>4, <1>5, <1>7, <1>8, <1>9, Zenon DEF IInv

\* lock(), write() and ReMutex::lock up to the state word: push_cli, then re-entry,
\* the panic of a lock this processor holds already, or waiting.
LEMMA LockEnterStep ==
    ASSUME LockAssumptions, IInv, NEW x \in Ctx, NEW l \in Locks, LockEnter(x, l)
    PROVE  IInv'
  <1>1. CASE OwnedHere(x, l) /\ l \in ReMutexes
    BY <1>1, ReenterStep, Zenon DEF LockEnter
  <1>2. CASE OwnedHere(x, l) /\ l \notin ReMutexes
    <2>1. /\ Runs(x) /\ pc[x] = Idle /\ PushCli(x) /\ panicked' = panicked \cup {x}
          /\ UNCHANGED <<lock, owner_cpu, lock_count, running, pc, guards, reading, leaked>>
      BY <1>2, Zenon DEF LockEnter
    <2>2. \A y \in Ctx, m \in Locks :
            (Writes(y, m)' <=> Writes(y, m)) /\ (Holds(y, m)' <=> Holds(y, m))
      BY <2>1, Zenon DEF Writes, Holds
    <2>3. TypeOK'
      BY <2>1, PushCliStep, Zenon DEF IInv, TypeOK
    <2>4. CliMatchesGuards' /\ FlagsAreRight'
      <3>1. cpu'[x[1]].intr # On /\ x \in panicked' /\ pc'[x] = Idle
        BY <2>1, RunnerFacts, PushCliStep DEF On, Off
      <3>2. \A c \in Cpus \ {x[1]} : cpu'[c] = cpu[c] /\ leaked'[c] = leaked[c]
        BY <2>1, RunnerFacts, PushCliStep, Zenon
      <3>3. \A y \in Ctx \ {x} : guards'[y] = guards[y] /\ pc'[y] = pc[y]
        BY <2>1, Zenon
      <3>4. running' = running /\ Runs(x)
        BY <2>1, Zenon
      <3>. QED BY <2>1, <3>1, <3>2, <3>3, <3>4, CliStep, Zenon
    <2>5. PanicsAreRight'
      BY <1>2, <2>1, <2>2, OwnerWrites, Zenon DEF IInv, TypeOK, PanicsAreRight, Locks
    <2>6. StepsAreRight' /\ OneHolder'
      BY <2>1, <2>2, Zenon DEF IInv, StepsAreRight, OneHolder
    <2>7. WordIsRight'
      BY <2>1, <2>2, WordKeeps, Zenon DEF IInv, InRead
    <2>. QED BY <2>3, <2>4, <2>5, <2>6, <2>7, Zenon DEF IInv
  <1>3. CASE ~OwnedHere(x, l)
    BY <1>3, WaitStep, Zenon DEF LockEnter
  <1>. QED BY <1>1, <1>2, <1>3, Zenon

\* try_lock up to the state word.
LEMMA TryEnterStep ==
    ASSUME LockAssumptions, IInv, NEW x \in Ctx, NEW l \in Locks, TryEnter(x, l)
    PROVE  IInv'
  <1>1. CASE OwnedHere(x, l) /\ l \in ReMutexes
    BY <1>1, ReenterStep, Zenon DEF TryEnter
  <1>2. CASE OwnedHere(x, l) /\ l \notin ReMutexes
    <2>1. /\ Runs(x) /\ pc[x] = Idle /\ cpu' = [cpu EXCEPT ![x[1]] = pop_cli(push_cli(@))]
          /\ UNCHANGED <<lock, owner_cpu, lock_count, running, pc, guards, reading, panicked, leaked>>
      BY <1>2, Zenon DEF TryEnter
    <2>2. \A y \in Ctx, m \in Locks :
            (Writes(y, m)' <=> Writes(y, m)) /\ (Holds(y, m)' <=> Holds(y, m))
      BY <2>1, Zenon DEF Writes, Holds
    <2>3. /\ cpu' \in [Cpus -> Cpu]
          /\ \A c \in Cpus \ {x[1]} : cpu'[c] = cpu[c]
          /\ cpu'[x[1]].n_cli = cpu[x[1]].n_cli
      BY <2>1, RunnerFacts, SMTT(30) DEF push_cli, pop_cli, Cpu, Flag, On, Off
    <2>4. cpu'[x[1]].intr # On
      <3>1. Depth(x) # 0
        BY <1>2, <2>1, OwnerWrites, HoldersRun, Zenon DEF Holds
      <3>2. cpu[x[1]].n_cli # 0
        BY <2>1, <3>1, RunnerFacts
      <3>. QED BY <2>1, <3>2, RunnerFacts DEF push_cli, pop_cli, Cpu, On, Off
    <2>5. TypeOK'
      BY <2>1, <2>3, Zenon DEF IInv, TypeOK
    <2>6. CliMatchesGuards' /\ FlagsAreRight'
      BY <2>1, <2>3, <2>4, RunnerFacts, CliStep, Zenon DEF Depth, InSection
    <2>7. StepsAreRight' /\ OneHolder' /\ PanicsAreRight'
      BY <2>1, <2>2, Zenon DEF IInv, TypeOK, StepsAreRight, OneHolder, PanicsAreRight, Locks
    <2>8. WordIsRight'
      BY <2>1, <2>2, WordKeeps, Zenon DEF IInv, InRead
    <2>. QED BY <2>5, <2>6, <2>7, <2>8, Zenon DEF IInv
  <1>3. CASE ~OwnedHere(x, l)
    BY <1>3, WaitStep, RunnerFacts, Zenon DEF TryEnter
  <1>. QED BY <1>1, <1>2, <1>3, Zenon

\* The compare-exchange that takes the state word exclusively.
LEMMA WriteLockStep ==
    ASSUME LockAssumptions, IInv, NEW x \in Ctx, NEW l \in Locks, WriteLock(x, l)
    PROVE  IInv'
  <1>1. /\ Runs(x) /\ pc[x] \in {At("lock", l), At("try", l)}
        /\ lock[l] = UNLOCKED /\ lock' = [lock EXCEPT ![l] = WRITE_LOCKED]
        /\ pc' = [pc EXCEPT ![x] = At("own", l)]
        /\ UNCHANGED <<owner_cpu, lock_count, cpu, running, guards, reading, panicked, leaked>>
    BY Zenon DEF WriteLock, try_write_lock
  <1>2. /\ pc \in [Ctx -> {Idle} \cup [at : Steps, lock : Locks]]
        /\ lock \in [Locks -> 0 .. WRITE_LOCKED]
        /\ UNLOCKED # WRITE_LOCKED /\ WRITE_LOCKED \in 0 .. WRITE_LOCKED
    BY DEF IInv, TypeOK, LockAssumptions, UNLOCKED, WRITE_LOCKED
  <1>3. pc'[x] = At("own", l) /\ \A y \in Ctx \ {x} : guards'[y] = guards[y] /\ pc'[y] = pc[y]
    BY <1>1, <1>2, Zenon
  <1>4. \A y \in Ctx : ~Holds(y, l)
    BY <1>1, <1>2, Zenon DEF IInv, WordIsRight
  <1>5. \A y \in Ctx, m \in Locks :
          /\ Writes(y, m)' <=> Writes(y, m)
          /\ Holds(y, m)' <=> Holds(y, m) \/ (y = x /\ m = l)
    BY <1>1, <1>3, PcFacts DEF Writes, Holds, Steps
  <1>6. TypeOK'
    BY <1>1, <1>2, PcFacts, Zenon DEF IInv, TypeOK, Steps
  <1>7. CliMatchesGuards' /\ FlagsAreRight'
    <2>1. InSection(x) /\ InSection(x)'
      BY <1>1, <1>3, PcFacts DEF InSection
    <2>2. Depth(x)' = Depth(x)
      BY <1>1, <2>1, Zenon DEF Depth
    <2>3. cpu'[x[1]].intr # On
      BY <1>1, HoldersRun DEF On, Off
    <2>4. cpu'[x[1]].n_cli = Depth(x)' + leaked'[x[1]]
      BY <1>1, <2>2, RunnerFacts, Zenon
    <2>5. \A c \in Cpus \ {x[1]} : cpu'[c] = cpu[c] /\ leaked'[c] = leaked[c]
      BY <1>1, Zenon
    <2>6. running' = running /\ Runs(x) /\ panicked' = panicked
      BY <1>1, Zenon
    <2>. QED BY <1>3, <2>3, <2>4, <2>5, <2>6, CliStep, Zenon
  <1>8. StepsAreRight' /\ PanicsAreRight'
    BY <1>1, <1>3, <1>5, PcFacts, SMTT(30) DEF IInv, TypeOK, StepsAreRight, PanicsAreRight, Locks, Steps
  <1>9. OneHolder'
    <2>1. ASSUME NEW m \in Locks, NEW y \in Ctx, NEW z \in Ctx, Holds(y, m)', Holds(z, m)' PROVE y = z
      <3>1. CASE m = l
        BY <1>4, <1>5, <2>1, <3>1, Zenon
      <3>2. CASE m # l
        <4>1. Holds(y, m) /\ Holds(z, m)
          BY <1>5, <2>1, <3>2, Zenon
        <4>. QED BY <4>1, Zenon DEF IInv, OneHolder
      <3>. QED BY <3>1, <3>2, Zenon
    <2>2. ASSUME NEW y \in Ctx, NEW m \in Locks, pc'[y] \in {At("own", m), At("unlock", m)}
          PROVE  ~Writes(y, m)'
      <3>1. CASE m = l
        BY <1>4, <1>5, <3>1, Zenon DEF Holds
      <3>2. CASE m # l
        <4>1. pc'[y] = pc[y]
          BY <1>3, <2>2, <3>2, PcFacts, SMTT(30) DEF Steps
        <4>. QED BY <1>5, <2>2, <4>1, Zenon DEF IInv, OneHolder
      <3>. QED BY <3>1, <3>2, Zenon
    <2>. QED BY <1>1, <1>5, <2>1, <2>2, Zenon DEF IInv, OneHolder
  <1>10. \A m \in RwLocks : InRead(m)' = InRead(m) /\ ReadGuards(m)' = ReadGuards(m)
    BY <1>1, <1>2, <1>3, PcFacts, SMTT(30) DEF InRead, ReadGuards, Steps
  <1>11. l \in RwLocks => ReadGuards(l) = {} /\ InRead(l) = {}
    <2>1. ASSUME l \in RwLocks
          PROVE  Cardinality(ReadGuards(l)) + Cardinality(InRead(l)) = 0
      BY <1>1, <1>2, <2>1, Zenon DEF IInv, WordIsRight, UNLOCKED
    <2>2. /\ Cardinality(ReadGuards(l)) \in Nat /\ Cardinality(InRead(l)) \in Nat
          /\ Cardinality(ReadGuards(l)) = 0 <=> ReadGuards(l) = {}
          /\ Cardinality(InRead(l)) = 0 <=> InRead(l) = {}
      BY ReadersFinite, FS_CardinalityType, FS_EmptySet, Zenon
    <2>. QED BY <2>1, <2>2
  <1>12. WordIsRight'
    <2>. SUFFICES ASSUME NEW m \in Locks
                  PROVE  /\ lock'[m] = WRITE_LOCKED <=> \E y \in Ctx : Holds(y, m)'
                         /\ m \notin RwLocks => lock'[m] \in {UNLOCKED, WRITE_LOCKED}
                         /\ m \in RwLocks /\ lock'[m] # WRITE_LOCKED =>
                              lock'[m] = Cardinality(ReadGuards(m)) + Cardinality(InRead(m))
                         /\ m \in RwLocks /\ lock'[m] = WRITE_LOCKED =>
                              ReadGuards(m) = {} /\ InRead(m) = {}
                         /\ m \in RwLocks => \A y \in Ctx : reading'[y][m] <= MASK
      BY <1>10, Zenon DEF WordIsRight
    <2>1. CASE m = l
      BY <1>1, <1>2, <1>5, <1>11, <2>1, Zenon DEF IInv, WordIsRight
    <2>2. CASE m # l
      BY <1>1, <1>2, <1>5, <2>2, Zenon DEF IInv, WordIsRight
    <2>. QED BY <2>1, <2>2, Zenon
  <1>. QED BY <1>6, <1>7, <1>8, <1>9, <1>12, Zenon DEF IInv

\* try_lock that finds the lock held: pop_cli, except in ReMutex::try_lock.
LEMMA TryFailStep ==
    ASSUME LockAssumptions, IInv, NEW x \in Ctx, NEW l \in Locks, TryFail(x, l)
    PROVE  IInv'
  <1>1. /\ Runs(x) /\ pc[x] = At("try", l) /\ pc' = [pc EXCEPT ![x] = Idle]
        /\ \/ l \in ReMutexes /\ leaked' = [leaked EXCEPT ![x[1]] = @ + 1] /\ cpu' = cpu
           \/ l \notin ReMutexes /\ PopCli(x) /\ leaked' = leaked
        /\ UNCHANGED <<lock, owner_cpu, lock_count, running, guards, reading, panicked>>
    BY Zenon DEF TryFail
  <1>2. /\ pc \in [Ctx -> {Idle} \cup [at : Steps, lock : Locks]]
        /\ leaked \in [Cpus -> 0 .. MaxLeaks]
    BY Zenon DEF IInv, TypeOK
  <1>3. pc'[x] = Idle /\ \A y \in Ctx \ {x} : guards'[y] = guards[y] /\ pc'[y] = pc[y]
    BY <1>1, <1>2, Zenon
  <1>4. \A y \in Ctx, m \in Locks :
          (Writes(y, m)' <=> Writes(y, m)) /\ (Holds(y, m)' <=> Holds(y, m))
    BY <1>1, <1>3, PcFacts DEF Writes, Holds, Steps
  <1>5. Depth(x)' = Depth(x) - 1 /\ Depth(x) \in Nat \ {0}
    <2>1. InSection(x) /\ ~InSection(x)'
      BY <1>1, <1>3, PcFacts DEF InSection
    <2>. QED BY <1>1, <2>1, RunnerFacts DEF Depth
  <1>6. cpu[x[1]].n_cli > 0
    BY <1>1, <1>5, RunnerFacts
  <1>7. /\ cpu' \in [Cpus -> Cpu] /\ leaked' \in [Cpus -> 0 .. MaxLeaks]
        /\ \A c \in Cpus \ {x[1]} : cpu'[c] = cpu[c] /\ leaked'[c] = leaked[c]
        /\ cpu'[x[1]].n_cli = Depth(x)' + leaked'[x[1]]
        /\ cpu'[x[1]].intr = On => Depth(x)' = 0
    <2>1. CASE l \in ReMutexes
      <3>1. leaked[x[1]] < MaxLeaks
        BY <1>1, <2>1, Zenon DEF IInv, StepsAreRight
      <3>2. cpu[x[1]].intr # On
        BY <1>1, HoldersRun, SMTT(30) DEF On, Off
      <3>3. leaked[x[1]] \in 0 .. MaxLeaks
        BY <1>1, <1>2, RunnerFacts, Zenon
      <3>4. leaked' = [leaked EXCEPT ![x[1]] = @ + 1] /\ cpu' = cpu
        BY <1>1, <2>1, Zenon
      <3>5. cpu \in [Cpus -> Cpu] /\ x[1] \in Cpus /\ cpu[x[1]].n_cli = Depth(x) + leaked[x[1]]
        BY <1>1, RunnerFacts, Zenon
      <3>6. leaked'[x[1]] = leaked[x[1]] + 1 /\ leaked' \in [Cpus -> 0 .. MaxLeaks]
        BY <1>2, <3>1, <3>3, <3>4, <3>5 DEF LockAssumptions
      <3>. QED BY <1>2, <1>5, <3>2, <3>3, <3>4, <3>5, <3>6
    <2>2. CASE l \notin ReMutexes
      <3>1. PopCli(x) /\ leaked' = leaked
        BY <1>1, <2>2, Zenon
      <3>2. /\ cpu \in [Cpus -> Cpu] /\ leaked[x[1]] \in Nat
            /\ cpu[x[1]].n_cli = Depth(x) + leaked[x[1]]
        BY <1>1, RunnerFacts, Zenon
      <3>3. /\ cpu' \in [Cpus -> Cpu] /\ \A c \in Cpus \ {x[1]} : cpu'[c] = cpu[c]
            /\ cpu'[x[1]].n_cli = cpu[x[1]].n_cli - 1
            /\ cpu'[x[1]].intr = On => cpu[x[1]].n_cli = 1
        BY <1>6, <3>1, <3>2, PopCliStep, Zenon
      <3>. QED BY <1>2, <1>5, <3>1, <3>2, <3>3
    <2>. QED BY <2>1, <2>2, Zenon
  <1>8. TypeOK'
    BY <1>1, <1>2, <1>7, Zenon DEF IInv, TypeOK
  <1>9. CliMatchesGuards' /\ FlagsAreRight'
    BY <1>1, <1>3, <1>7, CliStep, Zenon DEF Runs
  <1>10. StepsAreRight' /\ PanicsAreRight'
    <2>1. \A y \in Ctx, m \in Locks : pc'[y] = At("try", m) => leaked'[y[1]] = leaked[y[1]]
      <3>. SUFFICES ASSUME NEW y \in Ctx, NEW m \in Locks, pc'[y] = At("try", m)
                    PROVE  leaked'[y[1]] = leaked[y[1]]
        BY Zenon
      <3>1. y # x /\ pc[y] = At("try", m)
        BY <1>3, PcFacts, ZenonT(30) DEF Steps
      <3>2. running[y[1]] = y[2] /\ y = <<y[1], y[2]>> /\ y[1] \in Cpus
        BY <3>1, HoldersRun, SMTT(30) DEF Ctx
      <3>3. y[1] # x[1]
        BY <3>1, <3>2, <1>1, RunnerFacts, Zenon DEF Runs
      <3>. QED BY <3>2, <3>3, <1>7, Zenon
    <2>. QED BY <1>1, <1>3, <1>4, <2>1, PcFacts, SMTT(30) DEF IInv, TypeOK, StepsAreRight, PanicsAreRight, Locks, Steps
  <1>11. OneHolder'
    BY <1>1, <1>3, <1>4, PcFacts, SMTT(30) DEF IInv, OneHolder, Steps
  <1>12. WordIsRight'
    <2>1. \A m \in RwLocks : InRead(m)' = InRead(m)
      BY <1>1, <1>2, <1>3, PcFacts DEF InRead, Steps
    <2>. QED BY <1>1, <1>4, <2>1, WordKeeps, Zenon DEF IInv
  <1>. QED BY <1>8, <1>9, <1>10, <1>11, <1>12, Zenon DEF IInv

\* Behind the state word the owner is written and the guard exists.
LEMMA OwnStep ==
    ASSUME LockAssumptions, IInv, NEW x \in Ctx, NEW l \in Locks, Own(x, l)
    PROVE  IInv'
  <1>. DEFINE g == <<l, 1>>
  <1>1. /\ guards \in [Ctx -> SUBSET (Locks \X Nat)] /\ lock_count \in [Locks -> Nat]
        /\ pc \in [Ctx -> {Idle} \cup [at : Steps, lock : Locks]]
        /\ owner_cpu \in [Locks -> Cpus \cup {NoOwner}]
    BY Zenon DEF IInv, TypeOK
  <1>2. /\ Runs(x) /\ pc[x] = At("own", l) /\ pc' = [pc EXCEPT ![x] = Idle]
        /\ owner_cpu' = [owner_cpu EXCEPT ![l] = x[1]]
        /\ lock_count' = [lock_count EXCEPT ![l] = 1]
        /\ guards' = [guards EXCEPT ![x] = @ \cup {g}]
        /\ UNCHANGED <<lock, cpu, running, reading, panicked, leaked>>
    BY <1>1, Zenon DEF Own, NewGuard
  <1>3. pc'[x] = Idle /\ \A y \in Ctx \ {x} : guards'[y] = guards[y] /\ pc'[y] = pc[y]
    BY <1>1, <1>2, Zenon
  <1>4. \A y \in Ctx : ~Writes(y, l) /\ (y # x => ~Holds(y, l))
    BY <1>2, Zenon DEF IInv, OneHolder, Holds
  <1>5. \A y \in Ctx, m \in Locks :
          /\ Writes(y, m)' <=> Writes(y, m) \/ (y = x /\ m = l)
          /\ Holds(y, m)' <=> Holds(y, m)
    <2>1. \A m \in Locks : Writes(x, m)' <=> Writes(x, m) \/ m = l
      <3>1. guards'[x] = guards[x] \cup {g} /\ g[1] = l
        BY <1>1, <1>2, Zenon
      <3>. QED BY <3>1, Zenon DEF Writes
    <2>2. \A m \in Locks : Holds(x, m)' <=> Holds(x, m)
      BY <1>2, <1>3, <2>1, PcFacts DEF Holds, Steps
    <2>. QED BY <1>3, <2>1, <2>2, OthersKeep, Zenon
  <1>6. guards'[x] = guards[x] \cup {g} /\ g \notin guards[x]
    BY <1>1, <1>2, <1>4, Zenon DEF Writes
  <1>7. IsFiniteSet(guards'[x]) /\ Cardinality(guards'[x]) = Cardinality(guards[x]) + 1
    <2>1. IsFiniteSet(guards[x])
      BY <1>2, RunnerFacts, Zenon
    <2>. HIDE DEF g
    <2>. QED BY <1>6, <2>1, FS_AddElement, Zenon
  <1>8. TypeOK'
    BY <1>1, <1>2, SMTT(30) DEF IInv, TypeOK, Ctx
  <1>9. CliMatchesGuards' /\ FlagsAreRight'
    <2>1. InSection(x) /\ ~InSection(x)'
      BY <1>2, <1>3, PcFacts, SMTT(30) DEF InSection
    <2>2. Depth(x)' = Depth(x)
      BY <1>2, <1>7, <2>1, RunnerFacts DEF Depth
    <2>3. cpu'[x[1]].intr # On
      BY <1>2, HoldersRun DEF On, Off, Holds
    <2>4. cpu'[x[1]].n_cli = Depth(x)' + leaked'[x[1]]
      BY <1>2, <2>2, RunnerFacts, Zenon
    <2>5. \A c \in Cpus \ {x[1]} : cpu'[c] = cpu[c] /\ leaked'[c] = leaked[c]
      BY <1>2, Zenon
    <2>6. running' = running /\ Runs(x) /\ panicked' = panicked
      BY <1>2, Zenon
    <2>. QED BY <1>3, <2>3, <2>4, <2>5, <2>6, CliStep, Zenon
  <1>10. StepsAreRight' /\ PanicsAreRight'
    BY <1>2, <1>3, <1>5, PcFacts, ZenonT(30) DEF IInv, TypeOK, StepsAreRight, PanicsAreRight, Locks, Steps
  <1>11. OneHolder'
    <2>1. \A y \in Ctx : IsFiniteSet(guards'[y])
      BY <1>3, <1>7, Zenon DEF IInv, OneHolder
    <2>2. ASSUME NEW y \in Ctx, NEW h \in guards'[y]
          PROVE  /\ h[2] \in 1 .. lock_count'[h[1]]
                 /\ \A k \in 1 .. lock_count'[h[1]] : <<h[1], k>> \in guards'[y]
      <3>1. CASE h[1] = l
        <4>1. y = x /\ h = g
          BY <1>3, <1>4, <1>6, <3>1, Zenon DEF Writes
        <4>. QED BY <1>1, <1>2, <1>6, <4>1
      <3>2. CASE h[1] # l
        BY <1>1, <1>2, <1>3, <1>6, <3>2, SMTT(30) DEF IInv, OneHolder
      <3>. QED BY <3>1, <3>2, Zenon
    <2>3. ASSUME NEW y \in Ctx, NEW m \in Locks
          PROVE  /\ Writes(y, m)' => owner_cpu'[m] = y[1]
                 /\ pc'[y] \in {At("own", m), At("unlock", m)} => ~Writes(y, m)'
      <3>1. CASE m = l
        BY <1>1, <1>2, <1>3, <1>4, <1>5, <3>1, PcFacts, SMTT(30) DEF Holds, Steps
      <3>2. CASE m # l
        <4>1. /\ Writes(y, m) => owner_cpu[m] = y[1]
              /\ pc[y] \in {At("own", m), At("unlock", m)} => ~Writes(y, m)
          BY Zenon DEF IInv, OneHolder
        <4>2. owner_cpu'[m] = owner_cpu[m] /\ (Writes(y, m)' <=> Writes(y, m))
          BY <1>1, <1>2, <1>5, <3>2, Zenon
        <4>3. pc'[y] \in {At("own", m), At("unlock", m)} => pc'[y] = pc[y]
          BY <1>3, <3>2, PcFacts, SMTT(30) DEF Steps
        <4>. QED BY <4>1, <4>2, <4>3, Zenon
      <3>. QED BY <3>1, <3>2, Zenon
    <2>4. ASSUME NEW m \in Locks, owner_cpu'[m] # NoOwner
          PROVE  \E y \in Ctx : Writes(y, m)'
      BY <1>1, <1>2, <1>5, <2>4, Zenon DEF IInv, OneHolder
    <2>5. \A m \in Locks, y, z \in Ctx : Holds(y, m)' /\ Holds(z, m)' => y = z
      BY <1>5, Zenon DEF IInv, OneHolder
    <2>. QED BY <2>1, <2>2, <2>3, <2>4, <2>5, Zenon DEF OneHolder
  <1>12. WordIsRight'
    <2>1. \A m \in RwLocks : InRead(m)' = InRead(m)
      BY <1>1, <1>2, <1>3, PcFacts DEF InRead, Steps
    <2>. QED BY <1>2, <1>5, <2>1, WordKeeps, Zenon DEF IInv
  <1>. QED BY <1>8, <1>9, <1>10, <1>11, <1>12, Zenon DEF IInv

\* Dropping the newest guard.
LEMMA DropFacts ==
    ASSUME LockAssumptions, IInv, NEW x \in Ctx, NEW l \in Locks, Runs(x),
           TopGuard(l) \in guards[x],
           guards' = [guards EXCEPT ![x] = @ \ {TopGuard(l)}]
    PROVE  /\ guards' \in [Ctx -> SUBSET (Locks \X Nat)]
           /\ guards'[x] = guards[x] \ {TopGuard(l)}
           /\ \A y \in Ctx \ {x} : guards'[y] = guards[y]
           /\ IsFiniteSet(guards'[x]) /\ Cardinality(guards'[x]) = Cardinality(guards[x]) - 1
           /\ Writes(x, l) /\ owner_cpu[l] = x[1] /\ pc[x] \notin {At("own", l), At("unlock", l)}
           /\ \A y \in Ctx \ {x} : ~Holds(y, l)
           /\ \A y \in Ctx, m \in Locks \ {l} : Writes(y, m)' <=> Writes(y, m)
  <1>. DEFINE g == TopGuard(l)
  <1>1. guards \in [Ctx -> SUBSET (Locks \X Nat)] /\ lock_count \in [Locks -> Nat]
    BY Zenon DEF IInv, TypeOK
  <1>2. guards' \in [Ctx -> SUBSET (Locks \X Nat)] /\ guards'[x] = guards[x] \ {g}
    BY <1>1, Zenon
  <1>3. \A y \in Ctx \ {x} : guards'[y] = guards[y]
    BY <1>1, Zenon
  <1>4. IsFiniteSet(guards'[x]) /\ Cardinality(guards'[x]) = Cardinality(guards[x]) - 1
    <2>1. IsFiniteSet(guards[x])
      BY RunnerFacts, Zenon
    <2>. HIDE DEF g
    <2>. QED BY <1>2, <2>1, FS_RemoveElement, Zenon DEF g
  <1>5. g[1] = l
    BY Zenon DEF TopGuard
  <1>6. Writes(x, l)
    BY <1>5, Zenon DEF Writes
  <1>7. /\ owner_cpu[l] = x[1] /\ pc[x] \notin {At("own", l), At("unlock", l)}
        /\ \A y \in Ctx \ {x} : ~Holds(y, l)
    BY <1>6, Zenon DEF IInv, OneHolder, Holds
  <1>8. \A y \in Ctx, m \in Locks \ {l} : Writes(y, m)' <=> Writes(y, m)
    BY <1>2, <1>3, <1>5, Zenon DEF Writes
  <1>. QED BY <1>2, <1>3, <1>4, <1>6, <1>7, <1>8, Zenon

\* Dropping a guard of a ReMutex that is not its last.
LEMMA DropNestedStep ==
    ASSUME LockAssumptions, IInv, NEW x \in Ctx, NEW l \in Locks, DropNested(x, l)
    PROVE  IInv'
  <1>1. /\ Runs(x) /\ pc[x] = Idle /\ TopGuard(l) \in guards[x] /\ lock_count[l] > 1
        /\ lock_count' = [lock_count EXCEPT ![l] = @ - 1]
        /\ guards' = [guards EXCEPT ![x] = @ \ {TopGuard(l)}]
        /\ PopCli(x)
        /\ UNCHANGED <<lock, owner_cpu, running, pc, reading, panicked, leaked>>
    BY Zenon DEF DropNested
  <1>2. lock_count \in [Locks -> Nat] /\ guards \in [Ctx -> SUBSET (Locks \X Nat)]
    BY Zenon DEF IInv, TypeOK
  <1>3. \A y \in Ctx \ {x} : guards'[y] = guards[y] /\ pc'[y] = pc[y]
    BY <1>1, DropFacts, Zenon
  <1>4. <<l, 1>> \in guards'[x]
    <2>1. TopGuard(l)[1] = l /\ TopGuard(l) # <<l, 1>>
      BY <1>1, <1>2 DEF TopGuard
    <2>2. \A k \in 1 .. lock_count[l] : <<l, k>> \in guards[x]
      BY <1>1, <2>1, Zenon DEF IInv, OneHolder
    <2>3. <<l, 1>> \in guards[x]
      BY <1>1, <1>2, <2>2
    <2>. QED BY <1>1, <2>1, <2>3, DropFacts, Zenon
  <1>5. \A y \in Ctx, m \in Locks :
          (Writes(y, m)' <=> Writes(y, m)) /\ (Holds(y, m)' <=> Holds(y, m))
    <2>1. Writes(x, l)'
      BY <1>4, Zenon DEF Writes
    <2>2. \A m \in Locks : Writes(x, m)' <=> Writes(x, m)
      BY <1>1, <2>1, DropFacts, ZenonT(30)
    <2>. QED BY <1>1, <1>3, <2>2, OthersKeep, Zenon DEF Holds
  <1>6. Depth(x)' = Depth(x) - 1 /\ Depth(x)' \in Nat
    <2>1. IsFiniteSet(guards'[x]) /\ Cardinality(guards'[x]) = Cardinality(guards[x]) - 1
      BY <1>1, DropFacts, Zenon
    <2>2. Cardinality(guards'[x]) \in Nat
      BY <2>1, FS_CardinalityType, Zenon
    <2>. QED BY <1>1, <2>1, <2>2, RunnerFacts DEF Depth, InSection
  <1>7. /\ cpu' \in [Cpus -> Cpu]
        /\ \A c \in Cpus \ {x[1]} : cpu'[c] = cpu[c] /\ leaked'[c] = leaked[c]
        /\ cpu'[x[1]].n_cli = Depth(x)' + leaked'[x[1]]
        /\ cpu'[x[1]].intr = On => Depth(x)' = 0
    <2>1. /\ cpu \in [Cpus -> Cpu] /\ leaked[x[1]] \in Nat /\ Depth(x) \in Nat
          /\ cpu[x[1]].n_cli = Depth(x) + leaked[x[1]]
      BY <1>1, RunnerFacts, Zenon
    <2>2. /\ cpu' \in [Cpus -> Cpu] /\ \A c \in Cpus \ {x[1]} : cpu'[c] = cpu[c]
          /\ cpu'[x[1]].n_cli = cpu[x[1]].n_cli - 1
          /\ cpu'[x[1]].intr = On => cpu[x[1]].n_cli = 1
      BY <1>1, <1>6, <2>1, PopCliStep, SMTT(30)
    <2>. QED BY <1>1, <1>6, <2>1, <2>2, SMTT(30)
  <1>8. TypeOK'
    <2>1. lock_count' \in [Locks -> Nat]
      BY <1>1, <1>2
    <2>2. guards' \in [Ctx -> SUBSET (Locks \X Nat)]
      BY <1>1, DropFacts, Zenon
    <2>. QED BY <1>1, <1>7, <2>1, <2>2, Zenon DEF IInv, TypeOK
  <1>9. CliMatchesGuards' /\ FlagsAreRight'
    <2>1. running' = running /\ Runs(x) /\ panicked' = panicked /\ x \notin panicked'
      BY <1>1, Zenon DEF Runs
    <2>. QED BY <1>3, <1>7, <2>1, CliStep, Zenon
  <1>10. StepsAreRight' /\ PanicsAreRight'
    BY <1>1, <1>5, Zenon DEF IInv, TypeOK, StepsAreRight, PanicsAreRight, Locks
  <1>11. OneHolder'
    <2>1. \A y \in Ctx : IsFiniteSet(guards'[y])
      BY <1>1, <1>3, DropFacts, Zenon DEF IInv, OneHolder
    <2>2. ASSUME NEW y \in Ctx, NEW h \in guards'[y]
          PROVE  /\ h[2] \in 1 .. lock_count'[h[1]]
                 /\ \A k \in 1 .. lock_count'[h[1]] : <<h[1], k>> \in guards'[y]
      <3>1. /\ h \in guards[y] /\ h \in Locks \X Nat
            /\ y = x => h # TopGuard(l)
        BY <1>1, <1>2, <1>3, DropFacts, ZenonT(30)
      <3>2. h[2] \in 1 .. lock_count[h[1]] /\ \A k \in 1 .. lock_count[h[1]] : <<h[1], k>> \in guards[y]
        BY <3>1, Zenon DEF IInv, OneHolder
      <3>3. CASE h[1] = l
        <4>1. y = x
          <5>1. Holds(y, l)
            BY <3>1, <3>3, Zenon DEF Holds, Writes
          <5>. QED BY <1>1, <5>1, DropFacts, Zenon
        <4>2. lock_count'[l] = lock_count[l] - 1 /\ lock_count[l] \in Nat
          BY <1>1, <1>2, Zenon
        <4>3. h[2] # lock_count[l]
          BY <3>1, <3>3, <4>1 DEF TopGuard
        <4>4. \A k \in 1 .. lock_count'[l] : <<l, k>> \in guards'[x]
          <5>1. \A k \in 1 .. lock_count'[l] : <<l, k>> # TopGuard(l)
            BY <4>2, SMTT(30) DEF TopGuard
          <5>2. \A k \in 1 .. lock_count'[l] : k \in 1 .. lock_count[l]
            BY <4>2, SMTT(30)
          <5>3. guards'[x] = guards[x] \ {TopGuard(l)}
            BY <1>1, DropFacts, Zenon
          <5>. QED BY <3>2, <3>3, <4>1, <5>1, <5>2, <5>3, Zenon
        <4>. QED BY <3>2, <3>3, <4>1, <4>2, <4>3, <4>4
      <3>4. CASE h[1] # l
        <4>1. \A k : <<h[1], k>> # TopGuard(l)
          BY <3>4, Zenon DEF TopGuard
        <4>2. lock_count'[h[1]] = lock_count[h[1]]
          BY <1>1, <1>2, <3>1, <3>4, Zenon
        <4>. QED BY <1>1, <1>3, <3>2, <4>1, <4>2, DropFacts, SMTT(30)
      <3>. QED BY <3>3, <3>4, Zenon
    <2>. QED BY <1>1, <1>5, <2>1, <2>2, Zenon DEF IInv, OneHolder
  <1>12. WordIsRight'
    BY <1>1, <1>5, WordKeeps, Zenon DEF IInv, InRead
  <1>. QED BY <1>8, <1>9, <1>10, <1>11, <1>12, Zenon DEF IInv

\* Dropping the last guard first gives up the ownership ...
LEMMA DropLastStep ==
    ASSUME LockAssumptions, IInv, NEW x \in Ctx, NEW l \in Locks, DropLast(x, l)
    PROVE  IInv'
  <1>1. /\ Runs(x) /\ pc[x] = Idle /\ TopGuard(l) \in guards[x] /\ lock_count[l] = 1
        /\ lock_count' = [lock_count EXCEPT ![l] = 0]
        /\ owner_cpu' = [owner_cpu EXCEPT ![l] = NoOwner]
        /\ guards' = [guards EXCEPT ![x] = @ \ {TopGuard(l)}]
        /\ pc' = [pc EXCEPT ![x] = At("unlock", l)]
        /\ UNCHANGED <<lock, cpu, running, reading, panicked, leaked>>
    BY Zenon DEF DropLast
  <1>2. /\ lock_count \in [Locks -> Nat] /\ guards \in [Ctx -> SUBSET (Locks \X Nat)]
        /\ pc \in [Ctx -> {Idle} \cup [at : Steps, lock : Locks]]
        /\ owner_cpu \in [Locks -> Cpus \cup {NoOwner}]
    BY Zenon DEF IInv, TypeOK
  <1>3. /\ pc'[x] = At("unlock", l)
        /\ \A y \in Ctx \ {x} : guards'[y] = guards[y] /\ pc'[y] = pc[y]
    BY <1>1, <1>2, DropFacts, ZenonT(30)
  <1>4. \A y \in Ctx : ~Writes(y, l)'
    <2>1. ~Writes(x, l)'
      <3>1. ASSUME NEW h \in guards[x], h[1] = l PROVE h = TopGuard(l)
        <4>1. h \in Locks \X Nat /\ h[2] \in 1 .. lock_count[l]
          BY <1>2, <3>1, Zenon DEF IInv, OneHolder
        <4>. QED BY <1>1, <3>1, <4>1 DEF TopGuard
      <3>2. guards'[x] = guards[x] \ {TopGuard(l)}
        BY <1>1, DropFacts, Zenon
      <3>. QED BY <3>1, <3>2, Zenon DEF Writes
    <2>2. \A y \in Ctx \ {x} : ~Writes(y, l)
      BY <1>1, DropFacts, Zenon DEF Holds
    <2>. QED BY <1>3, <2>1, <2>2, OthersKeep, Zenon
  <1>5. \A y \in Ctx, m \in Locks : m # l => (Writes(y, m)' <=> Writes(y, m))
    <2>1. \A y \in Ctx, m \in Locks \ {l} : Writes(y, m)' <=> Writes(y, m)
      BY <1>1, DropFacts, Zenon
    <2>. QED BY <2>1, Zenon
  <1>6. \A y \in Ctx, m \in Locks : Holds(y, m)' <=> Holds(y, m)
    <2>1. Holds(x, l) /\ Holds(x, l)'
      BY <1>1, <1>3, DropFacts, Zenon DEF Holds
    <2>2. \A m \in Locks : m # l => (Holds(x, m)' <=> Holds(x, m))
      BY <1>1, <1>3, <1>5, PcFacts, SMTT(30) DEF Holds, Steps
    <2>. QED BY <1>3, <2>1, <2>2, OthersKeep, Zenon
  <1>7. TypeOK'
    <2>1. guards' \in [Ctx -> SUBSET (Locks \X Nat)]
      BY <1>1, DropFacts, Zenon
    <2>. QED BY <1>1, <1>2, <2>1, PcFacts, Zenon DEF IInv, TypeOK, Steps
  <1>8. CliMatchesGuards' /\ FlagsAreRight'
    <2>1. ~InSection(x) /\ InSection(x)'
      BY <1>1, <1>3, PcFacts, SMTT(30) DEF InSection
    <2>2. Cardinality(guards'[x]) = Cardinality(guards[x]) - 1
      BY <1>1, DropFacts, Zenon
    <2>3. Depth(x)' = Depth(x)
      BY <1>1, <2>1, <2>2, RunnerFacts DEF Depth
    <2>4. cpu'[x[1]].intr # On
      <3>1. Holds(x, l)
        BY <1>1, DropFacts, Zenon DEF Holds
      <3>. QED BY <1>1, <3>1, HoldersRun, SMTT(30) DEF On, Off
    <2>5. cpu'[x[1]].n_cli = Depth(x)' + leaked'[x[1]]
      BY <1>1, <2>3, RunnerFacts, Zenon
    <2>6. \A c \in Cpus \ {x[1]} : cpu'[c] = cpu[c] /\ leaked'[c] = leaked[c]
      BY <1>1, Zenon
    <2>7. running' = running /\ Runs(x) /\ panicked' = panicked
      BY <1>1, Zenon
    <2>. QED BY <1>3, <2>4, <2>5, <2>6, <2>7, CliStep, Zenon
  <1>9. PanicsAreRight'
    <2>. SUFFICES ASSUME NEW y \in panicked PROVE \E m \in Mutexes \cup RwLocks : Writes(y, m)'
      BY <1>1, Zenon DEF PanicsAreRight
    <2>1. PICK m \in Mutexes \cup RwLocks : Writes(y, m)
      BY Zenon DEF IInv, PanicsAreRight
    <2>2. y \in Ctx \ {x} /\ m \in Locks
      BY <1>1, Zenon DEF IInv, TypeOK, Runs, Locks
    <2>. QED BY <1>3, <2>1, <2>2, OthersKeep, Zenon
  <1>10. StepsAreRight'
    BY <1>1, <1>3, <1>4, <1>5, PcFacts, SMTT(30) DEF IInv, StepsAreRight, Steps
  <1>11. OneHolder'
    <2>1. \A y \in Ctx : IsFiniteSet(guards'[y])
      BY <1>1, <1>3, DropFacts, Zenon DEF IInv, OneHolder
    <2>2. ASSUME NEW y \in Ctx, NEW h \in guards'[y]
          PROVE  /\ h[2] \in 1 .. lock_count'[h[1]]
                 /\ \A k \in 1 .. lock_count'[h[1]] : <<h[1], k>> \in guards'[y]
      <3>1. h \in guards[y] /\ h \in Locks \X Nat
        BY <1>1, <1>2, <1>3, DropFacts, SMTT(30)
      <3>2. h[1] # l
        BY <1>4, Zenon DEF Writes
      <3>3. h[2] \in 1 .. lock_count[h[1]] /\ \A k \in 1 .. lock_count[h[1]] : <<h[1], k>> \in guards[y]
        BY <3>1, Zenon DEF IInv, OneHolder
      <3>4. \A k : <<h[1], k>> # TopGuard(l)
        BY <3>2, Zenon DEF TopGuard
      <3>5. lock_count'[h[1]] = lock_count[h[1]]
        BY <1>1, <1>2, <3>1, <3>2, Zenon
      <3>. QED BY <1>1, <1>3, <3>3, <3>4, <3>5, DropFacts, SMTT(30)
    <2>3. ASSUME NEW y \in Ctx, NEW m \in Locks
          PROVE  /\ Writes(y, m)' => owner_cpu'[m] = y[1]
                 /\ pc'[y] \in {At("own", m), At("unlock", m)} => ~Writes(y, m)'
      <3>1. CASE m = l
        BY <1>4, <3>1, Zenon
      <3>2. CASE m # l
        <4>1. /\ Writes(y, m) => owner_cpu[m] = y[1]
              /\ pc[y] \in {At("own", m), At("unlock", m)} => ~Writes(y, m)
          BY Zenon DEF IInv, OneHolder
        <4>2. owner_cpu'[m] = owner_cpu[m] /\ (Writes(y, m)' <=> Writes(y, m))
          BY <1>1, <1>2, <1>5, <3>2, Zenon
        <4>3. pc'[y] \in {At("own", m), At("unlock", m)} => pc'[y] = pc[y]
          BY <1>3, <3>2, PcFacts, SMTT(30) DEF Steps
        <4>. QED BY <4>1, <4>2, <4>3, Zenon
      <3>. QED BY <3>1, <3>2, Zenon
    <2>4. ASSUME NEW m \in Locks, owner_cpu'[m] # NoOwner
          PROVE  \E y \in Ctx : Writes(y, m)'
      BY <1>1, <1>2, <1>5, <2>4, Zenon DEF IInv, OneHolder
    <2>5. \A m \in Locks, y, z \in Ctx : Holds(y, m)' /\ Holds(z, m)' => y = z
      BY <1>6, Zenon DEF IInv, OneHolder
    <2>. QED BY <2>1, <2>2, <2>3, <2>4, <2>5, Zenon DEF OneHolder
  <1>12. WordIsRight'
    <2>1. \A m \in RwLocks : InRead(m)' = InRead(m)
      BY <1>1, <1>2, <1>3, PcFacts DEF InRead, Steps
    <2>. QED BY <1>1, <1>6, <2>1, WordKeeps, Zenon DEF IInv
  <1>. QED BY <1>7, <1>8, <1>9, <1>10, <1>11, <1>12, Zenon DEF IInv

\* ... then frees the state word and calls pop_cli.
LEMMA UnlockStep ==
    ASSUME LockAssumptions, IInv, NEW x \in Ctx, NEW l \in Locks, Unlock(x, l)
    PROVE  IInv'
  <1>1. /\ Runs(x) /\ pc[x] = At("unlock", l)
        /\ lock' = [lock EXCEPT ![l] = @ - WRITE_LOCKED]
        /\ PopCli(x) /\ pc' = [pc EXCEPT ![x] = Idle]
        /\ UNCHANGED <<owner_cpu, lock_count, running, guards, reading, panicked, leaked>>
    BY Zenon DEF Unlock
  <1>2. /\ pc \in [Ctx -> {Idle} \cup [at : Steps, lock : Locks]]
        /\ lock \in [Locks -> 0 .. WRITE_LOCKED] /\ WRITE_LOCKED \in Nat \ {0} /\ UNLOCKED = 0
    BY DEF IInv, TypeOK, LockAssumptions, UNLOCKED, WRITE_LOCKED
  <1>3. pc'[x] = Idle /\ \A y \in Ctx \ {x} : guards'[y] = guards[y] /\ pc'[y] = pc[y]
    BY <1>1, <1>2, Zenon
  <1>4. /\ \A y, m : Writes(y, m)' <=> Writes(y, m)
        /\ \A y \in Ctx : ~Writes(y, l) /\ ~Holds(y, l)'
        /\ \A y \in Ctx, m \in Locks : m # l => (Holds(y, m)' <=> Holds(y, m))
    <2>1. \A y, m : Writes(y, m)' <=> Writes(y, m)
      BY <1>1, Zenon DEF Writes
    <2>2. Holds(x, l) /\ ~Writes(x, l)
      BY <1>1, Zenon DEF IInv, OneHolder, Holds
    <2>3. \A y \in Ctx \ {x} : ~Holds(y, l) /\ ~Writes(y, l)
      BY <2>2, Zenon DEF IInv, OneHolder, Holds
    <2>. QED BY <1>1, <1>3, <2>1, <2>2, <2>3, PcFacts, SMTT(30) DEF Holds, Steps
  <1>5. lock[l] = WRITE_LOCKED
    BY <1>1, Zenon DEF IInv, WordIsRight, Holds
  <1>6. lock'[l] = UNLOCKED /\ \A m \in Locks \ {l} : lock'[m] = lock[m]
    BY <1>1, <1>2, <1>5
  <1>7. Depth(x)' = Depth(x) - 1 /\ Depth(x) \in Nat \ {0}
    <2>1. InSection(x) /\ ~InSection(x)'
      BY <1>1, <1>3, PcFacts, SMTT(30) DEF InSection
    <2>. QED BY <1>1, <2>1, RunnerFacts DEF Depth
  <1>8. /\ cpu' \in [Cpus -> Cpu]
        /\ \A c \in Cpus \ {x[1]} : cpu'[c] = cpu[c] /\ leaked'[c] = leaked[c]
        /\ cpu'[x[1]].n_cli = Depth(x)' + leaked'[x[1]]
        /\ cpu'[x[1]].intr = On => Depth(x)' = 0
    <2>1. /\ cpu \in [Cpus -> Cpu] /\ leaked[x[1]] \in Nat
          /\ cpu[x[1]].n_cli = Depth(x) + leaked[x[1]]
      BY <1>1, RunnerFacts, Zenon
    <2>2. /\ cpu' \in [Cpus -> Cpu] /\ \A c \in Cpus \ {x[1]} : cpu'[c] = cpu[c]
          /\ cpu'[x[1]].n_cli = cpu[x[1]].n_cli - 1
          /\ cpu'[x[1]].intr = On => cpu[x[1]].n_cli = 1
      BY <1>1, <1>7, <2>1, PopCliStep, SMTT(30)
    <2>. QED BY <1>1, <1>7, <2>1, <2>2, SMTT(30)
  <1>9. TypeOK'
    BY <1>1, <1>2, <1>5, <1>8, SMTT(30) DEF IInv, TypeOK
  <1>10. CliMatchesGuards' /\ FlagsAreRight'
    <2>1. running' = running /\ Runs(x) /\ panicked' = panicked /\ x \notin panicked'
      BY <1>1, Zenon DEF Runs
    <2>. QED BY <1>3, <1>8, <2>1, CliStep, Zenon
  <1>11. StepsAreRight' /\ PanicsAreRight'
    <2>1. StepsAreRight'
      BY <1>1, <1>3, <1>4, PcFacts, SMTT(30) DEF IInv, StepsAreRight, Steps
    <2>2. PanicsAreRight'
      BY <1>1, Zenon DEF IInv, PanicsAreRight, Writes
    <2>. QED BY <2>1, <2>2, Zenon
  <1>12. OneHolder'
    <2>1. \A m : At("own", m) # Idle /\ At("unlock", m) # Idle
      BY PcFacts, Zenon DEF Steps
    <2>2. OneHolder
      BY Zenon DEF IInv
    <2>3. \A m \in Locks, y, z \in Ctx : Holds(y, m)' /\ Holds(z, m)' => y = z
      <3>1. \A m \in Locks, y, z \in Ctx : Holds(y, m) /\ Holds(z, m) => y = z
        BY <2>2, Zenon DEF OneHolder
      <3>2. \A m \in Locks, y \in Ctx : Holds(y, m)' => Holds(y, m)
        BY <1>4, Zenon
      <3>. QED BY <3>1, <3>2, Zenon
    <2>4. ASSUME NEW y \in Ctx, NEW m \in Locks
          PROVE  /\ Writes(y, m)' => owner_cpu'[m] = y[1]
                 /\ pc'[y] \in {At("own", m), At("unlock", m)} => ~Writes(y, m)'
      BY <1>1, <1>3, <1>4, <2>1, <2>2, Zenon DEF OneHolder
    <2>. QED BY <1>1, <1>4, <2>2, <2>3, <2>4, Zenon DEF OneHolder
  <1>13. \A m \in RwLocks : InRead(m)' = InRead(m) /\ ReadGuards(m)' = ReadGuards(m)
    BY <1>1, <1>2, <1>3, PcFacts, SMTT(30) DEF InRead, ReadGuards, Steps
  <1>14. WordIsRight'
    <2>. SUFFICES ASSUME NEW m \in Locks
                  PROVE  /\ lock'[m] = WRITE_LOCKED <=> \E y \in Ctx : Holds(y, m)'
                         /\ m \notin RwLocks => lock'[m] \in {UNLOCKED, WRITE_LOCKED}
                         /\ m \in RwLocks /\ lock'[m] # WRITE_LOCKED =>
                              lock'[m] = Cardinality(ReadGuards(m)) + Cardinality(InRead(m))
                         /\ m \in RwLocks /\ lock'[m] = WRITE_LOCKED =>
                              ReadGuards(m) = {} /\ InRead(m) = {}
                         /\ m \in RwLocks => \A y \in Ctx : reading'[y][m] <= MASK
      BY <1>13, Zenon DEF WordIsRight
    <2>1. CASE m = l
      <3>1. Cardinality({}) + Cardinality({}) = 0
        BY FS_EmptySet
      <3>2. l \in RwLocks => ReadGuards(l) = {} /\ InRead(l) = {}
        BY <1>5, Zenon DEF IInv, WordIsRight
      <3>. QED BY <1>1, <1>2, <1>4, <1>6, <2>1, <3>1, <3>2, Zenon DEF IInv, WordIsRight
    <2>2. CASE m # l
      BY <1>1, <1>4, <1>6, <2>2, Zenon DEF IInv, WordIsRight
    <2>. QED BY <2>1, <2>2, Zenon
  <1>. QED BY <1>9, <1>10, <1>11, <1>12, <1>14, Zenon DEF IInv
------------------------------------------------------------------------------
(***************************************************************************)
(* Readers.                                                                *)
(***************************************************************************)
\* The guards of one context are among those of all.
LEMMA ReadingBound ==
    ASSUME LockAssumptions, NEW x \in Ctx, NEW l \in RwLocks,
           reading \in [Ctx -> [RwLocks -> Nat]], reading[x][l] <= MASK
    PROVE  /\ Cardinality(ReadGuards(l)) \in Nat
           /\ reading[x][l] <= Cardinality(ReadGuards(l))
  <1>. DEFINE n == reading[x][l]
              f == [k \in 1 .. n |-> <<x, k>>]
  <1>1. n \in Nat /\ n <= MASK /\ MASK \in Nat
    BY Zenon DEF LockAssumptions
  <1>2. \A k \in 1 .. n : <<x, k>> \in ReadGuards(l)
    BY <1>1 DEF ReadGuards
  <1>3. f \in Injection(1 .. n, ReadGuards(l))
    BY <1>2, Zenon DEF Injection, IsInjective
  <1>4. IsFiniteSet(ReadGuards(l))
    BY ReadersFinite, Zenon
  <1>5. Cardinality(1 .. n) <= Cardinality(ReadGuards(l))
    <2>. HIDE DEF f
    <2>. QED BY <1>3, <1>4, FS_Injection, Zenon
  <1>6. Cardinality(1 .. n) = n
    BY <1>1, FS_Interval
  <1>. QED BY <1>4, <1>5, <1>6, FS_CardinalityType, Zenon

\* A step of x that leaves the exclusive side of all locks alone.
LEMMA ReaderStep ==
    ASSUME LockAssumptions, IInv, NEW x \in Ctx, NEW l \in RwLocks, Runs(x),
           \A m \in Locks : pc[x] # At("lock", m) /\ pc[x] # At("try", m)
                            /\ pc[x] # At("own", m) /\ pc[x] # At("unlock", m),
           NEW p \in {Idle, At("read", l)}, pc' = [pc EXCEPT ![x] = p],
           \/ owner_cpu' = owner_cpu
           \/ (\A y \in Ctx : ~Holds(y, l)) /\ owner_cpu' = [owner_cpu EXCEPT ![l] = NoOwner],
           UNCHANGED <<lock_count, cpu, running, guards, panicked, leaked>>
    PROVE  /\ pc' \in [Ctx -> {Idle} \cup [at : Steps, lock : Locks]]
           /\ pc'[x] = p /\ \A y \in Ctx \ {x} : pc'[y] = pc[y]
           /\ owner_cpu' \in [Locks -> Cpus \cup {NoOwner}]
           /\ CliMatchesGuards' /\ FlagsAreRight' /\ StepsAreRight' /\ OneHolder' /\ PanicsAreRight'
           /\ \A y \in Ctx, m \in Locks : Holds(y, m)' <=> Holds(y, m)
  <1>1. /\ pc \in [Ctx -> {Idle} \cup [at : Steps, lock : Locks]] /\ l \in Locks
        /\ owner_cpu \in [Locks -> Cpus \cup {NoOwner}]
    BY Zenon DEF IInv, TypeOK, Locks
  <1>2. pc' \in [Ctx -> {Idle} \cup [at : Steps, lock : Locks]]
    <2>1. "read" \in Steps
      BY Zenon DEF Steps
    <2>2. At("read", l) \in [at : Steps, lock : Locks]
      BY <1>1, <2>1, Zenon DEF At
    <2>3. p \in {Idle} \cup [at : Steps, lock : Locks]
      BY <2>2, Zenon
    <2>. QED BY <1>1, <2>3, Zenon
  <1>3. pc'[x] = p /\ \A y \in Ctx \ {x} : guards'[y] = guards[y] /\ pc'[y] = pc[y]
    BY <1>1, Zenon
  <1>4. \A y, m : Writes(y, m)' <=> Writes(y, m)
    BY Zenon DEF Writes
  <1>5. \A y \in Ctx, m \in Locks : Holds(y, m)' <=> Holds(y, m)
    BY <1>3, <1>4, PcFacts, SMTT(30) DEF Holds, Steps
  <1>6. ~InSection(x) /\ ~InSection(x)'
    <2>1. pc[x].at \notin {"lock", "try", "own", "unlock"}
      <3>1. pc[x] = Idle \/ pc[x] \in [at : Steps, lock : Locks]
        BY <1>1, Zenon
      <3>2. pc[x] \in [at : Steps, lock : Locks] => pc[x] = At(pc[x].at, pc[x].lock) /\ pc[x].lock \in Locks
        BY Zenon DEF At
      <3>. QED BY <3>1, <3>2, PcFacts, Zenon
    <2>. QED BY <1>3, <2>1, PcFacts, SMTT(30) DEF InSection
  <1>7. CliMatchesGuards' /\ FlagsAreRight'
    <2>1. Depth(x)' = Depth(x)
      BY <1>6, Zenon DEF Depth
    <2>2. cpu'[x[1]].n_cli = Depth(x)' + leaked'[x[1]]
      BY <2>1, RunnerFacts, Zenon
    <2>3. cpu'[x[1]].intr = On => x \notin panicked' /\ Depth(x)' = 0
      BY <2>1, RunnerFacts, SMTT(30) DEF IInv, FlagsAreRight, Runs
    <2>4. \A c \in Cpus \ {x[1]} : cpu'[c] = cpu[c] /\ leaked'[c] = leaked[c]
      BY Zenon
    <2>5. running' = running /\ panicked' = panicked
      BY Zenon
    <2>. QED BY <1>3, <2>2, <2>3, <2>4, <2>5, CliStep, Zenon
  <1>8. StepsAreRight' /\ PanicsAreRight'
    BY <1>3, <1>4, PcFacts, SMTT(30) DEF IInv, StepsAreRight, PanicsAreRight, Steps
  <1>9. owner_cpu' \in [Locks -> Cpus \cup {NoOwner}]
    BY <1>1, Zenon
  <1>10. OneHolder'
    <2>1. ASSUME NEW y \in Ctx, NEW m \in Locks
          PROVE  /\ Writes(y, m)' => owner_cpu'[m] = y[1]
                 /\ pc'[y] \in {At("own", m), At("unlock", m)} => ~Writes(y, m)'
      <3>1. p # At("own", m) /\ p # At("unlock", m)
        <4>1. /\ Idle.at = "idle" /\ At("read", l).at = "read"
              /\ At("own", m).at = "own" /\ At("unlock", m).at = "unlock"
          BY PcFacts, Zenon
        <4>2. p = Idle \/ p = At("read", l)
          BY Zenon
        <4>. QED BY <4>1, <4>2, Zenon
      <3>2. OneHolder
        BY Zenon DEF IInv
      <3>3. /\ Writes(y, m) => owner_cpu[m] = y[1]
            /\ pc[y] \in {At("own", m), At("unlock", m)} => ~Writes(y, m)
        BY <3>2, Zenon DEF OneHolder
      <3>4. Writes(y, m)' <=> Writes(y, m)
        BY <1>4, Zenon
      <3>5. pc'[y] \in {At("own", m), At("unlock", m)} => pc'[y] = pc[y]
        BY <1>3, <3>1, Zenon
      <3>6. Writes(y, m) => owner_cpu'[m] = owner_cpu[m]
        <4>1. Writes(y, m) => Holds(y, m)
          BY Zenon DEF Holds
        <4>. QED BY <1>1, <4>1, Zenon
      <3>. QED BY <3>3, <3>4, <3>5, <3>6, Zenon
    <2>2. ASSUME NEW m \in Locks, owner_cpu'[m] # NoOwner
          PROVE  \E y \in Ctx : Writes(y, m)'
      BY <1>1, <1>4, <2>2, Zenon DEF IInv, OneHolder
    <2>. QED BY <1>5, <2>1, <2>2, Zenon DEF IInv, OneHolder
  <1>. QED BY <1>2, <1>3, <1>5, <1>7, <1>8, <1>9, <1>10, Zenon

\* A step that changes the readers of one lock, not held.
LEMMA WordOfReaders ==
    ASSUME LockAssumptions, IInv, NEW l \in RwLocks, lock[l] # WRITE_LOCKED,
           lock' = [lock EXCEPT ![l] = lock'[l]], lock'[l] # WRITE_LOCKED,
           lock'[l] = Cardinality(ReadGuards(l)') + Cardinality(InRead(l)'),
           \A m \in RwLocks \ {l} : ReadGuards(m)' = ReadGuards(m) /\ InRead(m)' = InRead(m),
           \A y \in Ctx, m \in Locks : Holds(y, m)' <=> Holds(y, m),
           \A y \in Ctx, m \in RwLocks : reading'[y][m] <= MASK
    PROVE  WordIsRight'
  <1>1. lock \in [Locks -> 0 .. WRITE_LOCKED] /\ l \in Locks
    BY Zenon DEF IInv, TypeOK, Locks
  <1>2. \A m \in Locks : m # l => lock'[m] = lock[m]
    BY <1>1, Zenon
  <1>. SUFFICES ASSUME NEW m \in Locks
                PROVE  /\ lock'[m] = WRITE_LOCKED <=> \E y \in Ctx : Holds(y, m)'
                       /\ m \notin RwLocks => lock'[m] \in {UNLOCKED, WRITE_LOCKED}
                       /\ m \in RwLocks /\ lock'[m] # WRITE_LOCKED =>
                            lock'[m] = Cardinality(ReadGuards(m)') + Cardinality(InRead(m)')
                       /\ m \in RwLocks /\ lock'[m] = WRITE_LOCKED =>
                            ReadGuards(m)' = {} /\ InRead(m)' = {}
                       /\ m \in RwLocks => \A y \in Ctx : reading'[y][m] <= MASK
    BY Zenon DEF WordIsRight
  <1>3. CASE m = l
    BY <1>1, <1>3, Zenon DEF IInv, WordIsRight
  <1>4. CASE m # l
    BY <1>2, <1>4, Zenon DEF IInv, WordIsRight
  <1>. QED BY <1>3, <1>4, Zenon

\* read() that finds no writer adds itself to the readers.
LEMMA ReadLockStep ==
    ASSUME LockAssumptions, IInv, NEW x \in Ctx, NEW l \in RwLocks, ReadLock(x, l)
    PROVE  IInv'
  <1>1. /\ Runs(x) /\ pc[x] = Idle /\ lock[l] < MASK - 1
        /\ lock' = [lock EXCEPT ![l] = @ + 1]
        /\ pc' = [pc EXCEPT ![x] = At("read", l)]
        /\ UNCHANGED <<owner_cpu, lock_count, cpu, running, guards, reading, panicked, leaked>>
    BY Zenon DEF ReadLock, is_read_lockable, MAX_READERS
  <1>2. lock \in [Locks -> 0 .. WRITE_LOCKED] /\ l \in Locks /\ WRITE_LOCKED = MASK /\ MASK \in Nat
    BY Zenon DEF IInv, TypeOK, Locks, LockAssumptions, WRITE_LOCKED
  <1>3. /\ pc' \in [Ctx -> {Idle} \cup [at : Steps, lock : Locks]]
        /\ pc'[x] = At("read", l) /\ \A y \in Ctx \ {x} : pc'[y] = pc[y]
        /\ CliMatchesGuards' /\ FlagsAreRight' /\ StepsAreRight' /\ OneHolder' /\ PanicsAreRight'
        /\ \A y \in Ctx, m \in Locks : Holds(y, m)' <=> Holds(y, m)
    <2>1. \A m \in Locks : pc[x] # At("lock", m) /\ pc[x] # At("try", m)
                           /\ pc[x] # At("own", m) /\ pc[x] # At("unlock", m)
      BY <1>1, PcFacts, Zenon DEF Steps
    <2>2. /\ owner_cpu' = owner_cpu
          /\ UNCHANGED <<lock_count, cpu, running, guards, panicked, leaked>>
      BY <1>1, Zenon
    <2>. QED BY <1>1, <2>1, <2>2, ReaderStep, Zenon
  <1>4. /\ lock[l] # WRITE_LOCKED /\ lock'[l] = lock[l] + 1 /\ lock'[l] # WRITE_LOCKED
        /\ lock' \in [Locks -> 0 .. WRITE_LOCKED]
    BY <1>1, <1>2
  <1>5. TypeOK'
    BY <1>1, <1>3, <1>4, Zenon DEF IInv, TypeOK
  <1>6. \A m \in RwLocks : ReadGuards(m)' = ReadGuards(m)
    BY <1>1, Zenon DEF ReadGuards
  <1>7. InRead(l)' = InRead(l) \cup {x} /\ x \notin InRead(l)
    BY <1>1, <1>3, PcFacts, SMTT(30) DEF InRead, Steps
  <1>8. \A m \in RwLocks \ {l} : InRead(m)' = InRead(m)
    BY <1>1, <1>3, PcFacts, SMTT(30) DEF InRead, Steps
  <1>9. lock'[l] = Cardinality(ReadGuards(l)') + Cardinality(InRead(l)')
    <2>1. Cardinality(InRead(l) \cup {x}) = Cardinality(InRead(l)) + 1
      BY <1>7, ReadersFinite, FS_AddElement, Zenon
    <2>2. lock[l] = Cardinality(ReadGuards(l)) + Cardinality(InRead(l))
      BY <1>2, <1>4, Zenon DEF IInv, WordIsRight
    <2>3. Cardinality(ReadGuards(l)) \in Nat /\ Cardinality(InRead(l)) \in Nat
      BY ReadersFinite, FS_CardinalityType, Zenon
    <2>. QED BY <1>4, <1>6, <1>7, <2>1, <2>2, <2>3
  <1>10. WordIsRight'
    <2>1. lock' = [lock EXCEPT ![l] = lock'[l]]
      BY <1>1, <1>2, Zenon
    <2>2. \A y \in Ctx, m \in RwLocks : reading'[y][m] <= MASK
      BY <1>1, Zenon DEF IInv, WordIsRight, Locks
    <2>. QED BY <1>3, <1>4, <1>6, <1>8, <1>9, <2>1, <2>2, WordOfReaders, Zenon
  <1>. QED BY <1>3, <1>5, <1>10, Zenon DEF IInv

\* ... and writes that no processor owns the lock.
LEMMA ReadOwnStep ==
    ASSUME LockAssumptions, IInv, NEW x \in Ctx, NEW l \in RwLocks, ReadOwn(x, l)
    PROVE  IInv'
  <1>. DEFINE n == reading[x][l]
  <1>1. /\ Runs(x) /\ pc[x] = At("read", l)
        /\ owner_cpu' = [owner_cpu EXCEPT ![l] = NoOwner]
        /\ reading' = [reading EXCEPT ![x][l] = @ + 1]
        /\ pc' = [pc EXCEPT ![x] = Idle]
        /\ UNCHANGED <<lock, lock_count, cpu, running, guards, panicked, leaked>>
    BY Zenon DEF ReadOwn
  <1>2. /\ lock \in [Locks -> 0 .. WRITE_LOCKED] /\ l \in Locks /\ WRITE_LOCKED = MASK /\ MASK \in Nat
        /\ reading \in [Ctx -> [RwLocks -> Nat]] /\ n \in Nat /\ n <= MASK
    <2>1. lock \in [Locks -> 0 .. WRITE_LOCKED] /\ reading \in [Ctx -> [RwLocks -> Nat]]
      BY Zenon DEF IInv, TypeOK
    <2>2. l \in Locks /\ WRITE_LOCKED = MASK /\ MASK \in Nat
      BY Zenon DEF Locks, LockAssumptions, WRITE_LOCKED
    <2>3. n <= MASK
      BY <2>2, Zenon DEF IInv, WordIsRight
    <2>. QED BY <2>1, <2>2, <2>3, Zenon
  <1>3. x \in InRead(l)
    BY <1>1, Zenon DEF InRead
  <1>4. lock[l] # WRITE_LOCKED /\ \A y \in Ctx : ~Holds(y, l)
    BY <1>2, <1>3, Zenon DEF IInv, WordIsRight
  <1>5. /\ pc' \in [Ctx -> {Idle} \cup [at : Steps, lock : Locks]]
        /\ pc'[x] = Idle /\ \A y \in Ctx \ {x} : pc'[y] = pc[y]
        /\ owner_cpu' \in [Locks -> Cpus \cup {NoOwner}]
        /\ CliMatchesGuards' /\ FlagsAreRight' /\ StepsAreRight' /\ OneHolder' /\ PanicsAreRight'
        /\ \A y \in Ctx, m \in Locks : Holds(y, m)' <=> Holds(y, m)
    <2>1. \A m \in Locks : pc[x] # At("lock", m) /\ pc[x] # At("try", m)
                           /\ pc[x] # At("own", m) /\ pc[x] # At("unlock", m)
      BY <1>1, PcFacts
    <2>2. UNCHANGED <<lock_count, cpu, running, guards, panicked, leaked>>
      BY <1>1, Zenon
    <2>. QED BY <1>1, <1>4, <2>1, <2>2, ReaderStep, Zenon
  <1>6. /\ Cardinality(ReadGuards(l)) \in Nat /\ Cardinality(InRead(l)) \in Nat \ {0}
        /\ lock[l] = Cardinality(ReadGuards(l)) + Cardinality(InRead(l))
    <2>1. IsFiniteSet(ReadGuards(l)) /\ IsFiniteSet(InRead(l))
      BY ReadersFinite, Zenon
    <2>2. Cardinality(ReadGuards(l)) \in Nat /\ Cardinality(InRead(l)) \in Nat
      BY <2>1, FS_CardinalityType, Zenon
    <2>3. Cardinality(InRead(l)) # 0
      BY <1>3, <2>1, FS_EmptySet, Zenon
    <2>. QED BY <1>2, <1>4, <2>2, <2>3, Zenon DEF IInv, WordIsRight
  <1>7. n + 1 <= MASK
    <2>1. n <= Cardinality(ReadGuards(l))
      BY <1>2, ReadingBound, Zenon
    <2>2. lock[l] <= MASK /\ lock[l] # MASK
      BY <1>2, <1>4
    <2>. QED BY <1>2, <1>6, <2>1, <2>2
  <1>8. /\ reading' \in [Ctx -> [RwLocks -> Nat]] /\ reading'[x][l] = n + 1
        /\ \A y \in Ctx, m \in RwLocks : y # x \/ m # l => reading'[y][m] = reading[y][m]
    BY <1>1, <1>2
  <1>9. TypeOK'
    BY <1>1, <1>5, <1>8, Zenon DEF IInv, TypeOK
  <1>10. \A m \in RwLocks \ {l} : ReadGuards(m)' = ReadGuards(m) /\ InRead(m)' = InRead(m)
    <2>1. \A m \in RwLocks \ {l} : InRead(m)' = InRead(m)
      BY <1>1, <1>5, PcFacts, SMTT(30) DEF InRead, Steps
    <2>2. \A m \in RwLocks \ {l}, r \in Ctx \X (1 .. MASK) : reading'[r[1]][m] = reading[r[1]][m]
      BY <1>8, Zenon
    <2>. QED BY <2>1, <2>2, Zenon DEF ReadGuards
  <1>11. InRead(l)' = InRead(l) \ {x}
    BY <1>1, <1>5, PcFacts, Zenon DEF InRead, Steps
  <1>12. ReadGuards(l)' = ReadGuards(l) \cup {<<x, n + 1>>} /\ <<x, n + 1>> \notin ReadGuards(l)
    <2>1. <<x, n + 1>> \in Ctx \X (1 .. MASK)
      BY <1>2, <1>7
    <2>2. ASSUME NEW r \in Ctx \X (1 .. MASK)
          PROVE  r[2] <= reading'[r[1]][l] <=> r[2] <= reading[r[1]][l] \/ r = <<x, n + 1>>
      <3>1. CASE r[1] = x
        <4>1. r[2] \in Nat /\ (r = <<x, n + 1>> <=> r[2] = n + 1)
          BY <1>2, <3>1
        <4>. QED BY <1>2, <1>8, <3>1, <4>1, SMTT(30)
      <3>2. CASE r[1] # x
        BY <1>8, <3>2, SMTT(30)
      <3>. QED BY <3>1, <3>2, Zenon
    <2>3. ~(n + 1 <= reading[x][l])
      BY <1>2
    <2>. QED BY <2>1, <2>2, <2>3, Zenon DEF ReadGuards
  <1>13. lock'[l] = Cardinality(ReadGuards(l)') + Cardinality(InRead(l)')
    <2>1. IsFiniteSet(ReadGuards(l)) /\ IsFiniteSet(InRead(l))
      BY ReadersFinite, Zenon
    <2>2. Cardinality(InRead(l)') = Cardinality(InRead(l)) - 1
      BY <1>3, <1>11, <2>1, FS_RemoveElement, Zenon
    <2>3. \A g : g \notin ReadGuards(l) =>
            Cardinality(ReadGuards(l) \cup {g}) = Cardinality(ReadGuards(l)) + 1
      BY <2>1, FS_AddElement, Zenon
    <2>4. Cardinality(ReadGuards(l)') = Cardinality(ReadGuards(l)) + 1
      BY <1>12, <2>3, Zenon
    <2>. QED BY <1>1, <1>6, <2>2, <2>4, SMTT(30)
  <1>14. WordIsRight'
    <2>1. lock' = [lock EXCEPT ![l] = lock'[l]] /\ lock'[l] # WRITE_LOCKED
      BY <1>1, <1>2, <1>4, Zenon
    <2>2. \A y \in Ctx, m \in RwLocks : reading'[y][m] <= MASK
      BY <1>7, <1>8, Zenon DEF IInv, WordIsRight, Locks
    <2>. QED BY <1>4, <1>5, <1>10, <1>13, <2>1, <2>2, WordOfReaders, Zenon
  <1>. QED BY <1>5, <1>9, <1>14, Zenon DEF IInv

\* Dropping a shared guard takes one reader off the state word.
LEMMA ReadDropStep ==
    ASSUME LockAssumptions, IInv, NEW x \in Ctx, NEW l \in RwLocks, ReadDrop(x, l)
    PROVE  IInv'
  <1>. DEFINE n == reading[x][l]
  <1>1. /\ Runs(x) /\ pc[x] = Idle /\ n > 0
        /\ lock' = [lock EXCEPT ![l] = @ - 1]
        /\ reading' = [reading EXCEPT ![x][l] = @ - 1]
        /\ UNCHANGED <<owner_cpu, lock_count, cpu, running, pc, guards, panicked, leaked>>
    BY Zenon DEF ReadDrop
  <1>2. /\ lock \in [Locks -> 0 .. WRITE_LOCKED] /\ l \in Locks /\ WRITE_LOCKED = MASK /\ MASK \in Nat
        /\ reading \in [Ctx -> [RwLocks -> Nat]] /\ n \in Nat \ {0} /\ n <= MASK
        /\ pc \in [Ctx -> {Idle} \cup [at : Steps, lock : Locks]]
    <2>1. /\ lock \in [Locks -> 0 .. WRITE_LOCKED] /\ reading \in [Ctx -> [RwLocks -> Nat]]
          /\ pc \in [Ctx -> {Idle} \cup [at : Steps, lock : Locks]]
      BY Zenon DEF IInv, TypeOK
    <2>2. l \in Locks /\ WRITE_LOCKED = MASK /\ MASK \in Nat
      BY Zenon DEF Locks, LockAssumptions, WRITE_LOCKED
    <2>3. n <= MASK
      BY <2>2, Zenon DEF IInv, WordIsRight
    <2>4. n \in Nat /\ n # 0
      BY <1>1, <2>1, SMTT(30)
    <2>. QED BY <2>1, <2>2, <2>3, <2>4, Zenon
  <1>3. <<x, n>> \in ReadGuards(l)
    BY <1>2 DEF ReadGuards
  <1>4. lock[l] # WRITE_LOCKED
    BY <1>2, <1>3, Zenon DEF IInv, WordIsRight
  <1>5. /\ CliMatchesGuards' /\ FlagsAreRight' /\ StepsAreRight' /\ OneHolder' /\ PanicsAreRight'
        /\ \A y \in Ctx, m \in Locks : Holds(y, m)' <=> Holds(y, m)
    <2>1. \A m \in Locks : pc[x] # At("lock", m) /\ pc[x] # At("try", m)
                           /\ pc[x] # At("own", m) /\ pc[x] # At("unlock", m)
      BY <1>1, PcFacts, Zenon DEF Steps
    <2>2. UNCHANGED <<lock_count, cpu, running, guards, panicked, leaked>> /\ owner_cpu' = owner_cpu
      BY <1>1, Zenon
    <2>3. pc' = [pc EXCEPT ![x] = Idle]
      BY <1>1, <1>2, Zenon
    <2>. QED BY <1>1, <2>1, <2>2, <2>3, ReaderStep, Zenon
  <1>6. /\ Cardinality(ReadGuards(l)) \in Nat \ {0} /\ Cardinality(InRead(l)) \in Nat
        /\ lock[l] = Cardinality(ReadGuards(l)) + Cardinality(InRead(l))
    <2>1. IsFiniteSet(ReadGuards(l)) /\ IsFiniteSet(InRead(l))
      BY ReadersFinite, Zenon
    <2>2. Cardinality(ReadGuards(l)) \in Nat /\ Cardinality(InRead(l)) \in Nat
      BY <2>1, FS_CardinalityType, Zenon
    <2>3. Cardinality(ReadGuards(l)) # 0
      BY <1>3, <2>1, FS_EmptySet, Zenon
    <2>. QED BY <1>2, <1>4, <2>2, <2>3, Zenon DEF IInv, WordIsRight
  <1>7. lock'[l] = lock[l] - 1 /\ lock'[l] # WRITE_LOCKED /\ lock' \in [Locks -> 0 .. WRITE_LOCKED]
    BY <1>1, <1>2, <1>4, <1>6, SMTT(30)
  <1>8. /\ reading' \in [Ctx -> [RwLocks -> Nat]] /\ reading'[x][l] = n - 1
        /\ \A y \in Ctx, m \in RwLocks : y # x \/ m # l => reading'[y][m] = reading[y][m]
    BY <1>1, <1>2, SMTT(30)
  <1>9. TypeOK'
    BY <1>1, <1>7, <1>8, Zenon DEF IInv, TypeOK
  <1>10. /\ \A m \in RwLocks : InRead(m)' = InRead(m)
         /\ \A m \in RwLocks \ {l} : ReadGuards(m)' = ReadGuards(m)
    <2>1. \A m \in RwLocks : InRead(m)' = InRead(m)
      BY <1>1, Zenon DEF InRead
    <2>2. \A m \in RwLocks \ {l}, r \in Ctx \X (1 .. MASK) : reading'[r[1]][m] = reading[r[1]][m]
      BY <1>8, Zenon
    <2>. QED BY <2>1, <2>2, Zenon DEF ReadGuards
  <1>11. ReadGuards(l)' = ReadGuards(l) \ {<<x, n>>}
    <2>1. ASSUME NEW r \in Ctx \X (1 .. MASK)
          PROVE  r[2] <= reading'[r[1]][l] <=> r[2] <= reading[r[1]][l] /\ r # <<x, n>>
      <3>1. CASE r[1] = x
        <4>1. r[2] \in Nat /\ (r = <<x, n>> <=> r[2] = n)
          BY <1>2, <3>1
        <4>. QED BY <1>2, <1>8, <3>1, <4>1, SMTT(30)
      <3>2. CASE r[1] # x
        BY <1>8, <3>2, SMTT(30)
      <3>. QED BY <3>1, <3>2, Zenon
    <2>. QED BY <2>1, Zenon DEF ReadGuards
  <1>12. lock'[l] = Cardinality(ReadGuards(l)') + Cardinality(InRead(l)')
    <2>1. IsFiniteSet(ReadGuards(l))
      BY ReadersFinite, Zenon
    <2>2. \A g : g \in ReadGuards(l) =>
            Cardinality(ReadGuards(l) \ {g}) = Cardinality(ReadGuards(l)) - 1
      BY <2>1, FS_RemoveElement, Zenon
    <2>3. Cardinality(ReadGuards(l)') = Cardinality(ReadGuards(l)) - 1
      BY <1>3, <1>11, <2>2, Zenon
    <2>. QED BY <1>6, <1>7, <1>10, <2>3
  <1>13. WordIsRight'
    <2>1. lock' = [lock EXCEPT ![l] = lock'[l]]
      BY <1>1, <1>2, Zenon
    <2>2. \A y \in Ctx, m \in RwLocks : reading'[y][m] <= MASK
      BY <1>2, <1>8, SMTT(30) DEF IInv, WordIsRight, Locks
    <2>. QED BY <1>4, <1>5, <1>7, <1>10, <1>12, <2>1, <2>2, WordOfReaders, Zenon
  <1>. QED BY <1>5, <1>9, <1>13, Zenon DEF IInv
------------------------------------------------------------------------------
(***************************************************************************)
(* Interrupts switch between contexts without exclusive guards.            *)
(***************************************************************************)
\* A processor goes on in another context: it may, because the one it leaves has no
\* guard that needs interrupts off.
LEMMA SwitchStep ==
    ASSUME LockAssumptions, IInv, NEW c \in Cpus, NEW t \in Tasks, NEW f \in Flag,
           <<c, running[c]>> \notin panicked, Depth(<<c, running[c]>>) = 0,
           running[c] # t,
           running' = [running EXCEPT ![c] = t],
           cpu' = [cpu EXCEPT ![c].intr = f],
           UNCHANGED <<lock, owner_cpu, lock_count, pc, guards, reading, panicked, leaked>>
    PROVE  IInv'
  <1>1. running \in [Cpus -> Tasks] /\ cpu \in [Cpus -> Cpu] /\ panicked \subseteq Ctx
    BY Zenon DEF IInv, TypeOK
  <1>2. /\ running' \in [Cpus -> Tasks] /\ running'[c] = t
        /\ \A d \in Cpus \ {c} : running'[d] = running[d] /\ cpu'[d] = cpu[d]
        /\ cpu' \in [Cpus -> Cpu] /\ cpu'[c].n_cli = cpu[c].n_cli
    BY <1>1, Zenon DEF Cpu
  <1>3. /\ \A x : Depth(x)' = Depth(x)
        /\ \A x, l : (Writes(x, l)' <=> Writes(x, l)) /\ (Holds(x, l)' <=> Holds(x, l))
    BY Zenon DEF Depth, InSection, Writes, Holds
  <1>4. TypeOK'
    BY <1>2, Zenon DEF IInv, TypeOK
  <1>5. \A u \in Tasks : Depth(<<c, u>>) = 0
    BY <1>1, Zenon DEF IInv, CliMatchesGuards
  <1>6. CliMatchesGuards'
    <2>. SUFFICES ASSUME NEW d \in Cpus, NEW u \in Tasks
                  PROVE  /\ running'[d] = u /\ <<d, u>> \notin panicked' =>
                               cpu'[d].n_cli = Depth(<<d, u>>)' + leaked'[d]
                         /\ running'[d] # u => Depth(<<d, u>>)' = 0
      BY Zenon DEF CliMatchesGuards
    <2>1. CASE d = c
      <3>1. cpu[c].n_cli = Depth(<<c, running[c]>>) + leaked[c]
        BY <1>1, Zenon DEF IInv, CliMatchesGuards
      <3>. QED BY <1>2, <1>3, <1>5, <2>1, <3>1, Zenon
    <2>2. CASE d # c
      BY <1>2, <1>3, <2>2, Zenon DEF IInv, CliMatchesGuards
    <2>. QED BY <2>1, <2>2, Zenon
  <1>7. FlagsAreRight'
    <2>1. \A x \in panicked : x[1] # c /\ x[1] \in Cpus
      BY <1>1 DEF IInv, FlagsAreRight, Ctx
    <2>2. ASSUME NEW d \in Cpus, cpu'[d].intr = On
          PROVE  <<d, running'[d]>> \notin panicked /\ Depth(<<d, running'[d]>>) = 0
      <3>1. CASE d = c
        BY <1>2, <1>5, <2>1, <3>1, Zenon
      <3>2. CASE d # c
        BY <1>2, <2>2, <3>2, Zenon DEF IInv, FlagsAreRight
      <3>. QED BY <3>1, <3>2, Zenon
    <2>3. \A x \in panicked : running'[x[1]] = x[2] /\ pc[x] = Idle
      BY <1>2, <2>1, Zenon DEF IInv, FlagsAreRight
    <2>. QED BY <1>3, <2>2, <2>3, Zenon DEF FlagsAreRight
  <1>8. StepsAreRight' /\ OneHolder' /\ PanicsAreRight'
    BY <1>3, Zenon DEF IInv, StepsAreRight, OneHolder, PanicsAreRight
  <1>9. WordIsRight'
    BY <1>3, WordKeeps, Zenon DEF IInv, InRead
  <1>. QED BY <1>4, <1>6, <1>7, <1>8, <1>9, Zenon DEF IInv

\* An interrupt arrives on a processor that has them on.
LEMMA InterruptStep ==
    ASSUME LockAssumptions, IInv, NEW c \in Cpus, Interrupt(c)
    PROVE  IInv'
  <1>1. <<c, running[c]>> \notin panicked /\ Depth(<<c, running[c]>>) = 0
    BY Zenon DEF Interrupt, IInv, FlagsAreRight
  <1>. QED BY <1>1, SwitchStep, Zenon DEF Interrupt, LockAssumptions, Flag, Off

\* The handler returns to the interrupted context.
LEMMA IretStep ==
    ASSUME LockAssumptions, IInv, NEW c \in Cpus, NEW t \in Tasks, Iret(c, t)
    PROVE  IInv'
  <1>1. running[c] = Handler /\ pc[<<c, Handler>>] = Idle /\ guards[<<c, Handler>>] = {}
    BY Zenon DEF Iret
  <1>2. <<c, Handler>> \in Ctx
    BY Zenon DEF Ctx, LockAssumptions
  <1>3. Depth(<<c, Handler>>) = 0
    BY <1>1, <1>2, PcFacts, FS_EmptySet, SMTT(30) DEF Depth, InSection
  <1>4. <<c, Handler>> \notin panicked
    BY <1>1, Zenon DEF IInv, PanicsAreRight, Writes
  <1>. QED BY <1>1, <1>3, <1>4, SwitchStep, Zenon DEF Iret, Flag, On

\* Every step of every context preserves the inductive invariant.
LEMMA NextStep == ASSUME LockAssumptions, IInv, [Next]_vars PROVE IInv'
  <1>1. \A c \in Cpus : <<c, running[c]>> \in Ctx
    BY Zenon DEF IInv, TypeOK, Ctx
  <1>2. ASSUME NEW c \in Cpus, NEW l \in Locks, NEW x \in Ctx, x = <<c, running[c]>>,
               \/ LockEnter(x, l) \/ TryEnter(x, l) \/ WriteLock(x, l)
               \/ TryFail(x, l) \/ Own(x, l)
               \/ DropNested(x, l) \/ DropLast(x, l) \/ Unlock(x, l)
        PROVE  IInv'
    BY <1>2, LockEnterStep, TryEnterStep, WriteLockStep, TryFailStep, OwnStep,
       DropNestedStep, DropLastStep, UnlockStep, Zenon
  <1>3. ASSUME NEW c \in Cpus, NEW l \in RwLocks, NEW x \in Ctx, x = <<c, running[c]>>,
               ReadLock(x, l) \/ ReadOwn(x, l) \/ ReadDrop(x, l)
        PROVE  IInv'
    BY <1>3, ReadLockStep, ReadOwnStep, ReadDropStep, Zenon
  <1>4. ASSUME NEW c \in Cpus, Interrupt(c) \/ \E t \in Tasks : Iret(c, t)
        PROVE  IInv'
    BY <1>4, InterruptStep, IretStep, Zenon
  <1>5. CASE UNCHANGED vars
    <2>1. /\ lock' = lock /\ owner_cpu' = owner_cpu /\ lock_count' = lock_count /\ cpu' = cpu
          /\ running' = running /\ pc' = pc /\ guards' = guards /\ reading' = reading
          /\ panicked' = panicked /\ leaked' = leaked
      BY <1>5, Zenon DEF vars
    <2>2. /\ \A x : Depth(x)' = Depth(x)
          /\ \A x, l : (Writes(x, l)' <=> Writes(x, l)) /\ (Holds(x, l)' <=> Holds(x, l))
      BY <2>1, Zenon DEF Depth, InSection, Writes, Holds
    <2>3. TypeOK' /\ StepsAreRight' /\ PanicsAreRight'
      BY <2>1, <2>2, Zenon DEF IInv, TypeOK, StepsAreRight, PanicsAreRight
    <2>4. CliMatchesGuards' /\ FlagsAreRight'
      BY <2>1, <2>2, Zenon DEF IInv, CliMatchesGuards, FlagsAreRight
    <2>5. OneHolder'
      BY <2>1, <2>2, Zenon DEF IInv, OneHolder
    <2>6. WordIsRight'
      BY <2>1, <2>2, WordKeeps, Zenon DEF IInv, InRead
    <2>. QED BY <2>3, <2>4, <2>5, <2>6, Zenon DEF IInv
  <1>. QED BY <1>1, <1>2, <1>3, <1>4, <1>5, Zenon DEF Next

\* What the inductive invariant was built for.
LEMMA LocksFollow ==
    ASSUME LockAssumptions, IInv
    PROVE  MutualExclusion /\ CliMatchesGuards /\ NoSelfDeadlock
  <1>1. StateCountsReaders
    BY Zenon DEF IInv, WordIsRight, StateCountsReaders, Locks
  <1>2. AssertionsHold
    BY Zenon DEF IInv, WordIsRight, OneHolder, PanicsAreRight, AssertionsHold, Holds
  <1>3. GuardsExclude
    <2>. SUFFICES ASSUME NEW l \in Locks, NEW x \in Ctx, Writes(x, l), NEW y \in Ctx \ {x}
                  PROVE  ~Writes(y, l) /\ (l \in RwLocks => reading[y][l] = 0)
      BY Zenon DEF GuardsExclude
    <2>1. ~Writes(y, l)
      BY Zenon DEF IInv, OneHolder, Holds
    <2>2. ASSUME l \in RwLocks PROVE reading[y][l] = 0
      <3>1. ReadGuards(l) = {}
        BY <2>2, Zenon DEF IInv, WordIsRight, Holds
      <3>2. reading[y][l] \in Nat /\ MASK \in Nat /\ MASK > 2
        BY <2>2, SMTT(30) DEF IInv, TypeOK, LockAssumptions
      <3>3. reading[y][l] >= 1 => <<y, 1>> \in ReadGuards(l)
        BY <3>2, SMTT(30) DEF ReadGuards
      <3>. QED BY <3>1, <3>2, <3>3, SMTT(30)
    <2>. QED BY <2>1, <2>2, Zenon
  <1>4. NoSelfDeadlock
    <2>. SUFFICES ASSUME NEW x \in Ctx, NEW l \in Mutexes \cup ReMutexes, pc[x] = At("lock", l),
                         NEW y \in Ctx, Holds(y, l), y[1] = x[1]
                  PROVE  FALSE
      BY Zenon DEF NoSelfDeadlock
    <2>1. l \in Locks
      BY Zenon DEF Locks
    <2>2. running[x[1]] = x[2] /\ running[y[1]] = y[2]
      BY <2>1, HoldersRun, Zenon
    <2>3. x = y
      BY <2>2 DEF Ctx
    <2>4. ~Writes(x, l)
      BY <2>1, Zenon DEF IInv, StepsAreRight
    <2>. QED BY <2>3, <2>4, PcFacts, SMTT(30) DEF Holds, Steps
  <1>. QED BY <1>1, <1>2, <1>3, <1>4, Zenon DEF IInv, MutualExclusion

\* Two contexts never hold a lock at once unless both read, the state words and the
\* nesting depths of push_cli are right, and no processor waits for itself.
THEOREM LocksAlwaysSound ==
    ASSUME LockAssumptions
    PROVE  Spec => [](MutualExclusion /\ CliMatchesGuards /\ NoSelfDeadlock)
  BY InitIsRight, NextStep, LocksFollow, PTL DEF Spec
==============================================================================
