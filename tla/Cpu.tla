--------------------------------- MODULE Cpu ---------------------------------
(***************************************************************************)
(* The interrupt bookkeeping of a processor (kernel/src/cpu/mod.rs).       *)
(*                                                                         *)
(* A processor record holds the interrupt flag of rflags ("intr"), the     *)
(* nesting depth of push_cli ("n_cli") and the value the flag had before   *)
(* the outermost push_cli ("old_interrupt_enable").  The operators below   *)
(* are the state transformers that push_cli and pop_cli apply; a critical  *)
(* section of the kernel is a composition of them.                         *)
(***************************************************************************)
EXTENDS Naturals

On  == 1        \* the IF bit of rflags
Off == 0
Flag == {Off, On}

Cpu == [n_cli : Nat, intr : Flag, old_interrupt_enable : Flag]

\* The boot processor after cpu::set_interrupts() in kernel_main.
BootCpu == [n_cli |-> 0, intr |-> On, old_interrupt_enable |-> Off]

\* push_cli: the outermost call saves the flag, every call leaves it cleared.
push_cli(c) ==
    [n_cli |-> c.n_cli + 1,
     intr  |-> Off,
     old_interrupt_enable |->
        IF c.n_cli = 0 THEN c.intr ELSE c.old_interrupt_enable]

\* pop_cli: the outermost call restores the flag that push_cli saved.  Its
\* assertions (n_cli > 0, interrupts off) are CanPop.
CanPop(c) == c.n_cli > 0 /\ c.intr = Off

pop_cli(c) ==
    [n_cli |-> c.n_cli - 1,
     intr  |-> IF c.n_cli = 1 THEN c.old_interrupt_enable ELSE Off,
     old_interrupt_enable |-> c.old_interrupt_enable]
==============================================================================
