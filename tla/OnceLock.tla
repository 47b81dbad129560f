------------------------------- MODULE OnceLock -------------------------------
(***************************************************************************)
(* The write-once cell of kernel/src/sync/once.rs.  Its methods run with   *)
(* interrupts as they are, so callers interleave at every access to the    *)
(* state; a caller preempted inside the closure leaves the state RUNNING.  *)
(*                                                                         *)
(* The callers of the kernel give closures that succeed, so init's error   *)
(* branch is not exercised.  A relaxed load of DONE is followed by a plain *)
(* read of the value: on x86-64 loads are not reordered, so the accesses   *)
(* are sequentially consistent here.                                       *)
(***************************************************************************)
EXTENDS Naturals

CONSTANTS Callers, Values, Uninit

ValuesAssumption == Uninit \notin Values

VARIABLES state,        \* once.state
          value,        \* the slot
          pc,           \* per caller: "ready", "call", "closure", "done", or the
                        \* outcome "ok", "err", "got", "none", "panic"
          op,           \* per caller: "set" or "get_or_init"
          arg,          \* per caller: the value it brings
          got           \* per caller: the value it was given a reference to

vars == <<state, value, pc, op, arg, got>>

INIT == 0
RUNNING == 1
DONE == 2

Init ==
    /\ state = INIT /\ value = Uninit
    /\ pc = [x \in Callers |-> "ready"]
    /\ op = [x \in Callers |-> "set"]
    /\ arg \in [Callers -> Values]
    /\ got = [x \in Callers |-> Uninit]

is_completed_Started == state # INIT
is_completed == state = DONE

Become(x, to) == pc' = [pc EXCEPT ![x] = to]

set(x) ==
    /\ pc[x] = "ready"
    /\ op' = [op EXCEPT ![x] = "set"]
    /\ Become(x, IF is_completed THEN "err" ELSE "call")
    /\ UNCHANGED <<state, value, arg, got>>

\* get_or_init through get_or_try_init: the fast path, or init.
get_or_init(x) ==
    /\ pc[x] = "ready"
    /\ op' = [op EXCEPT ![x] = "get_or_init"]
    /\ IF is_completed
       THEN Become(x, "got") /\ got' = [got EXCEPT ![x] = value]
       ELSE Become(x, "call") /\ UNCHANGED got
    /\ UNCHANGED <<state, value, arg>>

\* try_get, and get which panics instead of returning None.
try_get(x) ==
    /\ pc[x] = "ready"
    /\ IF is_completed
       THEN Become(x, "got") /\ got' = [got EXCEPT ![x] = value]
       ELSE Become(x, "none") /\ UNCHANGED got
    /\ UNCHANGED <<state, value, op, arg>>

\* init has returned Ok(()): set reports it, get_or_init reads the slot.
Return(x) ==
    IF op[x] = "set"
    THEN Become(x, "ok") /\ UNCHANGED got
    ELSE Become(x, "got") /\ got' = [got EXCEPT ![x] = value]

\* Once::call up to the closure.  A failed compare_exchange reloads the state,
\* so the outcome is decided by the state at the last access.
call(x) ==
    /\ pc[x] = "call"
    /\ \/ /\ state = INIT
          /\ state' = RUNNING
          /\ Become(x, "closure") /\ UNCHANGED got
       \/ /\ state = RUNNING
          /\ Become(x, "panic") /\ UNCHANGED <<state, got>>
       \/ /\ state = DONE
          /\ Return(x) /\ UNCHANGED state
    /\ UNCHANGED <<value, op, arg>>

closure(x) ==
    /\ pc[x] = "closure"
    /\ value' = arg[x]
    /\ Become(x, "done")
    /\ UNCHANGED <<state, op, arg, got>>

\* The state becomes DONE and the call returns.
finish(x) ==
    /\ pc[x] = "done"
    /\ state' = DONE
    /\ Return(x)
    /\ UNCHANGED <<value, op, arg>>

Next == \E x \in Callers : \/ set(x) \/ get_or_init(x) \/ try_get(x)
                           \/ call(x) \/ closure(x) \/ finish(x)

Spec == Init /\ [][Next]_vars

-----------------------------------------------------------------------------
\* Every variable has its type ("state is never set to invalid values").
TypeOK ==
    /\ state \in {INIT, RUNNING, DONE}
    /\ value \in Values \cup {Uninit}
    /\ pc \in [Callers -> {"ready", "call", "closure", "done", "ok", "err",
                           "got", "none", "panic"}]
    /\ op \in [Callers -> {"set", "get_or_init"}]
    /\ arg \in [Callers -> Values]
    /\ got \in [Callers -> Values \cup {Uninit}]

\* A reference handed out by get, try_get or get_or_init is to an initialised
\* value, and all callers see the same one.
GetsTheValue == \A x \in Callers : pc[x] = "got" => got[x] = value /\ value # Uninit
=============================================================================
