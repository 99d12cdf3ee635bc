------------------------------ MODULE SpinLocks ------------------------------
(***************************************************************************)
(* The nestable spin locks of LiS (head/linux/lislocks.c): a kernel spin   *)
(* lock, the task that owns it and a count of the nested calls.            *)
(*                                                                         *)
(* The owner is `current`, and an interrupt routine finds there the task   *)
(* it interrupted.  So the two levels of a CPU, background and interrupt,  *)
(* are the same owner to the lock, and what keeps them apart is that the   *)
(* background turns interrupts off (_irq, _irqsave) for a lock that        *)
(* interrupt routines take too.                                            *)
(*                                                                         *)
(* The kernel's spin lock, a task per CPU and an interrupt routine that is *)
(* not itself interrupted are external.                                    *)
(***************************************************************************)
EXTENDS Integers

CONSTANTS
    Cpu,
    NoTask,
    MaxNest,           \* how deep calls are nested
    NestedTry          \* lis_spin_trylock is also called by the owner

Level == {"base", "isr"}
Kind  == {"plain", "try", "irq", "irqsave"}
Ctx   == Cpu \X Level

ASSUME LockAssumption ==
    NoTask \notin Cpu /\ MaxNest \in Nat /\ NestedTry \in BOOLEAN

VARIABLES
    uses,              \* which routines each level calls for this lock
    spin_lock_mem,     \* the kernel's lock is locked
    taskp, nest,
    ints, level,       \* per CPU: interrupts are on; what runs
    pc,
    held,              \* per context: how many calls it has to undo
    outer,             \* which routine the outermost of them is
    flags              \* the state of interrupts that it saved

lock == <<spin_lock_mem, taskp, nest>>
cpu  == <<ints, level>>
call == <<held, outer, flags>>
vars == <<uses, lock, cpu, pc, call>>

\* A lock is used by the background alone, with interrupts left on, or by both
\* levels, with interrupts turned off; lis_spin_lock_irq, which turns them on
\* again, is not for interrupt routines.
Disciplines ==
    {[base |-> {"plain", "try"}, isr |-> {}],
     [base |-> {"irq", "irqsave"}, isr |-> {"plain", "irqsave"}]}

Init ==
    /\ uses \in Disciplines
    /\ spin_lock_mem = FALSE /\ taskp = NoTask /\ nest = 0
    /\ ints = [c \in Cpu |-> TRUE] /\ level = [c \in Cpu |-> "base"]
    /\ pc = [x \in Ctx |-> "run"] /\ held = [x \in Ctx |-> 0]
    /\ outer = [x \in Ctx |-> "plain"] /\ flags = [x \in Ctx |-> TRUE]

Current(x) == x[1]
Goto(x, l) == pc' = [pc EXCEPT ![x] = l]
At(x, l)   == pc[x] = l /\ level[x[1]] = x[2]
IntsOff(k) == k \in {"irq", "irqsave"}

-----------------------------------------------------------------------------
(* lis_spin_lock, _lock_irq, _lock_irqsave                                 *)

Begin(x, k) == /\ held' = [held EXCEPT ![x] = @ + 1]
               /\ outer' = IF held[x] = 0 THEN [outer EXCEPT ![x] = k] ELSE outer

Lock(x, k) ==
    /\ At(x, "run") /\ held[x] < MaxNest
    /\ k \in uses[x[2]] \ {"try"}
    /\ Begin(x, k)
    /\ Goto(x, IF taskp = Current(x) THEN "nest" ELSE "spin")
    /\ UNCHANGED <<uses, lock, cpu, flags>>

\* spin_lock_irqsave turns interrupts off, then spins.
SpinIrq(x) ==
    /\ At(x, "spin") /\ IntsOff(outer[x])
    /\ ints' = [ints EXCEPT ![x[1]] = FALSE]
    /\ flags' = IF outer[x] = "irqsave" THEN [flags EXCEPT ![x] = ints[x[1]]]
                ELSE flags
    /\ Goto(x, "spin_off")
    /\ UNCHANGED <<uses, lock, level, held, outer>>

Spin(x) ==
    /\ At(x, "spin_off") \/ (At(x, "spin") /\ ~IntsOff(outer[x]))
    /\ ~spin_lock_mem /\ spin_lock_mem' = TRUE
    /\ Goto(x, "own")
    /\ UNCHANGED <<uses, taskp, nest, cpu, call>>

OwnerIs(x)    == Current(x)

Own(x) ==
    /\ At(x, "own")
    /\ taskp' = OwnerIs(x)
    /\ Goto(x, "nest")
    /\ UNCHANGED <<uses, spin_lock_mem, nest, cpu, call>>

Nest(x) ==
    /\ At(x, "nest")
    /\ nest' = nest + 1
    /\ Goto(x, "run")
    /\ UNCHANGED <<uses, spin_lock_mem, taskp, cpu, call>>

-----------------------------------------------------------------------------
(* lis_spin_trylock                                                        *)

\* The owner is told that it has the lock, and the call is not counted; else
\* the lock is taken if it is free.
Try(x) ==
    /\ At(x, "run") /\ held[x] < MaxNest
    /\ "try" \in uses[x[2]] /\ (NestedTry \/ held[x] = 0)
    /\ Begin(x, "try")
    /\ IF taskp = Current(x)
       THEN UNCHANGED <<spin_lock_mem, pc>>
       ELSE /\ ~spin_lock_mem /\ spin_lock_mem' = TRUE
            /\ Goto(x, "try_nest")
    /\ UNCHANGED <<uses, taskp, nest, cpu, flags>>

TryNest(x) ==
    /\ At(x, "try_nest")
    /\ nest' = nest + 1
    /\ Goto(x, "try_own")
    /\ UNCHANGED <<uses, spin_lock_mem, taskp, cpu, call>>

TryOwn(x) ==
    /\ At(x, "try_own")
    /\ taskp' = Current(x)
    /\ Goto(x, "run")
    /\ UNCHANGED <<uses, spin_lock_mem, nest, cpu, call>>

-----------------------------------------------------------------------------
(* lis_spin_unlock, _unlock_irq, _unlock_irqrestore, each the companion of *)
(* the innermost call not yet undone                                       *)

Undone(x) == held' = [held EXCEPT ![x] = @ - 1]

Unlock(x) ==
    /\ At(x, "run") /\ held[x] > 0
    /\ IF nest > 0 THEN Goto(x, "dec") /\ UNCHANGED held
                   ELSE Undone(x) /\ UNCHANGED pc
    /\ UNCHANGED <<uses, lock, cpu, outer, flags>>

Dec(x) ==
    /\ At(x, "dec")
    /\ nest' = nest - 1
    /\ Goto(x, "last")
    /\ UNCHANGED <<uses, spin_lock_mem, taskp, cpu, call>>

EveryUnlock == TRUE
Outermost   == nest = 0

Last(x) ==
    /\ At(x, "last")
    /\ IF Outermost THEN Goto(x, "clear") /\ UNCHANGED held
                    ELSE Goto(x, "run") /\ Undone(x)
    /\ UNCHANGED <<uses, lock, cpu, outer, flags>>

Cleared    == NoTask

Clear(x) ==
    /\ At(x, "clear")
    /\ taskp' = Cleared
    /\ Goto(x, "release")
    /\ UNCHANGED <<uses, spin_lock_mem, nest, cpu, call>>

Restored(x) == CASE outer[x] = "irq"     -> [ints EXCEPT ![x[1]] = TRUE]
                 [] outer[x] = "irqsave" -> [ints EXCEPT ![x[1]] = flags[x]]
                 [] OTHER                -> ints

Release(x) ==
    /\ At(x, "release")
    /\ spin_lock_mem' = FALSE
    /\ ints' = Restored(x)
    /\ Undone(x)
    /\ Goto(x, "run")
    /\ UNCHANGED <<uses, taskp, nest, level, outer, flags>>

-----------------------------------------------------------------------------
(* Interrupts                                                              *)

Interrupt(c) ==
    /\ level[c] = "base" /\ ints[c] /\ uses.isr # {}
    /\ level' = [level EXCEPT ![c] = "isr"] /\ ints' = [ints EXCEPT ![c] = FALSE]
    /\ UNCHANGED <<uses, lock, pc, call>>

\* An interrupt routine undoes all its calls before it returns.
InterruptEnd(c) ==
    /\ level[c] = "isr" /\ pc[<<c, "isr">>] = "run" /\ held[<<c, "isr">>] = 0
    /\ level' = [level EXCEPT ![c] = "base"] /\ ints' = [ints EXCEPT ![c] = TRUE]
    /\ UNCHANGED <<uses, lock, pc, call>>

-----------------------------------------------------------------------------
LockStep(x)   == SpinIrq(x) \/ Spin(x) \/ Own(x) \/ Nest(x) \/ TryNest(x) \/ TryOwn(x)
UnlockStep(x) == Unlock(x) \/ Dec(x) \/ Last(x) \/ Clear(x) \/ Release(x)

Next ==
    \/ \E x \in Ctx : \/ \E k \in Kind : Lock(x, k)
                      \/ Try(x) \/ LockStep(x) \/ UnlockStep(x)
    \/ \E c \in Cpu : Interrupt(c) \/ InterruptEnd(c)

Spec == Init /\ [][Next]_vars

-----------------------------------------------------------------------------
(* Properties                                                              *)

\* Between the return of a call that locks and the call that undoes it.
Inside(x)   == held[x] > 0 /\ pc[x] = "run"
Spinning(x) == pc[x] \in {"spin", "spin_off"}

\* One context at a time is inside, whatever CPU or level it is of; the lock is
\* its own and counts all its calls, and interrupts are off if the outermost
\* turned them off; a background that has undone its calls has them on;
\* and an interrupt routine never spins for a lock that the background it has
\* interrupted would have to give back.
HeldByOne ==
    /\ \A x, y \in Ctx : Inside(x) /\ Inside(y) => x = y
    /\ \A x \in Ctx : Inside(x) => /\ spin_lock_mem /\ taskp = Current(x)
                                   /\ nest = held[x]
                                   /\ IntsOff(outer[x]) => ~ints[x[1]]
    /\ \A c \in Cpu : held[<<c, "base">>] = 0 => ints[c] = (level[c] = "base")
    /\ \A c \in Cpu : level[c] = "isr" /\ Spinning(<<c, "isr">>) =>
           held[<<c, "base">>] = 0 \/ Spinning(<<c, "base">>)
=============================================================================
