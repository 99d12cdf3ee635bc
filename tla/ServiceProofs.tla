---------------------------- MODULE ServiceProofs ----------------------------
(***************************************************************************)
(* Three of the parts that run side by side in MCServices.                 *)
(*                                                                         *)
(* A spin lock that is used as Disciplines say, and tried only by those    *)
(* that do not have it, is held by one context at a time, for every number *)
(* of CPUs and every depth of nesting.                                     *)
(*                                                                         *)
(* The counts of the opens of a FIFO are the files that have it open, for  *)
(* every number of files and opens that are interrupted; the counter that  *)
(* a file waits for never falls behind what the file has read of it.       *)
(*                                                                         *)
(* No message block is freed twice, too early or never, for every number   *)
(* of tasks and every pool that db_ref can count.                          *)
(***************************************************************************)
EXTENDS MCServices, FiniteSetTheorems, TLAPS

-----------------------------------------------------------------------------
(* The spin lock                                                           *)

TypeOK ==
    /\ uses \in Disciplines
    /\ spin_lock_mem \in BOOLEAN /\ taskp \in Cpu \cup {NoTask} /\ nest \in Nat
    /\ ints \in [Cpu -> BOOLEAN] /\ level \in [Cpu -> Level]
    /\ pc \in [Ctx -> {"run", "spin", "spin_off", "own", "nest", "try_nest",
                       "try_own", "dec", "last", "clear", "release"}]
    /\ held \in [Ctx -> Nat] /\ outer \in [Ctx -> Kind]
    /\ flags \in [Ctx -> BOOLEAN]

\* The contexts that have the kernel's lock.
Owns(x) == \/ pc[x] \in {"own", "nest", "try_nest", "try_own", "dec", "last",
                         "clear", "release"}
           \/ pc[x] = "run" /\ held[x] > 0

\* What the lock says of its owner, step by step.
OneOwner == \A x, y \in Ctx : Owns(x) /\ Owns(y) => x = y

Recorded ==
    \A x \in Ctx : Owns(x) =>
        /\ spin_lock_mem
        /\ taskp = IF pc[x] \in {"own", "try_nest", "try_own", "release"}
                   THEN NoTask ELSE Current(x)
        /\ nest = CASE pc[x] \in {"run", "dec"}  -> held[x]
                    [] pc[x] \in {"nest", "last"} -> held[x] - 1
                    [] pc[x] = "try_own"          -> 1
                    [] OTHER                      -> 0
        /\ pc[x] \in {"own", "try_nest", "try_own", "clear", "release"} => held[x] = 1
        /\ pc[x] \in {"nest", "dec", "last"} => held[x] > 0

Unrecorded == (\A x \in Ctx : ~Owns(x)) => taskp = NoTask /\ nest = 0

\* What each level of a CPU may be doing.
Waiters == \A x \in Ctx : Spinning(x) => held[x] = 1

Levels ==
    \A c \in Cpu :
        /\ level[c] = "base" => pc[<<c, "isr">>] = "run" /\ held[<<c, "isr">>] = 0
        /\ level[c] = "isr" => ~ints[c] /\ uses.isr # {}
        /\ level[c] = "isr" => ~Owns(<<c, "base">>) /\ pc[<<c, "base">>] # "spin_off"

Kinds ==
    \A x \in Ctx :
        /\ Spinning(x) \/ Owns(x) => outer[x] \in uses[x[2]]
        /\ pc[x] = "spin_off" => IntsOff(outer[x])
        /\ (pc[x] = "spin_off" \/ Owns(x)) /\ outer[x] = "irqsave" =>
               flags[x] = (x[2] = "base")

Ints ==
    \A c \in Cpu : level[c] = "base" =>
        ints[c] = ~( /\ Owns(<<c, "base">>) \/ pc[<<c, "base">>] = "spin_off"
                     /\ IntsOff(outer[<<c, "base">>]) )

IInv == TypeOK /\ OneOwner /\ Recorded /\ Unrecorded /\ Waiters /\ Levels /\ Kinds /\ Ints

-----------------------------------------------------------------------------
(* Every step keeps IInv                                                   *)

\* What a context does at the level its CPU is at leaves the other level of the
\* CPU as it was.
LEMMA LevelsFrame ==
  ASSUME IInv, NEW x \in Ctx, level[x[1]] = x[2], UNCHANGED <<uses, ints, level>>,
         \A y \in Ctx : y # x => pc'[y] = pc[y] /\ held'[y] = held[y]
  PROVE  Levels'
<1> SUFFICES ASSUME NEW d \in Cpu
             PROVE  /\ level[d] = "base" => /\ pc'[<<d, "isr">>] = "run"
                                            /\ held'[<<d, "isr">>] = 0
                    /\ level[d] = "isr" => ~ints[d] /\ uses.isr # {}
                    /\ level[d] = "isr" => /\ ~Owns(<<d, "base">>)'
                                           /\ pc'[<<d, "base">>] # "spin_off"
  BY DEF Levels
<1>1. <<d, "base">> \in Ctx /\ <<d, "isr">> \in Ctx
  BY DEF Ctx, Level
<1>2. CASE level[d] = "base"
  <2>1. x # <<d, "isr">>
    BY <1>2
  <2> QED
    BY <1>1, <1>2, <2>1 DEF IInv, Levels
<1>3. CASE level[d] = "isr"
  <2>1. x # <<d, "base">>
    BY <1>3
  <2> QED
    BY <1>1, <1>3, <2>1 DEF IInv, Levels, Owns
<1> QED
  BY <1>2, <1>3

\* A context that finds its CPU in taskp owns the lock.
LEMMA TaskOwns ==
  ASSUME IInv, NEW x \in Ctx, level[x[1]] = x[2], taskp = x[1]
  PROVE  Owns(x)
<1>1. taskp # NoTask
  BY LockAssumption DEF Ctx
<1>2. PICK y \in Ctx : Owns(y)
  BY <1>1 DEF IInv, Unrecorded
<1>3. y[1] = x[1]
  BY <1>1, <1>2 DEF IInv, Recorded, Current
<1>4. /\ x = <<x[1], x[2]>> /\ y = <<x[1], y[2]>> /\ x[1] \in Cpu
      /\ x[2] \in Level /\ y[2] \in Level
  BY <1>3 DEF Ctx
<1>5. CASE x[2] = "base" /\ y[2] = "isr"
  BY <1>2, <1>4, <1>5 DEF IInv, Levels, Owns
<1>6. CASE x[2] = "isr" /\ y[2] = "base"
  BY <1>2, <1>4, <1>6 DEF IInv, Levels
<1> QED
  BY <1>2, <1>4, <1>5, <1>6 DEF Level

LEMMA LockKeeps ==
  ASSUME IInv, NestedTry = FALSE, NEW x \in Ctx, NEW k \in Kind, Lock(x, k)
  PROVE  IInv'
<1>0. TypeOK
  BY DEF IInv
<1>p. \A c1 \in Cpu, l1 \in Level : <<c1, l1>> \in Ctx
  BY DEF Ctx
<1>q. /\ x[1] \in Cpu /\ x[2] \in Level
      /\ \A c1 \in Cpu, l1 \in Level : x = <<c1, l1>> <=> x[1] = c1 /\ x[2] = l1
  BY DEF Ctx
<1>1. TypeOK'
    BY <1>0 DEF IInv, TypeOK, Kind, Lock, Begin, At, Goto, Current, lock, cpu
<1>2. OneOwner'
    BY LockAssumption DEF IInv, TypeOK, OneOwner, Recorded, Unrecorded, Owns, Current,
     Levels, Ctx, Level, Lock, Begin, At, Goto, lock, cpu
<1>3. Recorded'
    BY LockAssumption DEF IInv, TypeOK, OneOwner, Recorded, Unrecorded, Waiters,
     Spinning, Owns, Current, Levels, Ctx, Level, Lock, Begin, At, Goto, lock, cpu
<1>4. Unrecorded'
    BY LockAssumption DEF IInv, TypeOK, Recorded, Unrecorded, Owns, Lock, Begin, At,
     Goto, Current, lock, cpu
<1>5. Waiters'
    BY LockAssumption DEF IInv, TypeOK, Waiters, Spinning, Recorded, Owns, Lock,
     Begin, At, Goto, Current, lock, cpu
<1>6. Levels'
  <2>1. level[x[1]] = x[2] /\ UNCHANGED <<uses, ints, level>>
    BY DEF Lock, At, cpu
  <2>2. \A y \in Ctx : y # x => pc'[y] = pc[y] /\ held'[y] = held[y]
    BY <1>0 DEF TypeOK, Lock, Begin, Goto, call
  <2> QED
    BY <2>1, <2>2, LevelsFrame
<1>7. Kinds'
  <2>0. level[x[1]] = x[2]
    BY DEF Lock, At
  <2>1. /\ held' = [held EXCEPT ![x] = @ + 1] /\ flags' = flags /\ uses' = uses
        /\ outer' = IF held[x] = 0 THEN [outer EXCEPT ![x] = k] ELSE outer
    BY DEF Lock, Begin
  <2>2. pc[x] = "run" /\ k \in uses[x[2]] /\ held[x] \in Nat
        /\ \/ pc' = [pc EXCEPT ![x] = "nest"] /\ taskp = x[1]
           \/ pc' = [pc EXCEPT ![x] = "spin"] /\ taskp # x[1]
    BY <1>0 DEF TypeOK, Lock, At, Goto, Current
  <2>3. ASSUME taskp = x[1] PROVE held[x] > 0
    BY <2>0, <2>2, <2>3, TaskOwns DEF Owns
  <2>4. held[x] > 0 => Owns(x) /\ taskp = x[1]
    BY <2>2 DEF IInv, Owns, Recorded, Current
  <2> SUFFICES ASSUME NEW y \in Ctx
               PROVE  /\ (Spinning(y) \/ Owns(y))' => outer'[y] \in uses[y[2]]
                      /\ pc'[y] = "spin_off" => IntsOff(outer'[y])
                      /\ (pc'[y] = "spin_off" \/ Owns(y)') /\ outer'[y] = "irqsave" =>
                             flags[y] = (y[2] = "base")
    BY <2>1 DEF Kinds
  <2>5. CASE y # x
    <3>1. pc'[y] = pc[y] /\ held'[y] = held[y] /\ outer'[y] = outer[y]
      BY <1>0, <2>1, <2>2, <2>5 DEF TypeOK
    <3> QED
      BY <3>1 DEF IInv, Kinds, Spinning, Owns
  <2>6. CASE y = x /\ held[x] > 0
    <3>1. pc'[y] = "nest" /\ outer'[y] = outer[y] /\ Owns(y)
      BY <1>0, <2>1, <2>2, <2>4, <2>6 DEF TypeOK
    <3> QED
      BY <3>1 DEF IInv, Kinds, Spinning
  <2>7. CASE y = x /\ held[x] = 0
    <3>1. pc'[y] = "spin" /\ outer'[y] = k
      BY <1>0, <2>1, <2>2, <2>3, <2>7 DEF TypeOK
    <3> QED
      BY <2>2, <2>7, <3>1 DEF Spinning, Owns
  <2> QED
    BY <2>2, <2>5, <2>6, <2>7
<1>8. Ints'
    BY LockAssumption DEF IInv, TypeOK, OneOwner, Recorded, Unrecorded, Waiters,
     Levels, Kinds, Ints, Owns, Spinning, Current, IntsOff, Disciplines, Ctx, Level,
     Kind, Lock, Begin, At, Goto, lock, cpu
<1> QED  BY <1>1, <1>2, <1>3, <1>4, <1>5, <1>6, <1>7, <1>8 DEF IInv

LEMMA SpinIrqKeeps ==
  ASSUME IInv, NestedTry = FALSE, NEW x \in Ctx, SpinIrq(x)
  PROVE  IInv'
<1>0. TypeOK
  BY DEF IInv
<1>p. \A c1 \in Cpu, l1 \in Level : <<c1, l1>> \in Ctx
  BY DEF Ctx
<1>q. /\ x[1] \in Cpu /\ x[2] \in Level
      /\ \A c1 \in Cpu, l1 \in Level : x = <<c1, l1>> <=> x[1] = c1 /\ x[2] = l1
  BY DEF Ctx
<1>1. TypeOK'
    BY <1>0 DEF IInv, TypeOK, Kind, Ctx, Level, SpinIrq, At, Goto, lock
<1>2. OneOwner'
    BY DEF IInv, TypeOK, OneOwner, Owns, SpinIrq, At, Goto, lock
<1>3. Recorded'
    BY DEF IInv, TypeOK, OneOwner, Recorded, Owns, Current, SpinIrq, At, Goto, lock
<1>4. Unrecorded'
    BY DEF IInv, TypeOK, Unrecorded, Owns, SpinIrq, At, Goto, lock
<1>5. Waiters'
    BY DEF IInv, TypeOK, Waiters, Spinning, SpinIrq, At, Goto, lock
<1>6. Levels'
  <2>1. uses' = uses /\ level' = level /\ held' = held
    BY DEF SpinIrq
  <2>2. \A y \in Ctx : y # x => pc'[y] = pc[y]
    BY <1>0 DEF TypeOK, SpinIrq, Goto
  <2>3. \A d \in Cpu : ints'[d] => ints[d]
    BY <1>0, <1>q DEF TypeOK, SpinIrq
  <2>4. level[x[1]] = x[2]
    BY DEF SpinIrq, At
  <2> SUFFICES ASSUME NEW d \in Cpu
               PROVE  /\ level[d] = "base" => pc'[<<d, "isr">>] = "run" /\ held[<<d, "isr">>] = 0
                      /\ level[d] = "isr" => ~ints'[d] /\ uses.isr # {}
                      /\ level[d] = "isr" => ~Owns(<<d, "base">>)' /\ pc'[<<d, "base">>] # "spin_off"
    BY <2>1 DEF Levels
  <2>5. ASSUME level[d] = "base" PROVE pc'[<<d, "isr">>] = "run" /\ held[<<d, "isr">>] = 0
    <3>1. x # <<d, "isr">>
      BY <2>4, <2>5
    <3>2. pc'[<<d, "isr">>] = pc[<<d, "isr">>]
      BY <1>p, <2>2, <3>1 DEF Level
    <3> QED
      BY <2>5, <3>2 DEF IInv, Levels
  <2>6. ASSUME level[d] = "isr"
        PROVE  /\ ~ints'[d] /\ uses.isr # {}
               /\ ~Owns(<<d, "base">>)' /\ pc'[<<d, "base">>] # "spin_off"
    <3>1. x # <<d, "base">>
      BY <2>4, <2>6
    <3>2. pc'[<<d, "base">>] = pc[<<d, "base">>]
      BY <1>p, <2>2, <3>1 DEF Level
    <3> QED
      BY <2>1, <2>3, <2>6, <3>2 DEF IInv, Levels, Owns
  <2> QED
    BY <2>5, <2>6
<1>7. Kinds'
  <2>1. ints[x[1]] = (x[2] = "base")
    <3>1. CASE x[2] = "base"
      <4>1. x = <<x[1], "base">> /\ level[x[1]] = "base" /\ pc[x] = "spin"
        BY <1>q, <3>1 DEF SpinIrq, At, Level
      <4>  QED  BY <1>q, <4>1, <3>1 DEF IInv, Ints, Owns
    <3>2. CASE x[2] = "isr"
      BY <1>0, <1>q, <3>2 DEF IInv, TypeOK, Levels, SpinIrq, At
    <3>  QED  BY <1>q, <3>1, <3>2 DEF Level
  <2>2. flags'[x] = IF outer[x] = "irqsave" THEN x[2] = "base" ELSE flags[x]
    BY <1>0, <2>1 DEF TypeOK, SpinIrq
  <2>3. \A y \in Ctx : y # x => flags'[y] = flags[y] /\ pc'[y] = pc[y]
    BY <1>0 DEF TypeOK, SpinIrq, Goto
  <2>4. pc'[x] = "spin_off" /\ pc[x] = "spin" /\ IntsOff(outer[x])
    BY <1>0 DEF TypeOK, SpinIrq, At, Goto
  <2>5. uses' = uses /\ held' = held /\ outer' = outer
    BY DEF SpinIrq
  <2>  SUFFICES ASSUME NEW y \in Ctx
                PROVE  /\ (Spinning(y) \/ Owns(y))' => outer[y] \in uses[y[2]]
                       /\ pc'[y] = "spin_off" => IntsOff(outer[y])
                       /\ (pc'[y] = "spin_off" \/ Owns(y)') /\ outer[y] = "irqsave" =>
                              flags'[y] = (y[2] = "base")
    BY <2>5 DEF Kinds
  <2>6. CASE y = x
    BY <2>2, <2>4, <2>6 DEF IInv, Kinds, Spinning
  <2>7. CASE y # x
    BY <2>3, <2>5, <2>7 DEF IInv, Kinds, Spinning, Owns
  <2>  QED  BY <2>6, <2>7
<1>8. Ints'
  <2>1. level' = level /\ held' = held /\ outer' = outer
    BY DEF SpinIrq
  <2>2. \A y \in Ctx : y # x => pc'[y] = pc[y]
    BY <1>0 DEF TypeOK, SpinIrq, Goto
  <2>3. \A d \in Cpu : d # x[1] => ints'[d] = ints[d]
    BY <1>0, <1>q DEF TypeOK, SpinIrq
  <2>4. /\ level[x[1]] = x[2] /\ IntsOff(outer[x])
        /\ ints'[x[1]] = FALSE /\ pc'[x] = "spin_off"
    BY <1>0, <1>q DEF TypeOK, SpinIrq, At, Goto
  <2> SUFFICES ASSUME NEW d \in Cpu, level[d] = "base"
               PROVE  ints'[d] = ~( /\ Owns(<<d, "base">>)' \/ pc'[<<d, "base">>] = "spin_off"
                                    /\ IntsOff(outer[<<d, "base">>]) )
    BY <2>1 DEF Ints
  <2>5. CASE x[1] = d
    <3>1. x = <<d, "base">>
      BY <1>q, <2>4, <2>5
    <3> QED
      BY <2>4, <2>5, <3>1
  <2>6. CASE x[1] # d
    <3>1. pc'[<<d, "base">>] = pc[<<d, "base">>]
      BY <1>p, <1>q, <2>2, <2>6 DEF Level
    <3>2. ints'[d] = ints[d]
      BY <2>3, <2>6
    <3> QED
      BY <2>1, <3>1, <3>2 DEF IInv, Ints, Owns
  <2> QED
    BY <2>5, <2>6
<1> QED  BY <1>1, <1>2, <1>3, <1>4, <1>5, <1>6, <1>7, <1>8 DEF IInv

LEMMA SpinKeeps ==
  ASSUME IInv, NestedTry = FALSE, NEW x \in Ctx, Spin(x)
  PROVE  IInv'
<1>0. TypeOK
  BY DEF IInv
<1>p. \A c1 \in Cpu, l1 \in Level : <<c1, l1>> \in Ctx
  BY DEF Ctx
<1>q. /\ x[1] \in Cpu /\ x[2] \in Level
      /\ \A c1 \in Cpu, l1 \in Level : x = <<c1, l1>> <=> x[1] = c1 /\ x[2] = l1
  BY DEF Ctx
<1>1. TypeOK'
    BY <1>0 DEF IInv, TypeOK, Kind, Spin, At, Goto, cpu, call
<1>2. OneOwner'
    BY LockAssumption DEF IInv, TypeOK, OneOwner, Recorded, Owns, Current, Spin, At,
     Goto, cpu, call
<1>3. Recorded'
    BY LockAssumption DEF IInv, TypeOK, OneOwner, Recorded, Unrecorded, Waiters,
     Spinning, Owns, Current, Spin, At, Goto, cpu, call
<1>4. Unrecorded'
    BY DEF IInv, TypeOK, Unrecorded, Owns, Spin, At, Goto, cpu, call
<1>5. Waiters'
    BY DEF IInv, TypeOK, Waiters, Spinning, Spin, At, Goto, cpu, call
<1>6. Levels'
    BY <1>0, <1>p, <1>q DEF TypeOK, IInv, Levels, Ints, Owns, IntsOff, Level, Spin,
     At, Goto, cpu, call
<1>7. Kinds'
    BY LockAssumption DEF IInv, TypeOK, Kinds, Spinning, Owns, IntsOff, Spin, At,
     Goto, cpu, call
<1>8. Ints'
    BY <1>0, <1>p, <1>q DEF TypeOK, IInv, Levels, Ints, Owns, IntsOff, Level, Spin,
     At, Goto, cpu, call
<1> QED  BY <1>1, <1>2, <1>3, <1>4, <1>5, <1>6, <1>7, <1>8 DEF IInv

LEMMA OwnKeeps ==
  ASSUME IInv, NestedTry = FALSE, NEW x \in Ctx, Own(x)
  PROVE  IInv'
<1>0. TypeOK
  BY DEF IInv
<1>p. \A c1 \in Cpu, l1 \in Level : <<c1, l1>> \in Ctx
  BY DEF Ctx
<1>q. /\ x[1] \in Cpu /\ x[2] \in Level
      /\ \A c1 \in Cpu, l1 \in Level : x = <<c1, l1>> <=> x[1] = c1 /\ x[2] = l1
  BY DEF Ctx
<1>1. TypeOK'
    BY <1>0 DEF IInv, TypeOK, Kind, Ctx, Level, Own, OwnerIs, At, Goto, Current, cpu,
     call
<1>2. OneOwner'
    BY DEF IInv, TypeOK, OneOwner, Owns, Own, OwnerIs, At, Goto, Current, cpu, call
<1>3. Recorded'
    BY DEF IInv, TypeOK, OneOwner, Recorded, Owns, Current, Own, OwnerIs, At, Goto,
     cpu, call
<1>4. Unrecorded'
    BY DEF IInv, TypeOK, Unrecorded, Owns, Own, OwnerIs, At, Goto, Current, cpu, call
<1>5. Waiters'
    BY DEF IInv, TypeOK, Waiters, Spinning, Own, OwnerIs, At, Goto, Current, cpu, call
<1>6. Levels'
    BY <1>0, <1>p, <1>q DEF TypeOK, IInv, Levels, Ints, Owns, IntsOff, Level, Own,
     OwnerIs, At, Goto, Current, cpu, call
<1>7. Kinds'
    BY DEF IInv, TypeOK, Kinds, Spinning, Owns, Own, OwnerIs, At, Goto, Current, cpu,
     call
<1>8. Ints'
    BY LockAssumption DEF IInv, TypeOK, OneOwner, Recorded, Unrecorded, Waiters,
     Levels, Kinds, Ints, Owns, Spinning, Current, IntsOff, Disciplines, Ctx, Level,
     Kind, Own, OwnerIs, At, Goto, cpu, call
<1> QED  BY <1>1, <1>2, <1>3, <1>4, <1>5, <1>6, <1>7, <1>8 DEF IInv

LEMMA NestKeeps ==
  ASSUME IInv, NestedTry = FALSE, NEW x \in Ctx, Nest(x)
  PROVE  IInv'
<1>0. TypeOK
  BY DEF IInv
<1>p. \A c1 \in Cpu, l1 \in Level : <<c1, l1>> \in Ctx
  BY DEF Ctx
<1>q. /\ x[1] \in Cpu /\ x[2] \in Level
      /\ \A c1 \in Cpu, l1 \in Level : x = <<c1, l1>> <=> x[1] = c1 /\ x[2] = l1
  BY DEF Ctx
<1>1. TypeOK'
    BY <1>0 DEF IInv, TypeOK, Kind, Nest, At, Goto, cpu, call
<1>2. OneOwner'
    BY DEF IInv, TypeOK, OneOwner, Owns, Nest, At, Goto, cpu, call
<1>3. Recorded'
    BY DEF IInv, TypeOK, OneOwner, Recorded, Owns, Current, Nest, At, Goto, cpu, call
<1>4. Unrecorded'
    BY LockAssumption DEF IInv, TypeOK, Recorded, Unrecorded, Owns, Nest, At, Goto,
     cpu, call
<1>5. Waiters'
    BY DEF IInv, TypeOK, Waiters, Spinning, Nest, At, Goto, cpu, call
<1>6. Levels'
  <2>1. level[x[1]] = x[2] /\ UNCHANGED <<uses, ints, level>>
    BY DEF Nest, At, cpu
  <2>2. \A y \in Ctx : y # x => pc'[y] = pc[y] /\ held'[y] = held[y]
    BY <1>0 DEF TypeOK, Nest, Goto, call
  <2> QED
    BY <2>1, <2>2, LevelsFrame
<1>7. Kinds'
    BY DEF IInv, TypeOK, Kinds, Spinning, Owns, Nest, At, Goto, cpu, call
<1>8. Ints'
    BY LockAssumption DEF IInv, TypeOK, OneOwner, Recorded, Unrecorded, Waiters,
     Levels, Kinds, Ints, Owns, Spinning, Current, IntsOff, Disciplines, Ctx, Level,
     Kind, Nest, At, Goto, cpu, call
<1> QED  BY <1>1, <1>2, <1>3, <1>4, <1>5, <1>6, <1>7, <1>8 DEF IInv

LEMMA TryKeeps ==
  ASSUME IInv, NestedTry = FALSE, NEW x \in Ctx, Try(x)
  PROVE  IInv'
<1>0. TypeOK
  BY DEF IInv
<1>p. \A c1 \in Cpu, l1 \in Level : <<c1, l1>> \in Ctx
  BY DEF Ctx
<1>q. /\ x[1] \in Cpu /\ x[2] \in Level
      /\ \A c1 \in Cpu, l1 \in Level : x = <<c1, l1>> <=> x[1] = c1 /\ x[2] = l1
  BY DEF Ctx
<1>1. TypeOK'
  <2>1. held' \in [Ctx -> Nat] /\ outer' \in [Ctx -> Kind]
    BY <1>0 DEF TypeOK, Try, Begin, Kind
  <2>2. pc' \in [Ctx -> {"run", "spin", "spin_off", "own", "nest", "try_nest",
                         "try_own", "dec", "last", "clear", "release"}]
    BY <1>0 DEF TypeOK, Try, Goto
  <2>  QED  BY <1>0, <2>1, <2>2 DEF TypeOK, Try, cpu
<1>2. OneOwner'
    BY LockAssumption DEF IInv, TypeOK, OneOwner, Recorded, Unrecorded, Owns, Current,
     Levels, Ctx, Level, Try, Begin, At, Goto, cpu
<1>3. Recorded'
    BY LockAssumption DEF IInv, TypeOK, OneOwner, Recorded, Unrecorded, Waiters,
     Spinning, Owns, Current, Levels, Ctx, Level, Try, Begin, At, Goto, cpu
<1>4. Unrecorded'
    BY DEF IInv, TypeOK, Unrecorded, Owns, Try, Begin, At, Goto, Current, cpu
<1>5. Waiters'
    BY DEF IInv, TypeOK, Waiters, Spinning, Try, Begin, At, Goto, Current, cpu
<1>6. Levels'
  <2>1. level[x[1]] = x[2] /\ UNCHANGED <<uses, ints, level>>
    BY DEF Try, At, cpu
  <2>2. \A y \in Ctx : y # x => pc'[y] = pc[y] /\ held'[y] = held[y]
    BY <1>0 DEF TypeOK, Try, Begin, Goto, call
  <2> QED
    BY <2>1, <2>2, LevelsFrame
<1>7. Kinds'
    BY DEF IInv, TypeOK, Kinds, Spinning, Owns, Try, Begin, At, Goto, Current, cpu
<1>8. Ints'
    BY LockAssumption DEF IInv, TypeOK, OneOwner, Recorded, Unrecorded, Waiters,
     Levels, Kinds, Ints, Owns, Spinning, Current, IntsOff, Disciplines, Ctx, Level,
     Kind, Try, Begin, At, Goto, cpu
<1> QED  BY <1>1, <1>2, <1>3, <1>4, <1>5, <1>6, <1>7, <1>8 DEF IInv

LEMMA TryNestKeeps ==
  ASSUME IInv, NestedTry = FALSE, NEW x \in Ctx, TryNest(x)
  PROVE  IInv'
<1>0. TypeOK
  BY DEF IInv
<1>p. \A c1 \in Cpu, l1 \in Level : <<c1, l1>> \in Ctx
  BY DEF Ctx
<1>q. /\ x[1] \in Cpu /\ x[2] \in Level
      /\ \A c1 \in Cpu, l1 \in Level : x = <<c1, l1>> <=> x[1] = c1 /\ x[2] = l1
  BY DEF Ctx
<1>1. TypeOK'
    BY <1>0 DEF IInv, TypeOK, Kind, TryNest, At, Goto, cpu, call
<1>2. OneOwner'
    BY DEF IInv, TypeOK, OneOwner, Owns, TryNest, At, Goto, cpu, call
<1>3. Recorded'
    BY DEF IInv, TypeOK, OneOwner, Recorded, Owns, Current, TryNest, At, Goto, cpu,
     call
<1>4. Unrecorded'
    BY DEF IInv, TypeOK, Unrecorded, Owns, TryNest, At, Goto, cpu, call
<1>5. Waiters'
    BY LockAssumption DEF IInv, TypeOK, Waiters, Spinning, Recorded, Owns, TryNest,
     At, Goto, cpu, call
<1>6. Levels'
    BY <1>0, <1>p, <1>q DEF TypeOK, IInv, Levels, Ints, Owns, IntsOff, Level, TryNest,
     At, Goto, cpu, call
<1>7. Kinds'
    BY DEF IInv, TypeOK, Kinds, Spinning, Owns, TryNest, At, Goto, cpu, call
<1>8. Ints'
    BY LockAssumption DEF IInv, TypeOK, OneOwner, Recorded, Unrecorded, Waiters,
     Levels, Kinds, Ints, Owns, Spinning, Current, IntsOff, Disciplines, Ctx, Level,
     Kind, TryNest, At, Goto, cpu, call
<1> QED  BY <1>1, <1>2, <1>3, <1>4, <1>5, <1>6, <1>7, <1>8 DEF IInv

LEMMA TryOwnKeeps ==
  ASSUME IInv, NestedTry = FALSE, NEW x \in Ctx, TryOwn(x)
  PROVE  IInv'
<1>0. TypeOK
  BY DEF IInv
<1>p. \A c1 \in Cpu, l1 \in Level : <<c1, l1>> \in Ctx
  BY DEF Ctx
<1>q. /\ x[1] \in Cpu /\ x[2] \in Level
      /\ \A c1 \in Cpu, l1 \in Level : x = <<c1, l1>> <=> x[1] = c1 /\ x[2] = l1
  BY DEF Ctx
<1>1. TypeOK'
    BY <1>0 DEF IInv, TypeOK, Kind, Ctx, Level, TryOwn, At, Goto, Current, cpu, call
<1>2. OneOwner'
    BY DEF IInv, TypeOK, OneOwner, Owns, TryOwn, At, Goto, Current, cpu, call
<1>3. Recorded'
    BY DEF IInv, TypeOK, OneOwner, Recorded, Owns, Current, TryOwn, At, Goto, cpu,
     call
<1>4. Unrecorded'
    BY LockAssumption DEF IInv, TypeOK, Recorded, Unrecorded, Owns, TryOwn, At, Goto,
     Current, cpu, call
<1>5. Waiters'
    BY DEF IInv, TypeOK, Waiters, Spinning, TryOwn, At, Goto, Current, cpu, call
<1>6. Levels'
  <2>1. level[x[1]] = x[2] /\ UNCHANGED <<uses, ints, level>>
    BY DEF TryOwn, At, cpu
  <2>2. \A y \in Ctx : y # x => pc'[y] = pc[y] /\ held'[y] = held[y]
    BY <1>0 DEF TypeOK, TryOwn, Goto, call
  <2> QED
    BY <2>1, <2>2, LevelsFrame
<1>7. Kinds'
    BY DEF IInv, TypeOK, Kinds, Spinning, Owns, TryOwn, At, Goto, Current, cpu, call
<1>8. Ints'
    BY LockAssumption DEF IInv, TypeOK, OneOwner, Recorded, Unrecorded, Waiters,
     Levels, Kinds, Ints, Owns, Spinning, Current, IntsOff, Disciplines, Ctx, Level,
     Kind, TryOwn, At, Goto, cpu, call
<1> QED  BY <1>1, <1>2, <1>3, <1>4, <1>5, <1>6, <1>7, <1>8 DEF IInv

LEMMA UnlockKeeps ==
  ASSUME IInv, NestedTry = FALSE, NEW x \in Ctx, Unlock(x)
  PROVE  IInv'
<1>0. TypeOK
  BY DEF IInv
<1>p. \A c1 \in Cpu, l1 \in Level : <<c1, l1>> \in Ctx
  BY DEF Ctx
<1>q. /\ x[1] \in Cpu /\ x[2] \in Level
      /\ \A c1 \in Cpu, l1 \in Level : x = <<c1, l1>> <=> x[1] = c1 /\ x[2] = l1
  BY DEF Ctx
<1>1. TypeOK'
    BY <1>0 DEF IInv, TypeOK, Kind, Unlock, Undone, At, Goto, lock, cpu
<1>2. OneOwner'
    BY DEF IInv, TypeOK, OneOwner, Owns, Unlock, Undone, At, Goto, lock, cpu
<1>3. Recorded'
    BY DEF IInv, TypeOK, OneOwner, Recorded, Owns, Current, Unlock, Undone, At, Goto,
     lock, cpu
<1>4. Unrecorded'
    BY LockAssumption DEF IInv, TypeOK, Recorded, Unrecorded, Owns, Unlock, Undone,
     At, Goto, lock, cpu
<1>5. Waiters'
    BY DEF IInv, TypeOK, Waiters, Spinning, Unlock, Undone, At, Goto, lock, cpu
<1>6. Levels'
  <2> SUFFICES ASSUME NEW d \in Cpu
               PROVE  /\ level'[d] = "base" => /\ pc'[<<d, "isr">>] = "run"
                                               /\ held'[<<d, "isr">>] = 0
                      /\ level'[d] = "isr" => ~ints'[d] /\ uses'.isr # {}
                      /\ level'[d] = "isr" => /\ ~Owns(<<d, "base">>)'
                                              /\ pc'[<<d, "base">>] # "spin_off"
    BY DEF Levels
  <2>1. level' = level /\ ints' = ints /\ uses' = uses
    BY DEF Unlock, lock, cpu
  <2>2. CASE x[1] # d
    <3>1. pc'[<<d, "isr">>] = pc[<<d, "isr">>] /\ held'[<<d, "isr">>] = held[<<d, "isr">>]
      BY <1>0, <1>p, <1>q, <2>2 DEF TypeOK, Unlock, Level, Goto, Undone
    <3>2. pc'[<<d, "base">>] = pc[<<d, "base">>] /\ held'[<<d, "base">>] = held[<<d, "base">>]
      BY <1>0, <1>p, <1>q, <2>2 DEF TypeOK, Unlock, Level, Goto, Undone
    <3>  QED  BY <2>1, <3>1, <3>2 DEF IInv, Levels, Owns
  <2>3. CASE x = <<d, "base">>
    <3>1. level[d] = "base"
      BY <2>3 DEF Unlock, At
    <3>2. pc'[<<d, "isr">>] = pc[<<d, "isr">>] /\ held'[<<d, "isr">>] = held[<<d, "isr">>]
      BY <1>0, <1>p, <1>q, <2>3 DEF TypeOK, Unlock, Level, Goto, Undone
    <3>  QED  BY <2>1, <3>1, <3>2 DEF IInv, Levels
  <2>4. CASE x = <<d, "isr">>
    <3>1. level[d] = "isr"
      BY <2>4 DEF Unlock, At
    <3>2. pc'[<<d, "base">>] = pc[<<d, "base">>] /\ held'[<<d, "base">>] = held[<<d, "base">>]
      BY <1>0, <1>p, <1>q, <2>4 DEF TypeOK, Unlock, Level, Goto, Undone
    <3>  QED  BY <2>1, <3>1, <3>2 DEF IInv, Levels, Owns
  <2>  QED  BY <1>q, <2>2, <2>3, <2>4 DEF Level
<1>7. Kinds'
    BY DEF IInv, TypeOK, Kinds, Spinning, Owns, Unlock, Undone, At, Goto, lock, cpu
<1>8. Ints'
    BY LockAssumption DEF IInv, TypeOK, OneOwner, Recorded, Unrecorded, Waiters,
     Levels, Kinds, Ints, Owns, Spinning, Current, IntsOff, Disciplines, Ctx, Level,
     Kind, Unlock, Undone, At, Goto, lock, cpu
<1> QED  BY <1>1, <1>2, <1>3, <1>4, <1>5, <1>6, <1>7, <1>8 DEF IInv

LEMMA DecKeeps ==
  ASSUME IInv, NestedTry = FALSE, NEW x \in Ctx, Dec(x)
  PROVE  IInv'
<1>0. TypeOK
  BY DEF IInv
<1>p. \A c1 \in Cpu, l1 \in Level : <<c1, l1>> \in Ctx
  BY DEF Ctx
<1>q. /\ x[1] \in Cpu /\ x[2] \in Level
      /\ \A c1 \in Cpu, l1 \in Level : x = <<c1, l1>> <=> x[1] = c1 /\ x[2] = l1
  BY DEF Ctx
<1>1. TypeOK'
    BY <1>0 DEF TypeOK, Ctx, Kind, Level, Recorded, Owns, IInv, Disciplines, Dec, At,
     Goto, cpu, call
<1>2. OneOwner'
    BY DEF IInv, TypeOK, OneOwner, Owns, Dec, At, Goto, cpu, call
<1>3. Recorded'
    BY DEF IInv, TypeOK, OneOwner, Recorded, Owns, Current, Dec, At, Goto, cpu, call
<1>4. Unrecorded'
    BY DEF IInv, TypeOK, Unrecorded, Owns, Dec, At, Goto, cpu, call
<1>5. Waiters'
    BY DEF IInv, TypeOK, Waiters, Spinning, Dec, At, Goto, cpu, call
<1>6. Levels'
  <2>1. level[x[1]] = x[2] /\ UNCHANGED <<uses, ints, level>>
    BY DEF Dec, At, cpu
  <2>2. \A y \in Ctx : y # x => pc'[y] = pc[y] /\ held'[y] = held[y]
    BY <1>0 DEF TypeOK, Dec, Goto, call
  <2> QED
    BY <2>1, <2>2, LevelsFrame
<1>7. Kinds'
    BY DEF IInv, TypeOK, Kinds, Spinning, Owns, Dec, At, Goto, cpu, call
<1>8. Ints'
    BY LockAssumption DEF IInv, TypeOK, OneOwner, Recorded, Unrecorded, Waiters,
     Levels, Kinds, Ints, Owns, Spinning, Current, IntsOff, Disciplines, Ctx, Level,
     Kind, Dec, At, Goto, cpu, call
<1> QED  BY <1>1, <1>2, <1>3, <1>4, <1>5, <1>6, <1>7, <1>8 DEF IInv

LEMMA LastKeeps ==
  ASSUME IInv, NestedTry = FALSE, NEW x \in Ctx, Last(x)
  PROVE  IInv'
<1>0. TypeOK
  BY DEF IInv
<1>p. \A c1 \in Cpu, l1 \in Level : <<c1, l1>> \in Ctx
  BY DEF Ctx
<1>q. /\ x[1] \in Cpu /\ x[2] \in Level
      /\ \A c1 \in Cpu, l1 \in Level : x = <<c1, l1>> <=> x[1] = c1 /\ x[2] = l1
  BY DEF Ctx
<1>1. TypeOK'
    BY LockAssumption DEF IInv, TypeOK, OneOwner, Recorded, Unrecorded, Waiters,
     Levels, Kinds, Ints, Owns, Spinning, Current, IntsOff, Disciplines, Ctx, Level,
     Kind, Last, Outermost, Undone, At, Goto, lock, cpu
<1>2. OneOwner'
    BY DEF IInv, TypeOK, OneOwner, Owns, Last, Outermost, Undone, At, Goto, lock, cpu
<1>3. Recorded'
    BY DEF IInv, TypeOK, OneOwner, Recorded, Owns, Current, Last, Outermost, Undone,
     At, Goto, lock, cpu
<1>4. Unrecorded'
    BY LockAssumption DEF IInv, TypeOK, Recorded, Unrecorded, Owns, Last, Outermost,
     Undone, At, Goto, lock, cpu
<1>5. Waiters'
    BY DEF IInv, TypeOK, Waiters, Spinning, Last, Outermost, Undone, At, Goto, lock,
     cpu
<1>6. Levels'
  <2> SUFFICES ASSUME NEW d \in Cpu
               PROVE  /\ level'[d] = "base" => /\ pc'[<<d, "isr">>] = "run"
                                               /\ held'[<<d, "isr">>] = 0
                      /\ level'[d] = "isr" => ~ints'[d] /\ uses'.isr # {}
                      /\ level'[d] = "isr" => /\ ~Owns(<<d, "base">>)'
                                              /\ pc'[<<d, "base">>] # "spin_off"
    BY DEF Levels
  <2>1. level' = level /\ ints' = ints /\ uses' = uses
    BY DEF Last, lock, cpu
  <2>2. CASE x[1] # d
    <3>1. pc'[<<d, "isr">>] = pc[<<d, "isr">>] /\ held'[<<d, "isr">>] = held[<<d, "isr">>]
      BY <1>0, <1>p, <1>q, <2>2 DEF TypeOK, Last, Level, Goto, Undone
    <3>2. pc'[<<d, "base">>] = pc[<<d, "base">>] /\ held'[<<d, "base">>] = held[<<d, "base">>]
      BY <1>0, <1>p, <1>q, <2>2 DEF TypeOK, Last, Level, Goto, Undone
    <3>  QED  BY <2>1, <3>1, <3>2 DEF IInv, Levels, Owns
  <2>3. CASE x = <<d, "base">>
    <3>1. level[d] = "base"
      BY <2>3 DEF Last, At
    <3>2. pc'[<<d, "isr">>] = pc[<<d, "isr">>] /\ held'[<<d, "isr">>] = held[<<d, "isr">>]
      BY <1>0, <1>p, <1>q, <2>3 DEF TypeOK, Last, Level, Goto, Undone
    <3>  QED  BY <2>1, <3>1, <3>2 DEF IInv, Levels
  <2>4. CASE x = <<d, "isr">>
    <3>1. level[d] = "isr"
      BY <2>4 DEF Last, At
    <3>2. pc'[<<d, "base">>] = pc[<<d, "base">>] /\ held'[<<d, "base">>] = held[<<d, "base">>]
      BY <1>0, <1>p, <1>q, <2>4 DEF TypeOK, Last, Level, Goto, Undone
    <3>  QED  BY <2>1, <3>1, <3>2 DEF IInv, Levels, Owns
  <2>  QED  BY <1>q, <2>2, <2>3, <2>4 DEF Level
<1>7. Kinds'
    BY DEF IInv, TypeOK, Kinds, Spinning, Owns, Last, Outermost, Undone, At, Goto,
     lock, cpu
<1>8. Ints'
    BY LockAssumption DEF IInv, TypeOK, OneOwner, Recorded, Unrecorded, Waiters,
     Levels, Kinds, Ints, Owns, Spinning, Current, IntsOff, Disciplines, Ctx, Level,
     Kind, Last, Outermost, Undone, At, Goto, lock, cpu
<1> QED  BY <1>1, <1>2, <1>3, <1>4, <1>5, <1>6, <1>7, <1>8 DEF IInv

LEMMA ClearKeeps ==
  ASSUME IInv, NestedTry = FALSE, NEW x \in Ctx, Clear(x)
  PROVE  IInv'
<1>0. TypeOK
  BY DEF IInv
<1>p. \A c1 \in Cpu, l1 \in Level : <<c1, l1>> \in Ctx
  BY DEF Ctx
<1>q. /\ x[1] \in Cpu /\ x[2] \in Level
      /\ \A c1 \in Cpu, l1 \in Level : x = <<c1, l1>> <=> x[1] = c1 /\ x[2] = l1
  BY DEF Ctx
<1>1. TypeOK'
    BY <1>0 DEF IInv, TypeOK, Kind, Clear, Cleared, At, Goto, cpu, call
<1>2. OneOwner'
    BY DEF IInv, TypeOK, OneOwner, Owns, Clear, Cleared, At, Goto, cpu, call
<1>3. Recorded'
    BY DEF IInv, TypeOK, OneOwner, Recorded, Owns, Current, Clear, Cleared, At, Goto,
     cpu, call
<1>4. Unrecorded'
    BY DEF IInv, TypeOK, Unrecorded, Owns, Clear, Cleared, At, Goto, cpu, call
<1>5. Waiters'
    BY DEF IInv, TypeOK, Waiters, Spinning, Clear, Cleared, At, Goto, cpu, call
<1>6. Levels'
  <2>1. level[x[1]] = x[2] /\ UNCHANGED <<uses, ints, level>>
    BY DEF Clear, At, cpu
  <2>2. \A y \in Ctx : y # x => pc'[y] = pc[y] /\ held'[y] = held[y]
    BY <1>0 DEF TypeOK, Clear, Goto, call
  <2> QED
    BY <2>1, <2>2, LevelsFrame
<1>7. Kinds'
    BY DEF IInv, TypeOK, Kinds, Spinning, Owns, Clear, Cleared, At, Goto, cpu, call
<1>8. Ints'
    BY <1>0, <1>p, <1>q DEF TypeOK, IInv, Levels, Ints, Owns, IntsOff, Level, Clear,
     Cleared, At, Goto, cpu, call
<1> QED  BY <1>1, <1>2, <1>3, <1>4, <1>5, <1>6, <1>7, <1>8 DEF IInv

LEMMA ReleaseKeeps ==
  ASSUME IInv, NestedTry = FALSE, NEW x \in Ctx, Release(x)
  PROVE  IInv'
<1>0. TypeOK
  BY DEF IInv
<1>p. \A c1 \in Cpu, l1 \in Level : <<c1, l1>> \in Ctx
  BY DEF Ctx
<1>q. /\ x[1] \in Cpu /\ x[2] \in Level
      /\ \A c1 \in Cpu, l1 \in Level : x = <<c1, l1>> <=> x[1] = c1 /\ x[2] = l1
  BY DEF Ctx
<1>r. \A d \in Cpu : ints'[d] = IF d = x[1] THEN x[2] = "base" ELSE ints[d]
  <2>1. Owns(x) /\ level[x[1]] = x[2]
    BY DEF Owns, Release, At
  <2>2. outer[x] \in uses[x[2]]
    BY <2>1 DEF IInv, Kinds
  <2>3. ints' = Restored(x)
    BY DEF Release
  <2>4. \A d \in Cpu : d # x[1] => ints'[d] = ints[d]
    BY <1>0, <1>q, <2>3 DEF TypeOK, Restored
  <2>5. CASE x[2] = "base"
    <3>1. outer[x] = "irqsave" => flags[x] = TRUE
      BY <2>1, <2>5 DEF IInv, Kinds
    <3>2. x = <<x[1], "base">>
      BY <1>q, <2>5 DEF Level
    <3>3. outer[x] \notin {"irq", "irqsave"} => ints[x[1]] = TRUE
      BY <1>q, <2>1, <2>5, <3>2 DEF IInv, Ints, IntsOff
    <3>4. ints'[x[1]] = TRUE
      BY <1>0, <1>q, <2>3, <3>1, <3>3 DEF TypeOK, Restored
    <3>  QED  BY <2>4, <2>5, <3>4
  <2>6. CASE x[2] = "isr"
    <3>1. outer[x] = "irqsave" => flags[x] = FALSE
      BY <2>1, <2>6 DEF IInv, Kinds
    <3>2. outer[x] # "irq"
      BY <1>0, <2>2, <2>6 DEF TypeOK, Disciplines
    <3>3. ints[x[1]] = FALSE
      BY <1>0, <1>q, <2>1, <2>6 DEF IInv, TypeOK, Levels
    <3>4. ints'[x[1]] = FALSE
      BY <1>0, <1>q, <2>3, <3>1, <3>2, <3>3 DEF TypeOK, Restored
    <3>  QED  BY <2>4, <2>6, <3>4
  <2>  QED  BY <1>q, <2>5, <2>6 DEF Level
<1>1. TypeOK'
  <2>1. ints' \in [Cpu -> BOOLEAN]
    BY <1>0, <1>q DEF TypeOK, Release, Restored
  <2>2. held[x] = 1
    BY DEF IInv, Recorded, Owns, Release, At
  <2>3. held' \in [Ctx -> Nat]
    BY <1>0, <2>2 DEF TypeOK, Release, Undone
  <2>  QED  BY <1>0, <2>1, <2>3 DEF TypeOK, Release, Goto
<1>2. OneOwner'
    BY DEF IInv, TypeOK, OneOwner, Owns, Release, Restored, Undone, At, Goto
<1>3. Recorded'
    BY DEF IInv, TypeOK, OneOwner, Recorded, Owns, Current, Release, Restored, Undone,
     At, Goto
<1>4. Unrecorded'
    BY LockAssumption DEF IInv, TypeOK, Recorded, Unrecorded, Owns, Release, Restored,
     Undone, At, Goto
<1>5. Waiters'
    BY DEF IInv, TypeOK, Waiters, Spinning, Release, Restored, Undone, At, Goto
<1>6. Levels'
  <2> SUFFICES ASSUME NEW d \in Cpu
               PROVE  /\ level'[d] = "base" => /\ pc'[<<d, "isr">>] = "run"
                                               /\ held'[<<d, "isr">>] = 0
                      /\ level'[d] = "isr" => ~ints'[d] /\ uses'.isr # {}
                      /\ level'[d] = "isr" => /\ ~Owns(<<d, "base">>)'
                                              /\ pc'[<<d, "base">>] # "spin_off"
    BY DEF Levels
  <2>1. level' = level /\ uses' = uses
    BY DEF Release
  <2>2. CASE x[1] # d
    <3>1. pc'[<<d, "isr">>] = pc[<<d, "isr">>] /\ held'[<<d, "isr">>] = held[<<d, "isr">>]
      BY <1>0, <1>p, <1>q, <2>2 DEF TypeOK, Release, Level, Goto, Undone
    <3>2. pc'[<<d, "base">>] = pc[<<d, "base">>] /\ held'[<<d, "base">>] = held[<<d, "base">>]
      BY <1>0, <1>p, <1>q, <2>2 DEF TypeOK, Release, Level, Goto, Undone
    <3>3. ints'[d] = ints[d]
      BY <1>r, <2>2
    <3>  QED  BY <2>1, <3>1, <3>2, <3>3 DEF IInv, Levels, Owns
  <2>3. CASE x = <<d, "base">>
    <3>1. level[d] = "base"
      BY <2>3 DEF Release, At
    <3>2. pc'[<<d, "isr">>] = pc[<<d, "isr">>] /\ held'[<<d, "isr">>] = held[<<d, "isr">>]
      BY <1>0, <1>p, <1>q, <2>3 DEF TypeOK, Release, Level, Goto, Undone
    <3>  QED  BY <2>1, <3>1, <3>2 DEF IInv, Levels
  <2>4. CASE x = <<d, "isr">>
    <3>1. level[d] = "isr"
      BY <2>4 DEF Release, At
    <3>2. pc'[<<d, "base">>] = pc[<<d, "base">>] /\ held'[<<d, "base">>] = held[<<d, "base">>]
      BY <1>0, <1>p, <1>q, <2>4 DEF TypeOK, Release, Level, Goto, Undone
    <3>3. ~ints'[d]
      BY <1>r, <2>4
    <3>  QED  BY <2>1, <3>1, <3>2, <3>3 DEF IInv, Levels, Owns
  <2>  QED  BY <1>q, <2>2, <2>3, <2>4 DEF Level
<1>7. Kinds'
    BY DEF IInv, TypeOK, Kinds, Spinning, Owns, Release, Restored, Undone, At, Goto
<1>8. Ints'
  <2> SUFFICES ASSUME NEW d \in Cpu, level'[d] = "base"
               PROVE  ints'[d] = ~( /\ Owns(<<d, "base">>)' \/ pc'[<<d, "base">>] = "spin_off"
                                    /\ IntsOff(outer'[<<d, "base">>]) )
    BY DEF Ints
  <2>1. level' = level /\ outer' = outer
    BY DEF Release
  <2>2. CASE x[1] # d
    <3>1. pc'[<<d, "base">>] = pc[<<d, "base">>] /\ held'[<<d, "base">>] = held[<<d, "base">>]
      BY <1>0, <1>p, <1>q, <2>2 DEF TypeOK, Release, Level, Goto, Undone
    <3>2. ints'[d] = ints[d]
      BY <1>r, <2>2
    <3>  QED  BY <2>1, <3>1, <3>2 DEF IInv, Ints, Owns
  <2>3. CASE x = <<d, "base">>
    <3>1. pc'[x] = "run" /\ held'[x] = 0
      BY <1>0 DEF IInv, TypeOK, Recorded, Owns, Release, At, Goto, Undone
    <3>2. ints'[d] = TRUE
      BY <1>r, <2>3
    <3>3. ~Owns(<<d, "base">>)' /\ pc'[<<d, "base">>] # "spin_off"
      BY <2>3, <3>1 DEF Owns
    <3>  QED  BY <3>2, <3>3
  <2>4. x # <<d, "isr">>
    BY <2>1 DEF Release, At
  <2>  QED  BY <1>q, <2>2, <2>3, <2>4 DEF Level
<1> QED  BY <1>1, <1>2, <1>3, <1>4, <1>5, <1>6, <1>7, <1>8 DEF IInv

LEMMA InterruptKeeps ==
  ASSUME IInv, NestedTry = FALSE, NEW c \in Cpu, Interrupt(c)
  PROVE  IInv'
<1>0. TypeOK
  BY DEF IInv
<1>p. \A c1 \in Cpu, l1 \in Level : <<c1, l1>> \in Ctx
  BY DEF Ctx
<1>1. TypeOK'
    BY <1>0 DEF IInv, TypeOK, Kind, Ctx, Level, Interrupt, lock, call
<1>2. OneOwner'
    BY DEF IInv, TypeOK, OneOwner, Owns, Interrupt, lock, call
<1>3. Recorded'
    BY DEF IInv, TypeOK, OneOwner, Recorded, Owns, Current, Interrupt, lock, call
<1>4. Unrecorded'
    BY DEF IInv, TypeOK, Unrecorded, Owns, Interrupt, lock, call
<1>5. Waiters'
    BY DEF IInv, TypeOK, Waiters, Spinning, Interrupt, lock, call
<1>6. Levels'
  <2>1. uses = [base |-> {"irq", "irqsave"}, isr |-> {"plain", "irqsave"}]
    BY <1>0 DEF TypeOK, Disciplines, Interrupt
  <2>2. ~Owns(<<c, "base">>) /\ pc[<<c, "base">>] # "spin_off"
    <3> SUFFICES ASSUME Owns(<<c, "base">>) \/ pc[<<c, "base">>] = "spin_off"
                 PROVE  FALSE
      OBVIOUS
    <3>1. <<c, "base">> \in Ctx /\ <<c, "base">>[2] = "base"
      BY <1>p DEF Level
    <3>2. outer[<<c, "base">>] \in uses["base"]
      BY <3>1 DEF IInv, Kinds, Spinning
    <3>3. IntsOff(outer[<<c, "base">>])
      BY <2>1, <3>2 DEF IntsOff
    <3>  QED  BY <3>3 DEF IInv, Ints, Interrupt
  <2>  QED  BY <1>0, <1>p, <2>2 DEF IInv, TypeOK, Levels, Owns, Interrupt, lock, call
<1>7. Kinds'
    BY DEF IInv, TypeOK, Kinds, Spinning, Owns, Interrupt, lock, call
<1>8. Ints'
  <2>1. pc' = pc /\ held' = held /\ outer' = outer
    BY DEF Interrupt, lock, call
  <2>2. \A d \in Cpu : d # c => level'[d] = level[d] /\ ints'[d] = ints[d]
    BY <1>0 DEF TypeOK, Interrupt
  <2>3. level'[c] = "isr"
    BY <1>0 DEF TypeOK, Interrupt
  <2> SUFFICES ASSUME NEW d \in Cpu, level'[d] = "base"
               PROVE  ints'[d] = ~( /\ Owns(<<d, "base">>)' \/ pc'[<<d, "base">>] = "spin_off"
                                    /\ IntsOff(outer'[<<d, "base">>]) )
    BY DEF Ints
  <2>4. d # c
    BY <2>3
  <2> QED
    BY <2>1, <2>2, <2>4 DEF IInv, Ints, Owns
<1> QED  BY <1>1, <1>2, <1>3, <1>4, <1>5, <1>6, <1>7, <1>8 DEF IInv

LEMMA InterruptEndKeeps ==
  ASSUME IInv, NestedTry = FALSE, NEW c \in Cpu, InterruptEnd(c)
  PROVE  IInv'
<1>0. TypeOK
  BY DEF IInv
<1>p. \A c1 \in Cpu, l1 \in Level : <<c1, l1>> \in Ctx
  BY DEF Ctx
<1>1. TypeOK'
    BY <1>0 DEF IInv, TypeOK, Kind, Ctx, Level, InterruptEnd, lock, call
<1>2. OneOwner'
    BY DEF IInv, TypeOK, OneOwner, Owns, InterruptEnd, lock, call
<1>3. Recorded'
    BY DEF IInv, TypeOK, OneOwner, Recorded, Owns, Current, InterruptEnd, lock, call
<1>4. Unrecorded'
    BY DEF IInv, TypeOK, Unrecorded, Owns, InterruptEnd, lock, call
<1>5. Waiters'
    BY DEF IInv, TypeOK, Waiters, Spinning, InterruptEnd, lock, call
<1>6. Levels'
  <2>1. level' = [level EXCEPT ![c] = "base"] /\ ints' = [ints EXCEPT ![c] = TRUE]
        /\ pc' = pc /\ held' = held /\ uses' = uses
    BY DEF InterruptEnd, call
  <2>2. pc[<<c, "isr">>] = "run" /\ held[<<c, "isr">>] = 0
    BY DEF InterruptEnd
  <2> QED
    BY <1>0, <2>1, <2>2 DEF IInv, TypeOK, Levels, Owns
<1>7. Kinds'
    BY DEF IInv, TypeOK, Kinds, Spinning, Owns, InterruptEnd, lock, call
<1>8. Ints'
    BY <1>0, <1>p DEF TypeOK, IInv, Levels, Ints, Owns, IntsOff, Level, InterruptEnd,
     lock, call
<1> QED  BY <1>1, <1>2, <1>3, <1>4, <1>5, <1>6, <1>7, <1>8 DEF IInv

-----------------------------------------------------------------------------
(* The invariant, and what follows from it                                 *)

LEMMA InitHolds == Init => IInv
<1> SUFFICES ASSUME Init PROVE IInv
  OBVIOUS
<1>1. TypeOK
  BY DEF Init, TypeOK, Level, Kind
<1>2. \A x \in Ctx : pc[x] = "run" /\ held[x] = 0
  BY DEF Init
<1>3. \A x \in Ctx : ~Owns(x) /\ ~Spinning(x) /\ pc[x] # "spin_off"
  BY <1>2 DEF Owns, Spinning
<1>4. OneOwner /\ Recorded /\ Waiters /\ Kinds
  BY <1>3 DEF OneOwner, Recorded, Waiters, Kinds
<1>5. Unrecorded
  BY DEF Init, Unrecorded
<1>6. \A c \in Cpu : <<c, "base">> \in Ctx /\ <<c, "isr">> \in Ctx
  BY DEF Ctx, Level
<1>7. Levels
  BY <1>2, <1>6 DEF Init, Levels
<1>8. Ints
  BY <1>3, <1>6 DEF Init, Ints
<1> QED  BY <1>1, <1>4, <1>5, <1>7, <1>8 DEF IInv

LEMMA NextKeeps ==
  ASSUME IInv, NestedTry = FALSE, [Next]_vars
  PROVE  IInv'
<1>1. CASE UNCHANGED vars
  BY <1>1 DEF vars, lock, cpu, call, IInv, TypeOK, OneOwner, Recorded, Unrecorded, Waiters,
     Levels, Kinds, Ints, Owns, Spinning
<1>2. ASSUME NEW x \in Ctx, \E k \in Kind : Lock(x, k)
      PROVE  IInv'
  BY <1>2, LockKeeps
<1>3. ASSUME NEW x \in Ctx, Try(x)
      PROVE  IInv'
  BY <1>3, TryKeeps
<1>4. ASSUME NEW x \in Ctx, LockStep(x)
      PROVE  IInv'
  BY <1>4, SpinIrqKeeps, SpinKeeps, OwnKeeps, NestKeeps, TryNestKeeps, TryOwnKeeps DEF LockStep
<1>5. ASSUME NEW x \in Ctx, UnlockStep(x)
      PROVE  IInv'
  BY <1>5, UnlockKeeps, DecKeeps, LastKeeps, ClearKeeps, ReleaseKeeps DEF UnlockStep
<1>6. ASSUME NEW c \in Cpu, Interrupt(c) \/ InterruptEnd(c)
      PROVE  IInv'
  BY <1>6, InterruptKeeps, InterruptEndKeeps
<1> QED  BY <1>1, <1>2, <1>3, <1>4, <1>5, <1>6 DEF Next

LEMMA IInvHolds == IInv => HeldByOne
<1> SUFFICES ASSUME IInv PROVE HeldByOne
  OBVIOUS
<1>0. TypeOK
  BY DEF IInv
<1>p. \A c1 \in Cpu, l1 \in Level : <<c1, l1>> \in Ctx /\ <<c1, l1>>[1] = c1
  BY DEF Ctx
<1>1. \A x \in Ctx : Inside(x) => Owns(x)
  BY DEF Inside, Owns
<1>2. \A x, y \in Ctx : Inside(x) /\ Inside(y) => x = y
  BY <1>1 DEF IInv, OneOwner
<1>3. ASSUME NEW x \in Ctx, Inside(x)
      PROVE  spin_lock_mem /\ taskp = Current(x) /\ nest = held[x]
  BY <1>1, <1>3 DEF IInv, Recorded, Inside
<1>4. ASSUME NEW x \in Ctx, Inside(x), IntsOff(outer[x])
      PROVE  ~ints[x[1]]
  <2>1. PICK c \in Cpu, l \in Level : x = <<c, l>>
    BY DEF Ctx
  <2>2. CASE level[c] = "isr"
    BY <2>1, <2>2 DEF IInv, Levels
  <2>3. CASE level[c] = "base" /\ l = "base"
    BY <1>1, <1>4, <2>1, <2>3 DEF IInv, Ints
  <2>4. CASE level[c] = "base" /\ l = "isr"
    <3>1. held[x] = 0
      BY <2>1, <2>4 DEF IInv, Levels
    <3>  QED  BY <1>4, <3>1 DEF Inside
  <2>  QED  BY <1>0, <2>2, <2>3, <2>4 DEF TypeOK, Level
<1>5. ASSUME NEW c \in Cpu, held[<<c, "base">>] = 0
      PROVE  ints[c] = (level[c] = "base")
  <2>1. <<c, "base">> \in Ctx
    BY <1>p DEF Level
  <2>2. ~Owns(<<c, "base">>) /\ pc[<<c, "base">>] # "spin_off"
    BY <1>5, <2>1 DEF IInv, TypeOK, Recorded, Waiters, Spinning, Owns
  <2>3. CASE level[c] = "base"
    BY <2>2, <2>3 DEF IInv, Ints
  <2>4. CASE level[c] = "isr"
    <3>1. ~ints[c]
      BY <2>4 DEF IInv, Levels
    <3>  QED  BY <1>0, <2>4, <3>1 DEF TypeOK
  <2>  QED  BY <1>0, <2>3, <2>4 DEF TypeOK, Level
<1>6. ASSUME NEW c \in Cpu, level[c] = "isr"
      PROVE  held[<<c, "base">>] = 0 \/ Spinning(<<c, "base">>)
  <2>1. <<c, "base">> \in Ctx
    BY <1>p DEF Level
  <2>2. ~Owns(<<c, "base">>)
    BY <1>6 DEF IInv, Levels
  <2>3. /\ held[<<c, "base">>] \in Nat
        /\ pc[<<c, "base">>] \in {"run", "spin", "spin_off", "own", "nest", "try_nest",
                               "try_own", "dec", "last", "clear", "release"}
    BY <1>0, <2>1 DEF TypeOK
  <2>  QED  BY <2>2, <2>3 DEF Owns, Spinning
<1> QED  BY <1>2, <1>3, <1>4, <1>5, <1>6 DEF HeldByOne

(***************************************************************************)
(* A spin lock of LiS is held by one context at a time: two CPUs, or an    *)
(* interrupt routine and what it interrupts, are never both between a call *)
(* that locks and the call that undoes it, the outermost unlock alone      *)
(* unlocks, and no CPU spins for itself.                                   *)
(***************************************************************************)
THEOREM LockIsHeldByOne ==
  ASSUME NestedTry = FALSE
  PROVE  Spec => []HeldByOne
<1>1. Init => IInv
  BY InitHolds
<1>2. IInv /\ [Next]_vars => IInv'
  BY NextKeeps
<1>3. IInv => HeldByOne
  BY IInvHolds
<1> QED  BY <1>1, <1>2, <1>3, PTL DEF Spec


-----------------------------------------------------------------------------
(* The opens of a FIFO                                                     *)

FifoReaders == {f \in File : F!Has(f) /\ "r" \in f_mode[f]}
FifoWriters == {f \in File : F!Has(f) /\ "w" \in f_mode[f]}

FifoTypes ==
    /\ sd_opening \in BOOLEAN /\ i_pipe \in BOOLEAN
    /\ readers \in Nat /\ writers \in Nat /\ r_counter \in Nat /\ w_counter \in Nat
    /\ fpc \in [File -> {"closed", "opening", "sync", "waiting", "opened", "failed",
                         "open", "closing"}]
    /\ f_mode \in [File -> F!Modes] /\ nonblock \in [File -> BOOLEAN]
    /\ cur \in [File -> Nat]

\* Only finitely many files are counted, however many there are.
FifoCounts ==
    /\ IsFiniteSet(FifoReaders) /\ readers = Cardinality(FifoReaders)
    /\ IsFiniteSet(FifoWriters) /\ writers = Cardinality(FifoWriters)
    /\ (i_pipe <=> readers + writers > 0)

\* The counter that a file waits for has not fallen behind what the file has read; if it
\* is the same still, no partner has come.
FifoWaits ==
    \A f \in File : fpc[f] = "waiting" =>
        \/ /\ f_mode[f] = {"r"} /\ cur[f] <= w_counter
           /\ cur[f] = w_counter => writers = 0
        \/ /\ f_mode[f] = {"w"} /\ cur[f] <= r_counter
           /\ cur[f] = r_counter => readers = 0

FifoInv == FifoTypes /\ FifoCounts /\ FifoWaits

LEMMA ModeFacts ==
    /\ \A m \in F!Modes : m = {"r"} \/ m = {"w"} \/ m = {"r", "w"}
    /\ "r" \in {"r"} /\ "w" \notin {"r"} /\ "w" \in {"w"} /\ "r" \notin {"w"}
    /\ "r" \in {"r", "w"} /\ "w" \in {"r", "w"}
    /\ {"r"} # {"w"} /\ {"r"} # {"r", "w"} /\ {"w"} # {"r", "w"}
<1>1. "r" # "w"
  OBVIOUS
<1>2. {"r"} # {"w"} /\ {"r"} # {"r", "w"} /\ {"w"} # {"r", "w"}
  <2>1. "r" \notin {"w"} /\ "w" \notin {"r"} /\ "w" \in {"r", "w"} /\ "r" \in {"r", "w"} /\ "r" \in {"r"}
    OBVIOUS
  <2> QED
    BY <2>1, Zenon
<1> QED
  BY <1>1, <1>2 DEF F!Modes

LEMMA FifoInit == F!Init => FifoInv
<1> SUFFICES ASSUME F!Init PROVE FifoInv
  OBVIOUS
<1>1. FifoTypes
  BY DEF F!Init, FifoTypes, F!Modes
<1>2. FifoReaders = {} /\ FifoWriters = {}
  BY DEF F!Init, FifoReaders, FifoWriters, F!Has
<1>a. IsFiniteSet({}) /\ Cardinality({}) = 0
  BY FS_EmptySet
<1>b. readers = 0 /\ writers = 0 /\ i_pipe = FALSE
  BY DEF F!Init
<1>c. ~(readers + writers > 0)
  BY <1>b
<1>d. i_pipe <=> readers + writers > 0
  BY <1>b, <1>c
<1>3. FifoCounts
  BY <1>2, <1>a, <1>b, <1>d DEF FifoCounts
<1>4. FifoWaits
  BY DEF F!Init, FifoWaits
<1> QED
  BY <1>1, <1>3, <1>4 DEF FifoInv

\* A file is counted, or is not counted any more, or it stays as it was.
LEMMA FifoCounted ==
    ASSUME FifoTypes, FifoCounts, NEW f \in File, ~F!Has(f), F!Has(f)',
           f_mode' = f_mode,
           \A g \in File : g # f => (F!Has(g)' <=> F!Has(g))
    PROVE  /\ IsFiniteSet(FifoReaders)' /\ IsFiniteSet(FifoWriters)'
           /\ Cardinality(FifoReaders)' = readers + F!Reads(f)
           /\ Cardinality(FifoWriters)' = writers + F!Writes(f)
<1>1. FifoReaders' = IF "r" \in f_mode[f] THEN FifoReaders \cup {f} ELSE FifoReaders
  BY DEF FifoReaders
<1>2. FifoWriters' = IF "w" \in f_mode[f] THEN FifoWriters \cup {f} ELSE FifoWriters
  BY DEF FifoWriters
<1>3. f \notin FifoReaders /\ f \notin FifoWriters
  BY DEF FifoReaders, FifoWriters
<1>4. readers \in Nat /\ writers \in Nat
  BY DEF FifoTypes
<1>5. /\ IsFiniteSet(FifoReaders \cup {f}) /\ Cardinality(FifoReaders \cup {f}) = readers + 1
      /\ IsFiniteSet(FifoWriters \cup {f}) /\ Cardinality(FifoWriters \cup {f}) = writers + 1
  BY <1>3, FS_AddElement DEF FifoCounts
<1> QED
  BY <1>1, <1>2, <1>4, <1>5 DEF F!Reads, F!Writes, FifoCounts

LEMMA FifoUncounted ==
    ASSUME FifoTypes, FifoCounts, NEW f \in File, F!Has(f), ~F!Has(f)',
           f_mode' = f_mode,
           \A g \in File : g # f => (F!Has(g)' <=> F!Has(g))
    PROVE  /\ IsFiniteSet(FifoReaders)' /\ IsFiniteSet(FifoWriters)'
           /\ Cardinality(FifoReaders)' = readers - F!Reads(f)
           /\ Cardinality(FifoWriters)' = writers - F!Writes(f)
           /\ readers - F!Reads(f) \in Nat /\ writers - F!Writes(f) \in Nat
<1>1. FifoReaders' = IF "r" \in f_mode[f] THEN FifoReaders \ {f} ELSE FifoReaders
  BY DEF FifoReaders
<1>2. FifoWriters' = IF "w" \in f_mode[f] THEN FifoWriters \ {f} ELSE FifoWriters
  BY DEF FifoWriters
<1>3. /\ "r" \in f_mode[f] => f \in FifoReaders
      /\ "w" \in f_mode[f] => f \in FifoWriters
  BY DEF FifoReaders, FifoWriters
<1>4. readers \in Nat /\ writers \in Nat
  BY DEF FifoTypes
<1>5. "r" \in f_mode[f] => /\ IsFiniteSet(FifoReaders \ {f})
                           /\ Cardinality(FifoReaders \ {f}) = readers - 1
                           /\ readers - 1 \in Nat
  <2> SUFFICES ASSUME "r" \in f_mode[f]
               PROVE  /\ IsFiniteSet(FifoReaders \ {f})
                      /\ Cardinality(FifoReaders \ {f}) = readers - 1
                      /\ readers - 1 \in Nat
    OBVIOUS
  <2>1. f \in FifoReaders /\ IsFiniteSet(FifoReaders) /\ readers = Cardinality(FifoReaders)
    BY <1>3 DEF FifoCounts
  <2>2. IsFiniteSet(FifoReaders \ {f}) /\ Cardinality(FifoReaders \ {f}) = readers - 1
    BY <2>1, FS_RemoveElement
  <2>3. Cardinality(FifoReaders \ {f}) \in Nat
    BY <2>2, FS_CardinalityType
  <2> QED
    BY <2>2, <2>3
<1>6. "w" \in f_mode[f] => /\ IsFiniteSet(FifoWriters \ {f})
                           /\ Cardinality(FifoWriters \ {f}) = writers - 1
                           /\ writers - 1 \in Nat
  <2> SUFFICES ASSUME "w" \in f_mode[f]
               PROVE  /\ IsFiniteSet(FifoWriters \ {f})
                      /\ Cardinality(FifoWriters \ {f}) = writers - 1
                      /\ writers - 1 \in Nat
    OBVIOUS
  <2>1. f \in FifoWriters /\ IsFiniteSet(FifoWriters) /\ writers = Cardinality(FifoWriters)
    BY <1>3 DEF FifoCounts
  <2>2. IsFiniteSet(FifoWriters \ {f}) /\ Cardinality(FifoWriters \ {f}) = writers - 1
    BY <2>1, FS_RemoveElement
  <2>3. Cardinality(FifoWriters \ {f}) \in Nat
    BY <2>2, FS_CardinalityType
  <2> QED
    BY <2>2, <2>3
<1> QED
  BY <1>1, <1>2, <1>4, <1>5, <1>6 DEF F!Reads, F!Writes, FifoCounts

LEMMA FifoUnchanged ==
    ASSUME FifoCounts, UNCHANGED <<i_pipe, readers, writers>>,
           \A g \in File : (F!Has(g)' <=> F!Has(g)) /\ (F!Has(g) => f_mode'[g] = f_mode[g])
    PROVE  FifoCounts'
<1>1. FifoReaders' = FifoReaders /\ FifoWriters' = FifoWriters
  BY DEF FifoReaders, FifoWriters
<1> QED
  BY <1>1 DEF FifoCounts

\* Whoever waits has counted itself.
LEMMA FifoWaiterCounts ==
    ASSUME FifoTypes, FifoCounts, FifoWaits, NEW f \in File, fpc[f] = "waiting"
    PROVE  /\ f_mode[f] = {"r"} => readers > 0
           /\ f_mode[f] = {"w"} => writers > 0
<1>1. readers \in Nat /\ writers \in Nat
  BY DEF FifoTypes
<1>2. f_mode[f] = {"r"} => f \in FifoReaders
  BY DEF FifoReaders, F!Has
<1>3. f_mode[f] = {"w"} => f \in FifoWriters
  BY DEF FifoWriters, F!Has
<1>4. f_mode[f] = {"r"} => readers # 0
  BY <1>2, FS_EmptySet DEF FifoCounts
<1>5. f_mode[f] = {"w"} => writers # 0
  BY <1>3, FS_EmptySet DEF FifoCounts
<1> QED
  BY <1>1, <1>4, <1>5

FifoQuiet(f) == F!Call(f) \/ F!GetOpeningSem(f) \/ F!OpeningSemSignal(f)
                \/ F!ReleaseOpeningSem(f) \/ F!CloseRest(f) \/ F!OpenRefused(f)

LEMMA FifoQuietStep ==
    ASSUME FifoInv, NEW f \in File, FifoQuiet(f)
    PROVE  FifoInv'
<1> USE DEF FifoInv
<1>1. CASE F!OpenRefused(f)
  <2>1. readers + writers > 0 => UNCHANGED <<i_pipe, r_counter, w_counter>>
    BY <1>1 DEF F!OpenRefused, F!Freed, F!Allocated, FifoCounts
  <2>2. /\ UNCHANGED <<sd_opening, readers, writers, f_mode, nonblock, cur>>
        /\ fpc' = [fpc EXCEPT ![f] = "failed"] /\ fpc[f] = "sync"
        /\ i_pipe' = (readers + writers > 0)
        /\ r_counter' \in {0, r_counter} /\ w_counter' \in {0, w_counter}
    BY <1>1 DEF F!OpenRefused, F!Freed, F!Allocated, F!Goto, F!file
  <2>3. FifoTypes'
    BY <2>2 DEF FifoTypes
  <2>4. \A g \in File : (F!Has(g)' <=> F!Has(g)) /\ f_mode'[g] = f_mode[g]
    BY <2>2 DEF F!Has, FifoTypes
  <2>u. UNCHANGED <<i_pipe, readers, writers>>
    BY <2>2 DEF FifoCounts, FifoTypes
  <2>5. FifoCounts'
    BY <2>u, <2>4, FifoUnchanged
  <2>6. FifoWaits'
    <3> SUFFICES ASSUME NEW g \in File, fpc'[g] = "waiting"
                 PROVE  FifoWaits!(g)'
      BY DEF FifoWaits
    <3>1. fpc[g] = "waiting"
      BY <2>2 DEF FifoTypes
    <3>2. readers \in Nat /\ writers \in Nat
      BY DEF FifoTypes
    <3>3. readers + writers > 0
      BY <3>1, <3>2, FifoWaiterCounts DEF FifoWaits
    <3> QED
      BY <2>1, <2>2, <3>1, <3>3 DEF FifoWaits
  <2> QED
    BY <2>3, <2>5, <2>6
<1>2. CASE F!Call(f)
  <2>1. PICK m \in F!Modes, n \in BOOLEAN :
            /\ f_mode' = [f_mode EXCEPT ![f] = m] /\ nonblock' = [nonblock EXCEPT ![f] = n]
    BY <1>2 DEF F!Call
  <2>2. /\ fpc[f] = "closed" /\ fpc' = [fpc EXCEPT ![f] = "opening"]
        /\ UNCHANGED <<sd_opening, i_pipe, readers, writers, r_counter, w_counter, cur>>
    BY <1>2 DEF F!Call, F!Goto, F!pipe
  <2>3. FifoTypes'
    BY <2>1, <2>2 DEF FifoTypes
  <2>4. \A g \in File : (F!Has(g)' <=> F!Has(g)) /\ (F!Has(g) => f_mode'[g] = f_mode[g])
    BY <2>1, <2>2 DEF F!Has, FifoTypes
  <2>5. FifoCounts'
    BY <2>2, <2>4, FifoUnchanged
  <2>6. FifoWaits'
    BY <2>1, <2>2 DEF FifoWaits, FifoTypes
  <2> QED
    BY <2>3, <2>5, <2>6
<1>3. CASE F!GetOpeningSem(f) \/ F!OpeningSemSignal(f) \/ F!ReleaseOpeningSem(f) \/ F!CloseRest(f)
  <2>1. PICK l \in {"closed", "sync", "open"} : fpc' = [fpc EXCEPT ![f] = l]
    BY <1>3 DEF F!GetOpeningSem, F!OpeningSemSignal, F!ReleaseOpeningSem, F!CloseRest, F!Goto
  <2>2. /\ fpc[f] \in {"opening", "opened", "failed", "closing"}
        /\ fpc[f] = "opened" <=> l = "open"
        /\ sd_opening' \in BOOLEAN
        /\ UNCHANGED <<i_pipe, readers, writers, r_counter, w_counter, f_mode, nonblock, cur>>
    <3>1. fpc'[f] = l
      BY <2>1 DEF FifoTypes
    <3> QED
    BY <1>3, <2>1, <3>1 DEF F!GetOpeningSem, F!OpeningSemSignal, F!ReleaseOpeningSem, F!CloseRest, F!Goto,
                 F!pipe, F!file, FifoTypes
  <2>3. FifoTypes'
    BY <2>1, <2>2 DEF FifoTypes
  <2>4. \A g \in File : (F!Has(g)' <=> F!Has(g)) /\ (F!Has(g) => f_mode'[g] = f_mode[g])
    BY <2>1, <2>2 DEF F!Has, FifoTypes
  <2>5. FifoCounts'
    BY <2>2, <2>4, FifoUnchanged
  <2>6. FifoWaits'
    BY <2>1, <2>2 DEF FifoWaits, FifoTypes
  <2> QED
    BY <2>3, <2>5, <2>6
<1> QED
  BY <1>1, <1>2, <1>3 DEF FifoQuiet

LEMMA FifoOpenSync ==
    ASSUME FifoInv, NEW f \in File, F!OpenSync(f)
    PROVE  FifoInv'
<1> USE DEF FifoInv
<1> DEFINE to == IF F!Unpaired(f) THEN "waiting" ELSE "opened"
           c  == IF ~F!Unpaired(f) THEN 0
                 ELSE IF f_mode[f] = {"r"} THEN F!Counter(w_counter) ELSE F!Counter(r_counter)
<1>1. /\ fpc[f] = "sync" /\ fpc' = [fpc EXCEPT ![f] = to] /\ cur' = [cur EXCEPT ![f] = c]
      /\ UNCHANGED <<sd_opening, f_mode, nonblock>>
      /\ i_pipe' = TRUE
      /\ readers' = readers + F!Reads(f) /\ writers' = writers + F!Writes(f)
      /\ r_counter' = F!Counter(r_counter) + F!Reads(f)
      /\ w_counter' = F!Counter(w_counter) + F!Writes(f)
  BY DEF F!OpenSync, F!Count, F!Goto, F!file
<1>2. /\ F!Counter(r_counter) \in Nat /\ F!Counter(w_counter) \in Nat /\ c \in Nat
      /\ i_pipe => F!Counter(r_counter) = r_counter /\ F!Counter(w_counter) = w_counter
  BY DEF F!Counter, FifoTypes
<1>3. /\ F!Reads(f) \in {0, 1} /\ F!Writes(f) \in {0, 1} /\ F!Reads(f) + F!Writes(f) > 0
  BY ModeFacts DEF F!Reads, F!Writes, FifoTypes
<1>t. /\ readers \in Nat /\ writers \in Nat /\ f_mode[f] \in F!Modes
      /\ fpc' \in [File -> {"closed", "opening", "sync", "waiting", "opened", "failed",
                         "open", "closing"}]
      /\ fpc'[f] = to /\ cur'[f] = c
      /\ \A g \in File : g # f => fpc'[g] = fpc[g] /\ cur'[g] = cur[g]
  BY <1>1, <1>2 DEF FifoTypes
<1> HIDE DEF c
<1>4. FifoTypes'
  BY <1>1, <1>2, <1>3, <1>t DEF FifoTypes
<1>5. ~F!Has(f) /\ F!Has(f)' /\ \A g \in File : g # f => (F!Has(g)' <=> F!Has(g))
  BY <1>1, <1>t DEF F!Has
<1>6. FifoCounts'
  <2>1. /\ IsFiniteSet(FifoReaders)' /\ IsFiniteSet(FifoWriters)'
        /\ Cardinality(FifoReaders)' = readers + F!Reads(f)
        /\ Cardinality(FifoWriters)' = writers + F!Writes(f)
    BY <1>1, <1>5, FifoCounted
  <2>2. readers' + writers' > 0
    BY <1>1, <1>3, <1>t
  <2> QED
    BY <1>1, <2>1, <2>2 DEF FifoCounts
<1>7. FifoWaits'
  <2> SUFFICES ASSUME NEW g \in File, fpc'[g] = "waiting"
               PROVE  FifoWaits!(g)'
    BY DEF FifoWaits
  <2>1. CASE g = f
    <3>1. F!Unpaired(f)
      BY <1>t, <2>1
    <3>2. CASE f_mode[f] = {"r"}
      <4>1. c = F!Counter(w_counter) /\ writers = 0 /\ F!Writes(f) = 0
        BY <3>1, <3>2, ModeFacts DEF F!Unpaired, F!Writes, c
      <4> QED
        BY <1>1, <1>2, <1>t, <2>1, <3>2, <4>1
    <3>3. CASE f_mode[f] # {"r"}
      <4>1. c = F!Counter(r_counter) /\ readers = 0 /\ F!Reads(f) = 0 /\ f_mode[f] = {"w"}
        BY <3>1, <3>3, ModeFacts DEF F!Unpaired, F!Reads, c
      <4> QED
        BY <1>1, <1>2, <1>t, <2>1, <4>1
    <3> QED
      BY <3>2, <3>3
  <2>2. CASE g # f
    <3>1. fpc[g] = "waiting" /\ cur'[g] = cur[g] /\ cur[g] \in Nat
      BY <1>t, <2>2 DEF FifoTypes
    <3>r. readers > 0 \/ writers > 0
      BY <3>1, FifoWaiterCounts DEF FifoWaits
    <3>p. readers + writers > 0
      BY <1>t, <3>r
    <3>2. i_pipe
      BY <3>p DEF FifoCounts
    <3>3. r_counter' = r_counter + F!Reads(f) /\ w_counter' = w_counter + F!Writes(f)
      BY <1>1, <1>2, <3>2
    <3>4. r_counter \in Nat /\ w_counter \in Nat
      BY DEF FifoTypes
    <3>5. CASE f_mode[g] = {"r"} /\ cur[g] <= w_counter /\ (cur[g] = w_counter => writers = 0)
      BY <1>1, <1>3, <1>t, <3>1, <3>3, <3>4, <3>5
    <3>6. CASE f_mode[g] = {"w"} /\ cur[g] <= r_counter /\ (cur[g] = r_counter => readers = 0)
      BY <1>1, <1>3, <1>t, <3>1, <3>3, <3>4, <3>6
    <3> QED
      BY <3>1, <3>5, <3>6 DEF FifoWaits
  <2> QED
    BY <2>1, <2>2
<1> QED
  BY <1>4, <1>6, <1>7

\* A file that is counted no more, because it is closed or its open was interrupted.
FifoGoes(f) == F!CloseSync(f) \/ F!WaitEnds(f, TRUE)

LEMMA FifoGoesStep ==
    ASSUME FifoInv, NEW f \in File, FifoGoes(f)
    PROVE  FifoInv'
<1> USE DEF FifoInv
<1> DEFINE rs == readers - F!Reads(f)
           ws == writers - F!Writes(f)
<1>1. PICK l \in {"closing", "failed"} : fpc' = [fpc EXCEPT ![f] = l]
  BY DEF FifoGoes, F!CloseSync, F!WaitEnds, F!Goto
<1>2. /\ fpc[f] \in {"open", "waiting"}
      /\ cur' = cur \/ cur' = [cur EXCEPT ![f] = 0]
      /\ UNCHANGED <<sd_opening, f_mode, nonblock>>
      /\ readers' = rs /\ writers' = ws
      /\ i_pipe' = (rs + ws > 0)
      /\ r_counter' = IF rs + ws > 0 THEN r_counter ELSE 0
      /\ w_counter' = IF rs + ws > 0 THEN w_counter ELSE 0
  BY DEF FifoGoes, F!CloseSync, F!WaitEnds, F!Freed, F!Allocated, F!Uncounted, F!file
<1>3. F!Has(f) /\ ~F!Has(f)' /\ \A g \in File : g # f => (F!Has(g)' <=> F!Has(g))
  BY <1>1, <1>2 DEF F!Has, FifoTypes
<1>4. /\ IsFiniteSet(FifoReaders)' /\ IsFiniteSet(FifoWriters)'
      /\ Cardinality(FifoReaders)' = rs /\ Cardinality(FifoWriters)' = ws
      /\ rs \in Nat /\ ws \in Nat
  BY <1>2, <1>3, FifoUncounted
<1>r. rs <= readers /\ ws <= writers
  BY DEF F!Reads, F!Writes, FifoTypes
<1> HIDE DEF rs, ws
<1>5. FifoTypes'
  BY <1>1, <1>2, <1>4 DEF FifoTypes
<1>6. FifoCounts'
  BY <1>2, <1>4 DEF FifoCounts
<1>7. FifoWaits'
  <2> SUFFICES ASSUME NEW g \in File, fpc'[g] = "waiting"
               PROVE  FifoWaits!(g)'
    BY DEF FifoWaits
  <2>1. g # f /\ fpc[g] = "waiting" /\ cur'[g] = cur[g]
    BY <1>1, <1>2 DEF FifoTypes
  <2>2. fpc'[g] = "waiting" /\ f_mode'[g] = f_mode[g]
    BY <1>2
  <2>n. readers \in Nat /\ writers \in Nat /\ r_counter \in Nat /\ w_counter \in Nat
        /\ cur[g] \in Nat
    BY DEF FifoTypes
  <2>w. \/ /\ f_mode[g] = {"r"} /\ cur[g] <= w_counter
           /\ cur[g] = w_counter => writers = 0
        \/ /\ f_mode[g] = {"w"} /\ cur[g] <= r_counter
           /\ cur[g] = r_counter => readers = 0
    BY <2>1 DEF FifoWaits
  <2>3. CASE f_mode[g] = {"r"}
    <3>1. g \in FifoReaders'
      BY <2>2, <2>3 DEF FifoReaders, F!Has
    <3>2. rs # 0
      BY <1>4, <3>1, FS_EmptySet
    <3>3. rs + ws > 0
      BY <1>4, <3>2
    <3> QED
      BY <1>2, <1>4, <1>r, <2>1, <2>n, <2>w, <2>3, <3>3, ModeFacts
  <2>4. CASE f_mode[g] = {"w"}
    <3>1. g \in FifoWriters'
      BY <2>2, <2>4 DEF FifoWriters, F!Has
    <3>2. ws # 0
      BY <1>4, <3>1, FS_EmptySet
    <3>3. rs + ws > 0
      BY <1>4, <3>2
    <3> QED
      BY <1>2, <1>4, <1>r, <2>1, <2>n, <2>w, <2>4, <3>3, ModeFacts
  <2> QED
    BY <2>1, <2>3, <2>4 DEF FifoWaits
<1> QED
  BY <1>5, <1>6, <1>7

LEMMA FifoWaitIsOver ==
    ASSUME FifoInv, NEW f \in File, F!WaitEnds(f, FALSE)
    PROVE  FifoInv'
<1> USE DEF FifoInv
<1>1. /\ fpc[f] = "waiting" /\ fpc' = [fpc EXCEPT ![f] = "opened"]
      /\ cur' = [cur EXCEPT ![f] = 0]
      /\ UNCHANGED <<sd_opening, f_mode, nonblock, i_pipe, readers, writers, r_counter, w_counter>>
  BY DEF F!WaitEnds, F!Goto, F!file, F!pipe
<1>2. FifoTypes'
  BY <1>1 DEF FifoTypes
<1>3. \A g \in File : (F!Has(g)' <=> F!Has(g)) /\ f_mode'[g] = f_mode[g]
  BY <1>1 DEF F!Has, FifoTypes
<1>4. FifoCounts'
  BY <1>1, <1>3, FifoUnchanged
<1>5. FifoWaits'
  BY <1>1 DEF FifoWaits, FifoTypes
<1> QED
  BY <1>2, <1>4, <1>5

LEMMA FifoStep == FifoInv /\ F!Next => FifoInv'
<1> SUFFICES ASSUME FifoInv, NEW f \in File,
                    \/ F!Call(f) \/ F!OpenStep(f) \/ F!OpeningSemSignal(f)
                    \/ \E s \in BOOLEAN : F!WaitEnds(f, s)
                    \/ F!CloseSync(f) \/ F!CloseRest(f)
             PROVE  FifoInv'
  BY DEF F!Next
<1>1. CASE FifoQuiet(f)
  BY <1>1, FifoQuietStep
<1>2. CASE F!OpenSync(f)
  BY <1>2, FifoOpenSync
<1>3. CASE FifoGoes(f)
  BY <1>3, FifoGoesStep
<1>4. CASE F!WaitEnds(f, FALSE)
  BY <1>4, FifoWaitIsOver
<1> QED
  BY <1>1, <1>2, <1>3, <1>4 DEF FifoQuiet, FifoGoes, F!OpenStep

LEMMA FifoRests == FifoInv /\ UNCHANGED fvars => FifoInv'
BY DEF fvars, FifoInv, FifoTypes, FifoCounts, FifoWaits, FifoReaders, FifoWriters, F!Has

\* The operators that an instance takes from the standard modules are these.
LEMMA SameCardinality == ASSUME NEW S PROVE F!Cardinality(S) = Cardinality(S)
BY DEF F!Cardinality, Cardinality

LEMMA FifoHolds == FifoInv => F!CountsAreFiles
<1> SUFFICES ASSUME FifoInv PROVE F!CountsAreFiles
  OBVIOUS
<1>1. \A f \in File : fpc[f] = "waiting" /\ ~F!PartnerCame(f) =>
          IF f_mode[f] = {"r"} THEN writers = 0 ELSE readers = 0
  BY ModeFacts DEF FifoInv, FifoWaits, F!PartnerCame
<1>2. /\ readers = Cardinality({f \in File : F!Has(f) /\ "r" \in f_mode[f]})
      /\ writers = Cardinality({f \in File : F!Has(f) /\ "w" \in f_mode[f]})
  BY DEF FifoInv, FifoCounts, FifoReaders, FifoWriters
<1>3. i_pipe = (readers + writers > 0)
  <2>1. i_pipe \in BOOLEAN /\ (i_pipe <=> readers + writers > 0)
    BY DEF FifoInv, FifoTypes, FifoCounts
  <2> DEFINE some == readers + writers > 0
  <2>2. some \in BOOLEAN /\ (i_pipe <=> some)
    BY <2>1
  <2> HIDE DEF some
  <2>3. i_pipe = some
    BY <2>1, <2>2
  <2> QED
    BY <2>3 DEF some
<1> QED
  BY <1>1, <1>2, <1>3, SameCardinality DEF F!CountsAreFiles

\* In a run of all services only one of them moves.
LEMMA OthersRest ==
    ASSUME MCNext \/ UNCHANGED <<part, vars, mvars, uvars, fvars, xvars, lvars, avars>>
    PROVE  F!Next \/ UNCHANGED fvars
BY DEF MCNext, Rest

THEOREM FifoCountsAreFiles == MCSpec => []CountsAreFiles
<1>1. MCInit => FifoInv
  BY FifoInit DEF MCInit
<1>2. FifoInv /\ [MCNext]_<<part, vars, mvars, uvars, fvars, xvars, lvars, avars>> => FifoInv'
  BY FifoStep, FifoRests, OthersRest
<1>3. FifoInv => CountsAreFiles
  BY FifoHolds DEF CountsAreFiles
<1> QED
  BY <1>1, <1>2, <1>3, PTL DEF MCSpec

-----------------------------------------------------------------------------
(* The blocks and data blocks of a pool                                    *)

\* What follows on the pool of blocks is for fewer headers than db_ref can count.
PoolFits ==
    /\ IsFiniteSet(Hdr) /\ Width \in Nat /\ Cardinality(Hdr) < Width
    /\ NoHdr \notin Hdr /\ NoOne \notin Task

Freeing == {"freedb", "lock", "read", "write"}

\* A header uses its data block until db_ref is written back.
Counted(h) == \/ h \in pool
              \/ \E t \in Task : \/ mpc[t] \in Freeing \cup {"dup"} /\ h = loc[t].bp
                                 \/ mpc[t] # "dup" /\ h = loc[t].newbp
Users(d) == {h \in Hdr : Counted(h) /\ b_datap[h] = d}
Held(t)  == {loc[t].bp, loc[t].newbp} \cap Hdr
Cheap(h) == buffer[h] \notin {"external", "user"}

MsgTypes ==
  /\ used \in SUBSET Hdr /\ pool \in SUBSET Hdr
  /\ b_datap \in [Hdr -> Hdr \cup {NoHdr}] /\ db_ref \in [Hdr -> Nat]
  /\ buffer \in [Hdr -> M!Given \cup {"none", "returned"}]
  /\ mpc \in [Task -> Freeing \cup {"idle", "dup", "zero", "mine", "less", "last"}]
  /\ loc \in [Task -> [bp : Hdr \cup {NoHdr}, dp : Hdr \cup {NoHdr}, newbp : Hdr \cup {NoHdr},
                       free_hdr : BOOLEAN, locked : BOOLEAN, ref : Nat]]
  /\ lis_msg_lock \in Task \cup {NoOne}

\* A block is worked on by one task at a time.
Apart ==
  /\ \A t \in Task : /\ mpc[t] = "idle" => loc[t] = M!NoLoc
                     /\ mpc[t] # "idle" => loc[t].bp \in Hdr /\ loc[t].bp # loc[t].newbp
                     /\ mpc[t] = "dup" => loc[t].newbp \in Hdr
                     /\ Held(t) \cap pool = {}
  /\ \A s, t \in Task : s # t => Held(s) \cap Held(t) = {}

\* Who uses a data block is counted in it; a header with another's data block has one of
\* its own, which counts the header and nobody uses.
Referenced ==
  /\ \A h \in Hdr : Counted(h) => h \in used /\ b_datap[h] \in Hdr
  /\ \A h \in Hdr : Counted(h) /\ b_datap[h] # h => Users(h) = {} /\ db_ref[h] = 1 /\ Cheap(h)
  /\ \A d \in Hdr : Users(d) # {} =>
       d \in used /\ buffer[d] \in M!Given /\ db_ref[d] = Cardinality(Users(d))

\* A header is allocated for as long as somebody needs it, and no longer.
Needed ==
  /\ \A h \in Hdr : h \notin used => Cheap(h)
  /\ \A h \in used : \/ h \in pool \/ Users(h) # {}
                     \/ \E t \in Task : h \in Held(t) \/ (mpc[t] = "zero" /\ h = loc[t].dp)

\* The new header of lis_dupb, not counted yet.
AtDup(t) == LET n == loc[t].newbp IN
  n \in used /\ b_datap[n] = b_datap[loc[t].bp] /\ db_ref[n] = 1 /\ Users(n) = {} /\ Cheap(n)

\* The new block of lis_pullupmsg.
Fresh(t) == LET n == loc[t].newbp IN
  /\ loc[t].free_hdr <=> n = NoHdr
  /\ n # NoHdr => b_datap[n] = n /\ Users(n) = {n}

\* Only who has the lock, or is alone with the data block, changes its count.
AtFree(t) ==
  /\ loc[t].dp = b_datap[loc[t].bp]
  /\ ~loc[t].free_hdr /\ loc[t].dp = loc[t].bp => Users(loc[t].bp) = {loc[t].bp}
  /\ mpc[t] \in {"read", "write"} => IF loc[t].locked THEN lis_msg_lock = t
                                     ELSE Users(loc[t].dp) = {loc[t].bp}
  /\ mpc[t] = "write" => loc[t].ref = db_ref[loc[t].dp] - 1
  /\ mpc[t] = "freedb" => ~loc[t].locked
  /\ mpc[t] = "lock" => loc[t].locked

\* The data block nobody uses is this task's alone.
AtZero(t) == LET d == loc[t].dp
                 b == loc[t].bp IN
  /\ d \in used /\ Users(d) = {} /\ db_ref[d] = 0 /\ buffer[d] \in M!Given
  /\ b \in used /\ Users(b) = {}
  /\ d # b => db_ref[b] = 1 /\ Cheap(b)
  /\ d \notin pool
  /\ \A s \in Task : d \in Held(s) => s = t /\ d = b
  /\ \A s \in Task : s # t /\ mpc[s] = "zero" => loc[s].dp # d

AtEnd(t) == LET b == loc[t].bp IN
  /\ b \in used /\ Users(b) = {} /\ Cheap(b)
  /\ mpc[t] \in {"mine", "less"} => loc[t].free_hdr /\ db_ref[b] = 1
  /\ mpc[t] = "less" => loc[t].ref = 1
  /\ mpc[t] = "last" => db_ref[b] = IF loc[t].free_hdr THEN 0 ELSE 1

Place(t) ==
  /\ mpc[t] = "dup" => AtDup(t)
  /\ mpc[t] \notin {"idle", "dup"} => Fresh(t)
  /\ mpc[t] \in Freeing => AtFree(t)
  /\ mpc[t] = "zero" => AtZero(t)
  /\ mpc[t] \in {"mine", "less", "last"} => AtEnd(t)

LockHeld == lis_msg_lock # NoOne =>
              mpc[lis_msg_lock] \in {"read", "write"} /\ loc[lis_msg_lock].locked

MsgInv == /\ MsgTypes /\ ~twice /\ Apart /\ Referenced /\ Needed
          /\ (\A t \in Task : Place(t)) /\ LockHeld

-----------------------------------------------------------------------------

LEMMA HdrSets ==
  ASSUME PoolFits, NEW S \in SUBSET Hdr, NEW b
  PROVE  /\ IsFiniteSet(S) /\ Cardinality(S) \in Nat /\ Cardinality(S) <= Cardinality(Hdr)
         /\ b \in S /\ Cardinality(S) = 1 => S = {b}
         /\ b \notin S => Cardinality(S \cup {b}) = Cardinality(S) + 1
         /\ b \in S => Cardinality(S \ {b}) = Cardinality(S) - 1
         /\ Cardinality({b}) = 1
         /\ S # {} => Cardinality(S) > 0
<1>1. /\ IsFiniteSet(S) /\ Cardinality(S) \in Nat /\ Cardinality(S) <= Cardinality(Hdr)
  BY FS_Subset, FS_CardinalityType DEF PoolFits
<1>2. IsFiniteSet({b}) /\ Cardinality({b}) = 1
  BY FS_Singleton
<1>3. b \in S /\ Cardinality(S) = 1 => S = {b}
  <2> SUFFICES ASSUME b \in S, Cardinality(S) = 1
               PROVE  S = {b}
    OBVIOUS
  <2>1. {b} \in SUBSET S
    OBVIOUS
  <2> QED
    BY <1>1, <1>2, <2>1, FS_Subset
<1>4. /\ b \notin S => Cardinality(S \cup {b}) = Cardinality(S) + 1
      /\ b \in S => Cardinality(S \ {b}) = Cardinality(S) - 1
  BY <1>1, FS_AddElement, FS_RemoveElement
<1>5. S # {} => Cardinality(S) > 0
  BY <1>1, FS_EmptySet
<1> QED
  BY <1>1, <1>2, <1>3, <1>4, <1>5

LEMMA UserSets ==
  ASSUME PoolFits, NEW d, NEW b
  PROVE  /\ Users(d) \in SUBSET Hdr
         /\ b \in Users(d) /\ Cardinality(Users(d)) = 1 => Users(d) = {b}
         /\ b \notin Users(d) => Cardinality(Users(d) \cup {b}) = Cardinality(Users(d)) + 1
         /\ b \in Users(d) => Cardinality(Users(d) \ {b}) = Cardinality(Users(d)) - 1
         /\ Users(d) # {} => Cardinality(Users(d)) > 0
         /\ Cardinality(Users(d)) \in Nat /\ Cardinality(Users(d)) < Width
<1>1. Users(d) \in SUBSET Hdr
  BY DEF Users
<1>2. Cardinality(Hdr) \in Nat
  BY FS_CardinalityType DEF PoolFits
<1> DEFINE S == Users(d)
<1>3. S \in SUBSET Hdr
  BY <1>1
<1> HIDE DEF S
<1>4. /\ Cardinality(S) \in Nat /\ Cardinality(S) <= Cardinality(Hdr)
      /\ b \in S /\ Cardinality(S) = 1 => S = {b}
      /\ b \notin S => Cardinality(S \cup {b}) = Cardinality(S) + 1
      /\ b \in S => Cardinality(S \ {b}) = Cardinality(S) - 1
      /\ S # {} => Cardinality(S) > 0
  BY <1>3, HdrSets
<1>5. Cardinality(S) < Width
  BY <1>2, <1>4 DEF PoolFits
<1> QED
  BY <1>1, <1>4, <1>5 DEF S

\* A task that frees a block uses its data block.
LEMMA FreeingFacts ==
  ASSUME PoolFits, MsgInv, NEW t \in Task, mpc[t] \in Freeing
  PROVE  /\ loc[t].bp \in Hdr /\ loc[t].bp \in used /\ Counted(loc[t].bp)
         /\ loc[t].dp = b_datap[loc[t].bp]
         /\ loc[t].dp \in Hdr /\ loc[t].dp \in used /\ loc[t].bp \in Users(loc[t].dp)
         /\ buffer[loc[t].dp] \in M!Given
         /\ db_ref[loc[t].dp] = Cardinality(Users(loc[t].dp))
<1>1. loc[t].bp \in Hdr /\ loc[t].dp = b_datap[loc[t].bp]
  BY DEF MsgInv, Apart, Place, AtFree, Freeing
<1>2. Counted(loc[t].bp)
  BY DEF Counted
<1>3. b_datap[loc[t].bp] \in Hdr /\ loc[t].bp \in used
  BY <1>1, <1>2 DEF MsgInv, Referenced
<1>4. loc[t].bp \in Users(loc[t].dp)
  BY <1>1, <1>2 DEF Users
<1> QED
  BY <1>1, <1>2, <1>3, <1>4 DEF MsgInv, Referenced

\* What a task holds is allocated.
LEMMA HeldIsUsed ==
  ASSUME PoolFits, MsgInv, NEW t \in Task
  PROVE  Held(t) \subseteq used
<1> SUFFICES ASSUME NEW h \in Held(t)
             PROVE  h \in used
  OBVIOUS
<1>0. h \in Hdr /\ (h = loc[t].bp \/ h = loc[t].newbp) /\ Place(t)
  BY DEF Held, MsgInv
<1>1. mpc[t] # "idle"
  <2> SUFFICES ASSUME mpc[t] = "idle"
               PROVE  FALSE
    OBVIOUS
  <2>1. loc[t] = M!NoLoc
    BY DEF MsgInv, Apart
  <2> QED
    BY <1>0, <2>1 DEF M!NoLoc, PoolFits
<1>2. CASE h = loc[t].newbp
  <2>1. CASE mpc[t] = "dup"
    BY <1>0, <1>2, <2>1 DEF Place, AtDup
  <2>2. CASE mpc[t] # "dup"
    <3>1. Counted(h)
      BY <1>2, <2>2 DEF Counted
    <3> QED
      BY <1>0, <3>1 DEF MsgInv, Referenced
  <2> QED
    BY <2>1, <2>2
<1>3. CASE h = loc[t].bp
  <2>1. CASE mpc[t] \in Freeing \cup {"dup"}
    <3>1. Counted(h)
      BY <1>3, <2>1 DEF Counted
    <3> QED
      BY <1>0, <3>1 DEF MsgInv, Referenced
  <2>2. CASE mpc[t] \notin Freeing \cup {"dup"}
    <3>1. mpc[t] \in {"zero", "mine", "less", "last"}
      BY <1>1, <2>2 DEF MsgInv, MsgTypes
    <3> QED
      BY <1>0, <1>3, <3>1 DEF Place, AtZero, AtEnd
  <2> QED
    BY <2>1, <2>2
<1> QED
  BY <1>0, <1>2, <1>3

\* The headers on which it rests where a task is.
Work(t) ==
  {h \in Hdr : \/ h = loc[t].newbp
               \/ mpc[t] \in Freeing /\ ~loc[t].free_hdr /\ loc[t].dp = loc[t].bp /\ h = loc[t].bp
               \/ mpc[t] \in {"read", "write", "zero"} /\ h = loc[t].dp
               \/ mpc[t] \in {"zero", "mine", "less", "last"} /\ h = loc[t].bp}

Same(h) == /\ h \in used' <=> h \in used
           /\ db_ref'[h] = db_ref[h] /\ buffer'[h] = buffer[h]
           /\ Users(h)' = Users(h)

\* Nobody else changes them: a header has users that the task holds, or the task has
\* the lock.
LEMMA WorkIsOwn ==
  ASSUME PoolFits, MsgInv, NEW t \in Task, NEW h \in Work(t)
  PROVE  /\ h \in Hdr /\ h \in used /\ mpc[t] # "idle"
         /\ \/ Users(h) \subseteq Held(t)
            \/ lis_msg_lock = t /\ mpc[t] \in {"read", "write"} /\ h = loc[t].dp /\ loc[t].bp \in Users(h)
         /\ \A s \in Task : s # t /\ h \in Held(s) => loc[t].bp \in Users(h)
                                                      /\ mpc[t] \in {"read", "write"}
<1>0. h \in Hdr /\ Place(t) /\ mpc[t] # "idle"
  <2>1. mpc[t] = "idle" => loc[t].newbp = NoHdr
    BY DEF MsgInv, Apart, M!NoLoc
  <2> QED
    BY <2>1 DEF Work, Freeing, MsgInv, PoolFits
<1>1. Held(t) \subseteq used
  BY HeldIsUsed
<1>2. \A s \in Task : s # t => Held(s) \cap Held(t) = {}
  BY DEF MsgInv, Apart
<1>3. loc[t].bp \in Hdr
  BY <1>0 DEF MsgInv, Apart
<1>4. CASE h = loc[t].newbp
  <2>1. h \in Held(t)
    BY <1>0, <1>4 DEF Held
  <2>2. Users(h) \subseteq Held(t)
    BY <1>0, <1>4, <2>1 DEF Place, AtDup, Fresh, PoolFits
  <2> QED
    BY <1>0, <1>1, <1>2, <2>1, <2>2
<1>5. CASE mpc[t] \in Freeing /\ ~loc[t].free_hdr /\ loc[t].dp = loc[t].bp /\ h = loc[t].bp
  <2>1. h \in Held(t)
    BY <1>3, <1>5 DEF Held
  <2>2. Users(h) \subseteq Held(t)
    BY <1>0, <1>5, <2>1 DEF Place, AtFree
  <2> QED
    BY <1>0, <1>1, <1>2, <2>1, <2>2
<1>6. CASE mpc[t] \in {"zero", "mine", "less", "last"} /\ h = loc[t].bp
  <2>1. h \in Held(t)
    BY <1>3, <1>6 DEF Held
  <2>2. Users(h) = {}
    BY <1>0, <1>6 DEF Place, AtZero, AtEnd
  <2> QED
    BY <1>0, <1>1, <1>2, <2>1, <2>2
<1>7. CASE mpc[t] = "zero" /\ h = loc[t].dp
  <2>1. h \in used /\ Users(h) = {} /\ \A s \in Task : h \in Held(s) => s = t
    BY <1>0, <1>7 DEF Place, AtZero
  <2> QED
    BY <1>0, <2>1
<1>8. CASE mpc[t] \in {"read", "write"} /\ h = loc[t].dp
  <2>1. mpc[t] \in Freeing
    BY <1>8 DEF Freeing
  <2>2. h \in used /\ loc[t].bp \in Users(h)
    BY <1>8, <2>1, FreeingFacts
  <2>3. IF loc[t].locked THEN lis_msg_lock = t ELSE Users(h) = {loc[t].bp}
    BY <1>0, <1>8, <2>1 DEF Place, AtFree
  <2> QED
    BY <1>0, <1>3, <1>8, <2>2, <2>3 DEF Held
<1> QED
  BY <1>4, <1>5, <1>6, <1>7, <1>8 DEF Work

\* A task that does nothing stays in place.
LEMMA PlaceFrame ==
  ASSUME PoolFits, MsgInv, NEW t \in Task, mpc'[t] = mpc[t], loc'[t] = loc[t],
         \A h \in Held(t) : b_datap'[h] = b_datap[h],
         \A h \in Work(t) : Same(h),
         lis_msg_lock = t => lis_msg_lock' = t,
         mpc[t] = "zero" =>
            /\ loc[t].dp \notin pool'
            /\ \A s \in Task : loc[t].dp \in Held(s)' => s = t /\ loc[t].dp = loc[t].bp
            /\ \A s \in Task : s # t /\ mpc'[s] = "zero" => loc'[s].dp # loc[t].dp
  PROVE  Place(t)'
<1>0. Place(t) /\ loc[t].newbp \in Hdr \cup {NoHdr} /\ NoHdr \notin Hdr
  BY DEF MsgInv, MsgTypes, PoolFits
<1>1. mpc[t] # "idle" => loc[t].bp \in Hdr /\ b_datap'[loc[t].bp] = b_datap[loc[t].bp]
  BY DEF MsgInv, Apart, Held
<1>2. loc[t].newbp \in Hdr => b_datap'[loc[t].newbp] = b_datap[loc[t].newbp] /\ Same(loc[t].newbp)
  BY DEF Held, Work
<1>3. mpc[t] = "dup" => loc[t].newbp \in Hdr
  BY DEF MsgInv, Apart
<1>4. (mpc[t] = "dup" => AtDup(t))'
  BY <1>0, <1>1, <1>2, <1>3 DEF Place, AtDup, Same, Cheap
<1>5. (mpc[t] \notin {"idle", "dup"} => Fresh(t))'
  BY <1>0, <1>2 DEF Place, Fresh, Same
<1>6. (mpc[t] \in Freeing => AtFree(t))'
  <2> SUFFICES ASSUME mpc[t] \in Freeing
               PROVE  AtFree(t)'
    OBVIOUS
  <2>1. loc[t].bp \in Hdr /\ loc[t].dp \in Hdr /\ AtFree(t)
    BY <1>0, FreeingFacts DEF Place
  <2>2. ~loc[t].free_hdr /\ loc[t].dp = loc[t].bp => Same(loc[t].bp)
    BY <2>1 DEF Work
  <2>3. mpc[t] \in {"read", "write"} => Same(loc[t].dp)
    BY <2>1 DEF Work
  <2> QED
    BY <1>1, <2>1, <2>2, <2>3 DEF AtFree, Same, Freeing
<1>7. (mpc[t] = "zero" => AtZero(t))'
  <2> SUFFICES ASSUME mpc[t] = "zero"
               PROVE  AtZero(t)'
    OBVIOUS
  <2>1. loc[t].bp \in Hdr /\ loc[t].dp \in Hdr /\ AtZero(t)
    BY <1>0, <1>1 DEF Place, AtZero, MsgInv, MsgTypes
  <2>2. Same(loc[t].dp) /\ Same(loc[t].bp)
    BY <2>1 DEF Work
  <2> QED
    BY <2>1, <2>2 DEF AtZero, Same, Cheap
<1>8. (mpc[t] \in {"mine", "less", "last"} => AtEnd(t))'
  <2> SUFFICES ASSUME mpc[t] \in {"mine", "less", "last"}
               PROVE  AtEnd(t)'
    OBVIOUS
  <2>1. Same(loc[t].bp)
    BY <1>1 DEF Work
  <2> QED
    BY <1>0, <2>1 DEF Place, AtEnd, Same, Cheap
<1> QED
  BY <1>4, <1>5, <1>6, <1>7, <1>8 DEF Place

\* A header of the cache is nobody's.
LEMMA FreeHeader ==
  ASSUME PoolFits, MsgInv, NEW h \in Hdr, h \notin used
  PROVE  /\ ~Counted(h) /\ Users(h) = {} /\ Cheap(h)
         /\ \A s \in Task : h \notin Held(s) /\ h \notin Work(s)
         /\ \A s \in Task : mpc[s] = "zero" => loc[s].dp # h
         /\ \A s \in Task : mpc[s] \in Freeing => loc[s].dp # h
         /\ \A x \in Hdr : Counted(x) => b_datap[x] # h
<1>1. ~Counted(h) /\ Users(h) = {} /\ Cheap(h)
  BY DEF MsgInv, Referenced, Needed
<1>2. \A s \in Task : h \notin Held(s) /\ h \notin Work(s)
  BY HeldIsUsed, WorkIsOwn
<1>3. \A s \in Task : mpc[s] = "zero" => loc[s].dp # h
  BY DEF MsgInv, Place, AtZero
<1>4. \A s \in Task : mpc[s] \in Freeing => loc[s].dp # h
  BY FreeingFacts
<1>5. \A x \in Hdr : Counted(x) => b_datap[x] # h
  BY <1>1 DEF Users
<1> QED
  BY <1>1, <1>2, <1>3, <1>4, <1>5

LEMMA AllocbKeeps ==
  ASSUME PoolFits, MsgInv, NEW t \in Task, NEW kind \in M!Given, M!Allocb(t, kind)
  PROVE  MsgInv'
<1>0. PICK h \in Hdr \ used : M!Initb(h, kind, h) /\ pool' = pool \cup {h}
  BY DEF M!Allocb
<1>u. UNCHANGED <<mpc, loc, lis_msg_lock, twice>>
  BY DEF M!Allocb
<1>1. MsgTypes'
  BY <1>0, <1>u DEF MsgInv, MsgTypes, M!Initb
<1>2. /\ ~Counted(h) /\ Users(h) = {}
      /\ \A s \in Task : h \notin Held(s) /\ h \notin Work(s)
      /\ \A s \in Task : mpc[s] = "zero" => loc[s].dp # h
      /\ \A x \in Hdr : Counted(x) => b_datap[x] # h
  BY <1>0, FreeHeader
<1>3. \A x \in Hdr : Counted(x)' <=> Counted(x) \/ x = h
  BY <1>0, <1>u DEF Counted
<1>4. /\ b_datap' = [b_datap EXCEPT ![h] = h] /\ db_ref' = [db_ref EXCEPT ![h] = 1]
      /\ buffer' = [buffer EXCEPT ![h] = kind] /\ used' = used \cup {h}
  BY <1>0 DEF M!Initb
<1>t. /\ b_datap \in [Hdr -> Hdr \cup {NoHdr}] /\ db_ref \in [Hdr -> Nat]
      /\ buffer \in [Hdr -> M!Given \cup {"none", "returned"}]
  BY DEF MsgInv, MsgTypes
<1>5. \A d \in Hdr : Users(d)' = IF d = h THEN {h} ELSE Users(d)
  BY <1>2, <1>3, <1>4, <1>t DEF Users
<1>6. \A s \in Task : Held(s)' = Held(s)
  BY <1>u DEF Held
<1>7. Apart'
  BY <1>0, <1>u, <1>2, <1>6 DEF MsgInv, Apart
<1>8. Referenced'
  <2>1. \A x \in Hdr : Counted(x)' => x \in used' /\ b_datap'[x] \in Hdr
    BY <1>2, <1>3, <1>4, <1>t DEF MsgInv, Referenced
  <2>2. \A x \in Hdr : Counted(x)' /\ b_datap'[x] # x => Users(x)' = {} /\ db_ref'[x] = 1 /\ Cheap(x)'
    BY <1>2, <1>3, <1>4, <1>5, <1>t DEF MsgInv, Referenced, Cheap
  <2>3. \A d \in Hdr : Users(d)' # {} =>
       d \in used' /\ buffer'[d] \in M!Given /\ db_ref'[d] = Cardinality(Users(d)')
    <3>1. Cardinality({h}) = 1
      BY HdrSets
    <3> QED
      BY <3>1, <1>2, <1>3, <1>4, <1>5, <1>t DEF MsgInv, Referenced
  <2> QED
    BY <2>1, <2>2, <2>3 DEF Referenced
<1>9. Needed'
  <2>1. \A x \in Hdr : x \notin used' => Cheap(x)'
    BY <1>4, <1>t DEF MsgInv, Needed, Cheap
  <2>2. ASSUME NEW x \in used'
        PROVE  \/ x \in pool' \/ Users(x)' # {}
               \/ \E s \in Task : x \in Held(s)' \/ (mpc'[s] = "zero" /\ x = loc'[s].dp)
    <3>1. x \in Hdr /\ (x = h \/ x \in used)
      BY <1>1, <1>4 DEF MsgTypes
    <3>2. x = h => x \in pool'
      BY <1>0
    <3> QED
      BY <1>0, <1>5, <1>6, <1>u, <3>1, <3>2 DEF MsgInv, Needed
  <2> QED
    BY <2>1, <2>2 DEF Needed
<1>10. \A s \in Task : Place(s)'
  <2> SUFFICES ASSUME NEW s \in Task
               PROVE  Place(s)'
    OBVIOUS
  <2>1. \A x \in Held(s) : b_datap'[x] = b_datap[x]
    BY <1>2, <1>4, <1>t DEF Held
  <2>2. \A x \in Work(s) : Same(x)
    BY <1>2, <1>4, <1>5, <1>t DEF Work, Same
  <2>3. mpc[s] = "zero" =>
            /\ loc[s].dp \notin pool'
            /\ \A r \in Task : loc[s].dp \in Held(r)' => r = s /\ loc[s].dp = loc[s].bp
            /\ \A r \in Task : r # s /\ mpc'[r] = "zero" => loc'[r].dp # loc[s].dp
    BY <1>0, <1>u, <1>2, <1>6 DEF MsgInv, Place, AtZero
  <2> QED
    BY <1>u, <2>1, <2>2, <2>3, PlaceFrame
<1>11. LockHeld'
  BY <1>u DEF MsgInv, LockHeld
<1> QED
  BY <1>1, <1>u, <1>7, <1>8, <1>9, <1>10, <1>11 DEF MsgInv

LEMMA DupbKeeps ==
  ASSUME PoolFits, MsgInv, NEW t \in Task, M!Dupb(t)
  PROVE  MsgInv'
<1>0. PICK m \in pool, h \in Hdr \ used :
         /\ M!Initb(h, "internal", b_datap[m])
         /\ pool' = pool \ {m}
         /\ M!Go(t, "dup", [M!NoLoc EXCEPT !.bp = m, !.newbp = h])
  BY DEF M!Dupb
<1>u. UNCHANGED <<lis_msg_lock, twice>> /\ mpc[t] = "idle"
  BY DEF M!Dupb
<1>t. /\ b_datap \in [Hdr -> Hdr \cup {NoHdr}] /\ db_ref \in [Hdr -> Nat]
      /\ buffer \in [Hdr -> M!Given \cup {"none", "returned"}]
      /\ mpc \in [Task -> Freeing \cup {"idle", "dup", "zero", "mine", "less", "last"}]
      /\ loc \in [Task -> [bp : Hdr \cup {NoHdr}, dp : Hdr \cup {NoHdr}, newbp : Hdr \cup {NoHdr},
                       free_hdr : BOOLEAN, locked : BOOLEAN, ref : Nat]]
      /\ pool \in SUBSET Hdr
  BY DEF MsgInv, MsgTypes
<1>2. /\ ~Counted(h) /\ Users(h) = {}
      /\ \A s \in Task : h \notin Held(s) /\ h \notin Work(s)
      /\ \A s \in Task : mpc[s] = "zero" => loc[s].dp # h
      /\ \A x \in Hdr : Counted(x) => b_datap[x] # h
  BY <1>0, FreeHeader
<1>3. m \in Hdr /\ Counted(m) /\ m \in used /\ b_datap[m] \in Hdr /\ m # h
  BY <1>0, <1>2, <1>t DEF Counted, MsgInv, Referenced
<1>4. /\ b_datap' = [b_datap EXCEPT ![h] = b_datap[m]] /\ db_ref' = [db_ref EXCEPT ![h] = 1]
      /\ buffer' = [buffer EXCEPT ![h] = "internal"] /\ used' = used \cup {h}
      /\ mpc' = [mpc EXCEPT ![t] = "dup"]
      /\ loc' = [loc EXCEPT ![t] = [M!NoLoc EXCEPT !.bp = m, !.newbp = h]]
  BY <1>0 DEF M!Initb, M!Go
<1>l. /\ mpc'[t] = "dup" /\ loc'[t].bp = m /\ loc'[t].newbp = h /\ loc[t] = M!NoLoc
      /\ loc[t].bp = NoHdr /\ loc[t].newbp = NoHdr
      /\ \A s \in Task : s # t => mpc'[s] = mpc[s] /\ loc'[s] = loc[s]
  <2>1. loc[t] = M!NoLoc
    BY <1>u DEF MsgInv, Apart
  <2> QED
    BY <1>4, <1>t, <2>1 DEF M!NoLoc
<1>1. MsgTypes'
  BY <1>0, <1>u, <1>3, <1>4, <1>t DEF MsgInv, MsgTypes, M!NoLoc, M!Given
<1>5. \A x \in Hdr : Counted(x)' <=> Counted(x)
  <2> SUFFICES ASSUME NEW x \in Hdr
               PROVE  Counted(x)' <=> Counted(x)
    OBVIOUS
  <2>1. x # NoHdr
    BY DEF PoolFits
  <2>2. CASE x = m
    BY <1>3, <1>l, <2>2 DEF Counted
  <2>3. CASE x # m
    BY <1>0, <1>u, <1>l, <2>1, <2>3 DEF Counted
  <2> QED
    BY <2>2, <2>3
<1>6. \A d \in Hdr : Users(d)' = Users(d)
  BY <1>2, <1>4, <1>5, <1>t DEF Users
<1>7. /\ \A s \in Task : s # t => Held(s)' = Held(s)
      /\ Held(t)' = {m, h} /\ Held(t) = {}
  BY <1>0, <1>3, <1>l DEF Held, PoolFits
<1>8. Apart'
  <2>1. \A s \in Task : m \notin Held(s)
    BY <1>0 DEF MsgInv, Apart
  <2>2. ASSUME NEW s \in Task
        PROVE  /\ mpc'[s] = "idle" => loc'[s] = M!NoLoc
               /\ mpc'[s] # "idle" => loc'[s].bp \in Hdr /\ loc'[s].bp # loc'[s].newbp
               /\ mpc'[s] = "dup" => loc'[s].newbp \in Hdr
               /\ Held(s)' \cap pool' = {}
    <3>1. CASE s = t
      BY <1>0, <1>3, <1>7, <1>l, <1>2, <1>t, <3>1 DEF Counted
    <3>2. CASE s # t
      BY <1>0, <1>7, <1>l, <3>2 DEF MsgInv, Apart
    <3> QED
      BY <3>1, <3>2
  <2>3. \A s, r \in Task : s # r => Held(s)' \cap Held(r)' = {}
    BY <1>2, <1>7, <2>1 DEF MsgInv, Apart
  <2> QED
    BY <2>2, <2>3 DEF Apart
<1>9. Referenced'
  BY <1>2, <1>4, <1>5, <1>6, <1>t DEF MsgInv, Referenced, Cheap
<1>10. Needed'
  <2>1. \A x \in Hdr : x \notin used' => Cheap(x)'
    BY <1>4, <1>t DEF MsgInv, Needed, Cheap
  <2>2. ASSUME NEW x \in used'
        PROVE  \/ x \in pool' \/ Users(x)' # {}
               \/ \E s \in Task : x \in Held(s)' \/ (mpc'[s] = "zero" /\ x = loc'[s].dp)
    <3>1. x \in {m, h} => x \in Held(t)'
      BY <1>7
    <3>2. x \in Hdr
      BY <1>1 DEF MsgTypes
    <3>3. x \notin {m, h} => x \in used
      BY <1>4
    <3> QED
      BY <1>0, <1>6, <1>7, <1>l, <1>u, <3>1, <3>2, <3>3 DEF MsgInv, Needed
  <2> QED
    BY <2>1, <2>2 DEF Needed
<1>11. \A s \in Task : s # t => Place(s)'
  <2> SUFFICES ASSUME NEW s \in Task, s # t
               PROVE  Place(s)'
    OBVIOUS
  <2>1. \A x \in Held(s) : b_datap'[x] = b_datap[x]
    BY <1>2, <1>4, <1>t DEF Held
  <2>2. \A x \in Work(s) : Same(x)
    BY <1>2, <1>4, <1>6, <1>t DEF Work, Same
  <2>3. mpc[s] = "zero" =>
            /\ loc[s].dp \notin pool'
            /\ \A r \in Task : loc[s].dp \in Held(r)' => r = s /\ loc[s].dp = loc[s].bp
            /\ \A r \in Task : r # s /\ mpc'[r] = "zero" => loc'[r].dp # loc[s].dp
    BY <1>0, <1>u, <1>2, <1>7, <1>l DEF MsgInv, Place, AtZero
  <2> QED
    BY <1>u, <1>l, <2>1, <2>2, <2>3, PlaceFrame
<1>12. Place(t)'
  <2>1. AtDup(t)'
    BY <1>0, <1>2, <1>3, <1>4, <1>6, <1>l, <1>t DEF AtDup, Cheap
  <2> QED
    BY <1>l, <2>1 DEF Place, Freeing
<1>13. LockHeld'
  BY <1>u, <1>l DEF MsgInv, MsgTypes, LockHeld
<1> QED
  BY <1>1, <1>u, <1>8, <1>9, <1>10, <1>11, <1>12, <1>13 DEF MsgInv

\* The other tasks stay in place, if nothing they work on changes.
LEMMA OthersStay ==
  ASSUME PoolFits, MsgInv, NEW t \in Task,
         \A s \in Task : s # t => mpc'[s] = mpc[s] /\ loc'[s] = loc[s],
         \A s \in Task : s # t => \A h \in Held(s) : b_datap'[h] = b_datap[h],
         \A s \in Task : s # t => \A h \in Work(s) : Same(h),
         \A s \in Task : s # t /\ lis_msg_lock = s => lis_msg_lock' = s,
         Held(t)' \cap used \subseteq Held(t) \cup pool,
         pool' \cap used \subseteq Held(t) \cup pool,
         mpc'[t] = "zero" => Users(loc'[t].dp) # {}
  PROVE  \A s \in Task : s # t => Place(s)'
<1> SUFFICES ASSUME NEW s \in Task, s # t
             PROVE  Place(s)'
  OBVIOUS
<1>1. \A r \in Task : r # t => Held(r)' = Held(r)
  BY DEF Held
<1>2. mpc[s] = "zero" =>
            /\ loc[s].dp \notin pool'
            /\ \A r \in Task : loc[s].dp \in Held(r)' => r = s /\ loc[s].dp = loc[s].bp
            /\ \A r \in Task : r # s /\ mpc'[r] = "zero" => loc'[r].dp # loc[s].dp
  <2> SUFFICES ASSUME mpc[s] = "zero"
               PROVE  /\ loc[s].dp \notin pool'
                      /\ \A r \in Task : loc[s].dp \in Held(r)' => r = s /\ loc[s].dp = loc[s].bp
                      /\ \A r \in Task : r # s /\ mpc'[r] = "zero" => loc'[r].dp # loc[s].dp
    OBVIOUS
  <2>1. AtZero(s)
    BY DEF MsgInv, Place
  <2>2. loc[s].dp \notin Held(t) \cup pool /\ loc[s].dp \in used /\ Users(loc[s].dp) = {}
    BY <2>1 DEF AtZero
  <2>3. loc[s].dp \notin Held(t)' /\ loc[s].dp \notin pool'
    BY <2>2
  <2>4. \A r \in Task : loc[s].dp \in Held(r)' => r = s /\ loc[s].dp = loc[s].bp
    BY <1>1, <2>1, <2>3 DEF AtZero
  <2>5. \A r \in Task : r # s /\ mpc'[r] = "zero" => loc'[r].dp # loc[s].dp
    BY <2>1, <2>2 DEF AtZero
  <2> QED
    BY <2>3, <2>4, <2>5
<1> QED
  BY <1>2, PlaceFrame

\* A step within lis_freedb that changes no block.
LEMMA QuietStep ==
  ASSUME PoolFits, MsgInv, NEW t \in Task, MsgTypes',
         UNCHANGED <<used, b_datap, db_ref, buffer, pool, twice>>,
         \A s \in Task : s # t => mpc'[s] = mpc[s] /\ loc'[s] = loc[s],
         \A s \in Task : s # t /\ lis_msg_lock = s => lis_msg_lock' = s,
         loc'[t].bp = loc[t].bp, loc'[t].newbp = loc[t].newbp, loc'[t].dp = loc[t].dp,
         \/ mpc[t] \in Freeing /\ mpc'[t] \in Freeing
         \/ mpc[t] \in {"mine", "less"} /\ mpc'[t] \in {"mine", "less", "last"},
         LockHeld',
         (\A h \in Hdr : Users(h)' = Users(h)) => Place(t)'
  PROVE  MsgInv'
<1>1. \A h \in Hdr : Counted(h)' <=> Counted(h)
  <2> SUFFICES ASSUME NEW h \in Hdr
               PROVE  Counted(h)' <=> Counted(h)
    OBVIOUS
  <2>1. \A s \in Task : (mpc'[s] \in Freeing \cup {"dup"} <=> mpc[s] \in Freeing \cup {"dup"})
                        /\ (mpc'[s] # "dup" <=> mpc[s] # "dup")
                        /\ loc'[s].bp = loc[s].bp /\ loc'[s].newbp = loc[s].newbp
    BY DEF Freeing
  <2> QED
    BY <2>1 DEF Counted
<1>2. \A h \in Hdr : Users(h)' = Users(h)
  BY <1>1 DEF Users
<1>3. \A s \in Task : Held(s)' = Held(s)
  BY DEF Held
<1>4. Apart'
  <2>1. mpc'[t] # "idle" /\ mpc[t] # "idle" /\ mpc'[t] # "dup"
    BY DEF Freeing
  <2>2. \A s \in Task : /\ mpc'[s] = "idle" => loc'[s] = M!NoLoc
                        /\ mpc'[s] # "idle" => loc'[s].bp \in Hdr /\ loc'[s].bp # loc'[s].newbp
                        /\ mpc'[s] = "dup" => loc'[s].newbp \in Hdr
                        /\ Held(s)' \cap pool' = {}
    BY <1>3, <2>1 DEF MsgInv, Apart
  <2>3. \A s, r \in Task : s # r => Held(s)' \cap Held(r)' = {}
    BY <1>3 DEF MsgInv, Apart
  <2> QED
    BY <2>2, <2>3 DEF Apart
<1>5. Referenced'
  BY <1>1, <1>2 DEF MsgInv, Referenced, Cheap
<1>6. Needed'
  <2>1. mpc[t] # "zero" /\ used' = used /\ used \subseteq Hdr
    BY DEF Freeing, MsgInv, MsgTypes
  <2>2. \A h \in Hdr : h \notin used' => Cheap(h)'
    BY DEF MsgInv, Needed, Cheap
  <2>3. \A h \in used' : \/ h \in pool' \/ Users(h)' # {}
                         \/ \E s \in Task : h \in Held(s)' \/ (mpc'[s] = "zero" /\ h = loc'[s].dp)
    BY <1>2, <1>3, <2>1 DEF MsgInv, Needed
  <2> QED
    BY <2>2, <2>3 DEF Needed
<1>7. \A s \in Task : s # t => Place(s)'
  <2>1. \A h \in Hdr : Same(h)
    BY <1>2 DEF Same
  <2>2. mpc'[t] # "zero"
    BY DEF Freeing
  <2>3. \A s \in Task : s # t => \A h \in Work(s) : Same(h)
    BY <2>1 DEF Work
  <2> QED
    BY <1>3, <2>2, <2>3, OthersStay
<1> QED
  BY <1>2, <1>4, <1>5, <1>6, <1>7 DEF MsgInv

LEMMA FreedbTestKeeps ==
  ASSUME PoolFits, MsgInv, NEW t \in Task, M!FreedbTest(t)
  PROVE  MsgInv'
<1>t. /\ db_ref \in [Hdr -> Nat]
      /\ mpc \in [Task -> Freeing \cup {"idle", "dup", "zero", "mine", "less", "last"}]
      /\ loc \in [Task -> [bp : Hdr \cup {NoHdr}, dp : Hdr \cup {NoHdr}, newbp : Hdr \cup {NoHdr},
                       free_hdr : BOOLEAN, locked : BOOLEAN, ref : Nat]]
  BY DEF MsgInv, MsgTypes
<1>1. /\ mpc[t] = "freedb" /\ UNCHANGED <<used, b_datap, db_ref, buffer, pool, lis_msg_lock, twice>>
      /\ mpc' = [mpc EXCEPT ![t] = IF M!Locked(t) THEN "lock" ELSE "read"]
      /\ loc' = [loc EXCEPT ![t] = [loc[t] EXCEPT !.locked = M!Locked(t)]]
  BY DEF M!FreedbTest, M!Go
<1>2. M!Locked(t) \in BOOLEAN /\ (M!Locked(t) <=> db_ref[loc[t].dp] # 1)
  BY DEF M!Locked
<1>3. /\ \A s \in Task : s # t => mpc'[s] = mpc[s] /\ loc'[s] = loc[s]
      /\ loc'[t].bp = loc[t].bp /\ loc'[t].newbp = loc[t].newbp /\ loc'[t].dp = loc[t].dp
      /\ loc'[t].free_hdr = loc[t].free_hdr /\ loc'[t].locked = M!Locked(t)
      /\ mpc'[t] = IF M!Locked(t) THEN "lock" ELSE "read"
  BY <1>1, <1>t
<1>4. MsgTypes'
  BY <1>1, <1>2, <1>t DEF MsgInv, MsgTypes, Freeing
<1>5. LockHeld'
  BY <1>1, <1>3, <1>t DEF MsgInv, MsgTypes, LockHeld
<1>6. ASSUME \A h \in Hdr : Users(h)' = Users(h)
      PROVE  Place(t)'
  <2>1. mpc[t] \in Freeing
    BY <1>1 DEF Freeing
  <2>2. /\ loc[t].bp \in Hdr /\ loc[t].dp \in Hdr /\ loc[t].bp \in Users(loc[t].dp)
        /\ db_ref[loc[t].dp] = Cardinality(Users(loc[t].dp))
    BY <2>1, FreeingFacts
  <2>3. Cardinality(Users(loc[t].dp)) = 1 => Users(loc[t].dp) = {loc[t].bp}
    BY <2>2, UserSets
  <2>4. ~M!Locked(t) => Users(loc[t].dp) = {loc[t].bp}
    BY <1>2, <2>2, <2>3
  <2>5. Fresh(t)'
    <3>1. Fresh(t) /\ loc[t].newbp \in Hdr \cup {NoHdr}
      BY <1>1, <1>t DEF MsgInv, Place
    <3>2. loc'[t].newbp = loc[t].newbp /\ loc'[t].free_hdr = loc[t].free_hdr /\ b_datap' = b_datap
      BY <1>1, <1>3
    <3> QED
      BY <1>6, <3>1, <3>2 DEF Fresh
  <2>6. AtFree(t)'
    BY <1>1, <1>2, <1>3, <1>6, <2>1, <2>2, <2>4 DEF MsgInv, Place, AtFree
  <2> QED
    BY <1>3, <2>5, <2>6 DEF Place
<1>7. mpc[t] \in Freeing /\ mpc'[t] \in Freeing
  BY <1>1, <1>3 DEF Freeing
<1> QED
  BY <1>1, <1>3, <1>4, <1>5, <1>6, <1>7, QuietStep

LEMMA FreedbLockKeeps ==
  ASSUME PoolFits, MsgInv, NEW t \in Task, M!FreedbLock(t)
  PROVE  MsgInv'
<1>t. /\ mpc \in [Task -> Freeing \cup {"idle", "dup", "zero", "mine", "less", "last"}]
      /\ loc \in [Task -> [bp : Hdr \cup {NoHdr}, dp : Hdr \cup {NoHdr}, newbp : Hdr \cup {NoHdr},
                       free_hdr : BOOLEAN, locked : BOOLEAN, ref : Nat]]
  BY DEF MsgInv, MsgTypes
<1>1. /\ mpc[t] = "lock" /\ lis_msg_lock = NoOne /\ lis_msg_lock' = t
      /\ UNCHANGED <<used, b_datap, db_ref, buffer, pool, twice>>
      /\ mpc' = [mpc EXCEPT ![t] = "read"]
      /\ loc' = [loc EXCEPT ![t] = loc[t]]
  BY DEF M!FreedbLock, M!Go
<1>3. /\ \A s \in Task : s # t => mpc'[s] = mpc[s] /\ loc'[s] = loc[s]
      /\ loc'[t] = loc[t] /\ mpc'[t] = "read"
  BY <1>1, <1>t
<1>4. MsgTypes'
  BY <1>1, <1>t DEF MsgInv, MsgTypes, Freeing
<1>7. mpc[t] \in Freeing /\ mpc'[t] \in Freeing
  BY <1>1, <1>3 DEF Freeing
<1>8. AtFree(t) /\ loc[t].locked
  BY <1>1, <1>7 DEF MsgInv, Place, AtFree
<1>5. LockHeld'
  BY <1>1, <1>3, <1>8 DEF LockHeld
<1>6. ASSUME \A h \in Hdr : Users(h)' = Users(h)
      PROVE  Place(t)'
  <2>2. loc[t].bp \in Hdr
    BY <1>7, FreeingFacts
  <2>5. Fresh(t)'
    <3>1. Fresh(t) /\ loc[t].newbp \in Hdr \cup {NoHdr}
      BY <1>1, <1>t DEF MsgInv, Place
    <3>2. loc'[t].newbp = loc[t].newbp /\ loc'[t].free_hdr = loc[t].free_hdr /\ b_datap' = b_datap
      BY <1>1, <1>3
    <3> QED
      BY <1>6, <3>1, <3>2 DEF Fresh
  <2>6. AtFree(t)'
    BY <1>1, <1>3, <1>6, <1>8, <2>2 DEF AtFree
  <2> QED
    BY <1>3, <2>5, <2>6 DEF Place
<1>9. \A s \in Task : s # t /\ lis_msg_lock = s => lis_msg_lock' = s
  BY <1>1 DEF PoolFits
<1> QED
  BY <1>1, <1>3, <1>4, <1>5, <1>6, <1>7, <1>9, QuietStep

LEMMA FreedbReadKeeps ==
  ASSUME PoolFits, MsgInv, NEW t \in Task, M!FreedbRead(t)
  PROVE  MsgInv'
<1>t. /\ db_ref \in [Hdr -> Nat]
      /\ mpc \in [Task -> Freeing \cup {"idle", "dup", "zero", "mine", "less", "last"}]
      /\ loc \in [Task -> [bp : Hdr \cup {NoHdr}, dp : Hdr \cup {NoHdr}, newbp : Hdr \cup {NoHdr},
                       free_hdr : BOOLEAN, locked : BOOLEAN, ref : Nat]]
  BY DEF MsgInv, MsgTypes
<1>0. mpc[t] = "read" /\ mpc[t] \in Freeing
  BY DEF M!FreedbRead, Freeing
<1>2. /\ loc[t].bp \in Hdr /\ loc[t].dp \in Hdr /\ loc[t].bp \in Users(loc[t].dp)
      /\ db_ref[loc[t].dp] = Cardinality(Users(loc[t].dp))
  BY <1>0, FreeingFacts
<1>d. db_ref[loc[t].dp] > 0
  <2>1. Cardinality(Users(loc[t].dp)) > 0
    BY <1>2, UserSets
  <2> QED
    BY <1>2, <2>1
<1>1. /\ UNCHANGED <<used, b_datap, db_ref, buffer, pool, lis_msg_lock, twice>>
      /\ mpc' = [mpc EXCEPT ![t] = "write"]
      /\ loc' = [loc EXCEPT ![t] = [loc[t] EXCEPT !.ref = db_ref[loc[t].dp] - 1]]
  BY <1>d DEF M!FreedbRead, M!Go
<1>3. /\ \A s \in Task : s # t => mpc'[s] = mpc[s] /\ loc'[s] = loc[s]
      /\ loc'[t].bp = loc[t].bp /\ loc'[t].newbp = loc[t].newbp /\ loc'[t].dp = loc[t].dp
      /\ loc'[t].free_hdr = loc[t].free_hdr /\ loc'[t].locked = loc[t].locked
      /\ mpc'[t] = "write" /\ loc'[t].ref = db_ref[loc[t].dp] - 1
  BY <1>1, <1>t
<1>r. db_ref[loc[t].dp] - 1 \in Nat
  BY <1>2, <1>d, <1>t
<1>4. MsgTypes'
  BY <1>1, <1>r, <1>t DEF MsgInv, MsgTypes, Freeing
<1>5. LockHeld'
  BY <1>0, <1>1, <1>3, <1>t DEF MsgInv, MsgTypes, LockHeld
<1>6. ASSUME \A h \in Hdr : Users(h)' = Users(h)
      PROVE  Place(t)'
  <2>5. Fresh(t)'
    <3>1. Fresh(t) /\ loc[t].newbp \in Hdr \cup {NoHdr}
      BY <1>0, <1>t DEF MsgInv, Place
    <3>2. loc'[t].newbp = loc[t].newbp /\ loc'[t].free_hdr = loc[t].free_hdr /\ b_datap' = b_datap
      BY <1>1, <1>3
    <3> QED
      BY <1>6, <3>1, <3>2 DEF Fresh
  <2>6. AtFree(t)'
    BY <1>0, <1>1, <1>2, <1>3, <1>6 DEF MsgInv, Place, AtFree
  <2> QED
    BY <1>3, <2>5, <2>6 DEF Place
<1>7. mpc[t] \in Freeing /\ mpc'[t] \in Freeing
  BY <1>0, <1>3 DEF Freeing
<1> QED
  BY <1>1, <1>3, <1>4, <1>5, <1>6, <1>7, QuietStep

LEMMA FreedbMineKeeps ==
  ASSUME PoolFits, MsgInv, NEW t \in Task, M!FreedbMine(t)
  PROVE  MsgInv'
<1>t. /\ db_ref \in [Hdr -> Nat]
      /\ mpc \in [Task -> Freeing \cup {"idle", "dup", "zero", "mine", "less", "last"}]
      /\ loc \in [Task -> [bp : Hdr \cup {NoHdr}, dp : Hdr \cup {NoHdr}, newbp : Hdr \cup {NoHdr},
                       free_hdr : BOOLEAN, locked : BOOLEAN, ref : Nat]]
  BY DEF MsgInv, MsgTypes
<1>0. mpc[t] = "mine"
  BY DEF M!FreedbMine
<1>2. AtEnd(t) /\ loc[t].bp \in Hdr /\ db_ref[loc[t].bp] = 1 /\ loc[t].free_hdr
  BY <1>0 DEF MsgInv, Place, AtEnd, Apart
<1>1. /\ UNCHANGED <<used, b_datap, db_ref, buffer, pool, lis_msg_lock, twice>>
      /\ mpc' = [mpc EXCEPT ![t] = "less"]
      /\ loc' = [loc EXCEPT ![t] = [loc[t] EXCEPT !.ref = 1]]
  BY <1>2 DEF M!FreedbMine, M!Go
<1>3. /\ \A s \in Task : s # t => mpc'[s] = mpc[s] /\ loc'[s] = loc[s]
      /\ loc'[t].bp = loc[t].bp /\ loc'[t].newbp = loc[t].newbp /\ loc'[t].dp = loc[t].dp
      /\ loc'[t].free_hdr = loc[t].free_hdr /\ loc'[t].locked = loc[t].locked
      /\ mpc'[t] = "less" /\ loc'[t].ref = 1
  BY <1>1, <1>t
<1>4. MsgTypes'
  BY <1>1, <1>t DEF MsgInv, MsgTypes, Freeing
<1>5. LockHeld'
  BY <1>0, <1>1, <1>3, <1>t DEF MsgInv, MsgTypes, LockHeld
<1>6. ASSUME \A h \in Hdr : Users(h)' = Users(h)
      PROVE  Place(t)'
  <2>5. Fresh(t)'
    <3>1. Fresh(t) /\ loc[t].newbp \in Hdr \cup {NoHdr}
      BY <1>0, <1>t DEF MsgInv, Place
    <3>2. loc'[t].newbp = loc[t].newbp /\ loc'[t].free_hdr = loc[t].free_hdr /\ b_datap' = b_datap
      BY <1>1, <1>3
    <3> QED
      BY <1>6, <3>1, <3>2 DEF Fresh
  <2>6. AtEnd(t)'
    BY <1>1, <1>2, <1>3, <1>6 DEF AtEnd, Cheap
  <2> QED
    BY <1>3, <2>5, <2>6 DEF Place, Freeing
<1> QED
  BY <1>0, <1>1, <1>3, <1>4, <1>5, <1>6, QuietStep

LEMMA DupbRefKeeps ==
  ASSUME PoolFits, MsgInv, NEW t \in Task, M!DupbRef(t)
  PROVE  MsgInv'
<1> DEFINE b == loc[t].bp
           n == loc[t].newbp
           d == b_datap[b]
<1>t. /\ b_datap \in [Hdr -> Hdr \cup {NoHdr}] /\ db_ref \in [Hdr -> Nat]
      /\ buffer \in [Hdr -> M!Given \cup {"none", "returned"}] /\ pool \subseteq Hdr /\ used \subseteq Hdr
      /\ mpc \in [Task -> Freeing \cup {"idle", "dup", "zero", "mine", "less", "last"}]
      /\ loc \in [Task -> [bp : Hdr \cup {NoHdr}, dp : Hdr \cup {NoHdr}, newbp : Hdr \cup {NoHdr},
                       free_hdr : BOOLEAN, locked : BOOLEAN, ref : Nat]]
  BY DEF MsgInv, MsgTypes
<1>0. /\ mpc[t] = "dup" /\ lis_msg_lock = NoOne
      /\ UNCHANGED <<used, b_datap, buffer, lis_msg_lock, twice>>
      /\ db_ref' = [db_ref EXCEPT ![d] = (@ + 1) % Width]
      /\ pool' = pool \cup {b, n}
      /\ mpc' = [mpc EXCEPT ![t] = "idle"] /\ loc' = [loc EXCEPT ![t] = M!NoLoc]
  BY DEF M!DupbRef, M!CountedIn, M!Go
<1>1. /\ b \in Hdr /\ n \in Hdr /\ b # n /\ AtDup(t) /\ Held(t) = {b, n} /\ Held(t) \cap pool = {}
  BY <1>0 DEF MsgInv, Apart, Place, Held
<1>2. Counted(b) /\ d \in Hdr /\ b \in Users(d)
  <2>1. Counted(b)
    BY <1>0, <1>1 DEF Counted
  <2> QED
    BY <1>1, <2>1 DEF MsgInv, Referenced, Users
<1>3. /\ d \in used /\ buffer[d] \in M!Given /\ db_ref[d] = Cardinality(Users(d))
  BY <1>2 DEF MsgInv, Referenced
<1>4. ~Counted(n) /\ Users(n) = {} /\ b_datap[n] = d /\ n # d /\ n \in used
      /\ db_ref[n] = 1 /\ Cheap(n)
  <2>1. ~Counted(n)
    <3>1. n \notin pool
      BY <1>1
    <3>2. \A s \in Task : s # t => n # loc[s].bp /\ n # loc[s].newbp
      BY <1>1 DEF MsgInv, Apart, Held
    <3> QED
      BY <1>0, <1>1, <3>1, <3>2 DEF Counted
  <2> QED
    BY <1>1, <1>2, <2>1 DEF AtDup
<1>l. /\ mpc'[t] = "idle" /\ loc'[t] = M!NoLoc /\ loc'[t].bp = NoHdr /\ loc'[t].newbp = NoHdr
      /\ \A s \in Task : s # t => mpc'[s] = mpc[s] /\ loc'[s] = loc[s]
  BY <1>0, <1>t DEF M!NoLoc
<1>5. \A x \in Hdr : Counted(x)' <=> Counted(x) \/ x = n
  <2> SUFFICES ASSUME NEW x \in Hdr
               PROVE  Counted(x)' <=> Counted(x) \/ x = n
    OBVIOUS
  <2>1. x # NoHdr
    BY DEF PoolFits
  <2>2. CASE x \in {b, n}
    BY <1>0, <1>2, <2>2 DEF Counted
  <2>3. CASE x \notin {b, n}
    BY <1>0, <1>l, <2>1, <2>3 DEF Counted
  <2> QED
    BY <2>2, <2>3
<1>6. \A x \in Hdr : Users(x)' = IF x = d THEN Users(d) \cup {n} ELSE Users(x)
  BY <1>0, <1>1, <1>4, <1>5 DEF Users
<1>7. /\ \A x \in Hdr : x # d => db_ref'[x] = db_ref[x]
      /\ db_ref'[d] = db_ref[d] + 1 /\ db_ref'[d] = Cardinality(Users(d) \cup {n})
  <2>1. n \notin Users(d)
    BY <1>4 DEF Users
  <2>2. Cardinality(Users(d) \cup {n}) = Cardinality(Users(d)) + 1
    BY <2>1, UserSets
  <2>3. Cardinality(Users(d) \cup {n}) < Width /\ Cardinality(Users(d)) \in Nat /\ Width \in Nat
    <3>2. Cardinality(Users(d) \cup {n}) < Width
      <4> DEFINE S == Users(d) \cup {n}
      <4>1. S \in SUBSET Hdr
        BY <1>1, UserSets
      <4> HIDE DEF S
      <4>2. Cardinality(S) \in Nat /\ Cardinality(S) <= Cardinality(Hdr)
        BY <4>1, HdrSets
      <4>3. Cardinality(Hdr) \in Nat
        BY FS_CardinalityType DEF PoolFits
      <4>4. Cardinality(S) < Width
        BY <4>2, <4>3 DEF PoolFits
      <4> QED
        BY <4>4 DEF S
    <3> QED
      BY <3>2, UserSets DEF PoolFits
  <2>4. (db_ref[d] + 1) % Width = db_ref[d] + 1
    BY <1>3, <2>2, <2>3
  <2> QED
    BY <1>0, <1>2, <1>3, <1>t, <2>2, <2>4
<1>8. MsgTypes'
  <2>1. M!NoLoc \in [bp : Hdr \cup {NoHdr}, dp : Hdr \cup {NoHdr}, newbp : Hdr \cup {NoHdr},
                       free_hdr : BOOLEAN, locked : BOOLEAN, ref : Nat]
    BY DEF M!NoLoc
  <2>2. db_ref' \in [Hdr -> Nat]
    BY <1>0, <1>7, <1>t, <1>2
  <2> QED
    BY <1>0, <1>1, <1>t, <2>1, <2>2 DEF MsgInv, MsgTypes
<1>9. /\ \A s \in Task : s # t => Held(s)' = Held(s) /\ Held(s)' \cap Held(t) = {}
      /\ Held(t)' = {}
  BY <1>l DEF Held, PoolFits, MsgInv, Apart
<1>10. Apart'
  <2>1. \A s \in Task : /\ mpc'[s] = "idle" => loc'[s] = M!NoLoc
                        /\ mpc'[s] # "idle" => loc'[s].bp \in Hdr /\ loc'[s].bp # loc'[s].newbp
                        /\ mpc'[s] = "dup" => loc'[s].newbp \in Hdr
                        /\ Held(s)' \cap pool' = {}
    BY <1>0, <1>1, <1>9, <1>l DEF MsgInv, Apart
  <2>2. \A s, r \in Task : s # r => Held(s)' \cap Held(r)' = {}
    BY <1>9 DEF MsgInv, Apart
  <2> QED
    BY <2>1, <2>2 DEF Apart
<1>11. Referenced'
  <2>1. \A x \in Hdr : Counted(x)' => x \in used' /\ b_datap'[x] \in Hdr
    BY <1>0, <1>2, <1>4, <1>5 DEF MsgInv, Referenced
  <2>2. \A x \in Hdr : Counted(x)' /\ b_datap'[x] # x => Users(x)' = {} /\ db_ref'[x] = 1 /\ Cheap(x)'
    BY <1>0, <1>2, <1>4, <1>5, <1>6, <1>7 DEF MsgInv, Referenced, Cheap
  <2>3. \A x \in Hdr : Users(x)' # {} =>
       x \in used' /\ buffer'[x] \in M!Given /\ db_ref'[x] = Cardinality(Users(x)')
    BY <1>0, <1>3, <1>6, <1>7 DEF MsgInv, Referenced
  <2> QED
    BY <2>1, <2>2, <2>3 DEF Referenced
<1>12. Needed'
  <2>1. \A x \in Hdr : x \notin used' => Cheap(x)'
    BY <1>0 DEF MsgInv, Needed, Cheap
  <2>2. ASSUME NEW x \in used'
        PROVE  \/ x \in pool' \/ Users(x)' # {}
               \/ \E s \in Task : x \in Held(s)' \/ (mpc'[s] = "zero" /\ x = loc'[s].dp)
    <3>1. x \in Hdr /\ x \in used /\ (Users(x) # {} => Users(x)' # {})
      BY <1>0, <1>6, <1>t
    <3>2. x \in Held(t) => x \in pool'
      BY <1>0, <1>1
    <3> QED
      BY <1>0, <1>9, <1>l, <3>1, <3>2 DEF MsgInv, Needed
  <2> QED
    BY <2>1, <2>2 DEF Needed
<1>13. \A s \in Task : s # t => Place(s)'
  <2>1. ASSUME NEW s \in Task, s # t, NEW x \in Work(s)
        PROVE  Same(x)
    <3>1. x # d
      BY <1>0, <1>1, <1>2, <2>1, WorkIsOwn DEF MsgInv, Apart, PoolFits
    <3> QED
      BY <1>0, <1>6, <1>7, <3>1, <2>1 DEF Same, Work
  <2>2. Held(t)' \cap used \subseteq Held(t) \cup pool /\ pool' \cap used \subseteq Held(t) \cup pool
    BY <1>0, <1>1, <1>9
  <2> QED
    BY <1>0, <1>l, <2>1, <2>2, OthersStay
<1>14. Place(t)'
  BY <1>l DEF Place, Freeing
<1>15. LockHeld'
  BY <1>0 DEF LockHeld
<1> QED
  BY <1>0, <1>8, <1>10, <1>11, <1>12, <1>13, <1>14, <1>15 DEF MsgInv

LEMMA FreebKeeps ==
  ASSUME PoolFits, MsgInv, NEW t \in Task, M!Freeb(t)
  PROVE  MsgInv'
<1>t. /\ b_datap \in [Hdr -> Hdr \cup {NoHdr}] /\ pool \subseteq Hdr /\ used \subseteq Hdr
      /\ mpc \in [Task -> Freeing \cup {"idle", "dup", "zero", "mine", "less", "last"}]
      /\ loc \in [Task -> [bp : Hdr \cup {NoHdr}, dp : Hdr \cup {NoHdr}, newbp : Hdr \cup {NoHdr},
                       free_hdr : BOOLEAN, locked : BOOLEAN, ref : Nat]]
  BY DEF MsgInv, MsgTypes
<1>0. PICK m \in pool :
         /\ pool' = pool \ {m}
         /\ M!Go(t, "freedb", [M!NoLoc EXCEPT !.bp = m, !.dp = b_datap[m], !.free_hdr = TRUE])
  BY DEF M!Freeb
<1>1. /\ UNCHANGED <<used, b_datap, db_ref, buffer, lis_msg_lock, twice>> /\ mpc[t] = "idle"
      /\ mpc' = [mpc EXCEPT ![t] = "freedb"]
      /\ loc' = [loc EXCEPT ![t] = [M!NoLoc EXCEPT !.bp = m, !.dp = b_datap[m], !.free_hdr = TRUE]]
  BY <1>0 DEF M!Freeb, M!Go
<1>2. loc[t] = M!NoLoc /\ loc[t].bp = NoHdr /\ loc[t].newbp = NoHdr
  <2>1. loc[t] = M!NoLoc
    BY <1>1 DEF MsgInv, Apart
  <2> QED
    BY <2>1 DEF M!NoLoc
<1>3. m \in Hdr /\ Counted(m) /\ b_datap[m] \in Hdr /\ NoHdr \notin Hdr
  BY <1>0, <1>t DEF Counted, MsgInv, Referenced, PoolFits
<1>l. /\ mpc'[t] = "freedb" /\ loc'[t].bp = m /\ loc'[t].newbp = NoHdr /\ loc'[t].dp = b_datap[m]
      /\ loc'[t].free_hdr = TRUE /\ loc'[t].locked = FALSE
      /\ \A s \in Task : s # t => mpc'[s] = mpc[s] /\ loc'[s] = loc[s]
  BY <1>1, <1>t DEF M!NoLoc
<1>4. MsgTypes'
  BY <1>0, <1>1, <1>3, <1>t DEF MsgInv, MsgTypes, M!NoLoc, Freeing
<1>5. \A x \in Hdr : Counted(x)' <=> Counted(x)
  <2> SUFFICES ASSUME NEW x \in Hdr
               PROVE  Counted(x)' <=> Counted(x)
    OBVIOUS
  <2>1. CASE x = m
    BY <1>3, <1>l, <2>1 DEF Counted, Freeing
  <2>2. CASE x # m
    BY <1>0, <1>1, <1>2, <1>3, <1>l, <2>2 DEF Counted
  <2> QED
    BY <2>1, <2>2
<1>6. \A x \in Hdr : Users(x)' = Users(x)
  BY <1>1, <1>5 DEF Users
<1>7. /\ \A s \in Task : s # t => Held(s)' = Held(s)
      /\ Held(t)' = {m} /\ Held(t) = {}
  BY <1>2, <1>3, <1>l DEF Held
<1>8. Apart'
  <2>0. \A s \in Task : m \notin Held(s)
    BY <1>0 DEF MsgInv, Apart
  <2>1. ASSUME NEW s \in Task
        PROVE  /\ mpc'[s] = "idle" => loc'[s] = M!NoLoc
               /\ mpc'[s] # "idle" => loc'[s].bp \in Hdr /\ loc'[s].bp # loc'[s].newbp
               /\ mpc'[s] = "dup" => loc'[s].newbp \in Hdr
               /\ Held(s)' \cap pool' = {}
    <3>1. CASE s = t
      BY <1>0, <1>3, <1>7, <1>l, <3>1
    <3>2. CASE s # t
      BY <1>0, <1>7, <1>l, <3>2 DEF MsgInv, Apart
    <3> QED
      BY <3>1, <3>2
  <2>2. \A s, r \in Task : s # r => Held(s)' \cap Held(r)' = {}
    BY <1>7, <2>0 DEF MsgInv, Apart
  <2> QED
    BY <2>1, <2>2 DEF Apart
<1>9. Referenced'
  BY <1>1, <1>5, <1>6 DEF MsgInv, Referenced, Cheap
<1>10. Needed'
  <2>1. \A x \in Hdr : x \notin used' => Cheap(x)'
    BY <1>1 DEF MsgInv, Needed, Cheap
  <2>2. ASSUME NEW x \in used'
        PROVE  \/ x \in pool' \/ Users(x)' # {}
               \/ \E s \in Task : x \in Held(s)' \/ (mpc'[s] = "zero" /\ x = loc'[s].dp)
    <3>1. x \in Hdr /\ x \in used /\ Users(x)' = Users(x)
      BY <1>1, <1>6, <1>t
    <3> QED
      BY <1>0, <1>1, <1>7, <1>l, <3>1 DEF MsgInv, Needed
  <2> QED
    BY <2>1, <2>2 DEF Needed
<1>11. \A s \in Task : s # t => Place(s)'
  <2>1. \A s \in Task : s # t => \A x \in Work(s) : Same(x)
    BY <1>1, <1>6 DEF Same, Work
  <2>2. Held(t)' \cap used \subseteq Held(t) \cup pool /\ pool' \cap used \subseteq Held(t) \cup pool
    BY <1>0, <1>7
  <2> QED
    BY <1>1, <1>l, <2>1, <2>2, OthersStay
<1>12. Place(t)'
  <2>1. Fresh(t)' /\ AtFree(t)'
    BY <1>1, <1>l DEF Fresh, AtFree
  <2> QED
    BY <1>l, <2>1 DEF Place
<1>13. LockHeld'
  BY <1>1, <1>l DEF MsgInv, MsgTypes, LockHeld
<1> QED
  BY <1>1, <1>4, <1>8, <1>9, <1>10, <1>11, <1>12, <1>13 DEF MsgInv

LEMMA PullupmsgKeeps ==
  ASSUME PoolFits, SharedPullup = FALSE, MsgInv, NEW t \in Task, M!Pullupmsg(t)
  PROVE  MsgInv'
<1>t. /\ b_datap \in [Hdr -> Hdr \cup {NoHdr}] /\ db_ref \in [Hdr -> Nat]
      /\ buffer \in [Hdr -> M!Given \cup {"none", "returned"}] /\ pool \subseteq Hdr /\ used \subseteq Hdr
      /\ mpc \in [Task -> Freeing \cup {"idle", "dup", "zero", "mine", "less", "last"}]
      /\ loc \in [Task -> [bp : Hdr \cup {NoHdr}, dp : Hdr \cup {NoHdr}, newbp : Hdr \cup {NoHdr},
                       free_hdr : BOOLEAN, locked : BOOLEAN, ref : Nat]]
  BY DEF MsgInv, MsgTypes
<1>0. PICK m \in pool, h \in Hdr \ used :
         /\ M!Unshared(m)
         /\ M!Initb(h, "external", h)
         /\ pool' = pool \ {m}
         /\ M!Go(t, "freedb", [M!NoLoc EXCEPT !.bp = m, !.dp = b_datap[m], !.newbp = h])
  BY DEF M!Pullupmsg
<1>1. /\ UNCHANGED <<lis_msg_lock, twice>> /\ mpc[t] = "idle"
      /\ b_datap' = [b_datap EXCEPT ![h] = h] /\ db_ref' = [db_ref EXCEPT ![h] = 1]
      /\ buffer' = [buffer EXCEPT ![h] = "external"] /\ used' = used \cup {h}
      /\ mpc' = [mpc EXCEPT ![t] = "freedb"]
      /\ loc' = [loc EXCEPT ![t] = [M!NoLoc EXCEPT !.bp = m, !.dp = b_datap[m], !.newbp = h]]
  BY <1>0 DEF M!Pullupmsg, M!Go, M!Initb
<1>2. loc[t] = M!NoLoc /\ loc[t].bp = NoHdr /\ loc[t].newbp = NoHdr
  <2>1. loc[t] = M!NoLoc
    BY <1>1 DEF MsgInv, Apart
  <2> QED
    BY <2>1 DEF M!NoLoc
<1>h. /\ ~Counted(h) /\ Users(h) = {}
      /\ \A s \in Task : h \notin Held(s) /\ h \notin Work(s)
      /\ \A x \in Hdr : Counted(x) => b_datap[x] # h
  BY <1>0, FreeHeader
<1>3. m \in Hdr /\ Counted(m) /\ b_datap[m] \in Hdr /\ NoHdr \notin Hdr /\ m # h /\ m \in used
  BY <1>0, <1>t, <1>h DEF Counted, MsgInv, Referenced, PoolFits
<1>l. /\ mpc'[t] = "freedb" /\ loc'[t].bp = m /\ loc'[t].newbp = h /\ loc'[t].dp = b_datap[m]
      /\ loc'[t].free_hdr = FALSE /\ loc'[t].locked = FALSE
      /\ \A s \in Task : s # t => mpc'[s] = mpc[s] /\ loc'[s] = loc[s]
  BY <1>1, <1>t DEF M!NoLoc
<1>4. MsgTypes'
  BY <1>0, <1>1, <1>3, <1>t DEF MsgInv, MsgTypes, M!NoLoc, Freeing, M!Given
<1>5. \A x \in Hdr : Counted(x)' <=> Counted(x) \/ x = h
  <2> SUFFICES ASSUME NEW x \in Hdr
               PROVE  Counted(x)' <=> Counted(x) \/ x = h
    OBVIOUS
  <2>1. CASE x = m
    BY <1>3, <1>l, <2>1 DEF Counted, Freeing
  <2>2. CASE x # m
    BY <1>0, <1>1, <1>2, <1>3, <1>l, <2>2 DEF Counted
  <2> QED
    BY <2>1, <2>2
<1>6. \A x \in Hdr : Users(x)' = IF x = h THEN {h} ELSE Users(x)
  BY <1>1, <1>5, <1>h, <1>t DEF Users
<1>7. /\ \A s \in Task : s # t => Held(s)' = Held(s)
      /\ Held(t)' = {m, h} /\ Held(t) = {}
  BY <1>0, <1>2, <1>3, <1>l DEF Held
<1>8. Apart'
  <2>0. \A s \in Task : m \notin Held(s)
    BY <1>0 DEF MsgInv, Apart
  <2>1. ASSUME NEW s \in Task
        PROVE  /\ mpc'[s] = "idle" => loc'[s] = M!NoLoc
               /\ mpc'[s] # "idle" => loc'[s].bp \in Hdr /\ loc'[s].bp # loc'[s].newbp
               /\ mpc'[s] = "dup" => loc'[s].newbp \in Hdr
               /\ Held(s)' \cap pool' = {}
    <3>1. CASE s = t
      <4>1. h \notin pool
        BY <1>h DEF Counted
      <4> QED
        BY <1>0, <1>3, <1>7, <1>l, <3>1, <4>1
    <3>2. CASE s # t
      BY <1>0, <1>7, <1>l, <3>2 DEF MsgInv, Apart
    <3> QED
      BY <3>1, <3>2
  <2>2. \A s, r \in Task : s # r => Held(s)' \cap Held(r)' = {}
    BY <1>7, <1>h, <2>0 DEF MsgInv, Apart
  <2> QED
    BY <2>1, <2>2 DEF Apart
<1>9. Referenced'
  <2>1. \A x \in Hdr : Counted(x)' => x \in used' /\ b_datap'[x] \in Hdr
    BY <1>1, <1>5, <1>t DEF MsgInv, Referenced
  <2>2. \A x \in Hdr : Counted(x)' /\ b_datap'[x] # x => Users(x)' = {} /\ db_ref'[x] = 1 /\ Cheap(x)'
    BY <1>1, <1>5, <1>6, <1>t DEF MsgInv, Referenced, Cheap
  <2>3. \A x \in Hdr : Users(x)' # {} =>
       x \in used' /\ buffer'[x] \in M!Given /\ db_ref'[x] = Cardinality(Users(x)')
    <3>1. Cardinality({h}) = 1
      BY HdrSets
    <3> QED
      BY <1>1, <1>6, <1>t, <3>1 DEF MsgInv, Referenced, M!Given
  <2> QED
    BY <2>1, <2>2, <2>3 DEF Referenced
<1>10. Needed'
  <2>1. \A x \in Hdr : x \notin used' => Cheap(x)'
    BY <1>1, <1>t DEF MsgInv, Needed, Cheap
  <2>2. ASSUME NEW x \in used'
        PROVE  \/ x \in pool' \/ Users(x)' # {}
               \/ \E s \in Task : x \in Held(s)' \/ (mpc'[s] = "zero" /\ x = loc'[s].dp)
    <3>1. x \in Hdr /\ (x = h \/ x \in used)
      BY <1>0, <1>1, <1>t
    <3>2. CASE x = h
      BY <1>7, <3>2
    <3>3. CASE x # h
      BY <1>0, <1>1, <1>6, <1>7, <1>l, <3>1, <3>3 DEF MsgInv, Needed
    <3> QED
      BY <3>2, <3>3
  <2> QED
    BY <2>1, <2>2 DEF Needed
<1>11. \A s \in Task : s # t => Place(s)'
  <2>1. \A s \in Task : s # t => \A x \in Work(s) : Same(x)
    BY <1>1, <1>6, <1>h, <1>t DEF Same, Work
  <2>2. Held(t)' \cap used \subseteq Held(t) \cup pool /\ pool' \cap used \subseteq Held(t) \cup pool
    BY <1>0, <1>7
  <2>3. \A s \in Task : s # t => \A x \in Held(s) : b_datap'[x] = b_datap[x]
    BY <1>1, <1>h, <1>t DEF Held
  <2> QED
    BY <1>1, <1>l, <2>1, <2>2, <2>3, OthersStay
<1>12. Place(t)'
  <2>1. b_datap[m] = m => Users(m) = {m}
    <3> SUFFICES ASSUME b_datap[m] = m
                 PROVE  Users(m) = {m}
      OBVIOUS
    <3>1. m \in Users(m) /\ db_ref[m] = 1
      BY <1>0, <1>3 DEF Users, M!Unshared
    <3>2. Cardinality(Users(m)) = 1
      BY <1>3, <3>1 DEF MsgInv, Referenced
    <3> QED
      BY <3>1, <3>2, UserSets
  <2>2. Fresh(t)'
    BY <1>0, <1>1, <1>3, <1>6, <1>l, <1>t DEF Fresh
  <2>3. AtFree(t)'
    BY <1>1, <1>3, <1>6, <1>l, <1>t, <2>1 DEF AtFree
  <2> QED
    BY <1>l, <2>2, <2>3 DEF Place
<1>13. LockHeld'
  BY <1>1, <1>l DEF MsgInv, MsgTypes, LockHeld
<1> QED
  BY <1>1, <1>4, <1>8, <1>9, <1>10, <1>11, <1>12, <1>13 DEF MsgInv

LEMMA FreedbLastKeeps ==
  ASSUME PoolFits, MsgInv, NEW t \in Task, M!FreedbLast(t)
  PROVE  MsgInv'
<1>t. /\ b_datap \in [Hdr -> Hdr \cup {NoHdr}] /\ db_ref \in [Hdr -> Nat]
      /\ pool \subseteq Hdr /\ used \subseteq Hdr /\ lis_msg_lock \in Task \cup {NoOne}
      /\ mpc \in [Task -> Freeing \cup {"idle", "dup", "zero", "mine", "less", "last"}]
      /\ loc \in [Task -> [bp : Hdr \cup {NoHdr}, dp : Hdr \cup {NoHdr}, newbp : Hdr \cup {NoHdr},
                       free_hdr : BOOLEAN, locked : BOOLEAN, ref : Nat]]
  BY DEF MsgInv, MsgTypes
<1>0. /\ mpc[t] = "write" /\ mpc[t] \in Freeing /\ loc[t].ref = 0
      /\ UNCHANGED <<used, b_datap, buffer, pool, twice>>
      /\ lis_msg_lock' = IF loc[t].locked THEN NoOne ELSE lis_msg_lock
      /\ db_ref' = [db_ref EXCEPT ![loc[t].dp] = 0]
      /\ mpc' = [mpc EXCEPT ![t] = "zero"] /\ loc' = [loc EXCEPT ![t] = loc[t]]
  BY DEF M!FreedbLast, M!Go, M!Unlock, Freeing
<1>f. /\ loc[t].bp \in Hdr /\ loc[t].bp \in used /\ Counted(loc[t].bp)
      /\ loc[t].dp = b_datap[loc[t].bp]
      /\ loc[t].dp \in Hdr /\ loc[t].dp \in used /\ loc[t].bp \in Users(loc[t].dp)
      /\ buffer[loc[t].dp] \in M!Given
      /\ db_ref[loc[t].dp] = Cardinality(Users(loc[t].dp))
  BY <1>0, FreeingFacts
<1>1. PICK b \in Hdr, d \in Hdr : b = loc[t].bp /\ d = loc[t].dp
  BY <1>f
<1>2. Users(d) = {b} /\ AtFree(t) /\ Fresh(t)
  <2>1. AtFree(t) /\ Fresh(t)
    BY <1>0 DEF MsgInv, Place
  <2>2. Cardinality(Users(d)) = 1
    BY <1>0, <1>1, <1>f, <1>t, <2>1 DEF AtFree
  <2> QED
    BY <1>1, <1>f, <2>1, <2>2, UserSets
<1>l. /\ mpc'[t] = "zero" /\ loc' = loc
      /\ \A s \in Task : s # t => mpc'[s] = mpc[s] /\ loc'[s] = loc[s]
  BY <1>0, <1>t
<1>3. /\ b \notin pool /\ b # loc[t].newbp
      /\ \A s \in Task : s # t => b \notin Held(s) /\ b # loc[s].bp /\ b # loc[s].newbp
  <2>1. b \in Held(t)
    BY <1>1 DEF Held
  <2> QED
    BY <1>0, <1>1, <2>1 DEF MsgInv, Apart, Held
<1>4. \A x \in Hdr : Counted(x)' <=> Counted(x) /\ x # b
  <2> SUFFICES ASSUME NEW x \in Hdr
               PROVE  Counted(x)' <=> Counted(x) /\ x # b
    OBVIOUS
  <2>1. CASE x = b
    BY <1>0, <1>1, <1>3, <1>l, <2>1 DEF Counted, Freeing
  <2>2. CASE x # b
    BY <1>0, <1>1, <1>l, <2>2 DEF Counted, Freeing
  <2> QED
    BY <2>1, <2>2
<1>5. \A x \in Hdr : Users(x)' = IF x = d THEN {} ELSE Users(x)
  <2>1. \A x \in Hdr : Users(x)' = Users(x) \ {b}
    BY <1>0, <1>4 DEF Users
  <2>2. \A x \in Hdr : x # d => b \notin Users(x)
    BY <1>1, <1>f DEF Users
  <2> QED
    BY <1>2, <2>1, <2>2
<1>6. \A s \in Task : Held(s)' = Held(s)
  BY <1>l DEF Held
<1>7. MsgTypes'
  BY <1>0, <1>1, <1>t DEF MsgInv, MsgTypes
<1>8. Apart'
  <2>1. mpc'[t] # "idle" /\ mpc[t] # "idle" /\ mpc'[t] # "dup"
    BY <1>0, <1>l
  <2>2. \A s \in Task : /\ mpc'[s] = "idle" => loc'[s] = M!NoLoc
                        /\ mpc'[s] # "idle" => loc'[s].bp \in Hdr /\ loc'[s].bp # loc'[s].newbp
                        /\ mpc'[s] = "dup" => loc'[s].newbp \in Hdr
                        /\ Held(s)' \cap pool' = {}
    BY <1>0, <1>6, <1>l, <2>1 DEF MsgInv, Apart
  <2>3. \A s, r \in Task : s # r => Held(s)' \cap Held(r)' = {}
    BY <1>6 DEF MsgInv, Apart
  <2> QED
    BY <2>2, <2>3 DEF Apart
<1>9. Referenced'
  <2>1. \A x \in Hdr : Counted(x)' => x \in used' /\ b_datap'[x] \in Hdr
    BY <1>0, <1>4 DEF MsgInv, Referenced
  <2>2. \A x \in Hdr : Counted(x)' /\ b_datap'[x] # x => Users(x)' = {} /\ db_ref'[x] = 1 /\ Cheap(x)'
    BY <1>0, <1>1, <1>2, <1>4, <1>5, <1>t DEF MsgInv, Referenced, Cheap
  <2>3. \A x \in Hdr : Users(x)' # {} =>
       x \in used' /\ buffer'[x] \in M!Given /\ db_ref'[x] = Cardinality(Users(x)')
    BY <1>0, <1>1, <1>5, <1>t DEF MsgInv, Referenced
  <2> QED
    BY <2>1, <2>2, <2>3 DEF Referenced
<1>10. Needed'
  <2>1. \A x \in Hdr : x \notin used' => Cheap(x)'
    BY <1>0 DEF MsgInv, Needed, Cheap
  <2>2. ASSUME NEW x \in used'
        PROVE  \/ x \in pool' \/ Users(x)' # {}
               \/ \E s \in Task : x \in Held(s)' \/ (mpc'[s] = "zero" /\ x = loc'[s].dp)
    <3>1. x \in Hdr /\ x \in used
      BY <1>0, <1>t
    <3>2. CASE x = d
      BY <1>1, <1>l, <3>2
    <3>3. CASE x # d
      BY <1>0, <1>5, <1>6, <1>l, <3>1, <3>3 DEF MsgInv, Needed
    <3> QED
      BY <3>2, <3>3
  <2> QED
    BY <2>1, <2>2 DEF Needed
<1>11. \A s \in Task : s # t /\ lis_msg_lock = s => lis_msg_lock' = s
  BY <1>0, <1>2 DEF AtFree
<1>12. ASSUME NEW s \in Task, s # t, NEW x \in Work(s)
       PROVE  x # d
  <2> SUFFICES ASSUME x = d
               PROVE  FALSE
    OBVIOUS
  <2>1. b \in Held(s) \/ loc[s].bp = b
    BY <1>2, <1>12, WorkIsOwn
  <2> QED
    BY <1>3, <1>12, <2>1
<1>13. \A s \in Task : s # t => Place(s)'
  <2>1. ASSUME NEW s \in Task, s # t, NEW x \in Work(s)
        PROVE  Same(x)
    BY <1>0, <1>1, <1>5, <1>12, <1>t, <2>1 DEF Same, Work
  <2>2. Users(loc'[t].dp) # {}
    BY <1>1, <1>2, <1>l
  <2> QED
    BY <1>0, <1>6, <1>l, <1>11, <2>1, <2>2, OthersStay
<1>14. Place(t)'
  <2>1. Fresh(t)'
    <3>1. loc[t].newbp # NoHdr => loc[t].newbp \in Hdr /\ loc[t].newbp # d
      BY <1>1, <1>2, <1>3, <1>t DEF Fresh
    <3> QED
      BY <1>0, <1>2, <1>5, <1>l, <3>1 DEF Fresh
  <2>2. d \notin pool /\ \A s \in Task : d \in Held(s) => s = t /\ d = b
    <3>1. Counted(d) => d = b
      BY <1>1, <1>2, <1>3, <1>f DEF MsgInv, Referenced, Users
    <3>2. d \notin pool
      BY <1>3, <3>1 DEF Counted
    <3>3. ASSUME NEW s \in Task, d \in Held(s), s # t
          PROVE  FALSE
      <4>1. d # b
        BY <1>3, <3>3
      <4>2. ~Counted(d)
        BY <3>1, <4>1
      <4>3. mpc[s] # "idle"
        BY <3>3 DEF MsgInv, Apart, Held, M!NoLoc, PoolFits
      <4>4. d \in Work(s)
        BY <3>3, <4>2, <4>3, <1>t DEF Held, Work, Counted
      <4> QED
        BY <1>12, <3>3, <4>4
    <3>4. d \in Held(t) => d = b
      BY <1>0, <1>1, <3>1 DEF Held, Counted
    <3> QED
      BY <3>2, <3>3, <3>4
  <2>3. d # b => db_ref[b] = 1 /\ Users(b) = {} /\ Cheap(b)
    BY <1>1, <1>f DEF MsgInv, Referenced
  <2>4. \A s \in Task : s # t /\ mpc'[s] = "zero" => loc'[s].dp # d
    BY <1>2, <1>l DEF MsgInv, Place, AtZero
  <2>5. AtZero(t)'
    BY <1>0, <1>1, <1>5, <1>6, <1>f, <1>l, <1>t, <2>2, <2>3, <2>4 DEF AtZero, Cheap
  <2> QED
    BY <1>l, <2>1, <2>5 DEF Place, Freeing
<1>15. LockHeld'
  <2>1. lis_msg_lock' # NoOne => lis_msg_lock' = lis_msg_lock /\ lis_msg_lock # t /\ lis_msg_lock \in Task
    BY <1>0, <1>t DEF MsgInv, LockHeld
  <2> QED
    BY <1>l, <2>1 DEF MsgInv, LockHeld
<1> QED
  BY <1>0, <1>7, <1>8, <1>9, <1>10, <1>13, <1>14, <1>15 DEF MsgInv

LEMMA FreedbLessKeeps ==
  ASSUME PoolFits, MsgInv, NEW t \in Task, M!FreedbLess(t)
  PROVE  MsgInv'
<1>t. /\ db_ref \in [Hdr -> Nat] /\ used \subseteq Hdr
      /\ mpc \in [Task -> Freeing \cup {"idle", "dup", "zero", "mine", "less", "last"}]
      /\ loc \in [Task -> [bp : Hdr \cup {NoHdr}, dp : Hdr \cup {NoHdr}, newbp : Hdr \cup {NoHdr},
                       free_hdr : BOOLEAN, locked : BOOLEAN, ref : Nat]]
  BY DEF MsgInv, MsgTypes
<1>0. mpc[t] = "less" /\ AtEnd(t) /\ Fresh(t) /\ loc[t].bp \in Hdr
  BY DEF M!FreedbLess, MsgInv, Place, Apart
<1>1. PICK b \in Hdr : b = loc[t].bp
  BY <1>0
<1>2. /\ b \in used /\ Users(b) = {} /\ Cheap(b) /\ loc[t].free_hdr /\ db_ref[b] = 1 /\ loc[t].ref = 1
  BY <1>0, <1>1 DEF AtEnd
<1>3. /\ UNCHANGED <<used, b_datap, buffer, pool, lis_msg_lock, twice>>
      /\ db_ref' = [db_ref EXCEPT ![b] = 0]
      /\ mpc' = [mpc EXCEPT ![t] = "last"] /\ loc' = [loc EXCEPT ![t] = loc[t]]
  BY <1>1, <1>2 DEF M!FreedbLess, M!Go
<1>l. /\ mpc'[t] = "last" /\ loc' = loc
      /\ \A s \in Task : s # t => mpc'[s] = mpc[s] /\ loc'[s] = loc[s]
  BY <1>3, <1>t
<1>4. \A x \in Hdr : Counted(x)' <=> Counted(x)
  BY <1>0, <1>3, <1>l DEF Counted, Freeing
<1>5. \A x \in Hdr : Users(x)' = Users(x)
  BY <1>3, <1>4 DEF Users
<1>6. \A s \in Task : Held(s)' = Held(s)
  BY <1>l DEF Held
<1>7. MsgTypes'
  BY <1>3, <1>t DEF MsgInv, MsgTypes
<1>8. Apart'
  <2>1. mpc'[t] # "idle" /\ mpc[t] # "idle" /\ mpc'[t] # "dup"
    BY <1>0, <1>l
  <2>2. \A s \in Task : /\ mpc'[s] = "idle" => loc'[s] = M!NoLoc
                        /\ mpc'[s] # "idle" => loc'[s].bp \in Hdr /\ loc'[s].bp # loc'[s].newbp
                        /\ mpc'[s] = "dup" => loc'[s].newbp \in Hdr
                        /\ Held(s)' \cap pool' = {}
    BY <1>3, <1>6, <1>l, <2>1 DEF MsgInv, Apart
  <2>3. \A s, r \in Task : s # r => Held(s)' \cap Held(r)' = {}
    BY <1>6 DEF MsgInv, Apart
  <2> QED
    BY <2>2, <2>3 DEF Apart
<1>9. ~Counted(b) /\ \A s \in Task : s # t => b \notin Held(s)
  <2>1. b \in Held(t)
    BY <1>1 DEF Held
  <2>2. b \notin pool /\ \A s \in Task : s # t => b \notin Held(s) /\ b # loc[s].bp /\ b # loc[s].newbp
    BY <1>1, <2>1 DEF MsgInv, Apart, Held
  <2>3. b # loc[t].newbp
    BY <1>0, <1>1 DEF MsgInv, Apart
  <2> QED
    BY <1>0, <2>2, <2>3 DEF Counted, Freeing
<1>10. Referenced'
  <2>1. \A x \in Hdr : Counted(x) => db_ref'[x] = db_ref[x]
    BY <1>3, <1>9
  <2>2. \A x \in Hdr : Users(x) # {} => db_ref'[x] = db_ref[x]
    BY <1>2, <1>3
  <2> QED
    BY <1>3, <1>4, <1>5, <2>1, <2>2 DEF MsgInv, Referenced, Cheap
<1>11. Needed'
  <2>1. \A x \in Hdr : x \notin used' => Cheap(x)'
    BY <1>3 DEF MsgInv, Needed, Cheap
  <2>2. ASSUME NEW x \in used'
        PROVE  \/ x \in pool' \/ Users(x)' # {}
               \/ \E s \in Task : x \in Held(s)' \/ (mpc'[s] = "zero" /\ x = loc'[s].dp)
    <3>1. x \in Hdr /\ x \in used
      BY <1>3, <1>t
    <3> QED
      BY <1>0, <1>3, <1>5, <1>6, <1>l, <3>1 DEF MsgInv, Needed
  <2> QED
    BY <2>1, <2>2 DEF Needed
<1>12. \A s \in Task : s # t => Place(s)'
  <2>1. ASSUME NEW s \in Task, s # t, NEW x \in Work(s)
        PROVE  Same(x)
    <3>1. b \in Held(t)
      BY <1>1 DEF Held
    <3>2. x # b
      BY <1>2, <2>1, <3>1, WorkIsOwn
    <3> QED
      BY <1>3, <1>5, <2>1, <3>2 DEF Same, Work
  <2> QED
    BY <1>3, <1>6, <1>l, <2>1, OthersStay
<1>13. Place(t)'
  <2>1. Fresh(t)'
    BY <1>0, <1>2, <1>3, <1>l DEF Fresh
  <2>2. AtEnd(t)'
    BY <1>1, <1>2, <1>3, <1>5, <1>l, <1>t DEF AtEnd, Cheap
  <2> QED
    BY <1>l, <2>1, <2>2 DEF Place, Freeing
<1>14. LockHeld'
  BY <1>0, <1>3, <1>l DEF MsgInv, MsgTypes, LockHeld
<1> QED
  BY <1>3, <1>7, <1>8, <1>10, <1>11, <1>12, <1>13, <1>14 DEF MsgInv

LEMMA FreedbZeroKeeps ==
  ASSUME PoolFits, MsgInv, NEW t \in Task, M!FreedbZero(t)
  PROVE  MsgInv'
<1>t. /\ b_datap \in [Hdr -> Hdr \cup {NoHdr}] /\ db_ref \in [Hdr -> Nat]
      /\ pool \subseteq Hdr /\ used \subseteq Hdr /\ lis_msg_lock \in Task \cup {NoOne}
      /\ buffer \in [Hdr -> M!Given \cup {"none", "returned"}]
      /\ mpc \in [Task -> Freeing \cup {"idle", "dup", "zero", "mine", "less", "last"}]
      /\ loc \in [Task -> [bp : Hdr \cup {NoHdr}, dp : Hdr \cup {NoHdr}, newbp : Hdr \cup {NoHdr},
                       free_hdr : BOOLEAN, locked : BOOLEAN, ref : Nat]]
  BY DEF MsgInv, MsgTypes
<1>0. mpc[t] = "zero" /\ AtZero(t) /\ Fresh(t) /\ loc[t].bp \in Hdr /\ loc[t].dp \in Hdr
      /\ loc[t].bp # loc[t].newbp
  BY <1>t DEF M!FreedbZero, MsgInv, Place, Apart, AtZero
<1>1. PICK b \in Hdr, d \in Hdr : b = loc[t].bp /\ d = loc[t].dp
  BY <1>0
<1>2. /\ d \in used /\ Users(d) = {} /\ db_ref[d] = 0 /\ buffer[d] \in M!Given
      /\ b \in used /\ Users(b) = {}
      /\ d # b => db_ref[b] = 1 /\ Cheap(b)
      /\ d \notin pool
      /\ \A s \in Task : d \in Held(s) => s = t /\ d = b
      /\ \A s \in Task : s # t /\ mpc[s] = "zero" => loc[s].dp # d
  BY <1>0, <1>1 DEF AtZero
<1>w. 1 % Width = 1 /\ 0 + 1 = 1
  <2>1. Hdr # {}
    BY <1>1
  <2>2. Cardinality(Hdr) \in Nat /\ Cardinality(Hdr) # 0
    BY <2>1, FS_EmptySet, FS_CardinalityType DEF PoolFits
  <2>3. Width \in Nat /\ Width > 1
    BY <2>2 DEF PoolFits
  <2> QED
    BY <2>3
<1>3. /\ UNCHANGED <<pool, lis_msg_lock>>
      /\ buffer' = [buffer EXCEPT ![d] = M!Emptied(buffer[d])]
      /\ twice' = (twice \/ buffer[d] = "returned" \/ (d # b /\ d \notin used))
      /\ used' = IF d = b THEN used ELSE used \ {d}
      /\ b_datap' = [b_datap EXCEPT ![b] = b]
      /\ db_ref' = IF d = b /\ ~loc[t].free_hdr THEN [db_ref EXCEPT ![b] = 1] ELSE db_ref
      /\ mpc' = [mpc EXCEPT ![t] = IF d # b /\ loc[t].free_hdr THEN "mine" ELSE "last"]
      /\ loc' = [loc EXCEPT ![t] = loc[t]]
  <2>1. /\ UNCHANGED <<pool, lis_msg_lock>>
        /\ buffer' = [buffer EXCEPT ![d] = M!Emptied(@)]
        /\ twice' = (twice \/ buffer[d] = "returned" \/ (d # b /\ d \notin used))
        /\ used' = IF d = b THEN used ELSE used \ {d}
        /\ b_datap' = [b_datap EXCEPT ![b] = b]
        /\ db_ref' = IF d = b /\ ~loc[t].free_hdr THEN [db_ref EXCEPT ![b] = (@ + 1) % Width] ELSE db_ref
        /\ mpc' = [mpc EXCEPT ![t] = IF d # b /\ loc[t].free_hdr THEN "mine" ELSE "last"]
        /\ loc' = [loc EXCEPT ![t] = loc[t]]
    BY <1>1 DEF M!FreedbZero, M!Go
  <2>2. d = b => [db_ref EXCEPT ![b] = (@ + 1) % Width] = [db_ref EXCEPT ![b] = 1]
    BY <1>2, <1>t, <1>w
  <2> QED
    BY <1>t, <2>1, <2>2
<1>e. /\ M!Emptied(buffer[d]) \in {"internal", "none", "returned"} /\ buffer[d] # "returned"
      /\ \A x \in Hdr : x # d => buffer'[x] = buffer[x]
      /\ buffer'[d] = M!Emptied(buffer[d]) /\ Cheap(d)'
  <2>1. M!Emptied(buffer[d]) \in {"internal", "none", "returned"} /\ buffer[d] # "returned"
    BY <1>2 DEF M!Emptied, M!Given
  <2> QED
    BY <1>3, <1>t, <2>1 DEF Cheap
<1>p. /\ \A x \in Hdr : x # b => b_datap'[x] = b_datap[x]
      /\ \A x \in Hdr : x # b => db_ref'[x] = db_ref[x]
      /\ db_ref'[b] = IF d = b /\ loc[t].free_hdr THEN 0 ELSE 1
      /\ b_datap'[b] = b
  BY <1>2, <1>3, <1>t
<1>l. /\ mpc'[t] = (IF d # b /\ loc[t].free_hdr THEN "mine" ELSE "last") /\ loc' = loc
      /\ \A s \in Task : s # t => mpc'[s] = mpc[s] /\ loc'[s] = loc[s]
  BY <1>3, <1>t
<1>4. \A x \in Hdr : Counted(x)' <=> Counted(x)
  BY <1>0, <1>3, <1>l DEF Counted, Freeing
<1>b. ~Counted(b) /\ \A s \in Task : s # t => b \notin Held(s)
  <2>1. b \in Held(t)
    BY <1>1 DEF Held
  <2>2. b \notin pool /\ \A s \in Task : s # t => b \notin Held(s) /\ b # loc[s].bp /\ b # loc[s].newbp
    BY <1>1, <2>1 DEF MsgInv, Apart, Held
  <2> QED
    BY <1>0, <1>1, <2>2 DEF Counted, Freeing
<1>5. \A x \in Hdr : Users(x)' = Users(x)
  BY <1>4, <1>b, <1>p DEF Users
<1>6. \A s \in Task : Held(s)' = Held(s)
  BY <1>l DEF Held
<1>7. MsgTypes'
  BY <1>3, <1>e, <1>l, <1>t DEF MsgInv, MsgTypes, M!Given
<1>8. Apart'
  <2>1. mpc'[t] # "idle" /\ mpc[t] # "idle" /\ mpc'[t] # "dup"
    BY <1>0, <1>l
  <2>2. \A s \in Task : /\ mpc'[s] = "idle" => loc'[s] = M!NoLoc
                        /\ mpc'[s] # "idle" => loc'[s].bp \in Hdr /\ loc'[s].bp # loc'[s].newbp
                        /\ mpc'[s] = "dup" => loc'[s].newbp \in Hdr
                        /\ Held(s)' \cap pool' = {}
    BY <1>3, <1>6, <1>l, <2>1 DEF MsgInv, Apart
  <2>3. \A s, r \in Task : s # r => Held(s)' \cap Held(r)' = {}
    BY <1>6 DEF MsgInv, Apart
  <2> QED
    BY <2>2, <2>3 DEF Apart
<1>9. ~Counted(d)
  <2>1. CASE d = b
    BY <1>b, <2>1
  <2>2. CASE d # b
    <3>1. \A s \in Task : d # loc[s].bp /\ d # loc[s].newbp
      BY <1>2, <2>2 DEF Held
    <3> QED
      BY <1>2, <3>1 DEF Counted
  <2> QED
    BY <2>1, <2>2
<1>10. Referenced'
  <2>1. \A x \in Hdr : Counted(x)' => x \in used' /\ b_datap'[x] \in Hdr
    BY <1>3, <1>4, <1>9, <1>b, <1>p DEF MsgInv, Referenced
  <2>2. \A x \in Hdr : Counted(x)' /\ b_datap'[x] # x => Users(x)' = {} /\ db_ref'[x] = 1 /\ Cheap(x)'
    BY <1>4, <1>5, <1>9, <1>b, <1>e, <1>p DEF MsgInv, Referenced, Cheap
  <2>3. \A x \in Hdr : Users(x)' # {} =>
       x \in used' /\ buffer'[x] \in M!Given /\ db_ref'[x] = Cardinality(Users(x)')
    BY <1>2, <1>3, <1>5, <1>e, <1>p DEF MsgInv, Referenced
  <2> QED
    BY <2>1, <2>2, <2>3 DEF Referenced
<1>11. Needed'
  <2>1. \A x \in Hdr : x \notin used' => Cheap(x)'
    BY <1>3, <1>e DEF MsgInv, Needed, Cheap
  <2>2. ASSUME NEW x \in used'
        PROVE  \/ x \in pool' \/ Users(x)' # {}
               \/ \E s \in Task : x \in Held(s)' \/ (mpc'[s] = "zero" /\ x = loc'[s].dp)
    <3>1. x \in Hdr /\ x \in used /\ (x = d => d = b)
      BY <1>3, <1>t
    <3>2. CASE x = b
      BY <1>1, <1>6, <3>2 DEF Held
    <3>3. CASE x # b
      <4>1. x # loc[t].dp
        BY <1>1, <3>1, <3>3
      <4> QED
        BY <1>3, <1>5, <1>6, <1>l, <3>1, <4>1 DEF MsgInv, Needed
    <3> QED
      BY <3>2, <3>3
  <2> QED
    BY <2>1, <2>2 DEF Needed
<1>12. \A s \in Task : s # t => Place(s)'
  <2>1. ASSUME NEW s \in Task, s # t, NEW x \in Work(s)
        PROVE  Same(x)
    <3>1. b \in Held(t)
      BY <1>1 DEF Held
    <3>2. x # b
      BY <1>2, <2>1, <3>1, WorkIsOwn
    <3>3. x # d
      <4> SUFFICES ASSUME x = d
                   PROVE  FALSE
        OBVIOUS
      <4>1. d # loc[s].bp /\ d # loc[s].newbp
        BY <1>2, <2>1 DEF Held
      <4>2. mpc[s] \in {"read", "write"} /\ d = loc[s].dp
        BY <1>2, <2>1, <4>1 DEF Work
      <4>3. loc[s].bp \in Users(d)
        BY <2>1, <4>2, FreeingFacts DEF Freeing
      <4> QED
        BY <1>2, <4>3
    <3>4. x \in Hdr
      BY <2>1 DEF Work
    <3> QED
      BY <1>3, <1>5, <1>e, <1>p, <3>2, <3>3, <3>4 DEF Same
  <2>2. \A s \in Task : s # t => \A h \in Held(s) : b_datap'[h] = b_datap[h]
    BY <1>b, <1>p DEF Held
  <2>3. mpc'[t] # "zero"
    BY <1>l
  <2> QED
    BY <1>3, <1>6, <1>l, <2>1, <2>2, <2>3, OthersStay
<1>13. Place(t)'
  <2>1. Fresh(t)'
    BY <1>0, <1>1, <1>5, <1>l, <1>p, <1>t DEF Fresh
  <2>2. AtEnd(t)'
    <3>1. Cheap(b)'
      BY <1>2, <1>e DEF Cheap
    <3>2. b \in used'
      BY <1>2, <1>3
    <3> QED
      BY <1>1, <1>2, <1>5, <1>l, <1>p, <3>1, <3>2 DEF AtEnd
  <2> QED
    BY <1>l, <2>1, <2>2 DEF Place, Freeing
<1>14. LockHeld'
  BY <1>0, <1>3, <1>l, <1>t DEF MsgInv, LockHeld
<1>15. ~twice'
  BY <1>2, <1>3, <1>e DEF MsgInv
<1> QED
  BY <1>7, <1>8, <1>10, <1>11, <1>12, <1>13, <1>14, <1>15 DEF MsgInv

\* A task is through with a block that it frees: the header is gone unless its data
\* block is used.
LEMMA BlockIsGone ==
  ASSUME PoolFits, MsgInv, NEW t \in Task, NEW b \in Hdr, b = loc[t].bp, loc[t].newbp = NoHdr,
         mpc[t] \in {"write", "last"},
         UNCHANGED <<b_datap, buffer, pool>>, ~twice',
         used' = IF Users(b) = {} THEN used \ {b} ELSE used,
         mpc' = [mpc EXCEPT ![t] = "idle"], loc' = [loc EXCEPT ![t] = M!NoLoc],
         lis_msg_lock' \in Task \cup {NoOne}, LockHeld',
         \A s \in Task : s # t /\ lis_msg_lock = s => lis_msg_lock' = s,
         db_ref' \in [Hdr -> Nat],
         \A x \in Hdr : b \notin Users(x) /\ (x = b => Users(b) # {}) => db_ref'[x] = db_ref[x],
         \A x \in Hdr : b \in Users(x) =>
            /\ Users(x) \ {b} # {} /\ lis_msg_lock = t
            /\ db_ref'[x] = Cardinality(Users(x) \ {b}),
         Users(b) = {} => Cheap(b)
  PROVE  MsgInv'
<1>t. /\ b_datap \in [Hdr -> Hdr \cup {NoHdr}] /\ NoHdr \notin Hdr
      /\ pool \subseteq Hdr /\ used \subseteq Hdr
      /\ mpc \in [Task -> Freeing \cup {"idle", "dup", "zero", "mine", "less", "last"}]
      /\ loc \in [Task -> [bp : Hdr \cup {NoHdr}, dp : Hdr \cup {NoHdr}, newbp : Hdr \cup {NoHdr},
                       free_hdr : BOOLEAN, locked : BOOLEAN, ref : Nat]]
  BY DEF MsgInv, MsgTypes, PoolFits
<1>l. /\ mpc'[t] = "idle" /\ loc'[t] = M!NoLoc
      /\ \A s \in Task : s # t => mpc'[s] = mpc[s] /\ loc'[s] = loc[s]
  BY <1>t
<1>n. loc'[t].bp = NoHdr /\ loc'[t].newbp = NoHdr
  BY <1>l DEF M!NoLoc
<1>1. /\ b \in Held(t) /\ b \notin pool
      /\ \A s \in Task : s # t => b \notin Held(s) /\ b # loc[s].bp /\ b # loc[s].newbp
  <2>1. b \in Held(t)
    BY DEF Held
  <2> QED
    BY <2>1 DEF MsgInv, Apart, Held
<1>2. /\ Held(t)' = {}
      /\ \A s \in Task : s # t => Held(s)' = Held(s)
      /\ Held(t) = {b}
  BY <1>l, <1>n, <1>t DEF Held
<1>3. \A x \in Hdr : Counted(x)' <=> Counted(x) /\ x # b
  <2> SUFFICES ASSUME NEW x \in Hdr
               PROVE  Counted(x)' <=> Counted(x) /\ x # b
    OBVIOUS
  <2>1. x # loc[t].newbp /\ x # loc'[t].newbp /\ x # loc'[t].bp
    BY <1>n, <1>t
  <2>2. CASE x = b
    BY <1>1, <1>l, <2>1, <2>2 DEF Counted
  <2>3. CASE x # b
    BY <1>l, <2>1, <2>3 DEF Counted
  <2> QED
    BY <2>2, <2>3
<1>4. \A x \in Hdr : Users(x)' = Users(x) \ {b}
  BY <1>3 DEF Users
<1>5. MsgTypes'
  <2>1. mpc' \in [Task -> Freeing \cup {"idle", "dup", "zero", "mine", "less", "last"}]
    BY <1>t
  <2>2. loc' \in [Task -> [bp : Hdr \cup {NoHdr}, dp : Hdr \cup {NoHdr}, newbp : Hdr \cup {NoHdr},
                       free_hdr : BOOLEAN, locked : BOOLEAN, ref : Nat]]
    BY <1>t DEF M!NoLoc
  <2>3. used' \in SUBSET Hdr
    BY <1>t
  <2> QED
    BY <2>1, <2>2, <2>3 DEF MsgInv, MsgTypes
<1>6. Apart'
  <2>1. ASSUME NEW s \in Task
        PROVE  /\ mpc'[s] = "idle" => loc'[s] = M!NoLoc
               /\ mpc'[s] # "idle" => loc'[s].bp \in Hdr /\ loc'[s].bp # loc'[s].newbp
               /\ mpc'[s] = "dup" => loc'[s].newbp \in Hdr
               /\ Held(s)' \cap pool' = {}
    <3>1. CASE s = t
      BY <1>2, <1>l, <3>1
    <3>2. CASE s # t
      BY <1>2, <1>l, <3>2 DEF MsgInv, Apart
    <3> QED
      BY <3>1, <3>2
  <2>2. \A s, r \in Task : s # r => Held(s)' \cap Held(r)' = {}
    BY <1>2 DEF MsgInv, Apart
  <2> QED
    BY <2>1, <2>2 DEF Apart
<1>7. Referenced'
  <2>1. \A x \in Hdr : Counted(x)' => x \in used' /\ b_datap'[x] \in Hdr
    BY <1>3 DEF MsgInv, Referenced
  <2>2. ASSUME NEW x \in Hdr, Counted(x)', b_datap'[x] # x
        PROVE  Users(x)' = {} /\ db_ref'[x] = 1 /\ Cheap(x)'
    <3>1. x # b /\ Counted(x) /\ b_datap[x] # x
      BY <1>3, <2>2
    <3>2. Users(x) = {} /\ db_ref[x] = 1 /\ Cheap(x)
      BY <3>1 DEF MsgInv, Referenced
    <3> QED
      BY <1>4, <3>1, <3>2 DEF Cheap
  <2>3. ASSUME NEW x \in Hdr, Users(x)' # {}
        PROVE  x \in used' /\ buffer'[x] \in M!Given /\ db_ref'[x] = Cardinality(Users(x)')
    <3>1. Users(x) # {} /\ Users(x)' = Users(x) \ {b}
      BY <1>4, <2>3
    <3>2. x \in used /\ buffer[x] \in M!Given /\ db_ref[x] = Cardinality(Users(x))
      BY <3>1 DEF MsgInv, Referenced
    <3>3. x \in used'
      BY <3>1, <3>2
    <3>4. CASE b \in Users(x)
      BY <3>1, <3>2, <3>3, <3>4
    <3>5. CASE b \notin Users(x)
      <4>1. Users(x) \ {b} = Users(x)
        BY <3>5
      <4> QED
        BY <3>1, <3>2, <3>3, <3>5, <4>1
    <3> QED
      BY <3>4, <3>5
  <2> QED
    BY <2>1, <2>2, <2>3 DEF Referenced
<1>8. Needed'
  <2>1. \A x \in Hdr : x \notin used' => Cheap(x)'
    BY DEF MsgInv, Needed, Cheap
  <2>2. ASSUME NEW x \in used'
        PROVE  \/ x \in pool' \/ Users(x)' # {}
               \/ \E s \in Task : x \in Held(s)' \/ (mpc'[s] = "zero" /\ x = loc'[s].dp)
    <3>1. x \in used /\ x \in Hdr /\ (x = b => Users(x) # {})
      BY <1>t, <2>2
    <3>2. CASE Users(x) # {}
      BY <1>4, <3>1, <3>2
    <3>3. CASE Users(x) = {}
      <4>1. \/ x \in pool
            \/ \E s \in Task : x \in Held(s) \/ (mpc[s] = "zero" /\ x = loc[s].dp)
        BY <3>1, <3>3 DEF MsgInv, Needed
      <4>2. x \notin Held(t)
        BY <1>2, <3>1, <3>3
      <4> QED
        BY <1>2, <1>l, <4>1, <4>2
    <3> QED
      BY <3>2, <3>3
  <2> QED
    BY <2>1, <2>2 DEF Needed
<1>9. \A s \in Task : s # t => Place(s)'
  <2>1. ASSUME NEW s \in Task, s # t, NEW x \in Work(s)
        PROVE  Same(x)
    <3>1. /\ x \in Hdr /\ x \in used
          /\ \/ Users(x) \subseteq Held(s)
             \/ lis_msg_lock = s
          /\ x \in Held(t) => loc[s].bp \in Users(x)
      BY <2>1, WorkIsOwn
    <3>2. b \notin Users(x)
      BY <1>1, <2>1, <3>1
    <3>3. x = b => Users(b) # {}
      BY <1>1, <3>1
    <3>4. db_ref'[x] = db_ref[x] /\ x \in used'
      BY <3>1, <3>2, <3>3
    <3>5. Users(x)' = Users(x)
      <4>1. Users(x) \ {b} = Users(x)
        BY <3>2
      <4> QED
        BY <1>4, <3>1, <4>1
    <3> QED
      BY <3>1, <3>4, <3>5 DEF Same
  <2>2. \A s \in Task : s # t => \A x \in Work(s) : Same(x)
    BY <2>1
  <2>3. Held(t)' \cap used \subseteq Held(t) \cup pool /\ pool' \cap used \subseteq Held(t) \cup pool
    BY <1>2
  <2> QED
    BY <1>l, <2>2, <2>3, OthersStay
<1>10. Place(t)'
  BY <1>l DEF Place, Freeing
<1> QED
  BY <1>5, <1>6, <1>7, <1>8, <1>9, <1>10 DEF MsgInv

\* A task is through with a block that it pulls up: the block now uses the data block
\* of the new header, which is nobody's block.
LEMMA BlockIsPulledUp ==
  ASSUME PoolFits, MsgInv, NEW t \in Task, NEW b \in Hdr, b = loc[t].bp,
         NEW n \in Hdr, n = loc[t].newbp, mpc[t] \in {"write", "last"},
         UNCHANGED <<used, buffer>>, ~twice',
         b_datap' = [b_datap EXCEPT ![b] = n, ![n] = NoHdr], pool' = pool \cup {b},
         mpc' = [mpc EXCEPT ![t] = "idle"], loc' = [loc EXCEPT ![t] = M!NoLoc],
         lis_msg_lock' \in Task \cup {NoOne}, LockHeld',
         \A s \in Task : s # t /\ lis_msg_lock = s => lis_msg_lock' = s,
         db_ref' \in [Hdr -> Nat],
         \A x \in Hdr : b \notin Users(x) => db_ref'[x] = db_ref[x],
         \A x \in Hdr : b \in Users(x) =>
            /\ Users(x) \ {b} # {} /\ lis_msg_lock = t
            /\ db_ref'[x] = Cardinality(Users(x) \ {b}),
         b \in used, Users(b) = {}, db_ref[b] = 1, Cheap(b)
  PROVE  MsgInv'
<1>t. /\ b_datap \in [Hdr -> Hdr \cup {NoHdr}] /\ NoHdr \notin Hdr
      /\ pool \subseteq Hdr /\ used \subseteq Hdr
      /\ mpc \in [Task -> Freeing \cup {"idle", "dup", "zero", "mine", "less", "last"}]
      /\ loc \in [Task -> [bp : Hdr \cup {NoHdr}, dp : Hdr \cup {NoHdr}, newbp : Hdr \cup {NoHdr},
                       free_hdr : BOOLEAN, locked : BOOLEAN, ref : Nat]]
  BY DEF MsgInv, MsgTypes, PoolFits
<1>l. /\ mpc'[t] = "idle" /\ loc'[t] = M!NoLoc
      /\ \A s \in Task : s # t => mpc'[s] = mpc[s] /\ loc'[s] = loc[s]
  BY <1>t
<1>z. loc'[t].bp = NoHdr /\ loc'[t].newbp = NoHdr
  BY <1>l DEF M!NoLoc
<1>1. /\ b \in Held(t) /\ b \notin pool /\ n \in Held(t) /\ n \notin pool /\ b # n
      /\ \A s \in Task : s # t => /\ b \notin Held(s) /\ b # loc[s].bp /\ b # loc[s].newbp
                                  /\ n \notin Held(s) /\ n # loc[s].bp /\ n # loc[s].newbp
  <2>1. b \in Held(t) /\ n \in Held(t)
    BY DEF Held
  <2> QED
    BY <2>1 DEF MsgInv, Apart, Held
<1>2. /\ Held(t)' = {}
      /\ \A s \in Task : s # t => Held(s)' = Held(s)
      /\ Held(t) = {b, n}
  BY <1>l, <1>z, <1>t DEF Held
<1>3. \A x \in Hdr : Counted(x)' <=> x = b \/ (Counted(x) /\ x # n)
  <2> SUFFICES ASSUME NEW x \in Hdr
               PROVE  Counted(x)' <=> x = b \/ (Counted(x) /\ x # n)
    OBVIOUS
  <2>1. x # loc'[t].newbp /\ x # loc'[t].bp
    BY <1>z, <1>t
  <2>2. CASE x = b
    BY <2>2 DEF Counted
  <2>3. CASE x = n
    BY <1>1, <1>l, <2>1, <2>3 DEF Counted
  <2>4. CASE x # b /\ x # n
    BY <1>l, <2>1, <2>4 DEF Counted
  <2> QED
    BY <1>1, <2>2, <2>3, <2>4
<1>d. /\ b_datap'[b] = n /\ b_datap'[n] = NoHdr
      /\ \A x \in Hdr : x # b /\ x # n => b_datap'[x] = b_datap[x]
  BY <1>1, <1>t
<1>n. Users(n) = {n} /\ n \in used
  <2>1. Fresh(t)
    BY DEF MsgInv, Place
  <2> QED
    BY <1>t, <2>1 DEF Fresh, MsgInv, Referenced
<1>4. \A x \in Hdr : Users(x)' = IF x = n THEN {b} ELSE Users(x) \ {b}
  <2> SUFFICES ASSUME NEW x \in Hdr
               PROVE  Users(x)' = IF x = n THEN {b} ELSE Users(x) \ {b}
    OBVIOUS
  <2>1. Users(x)' = {h \in Hdr : Counted(h)' /\ b_datap'[h] = x}
    BY DEF Users
  <2>2. \A h \in Hdr : h \notin {b, n} => (h \in Users(x)' <=> h \in Users(x))
    BY <1>3, <1>d, <2>1 DEF Users
  <2>3. n \notin Users(x)' /\ (x # n => n \notin Users(x))
    BY <1>d, <1>n, <1>t, <2>1 DEF Users
  <2>4. b \in Users(x)' <=> x = n
    BY <1>3, <1>d, <2>1
  <2>5. Users(x)' \subseteq Hdr /\ Users(x) \subseteq Hdr
    BY <2>1 DEF Users
  <2> QED
    BY <1>n, <2>2, <2>3, <2>4, <2>5
<1>5. MsgTypes'
  <2>1. mpc' \in [Task -> Freeing \cup {"idle", "dup", "zero", "mine", "less", "last"}]
    BY <1>t
  <2>2. loc' \in [Task -> [bp : Hdr \cup {NoHdr}, dp : Hdr \cup {NoHdr}, newbp : Hdr \cup {NoHdr},
                       free_hdr : BOOLEAN, locked : BOOLEAN, ref : Nat]]
    BY <1>t DEF M!NoLoc
  <2>3. b_datap' \in [Hdr -> Hdr \cup {NoHdr}] /\ pool' \in SUBSET Hdr
    BY <1>t
  <2> QED
    BY <2>1, <2>2, <2>3 DEF MsgInv, MsgTypes
<1>6. Apart'
  <2>1. ASSUME NEW s \in Task
        PROVE  /\ mpc'[s] = "idle" => loc'[s] = M!NoLoc
               /\ mpc'[s] # "idle" => loc'[s].bp \in Hdr /\ loc'[s].bp # loc'[s].newbp
               /\ mpc'[s] = "dup" => loc'[s].newbp \in Hdr
               /\ Held(s)' \cap pool' = {}
    <3>1. CASE s = t
      BY <1>2, <1>l, <3>1
    <3>2. CASE s # t
      BY <1>1, <1>2, <1>l, <3>2 DEF MsgInv, Apart
    <3> QED
      BY <3>1, <3>2
  <2>2. \A s, r \in Task : s # r => Held(s)' \cap Held(r)' = {}
    BY <1>2 DEF MsgInv, Apart
  <2> QED
    BY <2>1, <2>2 DEF Apart
<1>7. Referenced'
  <2>1. \A x \in Hdr : Counted(x)' => x \in used' /\ b_datap'[x] \in Hdr
    BY <1>3, <1>d DEF MsgInv, Referenced
  <2>2. ASSUME NEW x \in Hdr, Counted(x)', b_datap'[x] # x
        PROVE  Users(x)' = {} /\ db_ref'[x] = 1 /\ Cheap(x)'
    <3>1. x # n
      BY <1>1, <1>3, <2>2
    <3>2. Users(x) = {} /\ db_ref[x] = 1 /\ Cheap(x)
      BY <1>3, <1>d, <2>2, <3>1 DEF MsgInv, Referenced
    <3> QED
      BY <1>4, <3>1, <3>2 DEF Cheap
  <2>3. ASSUME NEW x \in Hdr, Users(x)' # {}
        PROVE  x \in used' /\ buffer'[x] \in M!Given /\ db_ref'[x] = Cardinality(Users(x)')
    <3>0. Users(x) # {}
      BY <1>4, <1>n, <2>3
    <3>1. x \in used /\ buffer[x] \in M!Given /\ db_ref[x] = Cardinality(Users(x))
      BY <3>0 DEF MsgInv, Referenced
    <3>2. CASE x = n
      <4>1. Users(x)' = {b} /\ b \notin Users(x)
        BY <1>1, <1>4, <1>n, <3>2
      <4>2. Cardinality({b}) = 1 /\ Cardinality({n}) = 1
        BY HdrSets
      <4>3. db_ref'[x] = 1
        BY <1>n, <3>1, <3>2, <4>1, <4>2
      <4> QED
        BY <3>1, <4>1, <4>2, <4>3
    <3>3. CASE x # n /\ b \in Users(x)
      BY <1>4, <3>1, <3>3
    <3>4. CASE x # n /\ b \notin Users(x)
      <4>1. Users(x)' = Users(x)
        <5>1. Users(x) \ {b} = Users(x)
          BY <3>4
        <5> QED
          BY <1>4, <3>4, <5>1
      <4> QED
        BY <3>1, <3>4, <4>1
    <3> QED
      BY <3>2, <3>3, <3>4
  <2> QED
    BY <2>1, <2>2, <2>3 DEF Referenced
<1>8. Needed'
  <2>1. \A x \in Hdr : x \notin used' => Cheap(x)'
    BY DEF MsgInv, Needed, Cheap
  <2>2. ASSUME NEW x \in used'
        PROVE  \/ x \in pool' \/ Users(x)' # {}
               \/ \E s \in Task : x \in Held(s)' \/ (mpc'[s] = "zero" /\ x = loc'[s].dp)
    <3>1. x \in used /\ x \in Hdr
      BY <1>t, <2>2
    <3>2. CASE Users(x) # {}
      <4>1. Users(x)' # {}
        BY <1>4, <3>1, <3>2
      <4> QED
        BY <4>1
    <3>3. CASE Users(x) = {}
      <4>1. \/ x \in pool
            \/ \E s \in Task : x \in Held(s) \/ (mpc[s] = "zero" /\ x = loc[s].dp)
        BY <3>1, <3>3 DEF MsgInv, Needed
      <4>2. x \in Held(t) => x = b
        BY <1>2, <1>n, <3>3
      <4> QED
        BY <1>2, <1>l, <4>1, <4>2
    <3> QED
      BY <3>2, <3>3
  <2> QED
    BY <2>1, <2>2 DEF Needed
<1>9. \A s \in Task : s # t => Place(s)'
  <2>1. ASSUME NEW s \in Task, s # t, NEW x \in Work(s)
        PROVE  Same(x)
    <3>1. /\ x \in Hdr /\ x \in used
          /\ \/ Users(x) \subseteq Held(s)
             \/ lis_msg_lock = s
          /\ x \in Held(t) => loc[s].bp \in Users(x)
      BY <2>1, WorkIsOwn
    <3>2. b \notin Users(x)
      BY <1>1, <2>1, <3>1
    <3>3. x # n
      BY <1>1, <1>n, <2>1, <3>1
    <3>4. db_ref'[x] = db_ref[x] /\ x \in used'
      BY <3>1, <3>2
    <3>5. Users(x)' = Users(x)
      <4>1. Users(x) \ {b} = Users(x)
        BY <3>2
      <4> QED
        BY <1>4, <3>1, <3>3, <4>1
    <3> QED
      BY <3>1, <3>4, <3>5 DEF Same
  <2>2. \A s \in Task : s # t => \A x \in Work(s) : Same(x)
    BY <2>1
  <2>3. Held(t)' \cap used \subseteq Held(t) \cup pool /\ pool' \cap used \subseteq Held(t) \cup pool
    BY <1>2
  <2>4. \A s \in Task : s # t => \A x \in Held(s) : b_datap'[x] = b_datap[x]
    <3>1. \A s \in Task : Held(s) \subseteq Hdr
      BY DEF Held
    <3> QED
      BY <1>1, <1>d, <3>1
  <2> QED
    BY <1>l, <2>2, <2>3, <2>4, OthersStay
<1>10. Place(t)'
  BY <1>l DEF Place, Freeing
<1> QED
  BY <1>5, <1>6, <1>7, <1>8, <1>9, <1>10 DEF MsgInv

LEMMA FreedbSharedKeeps ==
  ASSUME PoolFits, MsgInv, NEW t \in Task, M!FreedbShared(t)
  PROVE  MsgInv'
<1>t. /\ b_datap \in [Hdr -> Hdr \cup {NoHdr}] /\ db_ref \in [Hdr -> Nat] /\ NoHdr \notin Hdr
      /\ loc[t].ref \in Nat /\ loc[t].free_hdr \in BOOLEAN /\ loc[t].locked \in BOOLEAN
      /\ loc[t].newbp \in Hdr \cup {NoHdr} /\ ~twice
  BY DEF MsgInv, MsgTypes, PoolFits
<1>0. mpc[t] = "write" /\ mpc[t] \in Freeing /\ loc[t].ref > 0 /\ AtFree(t) /\ Fresh(t)
  BY DEF M!FreedbShared, Freeing, MsgInv, Place
<1>f. /\ loc[t].bp \in Hdr /\ loc[t].bp \in used /\ Counted(loc[t].bp)
      /\ loc[t].dp = b_datap[loc[t].bp]
      /\ loc[t].dp \in Hdr /\ loc[t].bp \in Users(loc[t].dp)
      /\ db_ref[loc[t].dp] = Cardinality(Users(loc[t].dp))
  BY <1>0, FreeingFacts
<1>1. PICK b \in Hdr, d \in Hdr : b = loc[t].bp /\ d = loc[t].dp
  BY <1>f
<1>r. PICK r \in Nat : r = loc[t].ref /\ r > 0 /\ r = db_ref[d] - 1
  BY <1>0, <1>1, <1>t DEF AtFree
<1>2. /\ Cardinality(Users(d) \ {b}) = r /\ Cardinality(Users(d)) = r + 1
      /\ Users(d) \ {b} # {} /\ Users(d) # {b}
  <2>1. /\ Cardinality(Users(d)) = r + 1 /\ b \in Users(d)
        /\ Cardinality(Users(d) \ {b}) = Cardinality(Users(d)) - 1
    BY <1>1, <1>f, <1>r, <1>t, UserSets
  <2>2. Users(d) # {b}
    <3> SUFFICES ASSUME Users(d) = {b}
                 PROVE  FALSE
      OBVIOUS
    <3>1. Cardinality(Users(d)) = 1
      BY HdrSets
    <3> QED
      BY <1>r, <2>1, <3>1
  <2>3. Cardinality(Users(d) \ {b}) = r
    BY <1>r, <2>1
  <2> QED
    BY <2>1, <2>2, <2>3
<1>3. loc[t].locked /\ lis_msg_lock = t /\ (~loc[t].free_hdr => d # b)
  BY <1>0, <1>1, <1>2 DEF AtFree
<1>4. \A x \in Hdr : b \in Users(x) <=> x = d
  BY <1>1, <1>f DEF Users
<1>5. d # b => Users(b) = {} /\ db_ref[b] = 1 /\ Cheap(b)
  BY <1>1, <1>f DEF MsgInv, Referenced
<1>6. /\ lis_msg_lock' = NoOne /\ buffer' = buffer
      /\ mpc' = [mpc EXCEPT ![t] = "idle"] /\ loc' = [loc EXCEPT ![t] = M!NoLoc]
      /\ b_datap' = M!Datap(t, b_datap)
      /\ pool' = IF loc[t].newbp = NoHdr THEN pool ELSE pool \cup {b}
  BY <1>1, <1>3 DEF M!FreedbShared, M!Unlock, M!FreedbReturn, M!Go
<1>7. LockHeld'
  BY <1>6 DEF LockHeld
<1>8. lis_msg_lock' \in Task \cup {NoOne} /\ \A s \in Task : s # t /\ lis_msg_lock = s => lis_msg_lock' = s
  BY <1>3, <1>6
<1> DEFINE less == [db_ref EXCEPT ![d] = r]
<1>9. less \in [Hdr -> Nat] /\ less[d] = r /\ \A x \in Hdr : x # d => less[x] = db_ref[x]
  BY <1>t
<1>10. /\ db_ref' = IF loc[t].free_hdr /\ d # b /\ less[b] > 0
                    THEN [less EXCEPT ![b] = less[b] - 1] ELSE less
       /\ used' = IF loc[t].free_hdr /\ d # b /\ less[b] = 1 THEN used \ {b} ELSE used
       /\ ~twice'
  <2>1. /\ db_ref' = IF M!Uncounts(t) /\ less[b] > 0
                     THEN [less EXCEPT ![b] = less[b] - 1]
                     ELSE IF ~loc[t].free_hdr /\ d = b
                     THEN [less EXCEPT ![b] = (less[b] + 1) % Width] ELSE less
        /\ M!Freehdr(IF M!Uncounts(t) /\ less[b] = 1 THEN {b} ELSE {})
    BY <1>1, <1>r DEF M!FreedbShared
  <2>2. M!Uncounts(t) <=> loc[t].free_hdr /\ d # b
    BY <1>1, <1>3 DEF M!Uncounts
  <2> HIDE DEF less
  <2>3. b \in used
    BY <1>1, <1>f
  <2>4. /\ used' = used \ (IF M!Uncounts(t) /\ less[b] = 1 THEN {b} ELSE {})
        /\ twice' = (twice \/ ~((IF M!Uncounts(t) /\ less[b] = 1 THEN {b} ELSE {}) \subseteq used))
    BY <2>1 DEF M!Freehdr
  <2>5. ~twice'
    BY <1>t, <2>3, <2>4
  <2>6. used' = IF loc[t].free_hdr /\ d # b /\ less[b] = 1 THEN used \ {b} ELSE used
    BY <2>2, <2>4
  <2> QED
    BY <1>3, <2>1, <2>2, <2>5, <2>6
<1> HIDE DEF less
<1>11. CASE loc[t].free_hdr
  <2>1. loc[t].newbp = NoHdr
    BY <1>0, <1>11 DEF Fresh
  <2>2. UNCHANGED <<b_datap, buffer, pool>>
    BY <1>6, <2>1 DEF M!Datap
  <2>3. /\ used' = IF Users(b) = {} THEN used \ {b} ELSE used
        /\ db_ref' \in [Hdr -> Nat] /\ db_ref'[d] = r
        /\ \A x \in Hdr : x # b /\ x # d => db_ref'[x] = db_ref[x]
    <3>1. CASE d = b
      BY <1>2, <1>9, <1>10, <3>1
    <3>2. CASE d # b
      <4>1. less[b] = 1 /\ Users(b) = {}
        BY <1>5, <1>9, <3>2
      <4>2. db_ref' = [less EXCEPT ![b] = 0] /\ used' = used \ {b}
        BY <1>10, <1>11, <3>2, <4>1
      <4> QED
        BY <1>9, <3>2, <4>1, <4>2
    <3> QED
      BY <3>1, <3>2
  <2>4. \A x \in Hdr : b \notin Users(x) /\ (x = b => Users(b) # {}) => db_ref'[x] = db_ref[x]
    BY <1>4, <1>5, <2>3
  <2>5. \A x \in Hdr : b \in Users(x) =>
            /\ Users(x) \ {b} # {} /\ lis_msg_lock = t
            /\ db_ref'[x] = Cardinality(Users(x) \ {b})
    BY <1>2, <1>3, <1>4, <2>3
  <2>6. Users(b) = {} => Cheap(b)
    BY <1>4, <1>5
  <2> QED
    BY <1>0, <1>1, <1>6, <1>7, <1>8, <1>10, <2>1, <2>2, <2>3, <2>4, <2>5, <2>6, BlockIsGone
<1>12. CASE ~loc[t].free_hdr
  <2>1. PICK n \in Hdr : n = loc[t].newbp
    BY <1>0, <1>12, <1>t DEF Fresh
  <2>2. /\ b_datap' = [b_datap EXCEPT ![b] = n, ![n] = NoHdr] /\ pool' = pool \cup {b}
        /\ buffer' = buffer
    BY <1>1, <1>6, <1>t, <2>1 DEF M!Datap
  <2>3. used' = used /\ db_ref' = less /\ d # b
    BY <1>3, <1>10, <1>12
  <2>4. \A x \in Hdr : b \notin Users(x) => db_ref'[x] = db_ref[x]
    BY <1>4, <1>9, <2>3
  <2>5. \A x \in Hdr : b \in Users(x) =>
            /\ Users(x) \ {b} # {} /\ lis_msg_lock = t
            /\ db_ref'[x] = Cardinality(Users(x) \ {b})
    BY <1>2, <1>3, <1>4, <1>9, <2>3
  <2>6. b \in used /\ Users(b) = {} /\ db_ref[b] = 1 /\ Cheap(b) /\ db_ref' \in [Hdr -> Nat]
    BY <1>1, <1>5, <1>9, <1>f, <2>3
  <2>7. UNCHANGED <<used, buffer>> /\ ~twice'
    BY <1>6, <1>10, <2>3
  <2>8. mpc[t] \in {"write", "last"}
    BY <1>0
  <2>9. mpc' = [mpc EXCEPT ![t] = "idle"] /\ loc' = [loc EXCEPT ![t] = M!NoLoc]
    BY <1>6
  <2> QED
    BY <1>1, <1>7, <1>8, <2>1, <2>2, <2>4, <2>5, <2>6, <2>7, <2>8, <2>9, BlockIsPulledUp
<1> QED
  BY <1>11, <1>12

LEMMA FreedbEndKeeps ==
  ASSUME PoolFits, MsgInv, NEW t \in Task, M!FreedbEnd(t)
  PROVE  MsgInv'
<1>t. /\ b_datap \in [Hdr -> Hdr \cup {NoHdr}] /\ db_ref \in [Hdr -> Nat] /\ NoHdr \notin Hdr
      /\ loc[t].free_hdr \in BOOLEAN /\ loc[t].newbp \in Hdr \cup {NoHdr} /\ ~twice
      /\ lis_msg_lock \in Task \cup {NoOne}
  BY DEF MsgInv, MsgTypes, PoolFits
<1>0. mpc[t] = "last" /\ AtEnd(t) /\ Fresh(t) /\ loc[t].bp \in Hdr
  BY DEF M!FreedbEnd, MsgInv, Place, Apart, Freeing
<1>1. PICK b \in Hdr : b = loc[t].bp
  BY <1>0
<1>2. /\ b \in used /\ Users(b) = {} /\ Cheap(b)
      /\ db_ref[b] = IF loc[t].free_hdr THEN 0 ELSE 1
  BY <1>0, <1>1 DEF AtEnd
<1>3. ~Counted(b)
  <2>1. b \in Held(t)
    BY <1>1 DEF Held
  <2>2. b \notin pool /\ \A s \in Task : s # t => b # loc[s].bp /\ b # loc[s].newbp
    BY <1>1, <2>1 DEF MsgInv, Apart, Held
  <2>3. b # loc[t].newbp
    BY <1>0, <1>1 DEF MsgInv, Apart
  <2> QED
    BY <1>0, <2>2, <2>3 DEF Counted, Freeing
<1>4. \A x \in Hdr : b \notin Users(x)
  BY <1>3 DEF Users
<1>6. /\ UNCHANGED <<db_ref, buffer, lis_msg_lock>>
      /\ mpc' = [mpc EXCEPT ![t] = "idle"] /\ loc' = [loc EXCEPT ![t] = M!NoLoc]
      /\ b_datap' = M!Datap(t, b_datap)
      /\ pool' = IF loc[t].newbp = NoHdr THEN pool ELSE pool \cup {b}
      /\ M!Freehdr(IF loc[t].free_hdr /\ db_ref[b] = 0 THEN {b} ELSE {})
  BY <1>1 DEF M!FreedbEnd, M!FreedbReturn, M!Go
<1>7. LockHeld'
  <2>1. lis_msg_lock # t
    BY <1>0, <1>t DEF MsgInv, LockHeld, PoolFits
  <2>2. \A s \in Task : s # t => mpc'[s] = mpc[s] /\ loc'[s] = loc[s]
    BY <1>6 DEF MsgInv, MsgTypes
  <2> QED
    BY <1>6, <1>t, <2>1, <2>2 DEF MsgInv, LockHeld
<1>8. db_ref' \in [Hdr -> Nat] /\ db_ref' = db_ref
  BY <1>6, <1>t
<1>9. CASE loc[t].free_hdr
  <2>1. loc[t].newbp = NoHdr
    BY <1>0, <1>9 DEF Fresh
  <2>2. UNCHANGED <<b_datap, buffer, pool>>
    BY <1>6, <2>1 DEF M!Datap
  <2>3. M!Freehdr({b})
    BY <1>2, <1>6, <1>9
  <2>4. used' = IF Users(b) = {} THEN used \ {b} ELSE used
    BY <1>2, <2>3 DEF M!Freehdr
  <2>5. ~twice'
    BY <1>2, <1>t, <2>3 DEF M!Freehdr
  <2> QED
    BY <1>0, <1>1, <1>2, <1>4, <1>6, <1>7, <1>8, <1>t, <2>1, <2>2, <2>4, <2>5, BlockIsGone
<1>10. CASE ~loc[t].free_hdr
  <2>1. PICK n \in Hdr : n = loc[t].newbp
    BY <1>0, <1>10, <1>t DEF Fresh
  <2>2. /\ b_datap' = [b_datap EXCEPT ![b] = n, ![n] = NoHdr] /\ pool' = pool \cup {b}
        /\ buffer' = buffer
    BY <1>1, <1>6, <1>t, <2>1 DEF M!Datap
  <2>3. used' = used /\ ~twice'
    BY <1>6, <1>10, <1>t DEF M!Freehdr
  <2> QED
    BY <1>0, <1>1, <1>2, <1>4, <1>6, <1>7, <1>8, <1>10, <1>t, <2>1, <2>2, <2>3, BlockIsPulledUp
<1> QED
  BY <1>9, <1>10

LEMMA MsgInit == ASSUME PoolFits, M!Init PROVE MsgInv
<1>1. /\ used = {} /\ pool = {} /\ ~twice /\ lis_msg_lock = NoOne
      /\ b_datap = [h \in Hdr |-> NoHdr] /\ db_ref = [h \in Hdr |-> 0]
      /\ buffer = [h \in Hdr |-> "none"]
      /\ mpc = [t \in Task |-> "idle"] /\ loc = [t \in Task |-> M!NoLoc]
  BY DEF M!Init
<1>2. \A t \in Task : mpc[t] = "idle" /\ loc[t] = M!NoLoc /\ loc[t].bp = NoHdr /\ loc[t].newbp = NoHdr
  BY <1>1 DEF M!NoLoc
<1>3. \A h \in Hdr : ~Counted(h)
  BY <1>1, <1>2 DEF Counted, Freeing, PoolFits
<1>4. \A h \in Hdr : Users(h) = {}
  BY <1>3 DEF Users
<1>5. \A t \in Task : Held(t) = {}
  BY <1>2 DEF Held, PoolFits
<1>6. MsgTypes
  BY <1>1 DEF MsgTypes, M!NoLoc
<1>7. Apart
  BY <1>2, <1>5 DEF Apart
<1>8. Referenced
  BY <1>3, <1>4 DEF Referenced
<1>9. Needed
  BY <1>1 DEF Needed, Cheap
<1>10. \A t \in Task : Place(t)
  BY <1>2 DEF Place, Freeing
<1> QED
  BY <1>1, <1>6, <1>7, <1>8, <1>9, <1>10 DEF MsgInv, LockHeld

LEMMA MsgStep ==
  ASSUME PoolFits, SharedPullup = FALSE, MsgInv, M!Next
  PROVE  MsgInv'
<1>1. PICK t \in Task :
        \/ \E kind \in M!Given : M!Allocb(t, kind)
        \/ M!Dupb(t) \/ M!DupbRef(t) \/ M!Freeb(t) \/ M!Pullupmsg(t)
        \/ M!FreedbTest(t) \/ M!FreedbLock(t) \/ M!FreedbRead(t) \/ M!FreedbLast(t)
        \/ M!FreedbShared(t) \/ M!FreedbZero(t) \/ M!FreedbMine(t)
        \/ M!FreedbLess(t) \/ M!FreedbEnd(t)
  BY DEF M!Next
<1>2. CASE \E kind \in M!Given : M!Allocb(t, kind)
  BY <1>2, AllocbKeeps
<1>3. CASE M!Dupb(t) \/ M!DupbRef(t) \/ M!Freeb(t) \/ M!Pullupmsg(t)
  BY <1>3, DupbKeeps, DupbRefKeeps, FreebKeeps, PullupmsgKeeps
<1>4. CASE M!FreedbTest(t) \/ M!FreedbLock(t) \/ M!FreedbRead(t) \/ M!FreedbLast(t)
  BY <1>4, FreedbTestKeeps, FreedbLockKeeps, FreedbReadKeeps, FreedbLastKeeps
<1>5. CASE M!FreedbShared(t) \/ M!FreedbZero(t) \/ M!FreedbMine(t)
             \/ M!FreedbLess(t) \/ M!FreedbEnd(t)
  BY <1>5, FreedbSharedKeeps, FreedbZeroKeeps, FreedbMineKeeps, FreedbLessKeeps,
     FreedbEndKeeps
<1> QED
  BY <1>1, <1>2, <1>3, <1>4, <1>5

LEMMA MsgRests == ASSUME MsgInv, UNCHANGED mvars PROVE MsgInv'
<1> USE DEF mvars
<1>1. \A h \in Hdr : Counted(h)' = Counted(h)
  BY DEF Counted
<1>2. \A h \in Hdr : Users(h)' = Users(h)
  BY DEF Users, Counted
<1>3. \A t \in Task : Held(t)' = Held(t)
  BY DEF Held
<1>4. MsgTypes' /\ ~twice' /\ LockHeld'
  BY DEF MsgInv, MsgTypes, LockHeld
<1>5. Apart'
  BY <1>3 DEF MsgInv, Apart
<1>6. Referenced'
  BY DEF MsgInv, Referenced, Users, Counted, Cheap
<1>7. Needed'
  BY DEF MsgInv, Needed, Users, Counted, Cheap, Held
<1>8. \A t \in Task : Place(t)'
  BY DEF MsgInv, Place, AtDup, Fresh, AtFree, AtZero, AtEnd, Users, Counted, Cheap, Held
<1> QED
  BY <1>4, <1>5, <1>6, <1>7, <1>8 DEF MsgInv

LEMMA MsgHolds == ASSUME PoolFits, MsgInv PROVE M!FreedExactly
<1>1. ASSUME NEW m \in pool
      PROVE  M!Whole(m)
  <2>1. m \in Hdr /\ Counted(m)
    BY <1>1 DEF MsgInv, MsgTypes, Counted
  <2>2. m \in used /\ b_datap[m] \in Hdr
    BY <2>1 DEF MsgInv, Referenced
  <2>3. PICK d \in Hdr : d = b_datap[m]
    BY <2>2
  <2>4. m \in Users(d)
    BY <2>1, <2>3 DEF Users
  <2>5. d \in used /\ buffer[d] \in M!Given /\ db_ref[d] = Cardinality(Users(d))
    BY <2>4 DEF MsgInv, Referenced
  <2>6. Cardinality(Users(d)) > 0
    BY <2>4, UserSets
  <2>7. db_ref[d] > 0
    BY <2>5, <2>6
  <2> QED
    BY <2>2, <2>3, <2>5, <2>7 DEF M!Whole
<1>2. ASSUME pool = {}, \A t \in Task : mpc[t] = "idle"
      PROVE  used = {}
  <2>1. \A t \in Task : loc[t].bp = NoHdr /\ loc[t].newbp = NoHdr
    BY <1>2 DEF MsgInv, Apart, M!NoLoc
  <2>2. \A h \in Hdr : ~Counted(h)
    BY <1>2, <2>1 DEF Counted, Freeing, PoolFits
  <2>3. \A h \in Hdr : Users(h) = {}
    BY <2>2 DEF Users
  <2>4. \A t \in Task : Held(t) = {}
    BY <2>1 DEF Held, PoolFits
  <2> QED
    BY <1>2, <2>3, <2>4 DEF MsgInv, MsgTypes, Needed
<1>3. \A h \in Hdr \ used : buffer[h] \notin {"external", "user"}
  BY DEF MsgInv, Needed, Cheap
<1>4. M!MessagesWhole
  BY <1>1 DEF M!MessagesWhole, MsgInv
<1>5. M!NothingLeaked
  BY <1>2, <1>3 DEF M!NothingLeaked
<1> QED
  BY <1>4, <1>5 DEF M!FreedExactly

LEMMA OthersKeepBlocks ==
    ASSUME MCNext \/ UNCHANGED <<part, vars, mvars, uvars, fvars, xvars, lvars, avars>>
    PROVE  M!Next \/ UNCHANGED mvars
BY DEF MCNext, Rest

\* No data block, buffer or header is freed twice, too early or never, by however many
\* tasks, as long as db_ref does not wrap and nobody pulls up what is shared: what
\* BlocksSound says of Messages.
THEOREM BlocksAreFreedExactly ==
  ASSUME PoolFits, SharedPullup = FALSE
  PROVE  MCSpec => [](part # "utilities" => BlocksSound)
<1>1. MCInit => MsgInv
  BY MsgInit DEF MCInit
<1>2. MsgInv /\ [MCNext]_<<part, vars, mvars, uvars, fvars, xvars, lvars, avars>> => MsgInv'
  BY MsgStep, MsgRests, OthersKeepBlocks
<1>3. MsgInv => (part # "utilities" => BlocksSound)
  BY MsgHolds DEF BlocksSound
<1> QED
  BY <1>1, <1>2, <1>3, PTL DEF MCSpec
=============================================================================
