------------------------------ MODULE RunQueues ------------------------------
(***************************************************************************)
(* How the queue-runner threads are woken and put to sleep: lis_setqsched  *)
(* and lis_thread_runqueues (head/linux-mdep.c), lis_run_queues and the    *)
(* frame of queuerun (head/stream.c), the bufcall timer (head/buffcall.c)  *)
(* and the scan timer (add_to_scanl, head/head.c).                         *)
(*                                                                         *)
(* What is on the lists does not matter here, only how much: Scheduler     *)
(* follows the queues themselves.  lis_runq_req_cnt, lis_queues_running    *)
(* and the active flags are atomic counters that everybody reads without a *)
(* lock; each read and each write is a step, and so is a turn of the      *)
(* wakeup loop.                                                            *)
(***************************************************************************)
EXTENDS Integers, FiniteSets

CONSTANTS
    NCpu,              \* CPUs, each with its queue-runner thread
    Caller,            \* contexts that call lis_qenable
    BcTimer, ScTimer,  \* the bufcall timer and the scan timer, or {}
    WORK_INCR,         \* list entries that keep one thread busy
    MaxWork,           \* how many queues are enabled
    MaxScan, MaxBc     \* how often the scan timer and the bufcall timer fire

Cpu == 0 .. NCpu - 1
Ctx == Caller \cup BcTimer \cup Cpu    \* those that call lis_setqsched

ASSUME RunAssumption ==
    /\ NCpu \in Nat \ {0} /\ WORK_INCR \in Nat \ {0}
    /\ MaxWork \in Nat /\ MaxScan \in Nat /\ MaxBc \in Nat
    /\ Caller \cap Cpu = {} /\ BcTimer \cap Cpu = {} /\ Caller \cap BcTimer = {}

VARIABLES
    lis_qhead, lis_scanqhead,          \* the lengths of the lists
    lis_strbcflag, lis_strbctimer,
    lis_runq_req_cnt, lis_queues_running, lis_runq_active_flags,
    lis_runq_sems,     \* the semaphore each thread sleeps on
    run,               \* where each thread is
    qsched_running,
    qs,                \* where each context is in lis_setqsched
    my_cpu, running, load_thresh, next_cpu,  \* locals of lis_setqsched
    enabled, scans, ticks,                   \* how often things happened
    unheard            \* an entry was linked that no lis_setqsched looked for

lists  == <<lis_qhead, lis_scanqhead, lis_strbcflag, lis_strbctimer>>
counts == <<lis_runq_req_cnt, lis_queues_running, lis_runq_active_flags>>
locals == <<my_cpu, running, load_thresh, next_cpu>>
bounds == <<enabled, scans, ticks>>
vars   == <<lists, counts, lis_runq_sems, run, qsched_running, qs, locals,
            bounds, unheard>>

Init ==
    /\ lis_qhead = 0 /\ lis_scanqhead = 0
    /\ lis_strbcflag = FALSE /\ lis_strbctimer = "off"
    /\ lis_runq_req_cnt = 0 /\ lis_queues_running = 0
    /\ lis_runq_active_flags = [c \in Cpu |-> FALSE]
    /\ lis_runq_sems = [c \in Cpu |-> 0]
    /\ run = [c \in Cpu |-> "down"]
    /\ qsched_running = FALSE
    /\ qs = [x \in Ctx |-> "idle"]
    /\ my_cpu = [x \in Ctx |-> 0] /\ running = [x \in Ctx |-> 0]
    /\ load_thresh = [x \in Ctx |-> 0] /\ next_cpu = [x \in Ctx |-> 0]
    /\ enabled = 0 /\ scans = 0 /\ ticks = 0 /\ unheard = FALSE

RunTo(c, l) == run' = [run EXCEPT ![c] = l]
QsTo(x, l)  == qs' = [qs EXCEPT ![x] = l]

-----------------------------------------------------------------------------
(* Work arrives                                                            *)

\* lis_qenable links a queue; a thread does it from a service procedure.
LinkQueue(x) ==
    /\ x \in Caller \/ (x \in Cpu /\ run[x] = "service")
    /\ qs[x] = "idle" /\ enabled < MaxWork
    /\ lis_qhead' = lis_qhead + 1 /\ lis_runq_req_cnt' = lis_runq_req_cnt + 1
    /\ enabled' = enabled + 1
    /\ QsTo(x, "enter")
    /\ UNCHANGED <<lis_scanqhead, lis_strbcflag, lis_strbctimer,
                   lis_queues_running, lis_runq_active_flags, lis_runq_sems,
                   run, qsched_running, locals, scans, ticks, unheard>>

\* add_to_scanl does not call lis_setqsched.
AddToScanl ==
    /\ ScTimer # {} /\ scans < MaxScan
    /\ lis_scanqhead' = lis_scanqhead + 1
    /\ lis_runq_req_cnt' = lis_runq_req_cnt + 1
    /\ scans' = scans + 1 /\ unheard' = TRUE
    /\ UNCHANGED <<lis_qhead, lis_strbcflag, lis_strbctimer,
                   lis_queues_running, lis_runq_active_flags, lis_runq_sems,
                   run, qsched_running, qs, locals, enabled, ticks>>

\* bc_link starts the timer if it is not running ...
BcLink ==
    /\ BcTimer # {} /\ lis_strbctimer = "off" /\ ticks < MaxBc
    /\ lis_strbctimer' = "armed" /\ ticks' = ticks + 1
    /\ UNCHANGED <<lis_qhead, lis_scanqhead, lis_strbcflag, counts,
                   lis_runq_sems, run, qsched_running, qs, locals, enabled,
                   scans, unheard>>

\* ... and bc_timeout sets the flag under its own lock and counts it under
\* lis_qhead_lock.
BcTimeout(x) ==
    /\ x \in BcTimer /\ qs[x] = "idle" /\ lis_strbctimer = "armed"
    /\ lis_strbcflag' = TRUE /\ lis_strbctimer' = "fired"
    /\ QsTo(x, "count")
    /\ UNCHANGED <<lis_qhead, lis_scanqhead, counts, lis_runq_sems, run,
                   qsched_running, locals, bounds, unheard>>

BcCount(x) ==
    /\ qs[x] = "count"
    /\ lis_runq_req_cnt' = lis_runq_req_cnt + 1
    /\ QsTo(x, "enter")
    /\ UNCHANGED <<lists, lis_queues_running, lis_runq_active_flags,
                   lis_runq_sems, run, qsched_running, locals, bounds, unheard>>

-----------------------------------------------------------------------------
(* lis_setqsched                                                           *)

qsvars == <<lists, counts, run, bounds>>

\* One call at a time: a second one returns at once.
SetqschedEnter(x) ==
    /\ qs[x] = "enter"
    /\ IF qsched_running
       THEN /\ unheard' = TRUE
            /\ QsTo(x, "idle")
            /\ UNCHANGED <<qsched_running, my_cpu>>
       ELSE /\ qsched_running' = TRUE
            /\ \E c \in Cpu : /\ x \in Cpu => c = x
                              /\ my_cpu' = [my_cpu EXCEPT ![x] = c]
            /\ QsTo(x, "running")
            /\ UNCHANGED unheard
    /\ UNCHANGED <<qsvars, lis_runq_sems, running, load_thresh, next_cpu>>

\* How many threads run, and from then on everything linked before counts.
ReadRunning(x) ==
    /\ qs[x] = "running"
    /\ running' = [running EXCEPT ![x] = lis_queues_running]
    /\ load_thresh' = [load_thresh EXCEPT ![x] =
                          WORK_INCR * lis_queues_running]
    /\ next_cpu' = [next_cpu EXCEPT ![x] = 0]
    /\ unheard' = FALSE
    /\ QsTo(x, "req_cnt")
    /\ UNCHANGED <<qsvars, lis_runq_sems, qsched_running, my_cpu>>

EnoughAtOne(t) == lis_runq_req_cnt <= t + 1
Enough(t)      == lis_runq_req_cnt <= t

ReadReqCnt(x) ==
    /\ qs[x] = "req_cnt"
    /\ QsTo(x, IF Enough(load_thresh[x]) \/ running[x] = NCpu
               THEN "return" ELSE "wake")
    /\ UNCHANGED <<qsvars, lis_runq_sems, qsched_running, locals, unheard>>

\* The next thread of the loop, if it sleeps and is not on this CPU ...
WakeOther(x) ==
    LET c     == next_cpu[x]
        wakes == c # my_cpu[x] /\ ~lis_runq_active_flags[c]
    IN
    /\ qs[x] = "wake" /\ c < NCpu
    /\ next_cpu' = [next_cpu EXCEPT ![x] = c + 1]
    /\ IF wakes
       THEN /\ lis_runq_sems' = [lis_runq_sems EXCEPT ![c] = @ + 1]
            /\ load_thresh' = [load_thresh EXCEPT ![x] = @ + WORK_INCR]
            /\ QsTo(x, IF Enough(load_thresh[x] + WORK_INCR)
                       THEN "return" ELSE "wake")
       ELSE UNCHANGED <<lis_runq_sems, load_thresh, qs>>
    /\ UNCHANGED <<qsvars, qsched_running, my_cpu, running, unheard>>

\* ... and last the one that is.
WakeMine(x) ==
    /\ qs[x] = "wake" /\ next_cpu[x] = NCpu
    /\ lis_runq_sems' = IF lis_runq_active_flags[my_cpu[x]]
                        THEN lis_runq_sems
                        ELSE [lis_runq_sems EXCEPT ![my_cpu[x]] = @ + 1]
    /\ QsTo(x, "return")
    /\ UNCHANGED <<qsvars, qsched_running, locals, unheard>>

SetqschedReturn(x) ==
    /\ qs[x] = "return"
    /\ qsched_running' = FALSE
    /\ my_cpu' = [my_cpu EXCEPT ![x] = 0]
    /\ running' = [running EXCEPT ![x] = 0]
    /\ load_thresh' = [load_thresh EXCEPT ![x] = 0]
    /\ next_cpu' = [next_cpu EXCEPT ![x] = 0]
    /\ QsTo(x, "idle")
    /\ UNCHANGED <<qsvars, lis_runq_sems, unheard>>

-----------------------------------------------------------------------------
(* The queue-runner thread of CPU c                                        *)

rest == <<qsched_running, qs, locals, bounds, unheard>>

\* lis_down of the thread's semaphore.
Down(c) ==
    /\ run[c] = "down" /\ lis_runq_sems[c] > 0
    /\ lis_runq_sems' = [lis_runq_sems EXCEPT ![c] = @ - 1]
    /\ RunTo(c, "while")
    /\ UNCHANGED <<lists, counts, rest>>

\* lis_run_queues: queuerun as long as there are requests.
While(c) ==
    /\ run[c] = "while"
    /\ RunTo(c, IF lis_runq_req_cnt > 0 THEN "running" ELSE "down")
    /\ UNCHANGED <<lists, counts, lis_runq_sems, rest>>

IncRunning(c) ==
    /\ run[c] = "running"
    /\ lis_queues_running' = lis_queues_running + 1
    /\ RunTo(c, "active")
    /\ UNCHANGED <<lists, lis_runq_req_cnt, lis_runq_active_flags,
                   lis_runq_sems, rest>>

IncActive(c) ==
    /\ run[c] = "active"
    /\ lis_runq_active_flags' = [lis_runq_active_flags EXCEPT ![c] = TRUE]
    /\ RunTo(c, "scan")
    /\ UNCHANGED <<lists, lis_runq_req_cnt, lis_queues_running, lis_runq_sems,
                   rest>>

\* queuerun: the scan list is emptied, ...
ScanList(c) ==
    /\ run[c] = "scan"
    /\ IF lis_scanqhead > 0
       THEN /\ lis_scanqhead' = lis_scanqhead - 1
            /\ lis_runq_req_cnt' = lis_runq_req_cnt - 1
            /\ UNCHANGED run
       ELSE RunTo(c, "bc") /\ UNCHANGED <<lis_scanqhead, lis_runq_req_cnt>>
    /\ UNCHANGED <<lis_qhead, lis_strbcflag, lis_strbctimer,
                   lis_queues_running, lis_runq_active_flags, lis_runq_sems,
                   rest>>

\* ... the bufcalls are made if the flag says so: the test, under lis_bc_lock,
\* the count, under no lock, and lis_dobufcall, which tests again, ...
BcTest(c) ==
    /\ run[c] = "bc"
    /\ RunTo(c, IF lis_strbcflag THEN "bc_dec" ELSE "main")
    /\ UNCHANGED <<lists, counts, lis_runq_sems, rest>>

BcDec(c) ==
    /\ run[c] = "bc_dec"
    /\ lis_runq_req_cnt' = lis_runq_req_cnt - 1
    /\ RunTo(c, "bc_do")
    /\ UNCHANGED <<lists, lis_queues_running, lis_runq_active_flags,
                   lis_runq_sems, rest>>

DoBufcall(c) ==
    /\ run[c] = "bc_do"
    /\ lis_strbcflag' = FALSE
    /\ RunTo(c, IF lis_strbcflag THEN "bc_end" ELSE "main")
    /\ UNCHANGED <<lis_qhead, lis_scanqhead, lis_strbctimer, counts,
                   lis_runq_sems, rest>>

BufcallEnd(c) ==
    /\ run[c] = "bc_end"
    /\ lis_strbctimer' = "off"
    /\ RunTo(c, "main")
    /\ UNCHANGED <<lis_qhead, lis_scanqhead, lis_strbcflag, counts,
                   lis_runq_sems, rest>>

\* ... and the run list is emptied.
MainList(c) ==
    /\ run[c] = "main" /\ lis_qhead > 0
    /\ lis_qhead' = lis_qhead - 1 /\ lis_runq_req_cnt' = lis_runq_req_cnt - 1
    /\ RunTo(c, "service")
    /\ UNCHANGED <<lis_scanqhead, lis_strbcflag, lis_strbctimer,
                   lis_queues_running, lis_runq_active_flags, lis_runq_sems,
                   rest>>

ServiceEnd(c) ==
    /\ run[c] = "service" /\ qs[c] = "idle"
    /\ RunTo(c, "main")
    /\ UNCHANGED <<lists, counts, lis_runq_sems, rest>>

\* A miscount is corrected when nothing is left.
RaisedToZero == IF lis_runq_req_cnt < 0 THEN 0 ELSE lis_runq_req_cnt
Corrected    == IF lis_scanqhead = 0 /\ lis_qhead = 0 /\ ~lis_strbcflag
                THEN 0 ELSE lis_runq_req_cnt

QueuerunEnd(c) ==
    /\ run[c] = "main" /\ lis_qhead = 0
    /\ lis_runq_req_cnt' = Corrected
    /\ RunTo(c, "inactive")
    /\ UNCHANGED <<lists, lis_queues_running, lis_runq_active_flags,
                   lis_runq_sems, rest>>

DecActive(c) ==
    /\ run[c] = "inactive"
    /\ lis_runq_active_flags' = [lis_runq_active_flags EXCEPT ![c] = FALSE]
    /\ RunTo(c, "not_running")
    /\ UNCHANGED <<lists, lis_runq_req_cnt, lis_queues_running, lis_runq_sems,
                   rest>>

DecRunning(c) ==
    /\ run[c] = "not_running"
    /\ lis_queues_running' = lis_queues_running - 1
    /\ RunTo(c, "while")
    /\ UNCHANGED <<lists, lis_runq_req_cnt, lis_runq_active_flags,
                   lis_runq_sems, rest>>

-----------------------------------------------------------------------------
QsStep(x) ==
    \/ BcCount(x) \/ SetqschedEnter(x) \/ ReadRunning(x) \/ ReadReqCnt(x)
    \/ WakeOther(x) \/ WakeMine(x) \/ SetqschedReturn(x)

RunStep(c) ==
    \/ Down(c) \/ While(c) \/ IncRunning(c) \/ IncActive(c) \/ ScanList(c)
    \/ BcTest(c) \/ BcDec(c) \/ DoBufcall(c) \/ BufcallEnd(c) \/ MainList(c)
    \/ ServiceEnd(c) \/ QueuerunEnd(c) \/ DecActive(c) \/ DecRunning(c)

Next ==
    \/ \E x \in Ctx : LinkQueue(x) \/ BcTimeout(x) \/ QsStep(x)
    \/ AddToScanl \/ BcLink
    \/ \E c \in Cpu : RunStep(c)

Spec == Init /\ [][Next]_vars

\* As long as a thread is awake or its semaphore is up, a context is inside
\* lis_setqsched, or a timer is armed, one of them goes on.
Goes == \/ \E c \in Cpu : RunStep(c)
        \/ \E x \in Ctx : QsStep(x) \/ BcTimeout(x)

Fairness == WF_vars(Goes)

FairSpec == Spec /\ Fairness

-----------------------------------------------------------------------------
(* Properties                                                              *)

Flag01    == IF lis_strbcflag THEN 1 ELSE 0
Entries   == lis_qhead + lis_scanqhead + Flag01
AllAsleep == /\ \A c \in Cpu : run[c] = "down" /\ lis_runq_sems[c] = 0
             /\ \A x \in Ctx : qs[x] = "idle"

TypeOK ==
    /\ lis_qhead \in 0 .. MaxWork /\ lis_scanqhead \in 0 .. MaxScan
    /\ lis_strbcflag \in BOOLEAN /\ lis_strbctimer \in {"off", "armed", "fired"}
    /\ lis_runq_req_cnt \in Int /\ lis_queues_running \in 0 .. NCpu
    /\ lis_runq_active_flags \in [Cpu -> BOOLEAN]
    /\ lis_runq_sems \in [Cpu -> Nat]
    /\ run \in [Cpu -> {"down", "while", "running", "active", "scan", "bc",
                        "bc_dec", "bc_do", "bc_end", "main", "service",
                        "inactive", "not_running"}]
    /\ qsched_running \in BOOLEAN
    /\ qs \in [Ctx -> {"idle", "count", "enter", "running", "req_cnt", "wake",
                       "return"}]
    /\ my_cpu \in [Ctx -> Cpu] /\ running \in [Ctx -> 0 .. NCpu]
    /\ load_thresh \in [Ctx -> Nat] /\ next_cpu \in [Ctx -> 0 .. NCpu]
    /\ enabled \in 0 .. MaxWork /\ scans \in 0 .. MaxScan /\ ticks \in 0 .. MaxBc
    /\ unheard \in BOOLEAN

\* Entries are left behind while every thread sleeps only if no lis_setqsched
\* looked after they were linked (it was turned away, or never called), or if
\* lis_runq_req_cnt has fallen below the truth.  The heuristics of the wakeup
\* loop, its unlocked reads and the sleeping and waking threads lose nothing.
AbandonedOnlyUnheard ==
    AllAsleep /\ Entries > 0 => unheard \/ lis_runq_req_cnt < Entries

\* The same, and the types.
RunnersSound == TypeOK /\ AbandonedOnlyUnheard

\* A lis_setqsched that finds another under way may return at once: "one of
\* these is enough".
NothingAbandoned == ~(AllAsleep /\ Entries > 0)

\* A miscounted lis_runq_req_cnt does not keep the threads spinning.
RunnersRest == <>[](\A c \in Cpu : run[c] = "down")
=============================================================================
