---------------------------- MODULE RunQueueProofs ----------------------------
(***************************************************************************)
(* The queue-runner threads, for any number of CPUs, callers and entries:  *)
(* every thread sleeps while there are entries only if no lis_setqsched    *)
(* looked after they were linked, or lis_runq_req_cnt is below the truth.  *)
(*                                                                         *)
(* The argument: as long as neither is the case, and there are entries, a  *)
(* thread is awake or a context in lis_setqsched is about to wake one      *)
(* (Heard).  A thread falls asleep only when lis_runq_req_cnt is not above *)
(* zero.  A lis_setqsched that wakes nobody has read that a thread runs,   *)
(* and lis_queues_running is the number of those that have not come back   *)
(* to the test (RunningCounted), or finds all threads active, and an       *)
(* active one is awake (ActiveRuns).                                       *)
(***************************************************************************)
EXTENDS RunQueues, FiniteSetTheorems, TLAPS

InRun    == {"scan", "bc", "bc_dec", "bc_do", "bc_end", "main", "service", "inactive"}
Counted  == InRun \cup {"active", "not_running"}
Running  == {c \in Cpu : run[c] \in Counted}

\* lis_queues_running is the number of threads between its two updates.
RunningCounted == lis_queues_running = Cardinality(Running)
\* The active flag of a thread is set only between its two updates.
ActiveRuns == \A c \in Cpu : lis_runq_active_flags[c] => run[c] \in InRun
\* The lists hold no more than was linked.
Linked == lis_qhead <= enabled /\ lis_scanqhead <= scans

Awake   == \E c \in Cpu : run[c] # "down" \/ lis_runq_sems[c] > 0
\* A context will wake a thread if there is none awake.
Looking(x) == \/ qs[x] \in {"count", "enter", "running", "wake"}
              \/ qs[x] = "req_cnt" /\ running[x] = 0 /\ load_thresh[x] = 0
Pending == ~unheard /\ Entries > 0 /\ lis_runq_req_cnt >= Entries
Heard   == Pending => Awake \/ \E x \in Ctx : Looking(x)

IInv == TypeOK /\ RunningCounted /\ ActiveRuns /\ Linked /\ Heard

\* The types, in three parts.
ListTypes ==
    /\ lis_qhead \in 0 .. MaxWork /\ lis_scanqhead \in 0 .. MaxScan
    /\ lis_strbcflag \in BOOLEAN /\ lis_strbctimer \in {"off", "armed", "fired"}
    /\ lis_runq_req_cnt \in Int /\ enabled \in 0 .. MaxWork /\ scans \in 0 .. MaxScan
    /\ ticks \in 0 .. MaxBc /\ unheard \in BOOLEAN /\ qsched_running \in BOOLEAN
ThreadTypes ==
    /\ lis_runq_active_flags \in [Cpu -> BOOLEAN]
    /\ lis_runq_sems \in [Cpu -> Nat]
    /\ run \in [Cpu -> {"down", "while", "running", "active", "scan", "bc",
                        "bc_dec", "bc_do", "bc_end", "main", "service",
                        "inactive", "not_running"}]
ContextTypes ==
    /\ qs \in [Ctx -> {"idle", "count", "enter", "running", "req_cnt", "wake",
                       "return"}]
    /\ my_cpu \in [Ctx -> Cpu] /\ running \in [Ctx -> 0 .. NCpu]
    /\ load_thresh \in [Ctx -> Nat] /\ next_cpu \in [Ctx -> 0 .. NCpu]

-----------------------------------------------------------------------------
\* There are NCpu threads.
LEMMA CpuFinite == IsFiniteSet(Cpu) /\ Cardinality(Cpu) = NCpu
<1>1. 0 \in Int /\ NCpu - 1 \in Int /\ NCpu > 0
  BY RunAssumption
<1> QED
  BY <1>1, FS_Interval, RunAssumption DEF Cpu

\* What the types say of the threads that run.
LEMMA RunningFinite ==
    IsFiniteSet(Running) /\ Cardinality(Running) \in Nat /\ Cardinality(Running) <= NCpu
<1>1. Running \in SUBSET Cpu
  BY DEF Running
<1>2. IsFiniteSet(Running) /\ Cardinality(Running) <= NCpu
  BY <1>1, CpuFinite, FS_Subset
<1> QED
  BY <1>2, FS_CardinalityType

\* The lists, the counts and the bounds keep their types.
LEMMA ListTypesKept == IInv /\ [Next]_vars => ListTypes'
<1> SUFFICES ASSUME IInv, [Next]_vars PROVE ListTypes'
  OBVIOUS
<1>0. TypeOK /\ Linked
  BY DEF IInv
<1>t. /\ NCpu \in Nat /\ NCpu > 0 /\ WORK_INCR \in Nat /\ WORK_INCR > 0
      /\ MaxWork \in Nat /\ MaxScan \in Nat /\ MaxBc \in Nat
  BY RunAssumption
<1>1. ASSUME NEW x \in Ctx, LinkQueue(x) PROVE ListTypes'
  BY <1>0, <1>t, <1>1 DEF LinkQueue, QsTo, TypeOK, Linked, ListTypes, lists,
     counts, locals, bounds, rest, qsvars
<1>2. ASSUME NEW x \in Ctx, BcTimeout(x) PROVE ListTypes'
  BY <1>0, <1>t, <1>2 DEF BcTimeout, QsTo, TypeOK, Linked, ListTypes, lists,
     counts, locals, bounds, rest, qsvars
<1>3. ASSUME NEW x \in Ctx, BcCount(x) PROVE ListTypes'
  BY <1>0, <1>t, <1>3 DEF BcCount, QsTo, TypeOK, Linked, ListTypes, lists,
     counts, locals, bounds, rest, qsvars
<1>4. ASSUME NEW x \in Ctx, SetqschedEnter(x) PROVE ListTypes'
  BY <1>0, <1>t, <1>4 DEF SetqschedEnter, QsTo, TypeOK, Linked, ListTypes,
     lists, counts, locals, bounds, rest, qsvars
<1>5. ASSUME NEW x \in Ctx, ReadRunning(x) PROVE ListTypes'
  BY <1>0, <1>t, <1>5 DEF ReadRunning, QsTo, TypeOK, Linked, ListTypes, lists,
     counts, locals, bounds, rest, qsvars
<1>6. ASSUME NEW x \in Ctx, SetqschedReturn(x) PROVE ListTypes'
  BY <1>0, <1>t, <1>6 DEF SetqschedReturn, QsTo, TypeOK, Linked, ListTypes,
     lists, counts, locals, bounds, rest, qsvars
<1>7. ASSUME NEW c \in Cpu, ScanList(c) PROVE ListTypes'
  BY <1>0, <1>t, <1>7 DEF ScanList, RunTo, TypeOK, Linked, ListTypes, lists,
     counts, locals, bounds, rest, qsvars
<1>8. ASSUME NEW c \in Cpu, BcDec(c) PROVE ListTypes'
  BY <1>0, <1>t, <1>8 DEF BcDec, RunTo, TypeOK, Linked, ListTypes, lists,
     counts, locals, bounds, rest, qsvars
<1>9. ASSUME NEW c \in Cpu, DoBufcall(c) PROVE ListTypes'
  BY <1>0, <1>t, <1>9 DEF DoBufcall, RunTo, TypeOK, Linked, ListTypes, lists,
     counts, locals, bounds, rest, qsvars
<1>10. ASSUME NEW c \in Cpu, BufcallEnd(c) PROVE ListTypes'
  BY <1>0, <1>t, <1>10 DEF BufcallEnd, RunTo, TypeOK, Linked, ListTypes,
     lists, counts, locals, bounds, rest, qsvars
<1>11. ASSUME NEW c \in Cpu, MainList(c) PROVE ListTypes'
  BY <1>0, <1>t, <1>11 DEF MainList, RunTo, TypeOK, Linked, ListTypes, lists,
     counts, locals, bounds, rest, qsvars
<1>12. ASSUME NEW c \in Cpu, QueuerunEnd(c) PROVE ListTypes'
  BY <1>0, <1>t, <1>12 DEF QueuerunEnd, RunTo, Corrected, TypeOK, Linked,
     ListTypes, lists, counts, locals, bounds, rest, qsvars
<1>13. CASE AddToScanl
  BY <1>0, <1>t, <1>13 DEF AddToScanl, TypeOK, Linked, ListTypes, lists,
     counts, locals, bounds, rest, qsvars
<1>14. CASE BcLink
  BY <1>0, <1>t, <1>14 DEF BcLink, TypeOK, Linked, ListTypes, lists, counts,
     locals, bounds, rest, qsvars
<1>15. CASE (\E x \in Ctx : ReadReqCnt(x) \/ WakeOther(x) \/ WakeMine(x)) \/
     (\E c \in Cpu : Down(c) \/ While(c) \/ IncRunning(c) \/ IncActive(c) \/
     BcTest(c) \/ ServiceEnd(c) \/ DecActive(c) \/ DecRunning(c)) \/ UNCHANGED
     vars
  <2>1. UNCHANGED <<lis_qhead, lis_scanqhead, lis_strbcflag, lis_strbctimer, lis_runq_req_cnt, enabled, scans, ticks, unheard, qsched_running>>
    BY <1>15 DEF ReadReqCnt, QsTo, Enough, WakeOther, WakeMine, Down, RunTo,
       While, IncRunning, IncActive, BcTest, ServiceEnd, DecActive,
       DecRunning, vars, lists, counts, locals, bounds, rest, qsvars
  <2> QED
    BY <1>0, <2>1 DEF TypeOK, Linked, ListTypes
<1> QED
  BY <1>1, <1>2, <1>3, <1>4, <1>5, <1>6, <1>7, <1>8, <1>9, <1>10, <1>11,
     <1>12, <1>13, <1>14, <1>15 DEF Next, QsStep, RunStep

\* So do the threads ...
LEMMA ThreadTypesKept == IInv /\ [Next]_vars => ThreadTypes'
<1> SUFFICES ASSUME IInv, [Next]_vars PROVE ThreadTypes'
  OBVIOUS
<1>0. TypeOK
  BY DEF IInv
<1>t. /\ NCpu \in Nat /\ NCpu > 0 /\ WORK_INCR \in Nat /\ WORK_INCR > 0
      /\ MaxWork \in Nat /\ MaxScan \in Nat /\ MaxBc \in Nat
  BY RunAssumption
<1>1. ASSUME NEW x \in Ctx, WakeOther(x) PROVE ThreadTypes'
  <2>1. next_cpu[x] \in Cpu
    BY <1>0, <1>t, <1>1 DEF TypeOK, WakeOther, Cpu
  <2> QED
    BY <1>0, <2>1, <1>1 DEF TypeOK, ThreadTypes, WakeOther, qsvars, counts
<1>2. ASSUME NEW x \in Ctx, WakeMine(x) PROVE ThreadTypes'
  BY <1>0, <1>t, <1>2 DEF WakeMine, QsTo, TypeOK, ThreadTypes, lists, counts,
     locals, bounds, rest, qsvars
<1>3. ASSUME NEW c \in Cpu, Down(c) PROVE ThreadTypes'
  BY <1>0, <1>t, <1>3 DEF Down, RunTo, TypeOK, ThreadTypes, lists, counts,
     locals, bounds, rest, qsvars
<1>4. ASSUME NEW c \in Cpu, While(c) PROVE ThreadTypes'
  BY <1>0, <1>t, <1>4 DEF While, RunTo, TypeOK, ThreadTypes, lists, counts,
     locals, bounds, rest, qsvars
<1>5. ASSUME NEW c \in Cpu, IncRunning(c) PROVE ThreadTypes'
  BY <1>0, <1>t, <1>5 DEF IncRunning, RunTo, TypeOK, ThreadTypes, lists,
     counts, locals, bounds, rest, qsvars
<1>6. ASSUME NEW c \in Cpu, IncActive(c) PROVE ThreadTypes'
  BY <1>0, <1>t, <1>6 DEF IncActive, RunTo, TypeOK, ThreadTypes, lists,
     counts, locals, bounds, rest, qsvars
<1>7. ASSUME NEW c \in Cpu, ScanList(c) PROVE ThreadTypes'
  BY <1>0, <1>t, <1>7 DEF ScanList, RunTo, TypeOK, ThreadTypes, lists, counts,
     locals, bounds, rest, qsvars
<1>8. ASSUME NEW c \in Cpu, BcTest(c) PROVE ThreadTypes'
  BY <1>0, <1>t, <1>8 DEF BcTest, RunTo, TypeOK, ThreadTypes, lists, counts,
     locals, bounds, rest, qsvars
<1>9. ASSUME NEW c \in Cpu, BcDec(c) PROVE ThreadTypes'
  BY <1>0, <1>t, <1>9 DEF BcDec, RunTo, TypeOK, ThreadTypes, lists, counts,
     locals, bounds, rest, qsvars
<1>10. ASSUME NEW c \in Cpu, DoBufcall(c) PROVE ThreadTypes'
  BY <1>0, <1>t, <1>10 DEF DoBufcall, RunTo, TypeOK, ThreadTypes, lists,
     counts, locals, bounds, rest, qsvars
<1>11. ASSUME NEW c \in Cpu, BufcallEnd(c) PROVE ThreadTypes'
  BY <1>0, <1>t, <1>11 DEF BufcallEnd, RunTo, TypeOK, ThreadTypes, lists,
     counts, locals, bounds, rest, qsvars
<1>12. ASSUME NEW c \in Cpu, MainList(c) PROVE ThreadTypes'
  BY <1>0, <1>t, <1>12 DEF MainList, RunTo, TypeOK, ThreadTypes, lists,
     counts, locals, bounds, rest, qsvars
<1>13. ASSUME NEW c \in Cpu, ServiceEnd(c) PROVE ThreadTypes'
  BY <1>0, <1>t, <1>13 DEF ServiceEnd, RunTo, TypeOK, ThreadTypes, lists,
     counts, locals, bounds, rest, qsvars
<1>14. ASSUME NEW c \in Cpu, QueuerunEnd(c) PROVE ThreadTypes'
  BY <1>0, <1>t, <1>14 DEF QueuerunEnd, RunTo, Corrected, TypeOK, ThreadTypes,
     lists, counts, locals, bounds, rest, qsvars
<1>15. ASSUME NEW c \in Cpu, DecActive(c) PROVE ThreadTypes'
  BY <1>0, <1>t, <1>15 DEF DecActive, RunTo, TypeOK, ThreadTypes, lists,
     counts, locals, bounds, rest, qsvars
<1>16. ASSUME NEW c \in Cpu, DecRunning(c) PROVE ThreadTypes'
  BY <1>0, <1>t, <1>16 DEF DecRunning, RunTo, TypeOK, ThreadTypes, lists,
     counts, locals, bounds, rest, qsvars
<1>17. CASE (\E x \in Ctx : LinkQueue(x) \/ BcTimeout(x) \/ BcCount(x) \/
     SetqschedEnter(x) \/ ReadRunning(x) \/ ReadReqCnt(x) \/
     SetqschedReturn(x)) \/ AddToScanl \/ BcLink \/ UNCHANGED vars
  <2>1. UNCHANGED <<lis_runq_active_flags, lis_runq_sems, run>>
    BY <1>17 DEF LinkQueue, QsTo, BcTimeout, BcCount, SetqschedEnter,
       ReadRunning, ReadReqCnt, Enough, SetqschedReturn, AddToScanl, BcLink,
       vars, lists, counts, locals, bounds, rest, qsvars
  <2> QED
    BY <1>0, <2>1 DEF TypeOK, ThreadTypes
<1> QED
  BY <1>1, <1>2, <1>3, <1>4, <1>5, <1>6, <1>7, <1>8, <1>9, <1>10, <1>11,
     <1>12, <1>13, <1>14, <1>15, <1>16, <1>17 DEF Next, QsStep, RunStep

\* ... and the contexts.
LEMMA ContextTypesKept == IInv /\ [Next]_vars => ContextTypes'
<1> SUFFICES ASSUME IInv, [Next]_vars PROVE ContextTypes'
  OBVIOUS
<1>0. TypeOK
  BY DEF IInv
<1>t. /\ NCpu \in Nat /\ NCpu > 0 /\ WORK_INCR \in Nat /\ WORK_INCR > 0
      /\ MaxWork \in Nat /\ MaxScan \in Nat /\ MaxBc \in Nat
  BY RunAssumption
<1>1. ASSUME NEW x \in Ctx, LinkQueue(x) PROVE ContextTypes'
  BY <1>0, <1>t, <1>1 DEF LinkQueue, QsTo, TypeOK, ContextTypes, lists,
     counts, locals, bounds, rest, qsvars
<1>2. ASSUME NEW x \in Ctx, BcTimeout(x) PROVE ContextTypes'
  BY <1>0, <1>t, <1>2 DEF BcTimeout, QsTo, TypeOK, ContextTypes, lists,
     counts, locals, bounds, rest, qsvars
<1>3. ASSUME NEW x \in Ctx, BcCount(x) PROVE ContextTypes'
  BY <1>0, <1>t, <1>3 DEF BcCount, QsTo, TypeOK, ContextTypes, lists, counts,
     locals, bounds, rest, qsvars
<1>4. ASSUME NEW x \in Ctx, SetqschedEnter(x) PROVE ContextTypes'
  BY <1>0, <1>t, <1>4 DEF SetqschedEnter, QsTo, TypeOK, ContextTypes, lists,
     counts, locals, bounds, rest, qsvars
<1>5. ASSUME NEW x \in Ctx, ReadRunning(x) PROVE ContextTypes'
  <2>1. WORK_INCR * lis_queues_running \in Nat
    BY <1>0, <1>t DEF TypeOK
  <2>2. 0 \in 0 .. NCpu
    BY <1>t
  <2> QED
    BY <1>0, <2>1, <2>2, <1>5 DEF TypeOK, ContextTypes, ReadRunning, QsTo
<1>6. ASSUME NEW x \in Ctx, ReadReqCnt(x) PROVE ContextTypes'
  BY <1>0, <1>t, <1>6 DEF ReadReqCnt, QsTo, Enough, TypeOK, ContextTypes,
     lists, counts, locals, bounds, rest, qsvars
<1>7. ASSUME NEW x \in Ctx, WakeOther(x) PROVE ContextTypes'
  <2>1. next_cpu[x] + 1 \in 0 .. NCpu /\ load_thresh[x] + WORK_INCR \in Nat
    BY <1>0, <1>t, <1>7 DEF TypeOK, WakeOther
  <2> QED
    BY <1>0, <2>1, <1>7 DEF TypeOK, ContextTypes, WakeOther, QsTo
<1>8. ASSUME NEW x \in Ctx, WakeMine(x) PROVE ContextTypes'
  BY <1>0, <1>t, <1>8 DEF WakeMine, QsTo, TypeOK, ContextTypes, lists, counts,
     locals, bounds, rest, qsvars
<1>9. ASSUME NEW x \in Ctx, SetqschedReturn(x) PROVE ContextTypes'
  <2>1. 0 \in 0 .. NCpu /\ 0 \in Cpu
    BY <1>t DEF Cpu
  <2> QED
    BY <1>0, <2>1, <1>9 DEF TypeOK, ContextTypes, SetqschedReturn, QsTo
<1>10. CASE (\E c \in Cpu : Down(c) \/ While(c) \/ IncRunning(c) \/
     IncActive(c) \/ ScanList(c) \/ BcTest(c) \/ BcDec(c) \/ DoBufcall(c) \/
     BufcallEnd(c) \/ MainList(c) \/ ServiceEnd(c) \/ QueuerunEnd(c) \/
     DecActive(c) \/ DecRunning(c)) \/ AddToScanl \/ BcLink \/ UNCHANGED vars
  <2>1. UNCHANGED <<qs, my_cpu, running, load_thresh, next_cpu>>
    BY <1>10 DEF Down, RunTo, While, IncRunning, IncActive, ScanList, BcTest,
       BcDec, DoBufcall, BufcallEnd, MainList, ServiceEnd, QueuerunEnd,
       Corrected, DecActive, DecRunning, AddToScanl, BcLink, vars, lists,
       counts, locals, bounds, rest, qsvars
  <2> QED
    BY <1>0, <2>1 DEF TypeOK, ContextTypes
<1> QED
  BY <1>1, <1>2, <1>3, <1>4, <1>5, <1>6, <1>7, <1>8, <1>9, <1>10 DEF Next,
     QsStep, RunStep

\* lis_queues_running is kept in step by its two updates.
LEMMA RunningKept == IInv /\ [Next]_vars => RunningCounted'
<1> SUFFICES ASSUME IInv, [Next]_vars PROVE RunningCounted'
  OBVIOUS
<1>0. TypeOK /\ RunningCounted
  BY DEF IInv
<1>t. /\ NCpu \in Nat /\ NCpu > 0 /\ WORK_INCR \in Nat /\ WORK_INCR > 0
      /\ MaxWork \in Nat /\ MaxScan \in Nat /\ MaxBc \in Nat
  BY RunAssumption
<1>1. ASSUME NEW c \in Cpu, Down(c) PROVE RunningCounted'
  <2>1. Running' = Running /\ lis_queues_running' = lis_queues_running
    BY <1>0, <1>1 DEF TypeOK, Running, Counted, InRun, Down, RunTo, lists,
       counts, locals, bounds, rest, qsvars
  <2> QED
    BY <1>0, <2>1 DEF RunningCounted
<1>2. ASSUME NEW c \in Cpu, While(c) PROVE RunningCounted'
  <2>1. Running' = Running /\ lis_queues_running' = lis_queues_running
    BY <1>0, <1>2 DEF TypeOK, Running, Counted, InRun, While, RunTo, lists,
       counts, locals, bounds, rest, qsvars
  <2> QED
    BY <1>0, <2>1 DEF RunningCounted
<1>3. ASSUME NEW c \in Cpu, IncRunning(c) PROVE RunningCounted'
  <2>1. Running' = Running \cup {c} /\ c \notin Running
    BY <1>0, <1>3 DEF TypeOK, Running, Counted, InRun, IncRunning, RunTo
  <2> QED
    BY <1>0, <2>1, <1>3, RunningFinite, FS_AddElement DEF RunningCounted, IncRunning
<1>4. ASSUME NEW c \in Cpu, IncActive(c) PROVE RunningCounted'
  <2>1. Running' = Running /\ lis_queues_running' = lis_queues_running
    BY <1>0, <1>4 DEF TypeOK, Running, Counted, InRun, IncActive, RunTo, lists,
       counts, locals, bounds, rest, qsvars
  <2> QED
    BY <1>0, <2>1 DEF RunningCounted
<1>5. ASSUME NEW c \in Cpu, ScanList(c) PROVE RunningCounted'
  <2>1. Running' = Running /\ lis_queues_running' = lis_queues_running
    BY <1>0, <1>5 DEF TypeOK, Running, Counted, InRun, ScanList, RunTo, lists,
       counts, locals, bounds, rest, qsvars
  <2> QED
    BY <1>0, <2>1 DEF RunningCounted
<1>6. ASSUME NEW c \in Cpu, BcTest(c) PROVE RunningCounted'
  <2>1. Running' = Running /\ lis_queues_running' = lis_queues_running
    BY <1>0, <1>6 DEF TypeOK, Running, Counted, InRun, BcTest, RunTo, lists,
       counts, locals, bounds, rest, qsvars
  <2> QED
    BY <1>0, <2>1 DEF RunningCounted
<1>7. ASSUME NEW c \in Cpu, BcDec(c) PROVE RunningCounted'
  <2>1. Running' = Running /\ lis_queues_running' = lis_queues_running
    BY <1>0, <1>7 DEF TypeOK, Running, Counted, InRun, BcDec, RunTo, lists,
       counts, locals, bounds, rest, qsvars
  <2> QED
    BY <1>0, <2>1 DEF RunningCounted
<1>8. ASSUME NEW c \in Cpu, DoBufcall(c) PROVE RunningCounted'
  <2>1. Running' = Running /\ lis_queues_running' = lis_queues_running
    BY <1>0, <1>8 DEF TypeOK, Running, Counted, InRun, DoBufcall, RunTo, lists,
       counts, locals, bounds, rest, qsvars
  <2> QED
    BY <1>0, <2>1 DEF RunningCounted
<1>9. ASSUME NEW c \in Cpu, BufcallEnd(c) PROVE RunningCounted'
  <2>1. Running' = Running /\ lis_queues_running' = lis_queues_running
    BY <1>0, <1>9 DEF TypeOK, Running, Counted, InRun, BufcallEnd, RunTo, lists,
       counts, locals, bounds, rest, qsvars
  <2> QED
    BY <1>0, <2>1 DEF RunningCounted
<1>10. ASSUME NEW c \in Cpu, MainList(c) PROVE RunningCounted'
  <2>1. Running' = Running /\ lis_queues_running' = lis_queues_running
    BY <1>0, <1>10 DEF TypeOK, Running, Counted, InRun, MainList, RunTo, lists,
       counts, locals, bounds, rest, qsvars
  <2> QED
    BY <1>0, <2>1 DEF RunningCounted
<1>11. ASSUME NEW c \in Cpu, ServiceEnd(c) PROVE RunningCounted'
  <2>1. Running' = Running /\ lis_queues_running' = lis_queues_running
    BY <1>0, <1>11 DEF TypeOK, Running, Counted, InRun, ServiceEnd, RunTo, lists,
       counts, locals, bounds, rest, qsvars
  <2> QED
    BY <1>0, <2>1 DEF RunningCounted
<1>12. ASSUME NEW c \in Cpu, QueuerunEnd(c) PROVE RunningCounted'
  <2>1. Running' = Running /\ lis_queues_running' = lis_queues_running
    BY <1>0, <1>12 DEF TypeOK, Running, Counted, InRun, QueuerunEnd, RunTo,
       Corrected, lists, counts, locals, bounds, rest, qsvars
  <2> QED
    BY <1>0, <2>1 DEF RunningCounted
<1>13. ASSUME NEW c \in Cpu, DecActive(c) PROVE RunningCounted'
  <2>1. Running' = Running /\ lis_queues_running' = lis_queues_running
    BY <1>0, <1>13 DEF TypeOK, Running, Counted, InRun, DecActive, RunTo, lists,
       counts, locals, bounds, rest, qsvars
  <2> QED
    BY <1>0, <2>1 DEF RunningCounted
<1>14. ASSUME NEW c \in Cpu, DecRunning(c) PROVE RunningCounted'
  <2>1. Running' = Running \ {c} /\ c \in Running
    BY <1>0, <1>14 DEF TypeOK, Running, Counted, InRun, DecRunning, RunTo
  <2> QED
    BY <1>0, <2>1, <1>14, RunningFinite, FS_RemoveElement DEF RunningCounted, DecRunning
<1>15. CASE (\E x \in Ctx : LinkQueue(x) \/ BcTimeout(x) \/ BcCount(x) \/
     SetqschedEnter(x) \/ ReadRunning(x) \/ ReadReqCnt(x) \/ WakeOther(x) \/
     WakeMine(x) \/ SetqschedReturn(x)) \/ AddToScanl \/ BcLink \/ UNCHANGED
     vars
  <2>1. UNCHANGED <<lis_queues_running, run>>
    BY <1>15 DEF LinkQueue, QsTo, BcTimeout, BcCount, SetqschedEnter,
       ReadRunning, ReadReqCnt, Enough, WakeOther, WakeMine, SetqschedReturn,
       AddToScanl, BcLink, vars, lists, counts, locals, bounds, rest, qsvars
  <2> QED
    BY <1>0, <2>1 DEF RunningCounted, Running
<1> QED
  BY <1>1, <1>2, <1>3, <1>4, <1>5, <1>6, <1>7, <1>8, <1>9, <1>10, <1>11,
     <1>12, <1>13, <1>14, <1>15 DEF Next, QsStep, RunStep

\* So is each active flag.
LEMMA ActiveKept == IInv /\ [Next]_vars => ActiveRuns'
<1> SUFFICES ASSUME IInv, [Next]_vars PROVE ActiveRuns'
  OBVIOUS
<1>0. TypeOK /\ ActiveRuns
  BY DEF IInv
<1>t. /\ NCpu \in Nat /\ NCpu > 0 /\ WORK_INCR \in Nat /\ WORK_INCR > 0
      /\ MaxWork \in Nat /\ MaxScan \in Nat /\ MaxBc \in Nat
  BY RunAssumption
<1>1. ASSUME NEW c \in Cpu, Down(c) PROVE ActiveRuns'
  BY <1>0, <1>t, <1>1 DEF Down, RunTo, TypeOK, ActiveRuns, InRun, lists,
     counts, locals, bounds, rest, qsvars
<1>2. ASSUME NEW c \in Cpu, While(c) PROVE ActiveRuns'
  BY <1>0, <1>t, <1>2 DEF While, RunTo, TypeOK, ActiveRuns, InRun, lists,
     counts, locals, bounds, rest, qsvars
<1>3. ASSUME NEW c \in Cpu, IncRunning(c) PROVE ActiveRuns'
  BY <1>0, <1>t, <1>3 DEF IncRunning, RunTo, TypeOK, ActiveRuns, InRun, lists,
     counts, locals, bounds, rest, qsvars
<1>4. ASSUME NEW c \in Cpu, IncActive(c) PROVE ActiveRuns'
  BY <1>0, <1>t, <1>4 DEF IncActive, RunTo, TypeOK, ActiveRuns, InRun, lists,
     counts, locals, bounds, rest, qsvars
<1>5. ASSUME NEW c \in Cpu, ScanList(c) PROVE ActiveRuns'
  BY <1>0, <1>t, <1>5 DEF ScanList, RunTo, TypeOK, ActiveRuns, InRun, lists,
     counts, locals, bounds, rest, qsvars
<1>6. ASSUME NEW c \in Cpu, BcTest(c) PROVE ActiveRuns'
  BY <1>0, <1>t, <1>6 DEF BcTest, RunTo, TypeOK, ActiveRuns, InRun, lists,
     counts, locals, bounds, rest, qsvars
<1>7. ASSUME NEW c \in Cpu, BcDec(c) PROVE ActiveRuns'
  BY <1>0, <1>t, <1>7 DEF BcDec, RunTo, TypeOK, ActiveRuns, InRun, lists,
     counts, locals, bounds, rest, qsvars
<1>8. ASSUME NEW c \in Cpu, DoBufcall(c) PROVE ActiveRuns'
  BY <1>0, <1>t, <1>8 DEF DoBufcall, RunTo, TypeOK, ActiveRuns, InRun, lists,
     counts, locals, bounds, rest, qsvars
<1>9. ASSUME NEW c \in Cpu, BufcallEnd(c) PROVE ActiveRuns'
  BY <1>0, <1>t, <1>9 DEF BufcallEnd, RunTo, TypeOK, ActiveRuns, InRun, lists,
     counts, locals, bounds, rest, qsvars
<1>10. ASSUME NEW c \in Cpu, MainList(c) PROVE ActiveRuns'
  BY <1>0, <1>t, <1>10 DEF MainList, RunTo, TypeOK, ActiveRuns, InRun, lists,
     counts, locals, bounds, rest, qsvars
<1>11. ASSUME NEW c \in Cpu, ServiceEnd(c) PROVE ActiveRuns'
  BY <1>0, <1>t, <1>11 DEF ServiceEnd, RunTo, TypeOK, ActiveRuns, InRun,
     lists, counts, locals, bounds, rest, qsvars
<1>12. ASSUME NEW c \in Cpu, QueuerunEnd(c) PROVE ActiveRuns'
  BY <1>0, <1>t, <1>12 DEF QueuerunEnd, RunTo, Corrected, TypeOK, ActiveRuns,
     InRun, lists, counts, locals, bounds, rest, qsvars
<1>13. ASSUME NEW c \in Cpu, DecActive(c) PROVE ActiveRuns'
  BY <1>0, <1>t, <1>13 DEF DecActive, RunTo, TypeOK, ActiveRuns, InRun, lists,
     counts, locals, bounds, rest, qsvars
<1>14. ASSUME NEW c \in Cpu, DecRunning(c) PROVE ActiveRuns'
  BY <1>0, <1>t, <1>14 DEF DecRunning, RunTo, TypeOK, ActiveRuns, InRun,
     lists, counts, locals, bounds, rest, qsvars
<1>15. CASE (\E x \in Ctx : LinkQueue(x) \/ BcTimeout(x) \/ BcCount(x) \/
     SetqschedEnter(x) \/ ReadRunning(x) \/ ReadReqCnt(x) \/ WakeOther(x) \/
     WakeMine(x) \/ SetqschedReturn(x)) \/ AddToScanl \/ BcLink \/ UNCHANGED
     vars
  <2>1. UNCHANGED <<lis_runq_active_flags, run>>
    BY <1>15 DEF LinkQueue, QsTo, BcTimeout, BcCount, SetqschedEnter,
       ReadRunning, ReadReqCnt, Enough, WakeOther, WakeMine, SetqschedReturn,
       AddToScanl, BcLink, vars, lists, counts, locals, bounds, rest, qsvars
  <2> QED
    BY <1>0, <2>1 DEF TypeOK, ActiveRuns, InRun
<1> QED
  BY <1>1, <1>2, <1>3, <1>4, <1>5, <1>6, <1>7, <1>8, <1>9, <1>10, <1>11,
     <1>12, <1>13, <1>14, <1>15 DEF Next, QsStep, RunStep

\* Nothing is taken off that was not linked.
LEMMA LinkedKept == IInv /\ [Next]_vars => Linked'
<1> SUFFICES ASSUME IInv, [Next]_vars PROVE Linked'
  OBVIOUS
<1>0. TypeOK /\ Linked
  BY DEF IInv
<1>t. /\ NCpu \in Nat /\ NCpu > 0 /\ WORK_INCR \in Nat /\ WORK_INCR > 0
      /\ MaxWork \in Nat /\ MaxScan \in Nat /\ MaxBc \in Nat
  BY RunAssumption
<1>1. ASSUME NEW x \in Ctx, LinkQueue(x) PROVE Linked'
  BY <1>0, <1>t, <1>1 DEF LinkQueue, QsTo, TypeOK, Linked, lists, counts,
     locals, bounds, rest, qsvars
<1>2. ASSUME NEW c \in Cpu, ScanList(c) PROVE Linked'
  BY <1>0, <1>t, <1>2 DEF ScanList, RunTo, TypeOK, Linked, lists, counts,
     locals, bounds, rest, qsvars
<1>3. ASSUME NEW c \in Cpu, MainList(c) PROVE Linked'
  BY <1>0, <1>t, <1>3 DEF MainList, RunTo, TypeOK, Linked, lists, counts,
     locals, bounds, rest, qsvars
<1>4. CASE AddToScanl
  BY <1>0, <1>t, <1>4 DEF AddToScanl, TypeOK, Linked, lists, counts, locals,
     bounds, rest, qsvars
<1>5. CASE (\E x \in Ctx : BcTimeout(x) \/ BcCount(x) \/ SetqschedEnter(x) \/
     ReadRunning(x) \/ ReadReqCnt(x) \/ WakeOther(x) \/ WakeMine(x) \/
     SetqschedReturn(x)) \/ (\E c \in Cpu : Down(c) \/ While(c) \/
     IncRunning(c) \/ IncActive(c) \/ BcTest(c) \/ BcDec(c) \/ DoBufcall(c) \/
     BufcallEnd(c) \/ ServiceEnd(c) \/ QueuerunEnd(c) \/ DecActive(c) \/
     DecRunning(c)) \/ BcLink \/ UNCHANGED vars
  <2>1. UNCHANGED <<lis_qhead, lis_scanqhead, enabled, scans>>
    BY <1>5 DEF BcTimeout, QsTo, BcCount, SetqschedEnter, ReadRunning,
       ReadReqCnt, Enough, WakeOther, WakeMine, SetqschedReturn, Down, RunTo,
       While, IncRunning, IncActive, BcTest, BcDec, DoBufcall, BufcallEnd,
       ServiceEnd, QueuerunEnd, Corrected, DecActive, DecRunning, BcLink,
       vars, lists, counts, locals, bounds, rest, qsvars
  <2> QED
    BY <1>0, <2>1 DEF TypeOK, Linked
<1> QED
  BY <1>1, <1>2, <1>3, <1>4, <1>5 DEF Next, QsStep, RunStep

\* A step of a thread leaves it awake, unless lis_runq_req_cnt is not above 0.
LEMMA ThreadAwake ==
    ASSUME TypeOK, NEW c \in Cpu, RunStep(c)
    PROVE  \/ run'[c] # "down"
           \/ lis_runq_req_cnt' <= 0
<1>1. CASE While(c)
  BY <1>1 DEF TypeOK, While, RunTo, counts
<1>2. CASE ~While(c)
  BY <1>2 DEF TypeOK, RunStep, Down, IncRunning, IncActive, ScanList, BcTest, BcDec,
              DoBufcall, BufcallEnd, MainList, ServiceEnd, QueuerunEnd, DecActive,
              DecRunning, RunTo
<1> QED
  BY <1>1, <1>2

\* An entry that was heard of has a thread that is awake, or a context that will
\* wake one.
LEMMA HeardKept == IInv /\ [Next]_vars => Heard'
<1> SUFFICES ASSUME IInv, [Next]_vars, Pending'
             PROVE  Awake' \/ \E x \in Ctx : Looking(x)'
  BY DEF Heard
<1>0. TypeOK /\ RunningCounted /\ ActiveRuns /\ Heard
  BY DEF IInv
<1>t. /\ NCpu \in Nat /\ NCpu > 0 /\ WORK_INCR \in Nat
      /\ lis_runq_req_cnt' \in Int /\ Entries' \in Nat
  BY ListTypesKept, RunAssumption DEF ListTypes, Entries, Flag01
<1>p. lis_runq_req_cnt' > 0
  BY <1>t DEF Pending
<1>1. ASSUME NEW x \in Ctx, LinkQueue(x) \/ BcTimeout(x) \/ BcCount(x) \/ SetqschedEnter(x)
      PROVE  Looking(x)'
  <2>1. CASE LinkQueue(x) \/ BcTimeout(x) \/ BcCount(x)
    BY <1>0, <2>1 DEF TypeOK, Looking, LinkQueue, BcTimeout, BcCount, QsTo
  <2>2. CASE SetqschedEnter(x)
    BY <1>0, <2>2 DEF TypeOK, Looking, Pending, SetqschedEnter, QsTo
  <2> QED
    BY <1>1, <2>1, <2>2
<1>2. ASSUME NEW x \in Ctx, ReadRunning(x)
      PROVE  Awake' \/ Looking(x)'
  <2>1. CASE lis_queues_running = 0
    <3>1. WORK_INCR * lis_queues_running = 0
      BY <1>t, <2>1
    <3> QED
      BY <1>0, <1>2, <2>1, <3>1 DEF TypeOK, Looking, ReadRunning, QsTo
  <2>2. CASE lis_queues_running # 0
    <3>1. PICK c \in Cpu : run[c] \in Counted
      BY <1>0, <2>2, FS_EmptySet DEF RunningCounted, Running
    <3>2. run' = run
      BY <1>2 DEF ReadRunning, qsvars
    <3> QED
      BY <3>1, <3>2 DEF Awake, Counted, InRun
  <2> QED
    BY <2>1, <2>2
<1>3. ASSUME NEW x \in Ctx, WakeOther(x)
      PROVE  Awake' \/ Looking(x)'
  <2>1. next_cpu[x] \in Cpu
    BY <1>0, <1>t, <1>3 DEF TypeOK, WakeOther, Cpu
  <2>2. CASE lis_runq_sems' = lis_runq_sems
    BY <1>0, <1>3, <2>1, <2>2 DEF TypeOK, Looking, WakeOther
  <2>3. CASE lis_runq_sems' # lis_runq_sems
    <3>1. lis_runq_sems'[next_cpu[x]] = lis_runq_sems[next_cpu[x]] + 1
      BY <1>0, <1>3, <2>1, <2>3 DEF TypeOK, WakeOther
    <3>2. lis_runq_sems'[next_cpu[x]] > 0
      BY <1>0, <2>1, <3>1 DEF TypeOK
    <3> QED
      BY <2>1, <3>2 DEF Awake
  <2> QED
    BY <2>2, <2>3
<1>4. ASSUME NEW x \in Ctx, WakeMine(x)
      PROVE  Awake'
  <2>1. my_cpu[x] \in Cpu /\ run' = run
    BY <1>0, <1>4 DEF TypeOK, WakeMine, qsvars
  <2>2. CASE lis_runq_active_flags[my_cpu[x]]
    BY <1>0, <2>1, <2>2 DEF ActiveRuns, InRun, Awake
  <2>3. CASE ~lis_runq_active_flags[my_cpu[x]]
    <3>1. lis_runq_sems'[my_cpu[x]] = lis_runq_sems[my_cpu[x]] + 1
      BY <1>0, <1>4, <2>1, <2>3 DEF TypeOK, WakeMine
    <3>2. lis_runq_sems'[my_cpu[x]] > 0
      BY <1>0, <2>1, <3>1 DEF TypeOK
    <3> QED
      BY <2>1, <3>2 DEF Awake
  <2> QED
    BY <2>2, <2>3
<1>5. ASSUME NEW x \in Ctx, ReadReqCnt(x) \/ SetqschedReturn(x)
      PROVE  Awake' \/ \E y \in Ctx : Looking(y)'
  <2>1. /\ Pending
        /\ UNCHANGED <<run, lis_runq_sems, lis_runq_req_cnt>>
    BY <1>5 DEF Pending, ReadReqCnt, SetqschedReturn, Entries, Flag01, qsvars, counts,
                lists
  <2>2. CASE Awake
    BY <2>1, <2>2 DEF Awake
  <2>3. ASSUME NEW y \in Ctx, Looking(y)
        PROVE  Looking(y)'
    <3>1. CASE y # x
      BY <1>0, <1>5, <2>3, <3>1
         DEF TypeOK, Looking, ReadReqCnt, SetqschedReturn, QsTo, locals
    <3>2. CASE y = x /\ ReadReqCnt(x)
      BY <1>0, <1>t, <1>p, <2>1, <2>3, <3>2 DEF TypeOK, Looking, ReadReqCnt, Enough, QsTo
    <3>3. CASE y = x /\ SetqschedReturn(x)
      BY <2>3, <3>3 DEF Looking, SetqschedReturn
    <3> QED
      BY <1>5, <3>1, <3>2, <3>3
  <2> QED
    BY <1>0, <2>1, <2>2, <2>3 DEF Heard
<1>6. ASSUME NEW c \in Cpu, RunStep(c) PROVE Awake'
  BY <1>0, <1>t, <1>p, <1>6, ThreadAwake DEF Awake
<1>7. CASE AddToScanl
  BY <1>7 DEF AddToScanl, Pending
<1>8. CASE BcLink \/ UNCHANGED vars
  <2>1. UNCHANGED <<run, lis_runq_sems, qs, running, load_thresh, unheard, lis_qhead,
                    lis_scanqhead, lis_strbcflag, lis_runq_req_cnt>>
    BY <1>8 DEF BcLink, vars, lists, counts, locals
  <2> QED
    BY <1>0, <2>1 DEF Heard, Pending, Entries, Flag01, Awake, Looking
<1> QED
  BY <1>1, <1>2, <1>3, <1>4, <1>5, <1>6, <1>7, <1>8 DEF Next, QsStep

-----------------------------------------------------------------------------
\* The invariant holds at first, ...
LEMMA InitHolds == Init => IInv
<1> SUFFICES ASSUME Init PROVE IInv
  OBVIOUS
<1>0. /\ NCpu \in Nat /\ NCpu > 0 /\ MaxWork \in Nat /\ MaxScan \in Nat /\ MaxBc \in Nat
  BY RunAssumption
<1>1. TypeOK
  <2>1. 0 \in Cpu /\ 0 \in 0 .. NCpu /\ 0 \in 0 .. MaxWork /\ 0 \in 0 .. MaxScan
        /\ 0 \in 0 .. MaxBc
    BY <1>0 DEF Cpu
  <2>2. ThreadTypes
    BY DEF Init, ThreadTypes
  <2>3. ContextTypes
    BY <2>1 DEF Init, ContextTypes
  <2>4. ListTypes
    <3>1. lis_qhead \in 0 .. MaxWork /\ lis_scanqhead \in 0 .. MaxScan /\ lis_runq_req_cnt \in Int
      BY <1>0 DEF Init
    <3>2. enabled \in 0 .. MaxWork /\ scans \in 0 .. MaxScan /\ ticks \in 0 .. MaxBc
      BY <1>0 DEF Init
    <3>3. /\ lis_strbcflag \in BOOLEAN /\ unheard \in BOOLEAN /\ qsched_running \in BOOLEAN
          /\ lis_strbctimer \in {"off", "armed", "fired"}
      BY DEF Init
    <3> QED
      BY <3>1, <3>2, <3>3 DEF ListTypes
  <2>5. lis_queues_running \in 0 .. NCpu
    BY <1>0 DEF Init
  <2> QED
    BY <2>2, <2>3, <2>4, <2>5 DEF TypeOK, ThreadTypes, ContextTypes, ListTypes
<1>2. RunningCounted
  <2>1. Running = {}
    BY DEF Init, Running, Counted, InRun
  <2> QED
    BY <2>1, FS_EmptySet DEF Init, RunningCounted
<1>3. ActiveRuns
  BY DEF Init, ActiveRuns
<1>4. Linked
  BY DEF Init, Linked
<1>5. Heard
  BY DEF Init, Heard, Pending, Entries, Flag01
<1> QED
  BY <1>1, <1>2, <1>3, <1>4, <1>5 DEF IInv

\* ... and every step keeps it.
LEMMA IInvKept == IInv /\ [Next]_vars => IInv'
<1> SUFFICES ASSUME IInv, [Next]_vars PROVE IInv'
  OBVIOUS
<1>1. RunningCounted'
  BY RunningKept
<1>2. lis_queues_running' \in 0 .. NCpu
  <2>1. Cardinality(Running') \in Nat /\ Cardinality(Running') <= NCpu
    <3>1. Running' \in SUBSET Cpu
      BY DEF Running
    <3>2. IsFiniteSet(Running') /\ Cardinality(Running') <= NCpu
      BY <3>1, CpuFinite, FS_Subset
    <3> QED
      BY <3>2, FS_CardinalityType
  <2> QED
    BY <1>1, <2>1, RunAssumption DEF RunningCounted
<1>3. TypeOK'
  BY <1>2, ListTypesKept, ThreadTypesKept, ContextTypesKept
     DEF TypeOK, ListTypes, ThreadTypes, ContextTypes
<1> QED
  BY <1>1, <1>3, ActiveKept, LinkedKept, HeardKept DEF IInv

\* Entries are left behind while every thread sleeps only if no lis_setqsched
\* looked after they were linked, or lis_runq_req_cnt is below the truth.
THEOREM RunnersAreSound == Spec => []RunnersSound
<1>1. IInv => RunnersSound
  <2> SUFFICES ASSUME IInv, AllAsleep, Entries > 0, ~unheard
               PROVE  lis_runq_req_cnt < Entries
    BY DEF IInv, RunnersSound, AbandonedOnlyUnheard
  <2>1. lis_runq_req_cnt \in Int /\ Entries \in Nat
    BY DEF IInv, TypeOK, Entries, Flag01
  <2>2. ~Awake /\ \A x \in Ctx : ~Looking(x)
    BY DEF AllAsleep, Awake, Looking
  <2> QED
    BY <2>1, <2>2 DEF IInv, Heard, Pending
<1> QED
  BY <1>1, InitHolds, IInvKept, PTL DEF Spec
=============================================================================
