--------------------------- MODULE SchedulerProofs ---------------------------
(***************************************************************************)
(* Theorems about Scheduler, for every stream, every set of threads and    *)
(* every choice of queue locks: types; one runner in a queue; a popped     *)
(* module is detached; the lists are counted, for every plumbing program;  *)
(* and no queue is scheduled twice or stranded while nothing is taken away.*)
(***************************************************************************)
EXTENDS Scheduler, FiniteSetTheorems, TLAPS

-----------------------------------------------------------------------------
(* Type correctness                                                        *)

\* Linking an entry out of a list leaves a list.
LEMMA UnlinkType ==
    ASSUME NEW S, NEW s \in Seq(S), NEW q
    PROVE  Unlink(s, q) \in Seq(S)
<1>1. CASE q \notin Range(s)
  BY <1>1 DEF Unlink
<1>2. CASE q \in Range(s)
  <2>1. PICK i \in DOMAIN s : s[i] = q
    BY <1>2 DEF Range
  <2>2. Len(s) - 1 \in Nat
    BY <2>1
  <2> DEFINE k == At(s, q)
  <2>3. k \in 1 .. Len(s)
    BY <2>1 DEF At
  <2> HIDE DEF k
  <2>4. \A j \in 1 .. Len(s) - 1 :
          (IF j < k THEN s[j] ELSE s[j + 1]) \in S
    BY <2>2, <2>3
  <2>5. Unlink(s, q) =
          [j \in 1 .. Len(s) - 1 |-> IF j < k THEN s[j] ELSE s[j + 1]]
    BY <1>2 DEF Unlink, k
  <2> QED
    BY <2>2, <2>4, <2>5
<1> QED
  BY <1>1, <1>2

\* Setting and clearing flags keeps q_flag a function to sets of flags.
LEMMA FlagsType ==
    ASSUME TypeOK, NEW Q, NEW F
    PROVE  /\ F \in SUBSET Flag => SetFlags(Q, F) \in [Queue -> SUBSET Flag]
           /\ ClrFlags(Q, F) \in [Queue -> SUBSET Flag]
BY DEF TypeOK, SetFlags, ClrFlags

\* The read-modify-write of q_flag by queuerun keeps the types.
LEMMA SetRunningType ==
    ASSUME TypeOK, NEW r \in Runner, NEW q \in Queue, NEW l \in PC,
           NEW n \in PC, SetRunning(r, q, l, n)
    PROVE  /\ q_flag' \in [Queue -> SUBSET Flag]
           /\ seen' \in [Thread -> SUBSET Flag]
           /\ pc' \in [Thread -> PC]
<1>1. CASE AtomicFlags
  <2>1. q_flag' \in [Queue -> SUBSET Flag]
    BY <1>1, FlagsType DEF SetRunning, Flag
  <2> QED
    BY <1>1, <2>1 DEF SetRunning, TypeOK, Goto
<1>2. CASE ~AtomicFlags
  <2>1. seen' \in [Thread -> SUBSET Flag]
    BY <1>2 DEF SetRunning, TypeOK
  <2> QED
    BY <1>2, <2>1 DEF SetRunning, TypeOK, Goto
<1> QED
  BY <1>1, <1>2

\* The step the closer is about to do is a step.
LEMMA TodoType ==
    ASSUME TypeOK, todo # <<>>
    PROVE  /\ Arg \in Queue /\ ArgPair \in Pair
           /\ Tail(todo) \in Seq(Step)
<1>1. Head(todo) \in Step
  BY DEF TypeOK
<1>2. Tail(todo) \in Seq(Step)
  BY DEF TypeOK
<1> QED
  BY <1>1, <1>2 DEF Step, Queue, Arg, ArgPair

LEMMA ScanQType == ScanQ \in Queue
<1>1. 1 \in DOMAIN Stream
  BY StreamAssumption DEF StreamAssumption
<1> QED
  BY <1>1 DEF ScanQ, Queue, Pair, Side, Range

LEMMA TypeInit == Init => TypeOK
<1>1. StreamAssumption => Program \in Seq(Step)
  BY DEF StreamAssumption
<1> QED
  BY <1>1, StreamAssumption DEF Init, TypeOK, PC

LEMMA TypeQenable ==
    ASSUME TypeOK, Control, NEW t \in Thread, QenableStep(t)
    PROVE  TypeOK'
<1> USE DEF TypeOK, rvars, Goto, PC
<1>1. CASE Qenable(t)
  BY <1>1 DEF Qenable, SetFlags, Flag
<1>2. CASE QenableLink(t)
  <2>1. arg[t] \in Queue
    BY <1>2 DEF QenableLink, Control, ControlOf
  <2> QED
    BY <1>2, <2>1 DEF QenableLink, HeadGet
<1>3. CASE RetryQenable(t)
  BY <1>3 DEF RetryQenable, ClrFlags
<1> QED
  BY <1>1, <1>2, <1>3 DEF QenableStep

LEMMA TypeRunner ==
    ASSUME TypeOK, Control, NEW r \in Runner, RunnerStep(r)
    PROVE  TypeOK'
<1> USE DEF TypeOK, qvars, rvars, Goto, PC
<1>1. CASE StartRun(r)
  BY <1>1 DEF StartRun
<1>2. CASE ScanEmpty(r)
  BY <1>2 DEF ScanEmpty
<1>3. CASE ScanClear(r)
  BY <1>3 DEF ScanClear, ClrFlags, Has
<1>4. CASE ScanSend(r)
  BY <1>4 DEF ScanSend
<1>5. CASE ScanDone(r)
  BY <1>5 DEF ScanDone, ClrFlags, Wakes
<1>6. CASE ClearQenab(r)
  BY <1>6 DEF ClearQenab, ClrFlags, Has
<1>7. CASE EnterService(r)
  BY <1>7 DEF EnterService, Lock, Thread
<1>8. CASE Drain(r)
  BY <1>8 DEF Drain
<1>9. CASE ServiceReturn(r)
  BY <1>9 DEF ServiceReturn, Unlock
<1>10. CASE RunDone(r)
  <2>1. cur[r] \in Queue
    BY <1>10 DEF RunDone, Control, ControlOf, RunPc, Thread
  <2>2. r \in Thread
    BY DEF Thread
  <2>3. q_flag' \in [Queue -> SUBSET Flag]
    BY <1>10 DEF RunDone, ClrFlags
  <2>4. \/ pc' = [pc EXCEPT ![r] = "wakeup"] /\ arg' = arg
        \/ pc' = [pc EXCEPT ![r] = "retry"] /\ arg' = [arg EXCEPT ![r] = cur[r]]
        \/ pc' = [pc EXCEPT ![r] = "bottom"] /\ arg' = arg
    BY <1>10 DEF RunDone
  <2>5. pc' \in [Thread -> PC] /\ arg' \in [Thread -> Queue \cup {NoQueue}]
    BY <2>1, <2>2, <2>4
  <2>6. ret' \in [Thread -> PC]
    BY <2>2, <1>10 DEF RunDone
  <2> HIDE DEF Goto, PC
  <2> QED
    BY <1>10, <2>3, <2>5, <2>6 DEF RunDone
<1>11. CASE WakeUp(r)
  BY <1>11 DEF WakeUp
<1>12. CASE LoopBottom(r)
  <2>1. HeadPut(cur[r]) \in Int
    BY DEF HeadPut
  <2> QED
    BY <2>1, <1>12 DEF LoopBottom
<1>13. CASE RunEnd(r)
  <2>1. lis_runq_req_cnt' \in Int
    BY <1>13 DEF RunEnd
  <2> QED
    BY <2>1, <1>13 DEF RunEnd
<1>14. CASE StoreRunning(r)
  <2>1. PICK f \in {seen[r] \cup {"QRUNNING"},
                   q_flag[cur[r]] \cup {"QRUNNING"}, q_flag[cur[r]]} :
          q_flag' = [q_flag EXCEPT ![cur[r]] = f]
    BY <1>14 DEF StoreRunning
  <2>2. seen[r] \cup {"QRUNNING"} \in SUBSET Flag
    BY DEF Thread, Flag
  <2>3. q_flag' \in [Queue -> SUBSET Flag]
    BY <2>1, <2>2 DEF Flag
  <2> QED
    BY <2>3, <1>14 DEF StoreRunning
<1>15. CASE ScanPop(r)
  <2>1. Head(lis_scanqhead) \in Queue /\ Tail(lis_scanqhead) \in Seq(Queue)
    BY <1>15 DEF ScanPop
  <2>2. /\ q_flag' \in [Queue -> SUBSET Flag]
        /\ seen' \in [Thread -> SUBSET Flag]
        /\ pc' \in [Thread -> PC]
    BY <1>15, <2>1, SetRunningType DEF ScanPop
  <2>3. lis_scanqhead' \in Seq(Queue)
    BY <1>15, <2>1 DEF ScanPop
  <2>4. lis_runq_req_cnt' \in Int
    BY <1>15 DEF ScanPop
  <2>5. cur' \in [Thread -> Queue \cup {NoQueue}]
    <3> DEFINE q == Head(lis_scanqhead)
    <3>1. q \in Queue /\ cur' = [cur EXCEPT ![r] = q]
      BY <1>15, <2>1 DEF ScanPop
    <3> HIDE DEF q
    <3> QED
      BY <3>1
  <2> QED
    BY <1>15, <2>2, <2>3, <2>4, <2>5 DEF ScanPop
<1>16. CASE MainPop(r)
  <2>1. Head(lis_qhead) \in Queue /\ Tail(lis_qhead) \in Seq(Queue)
    BY <1>16 DEF MainPop
  <2>2. /\ q_flag' \in [Queue -> SUBSET Flag]
        /\ seen' \in [Thread -> SUBSET Flag]
        /\ pc' \in [Thread -> PC]
    BY <1>16, <2>1, SetRunningType DEF MainPop
  <2>3. lis_qhead' \in Seq(Queue)
    BY <1>16, <2>1 DEF MainPop
  <2>4. lis_runq_req_cnt' \in Int
    BY <1>16 DEF MainPop
  <2>5. cur' \in [Thread -> Queue \cup {NoQueue}]
    <3> DEFINE q == Head(lis_qhead)
    <3>1. q \in Queue /\ cur' = [cur EXCEPT ![r] = q]
      BY <1>16, <2>1 DEF MainPop
    <3> HIDE DEF q
    <3> QED
      BY <3>1
  <2> QED
    BY <1>16, <2>2, <2>3, <2>4, <2>5 DEF MainPop
<1>17. CASE QenableStep(r)
  BY <1>17, TypeQenable DEF Thread
<1> QED
  BY <1>1, <1>2, <1>3, <1>4, <1>5, <1>6, <1>7, <1>8, <1>9, <1>10, <1>11, <1>12, <1>13, <1>14, <1>15, <1>16, <1>17 DEF RunnerStep

LEMMA TypeCloser ==
    ASSUME TypeOK, Control, NEW c \in Closer, CloserStep(c)
    PROVE  TypeOK'
<1> USE DEF TypeOK, qvars, rvars, tvars, Goto, PC, DoneStep
<1>1. CASE Freeze(c)
  BY <1>1, TodoType DEF Freeze, Doing, SetFlags, Flag
<1>2. CASE MarkClosing(c)
  BY <1>2, TodoType DEF MarkClosing, Doing, SetFlags, Flag
<1>3. CASE ProcsOff(c)
  BY <1>3, TodoType DEF ProcsOff, Doing, SetFlags, Flag
<1>4. CASE QiQclose(c)
  BY <1>4, TodoType DEF QiQclose, Doing
<1>5. CASE AwaitQsched(c)
  <2>1. Tail(todo) \in Seq(Step) /\ ArgPair \in Pair
    BY <1>5, TodoType DEF AwaitQsched, Doing
  <2>2. todo' \in Seq(Step)
    BY <1>5, <2>1 DEF AwaitQsched
  <2>3. q_flag' \in [Queue -> SUBSET Flag]
    <3>1. \/ q_flag' = SetFlags(Both(ArgPair), {"QWAITING"})
          \/ q_flag' = q_flag
      BY <1>5 DEF AwaitQsched
    <3> QED
      BY <3>1, FlagsType DEF Flag
  <2>4. pc' \in [Thread -> PC] /\ wakeup_sem' \in Nat
    <3>1. pc' = pc \/ pc' = [pc EXCEPT ![c] = "down"]
      BY <1>5 DEF AwaitQsched
    <3>2. wakeup_sem' = wakeup_sem \/ wakeup_sem' = 0
      BY <1>5 DEF AwaitQsched
    <3> QED
      BY <3>1, <3>2
  <2>5. q_wakeup_sem' \in SUBSET Pair
    BY <1>5, <2>1 DEF AwaitQsched
  <2> QED
    BY <1>5, <2>2, <2>3, <2>4, <2>5 DEF AwaitQsched
<1>6. CASE AwaitDown(c)
  <2>1. todo # <<>>
    BY <1>6 DEF AwaitDown, Control
  <2>2. todo' \in Seq(Step)
    BY <1>6, <2>1, TodoType DEF AwaitDown
  <2>3. q_flag' \in [Queue -> SUBSET Flag]
    BY <1>6, FlagsType DEF AwaitDown
  <2>4. pc' \in [Thread -> PC] /\ wakeup_sem' \in Nat
    BY <1>6 DEF AwaitDown, DownPasses
  <2>5. q_wakeup_sem' \in SUBSET Pair
    BY <1>6 DEF AwaitDown
  <2> QED
    BY <1>6, <2>2, <2>3, <2>4, <2>5 DEF AwaitDown
<1>7. CASE Unfreeze(c)
  <2>1. todo' \in Seq(Step) /\ Arg \in Queue
    BY <1>7, TodoType DEF Unfreeze, Doing
  <2>2. q_flag' \in [Queue -> SUBSET Flag]
    <3>1. q_flag' = ClrFlags({Arg}, {"QFROZEN"}) \/ q_flag' = q_flag
      BY <1>7 DEF Unfreeze
    <3> QED
      BY <3>1, FlagsType
  <2>3. pc' \in [Thread -> PC] /\ arg' \in [Thread -> Queue \cup {NoQueue}]
    <3>1. \/ pc' = [pc EXCEPT ![c] = "retry"] /\ arg' = [arg EXCEPT ![c] = Arg]
          \/ pc' = pc /\ arg' = arg
      BY <1>7 DEF Unfreeze
    <3> QED
      BY <2>1, <3>1
  <2> QED
    BY <1>7, <2>1, <2>2, <2>3 DEF Unfreeze
<1>8. CASE Deschedule(c)
  BY <1>8, TodoType, UnlinkType DEF Deschedule, Doing
<1>9. CASE FreeQ(c)
  BY <1>9, TodoType DEF FreeQ, Doing, ClrFlags
<1>10. CASE QenableStep(c)
  BY <1>10, TypeQenable DEF Thread
<1> QED
  BY <1>1, <1>2, <1>3, <1>4, <1>5, <1>6, <1>7, <1>8, <1>9, <1>10 DEF CloserStep

LEMMA TypeNext == TypeOK /\ Control /\ [Next]_vars => TypeOK'
<1> SUFFICES ASSUME TypeOK, Control, [Next]_vars PROVE TypeOK'
  OBVIOUS
<1>1. ASSUME NEW t \in Caller, NEW q \in Queue, CallQenable(t, q)
      PROVE  TypeOK'
  BY <1>1 DEF TypeOK, CallQenable, rvars, Goto, PC
<1>2. ASSUME NEW r \in Runner, NEW q \in Queue, ServiceCallsQenable(r, q)
      PROVE  TypeOK'
  BY <1>2 DEF TypeOK, ServiceCallsQenable, rvars, Goto, PC
<1>3. ASSUME NEW t \in Caller, QenableStep(t) PROVE TypeOK'
  BY <1>3, TypeQenable DEF Thread
<1>4. ASSUME NEW r \in Runner, RunnerStep(r) PROVE TypeOK'
  BY <1>4, TypeRunner
<1>5. ASSUME NEW t \in Timer, AddToScanl(t) PROVE TypeOK'
  <2>1. ScanQ \in Queue
    BY ScanQType
  <2> QED
    BY <1>5, <2>1 DEF TypeOK, AddToScanl, rvars, Goto, PC, SetFlags, Flag
<1>6. ASSUME NEW t \in Timer, ScanLink(t) PROVE TypeOK'
  <2>1. ScanQ \in Queue
    BY ScanQType
  <2> USE DEF TypeOK, ScanLink, rvars, Goto, PC
  <2>2. lis_scanqhead' \in Seq(Queue)
    BY <1>6, <2>1
  <2>3. lis_runq_req_cnt' \in Int /\ sd_refcnt' \in Int
    BY <1>6
  <2>4. /\ arg' \in [Thread -> Queue \cup {NoQueue}]
        /\ pc' \in [Thread -> PC]
    BY <1>6
  <2> QED
    BY <1>6, <2>2, <2>3, <2>4
<1>7. ASSUME NEW c \in Closer, CloserStep(c) PROVE TypeOK'
  BY <1>7, TypeCloser
<1>8. CASE UNCHANGED vars
  BY <1>8 DEF TypeOK, vars, qvars, rvars, tvars
<1>9. CASE Gone
  BY <1>8, <1>9 DEF Gone
<1> QED
  BY <1>1, <1>2, <1>3, <1>4, <1>5, <1>6, <1>7, <1>8, <1>9
     DEF Next, CallerStep, TimerStep

-----------------------------------------------------------------------------
(* A thread's control variables fit together                               *)

LEMMA ControlInit == Init => Control
BY DEF Init, Control, ControlOf, RunPc, Thread

\* Thread t moves, the others keep their control variables.
Others(t) == \A u \in Thread \ {t} :
                 /\ pc'[u] = pc[u] /\ arg'[u] = arg[u]
                 /\ ret'[u] = ret[u] /\ cur'[u] = cur[u]

LEMMA ControlFrame ==
    ASSUME Control, NEW t \in Thread, Others(t), ControlOf(t)'
    PROVE  \A u \in Thread : ControlOf(u)'
BY DEF Control, Others, ControlOf

LEMMA ControlQenable ==
    ASSUME TypeOK, Control, NEW t \in Thread, QenableStep(t)
    PROVE  /\ Others(t) /\ ControlOf(t)'
           /\ ret' = ret /\ todo' = todo /\ pc'[t] # "down"
<1> USE DEF TypeOK, Control, ControlOf, Others, rvars, Goto, RunPc
<1>1. CASE Qenable(t)
  BY <1>1 DEF Qenable
<1>2. CASE QenableLink(t)
  BY <1>2 DEF QenableLink
<1>3. CASE RetryQenable(t)
  BY <1>3 DEF RetryQenable
<1> QED
  BY <1>1, <1>2, <1>3 DEF QenableStep

LEMMA ControlRunner ==
    ASSUME TypeOK, Control, NEW r \in Runner, RunnerStep(r)
    PROVE  Others(r) /\ ControlOf(r)' /\ todo' = todo
<1>0. r \in Thread
  BY DEF Thread
<1> USE <1>0 DEF TypeOK, Control, ControlOf, Others, qvars, rvars, Goto, RunPc
<1>1. CASE StartRun(r)
  BY <1>1 DEF StartRun
<1>2. CASE ScanEmpty(r)
  BY <1>2 DEF ScanEmpty
<1>3. CASE ScanClear(r)
  BY <1>3 DEF ScanClear
<1>4. CASE ScanSend(r)
  BY <1>4 DEF ScanSend
<1>5. CASE ScanDone(r)
  BY <1>5 DEF ScanDone
<1>6. CASE ClearQenab(r)
  BY <1>6 DEF ClearQenab
<1>7. CASE EnterService(r)
  BY <1>7 DEF EnterService
<1>8. CASE Drain(r)
  BY <1>8 DEF Drain
<1>9. CASE ServiceReturn(r)
  BY <1>9 DEF ServiceReturn
<1>10. CASE RunDone(r)
  BY <1>10 DEF RunDone
<1>11. CASE WakeUp(r)
  BY <1>11 DEF WakeUp
<1>12. CASE LoopBottom(r)
  BY <1>12 DEF LoopBottom
<1>13. CASE RunEnd(r)
  BY <1>13 DEF RunEnd
<1>14. CASE StoreRunning(r)
  BY <1>14 DEF StoreRunning
<1>15. CASE ScanPop(r)
  <2>1. Head(lis_scanqhead) \in Queue
    BY <1>15 DEF ScanPop
  <2> QED
    BY <1>15, <2>1 DEF ScanPop, SetRunning
<1>16. CASE MainPop(r)
  <2>1. Head(lis_qhead) \in Queue
    BY <1>16 DEF MainPop
  <2> QED
    BY <1>16, <2>1 DEF MainPop, SetRunning
<1>17. CASE QenableStep(r)
  BY <1>17, ControlQenable
<1> QED
  BY <1>1, <1>2, <1>3, <1>4, <1>5, <1>6, <1>7, <1>8, <1>9, <1>10, <1>11, <1>12, <1>13, <1>14, <1>15, <1>16, <1>17 DEF RunnerStep

LEMMA ControlCloser ==
    ASSUME TypeOK, Control, NEW c \in Closer, CloserStep(c)
    PROVE  /\ Others(c) /\ ControlOf(c)'
           /\ ret' = ret
           /\ pc'[c] = "down" => todo' # <<>> /\ Head(todo').op = "await"
<1>0. c \in Thread /\ ret[c] = "idle"
  BY DEF Thread, Control
<1> USE <1>0 DEF TypeOK, Control, ControlOf, Others, rvars, tvars, Goto, RunPc,
                 Doing
<1>1. CASE Freeze(c)
  BY <1>1 DEF Freeze
<1>2. CASE MarkClosing(c)
  BY <1>2 DEF MarkClosing
<1>3. CASE ProcsOff(c)
  BY <1>3 DEF ProcsOff
<1>4. CASE QiQclose(c)
  BY <1>4 DEF QiQclose
<1>5. CASE AwaitQsched(c)
  BY <1>5 DEF AwaitQsched
<1>6. CASE AwaitDown(c)
  BY <1>6 DEF AwaitDown
<1>7. CASE Unfreeze(c)
  <2>1. Arg \in Queue
    BY <1>7, TodoType DEF Unfreeze
  <2> QED
    BY <1>7, <2>1 DEF Unfreeze
<1>8. CASE Deschedule(c)
  BY <1>8 DEF Deschedule
<1>9. CASE FreeQ(c)
  BY <1>9 DEF FreeQ
<1>10. CASE QenableStep(c)
  BY <1>10, ControlQenable
<1> QED
  BY <1>1, <1>2, <1>3, <1>4, <1>5, <1>6, <1>7, <1>8, <1>9, <1>10 DEF CloserStep

LEMMA ControlNext == TypeOK /\ Control /\ [Next]_vars => Control'
<1> SUFFICES ASSUME TypeOK, Control, [Next]_vars PROVE Control'
  OBVIOUS
<1> USE DEF Thread
<1>0. ASSUME NEW t \in Thread \ Closer, Others(t), ControlOf(t)', todo' = todo
      PROVE  Control'
  <2>1. \A c \in Closer : ret'[c] = ret[c] /\ pc'[c] = pc[c]
    BY <1>0 DEF Others
  <2> QED
    BY <1>0, <2>1, ControlFrame DEF Control
<1>1. ASSUME NEW t \in Caller, NEW q \in Queue, CallQenable(t, q)
      PROVE  Control'
  <2>1. Others(t) /\ ControlOf(t)' /\ todo' = todo
    BY <1>1 DEF TypeOK, CallQenable, rvars, Goto, Others, ControlOf, RunPc
  <2> QED
    BY <1>0, <2>1, ThreadAssumption DEF ThreadAssumption
<1>2. ASSUME NEW r \in Runner, NEW q \in Queue, ServiceCallsQenable(r, q)
      PROVE  Control'
  <2>1. Others(r) /\ ControlOf(r)' /\ todo' = todo
    BY <1>2 DEF TypeOK, Control, ServiceCallsQenable, rvars, Goto, Others,
                ControlOf, RunPc
  <2> QED
    BY <1>0, <2>1, ThreadAssumption DEF ThreadAssumption
<1>3. ASSUME NEW t \in Caller, QenableStep(t) PROVE Control'
  BY <1>0, <1>3, ControlQenable, ThreadAssumption DEF ThreadAssumption
<1>4. ASSUME NEW r \in Runner, RunnerStep(r) PROVE Control'
  BY <1>0, <1>4, ControlRunner, ThreadAssumption DEF ThreadAssumption
<1>5. ASSUME NEW t \in Timer, AddToScanl(t) \/ ScanLink(t) PROVE Control'
  <2>1. Others(t) /\ ControlOf(t)' /\ todo' = todo
    BY <1>5 DEF TypeOK, AddToScanl, ScanLink, rvars, Goto, Others, ControlOf,
                RunPc
  <2> QED
    BY <1>0, <2>1, ThreadAssumption DEF ThreadAssumption
<1>6. ASSUME NEW c \in Closer, CloserStep(c) PROVE Control'
  <2>1. /\ Others(c) /\ ControlOf(c)'
        /\ ret' = ret
        /\ pc'[c] = "down" => todo' # <<>> /\ Head(todo').op = "await"
    BY <1>6, ControlCloser
  <2>2. \A d \in Closer : d = c
    BY ThreadAssumption DEF ThreadAssumption
  <2> QED
    BY <2>1, <2>2, ControlFrame DEF Control
<1>7. CASE UNCHANGED vars
  BY <1>7 DEF Control, ControlOf, vars, rvars, tvars
<1>8. CASE Gone
  BY <1>7, <1>8 DEF Gone
<1> QED
  BY <1>1, <1>2, <1>3, <1>4, <1>5, <1>6, <1>7, <1>8
     DEF Next, CallerStep, TimerStep

LEMMA TypeAndControl == Spec => [](TypeOK /\ Control)
<1>1. Init => TypeOK /\ Control
  BY TypeInit, ControlInit
<1>2. TypeOK /\ Control /\ [Next]_vars => (TypeOK /\ Control)'
  BY TypeNext, ControlNext
<1> QED
  BY <1>1, <1>2, PTL DEF Spec

\* Every reachable state is well typed: no thread of the scheduler ever works
\* on, enables or returns to something that is not there, whatever the
\* interleaving of queuerun, lis_qenable, the scan timer and the plumbing.
THEOREM TypeCorrect == Spec => []TypeOK
BY TypeAndControl, PTL

-----------------------------------------------------------------------------
(* One runner per queue                                                    *)

\* The flags that keep lis_qenable from giving a queue a second place.
Guards == {"QRUNNING", "QENAB", "QCLOSING", "QPROCSOFF"}
ScanPc == {"scan_rmw", "scan_clear", "scan_lockq", "scan_done", "scan_link",
           "main_rmw"}

\* Thread t moves, but gives no queue a new place.
Quiet(t) ==
    /\ Others(t) /\ pc'[t] \notin ScanPc
    /\ pc'[t] = "link" => pc[t] = "link" /\ arg'[t] = arg[t]
    /\ t \in Runner => \A q \in Queue : Runs(t, q)' => Runs(t, q)

LEMMA PlaceFrame ==
    ASSUME PlaceInv, NEW t \in Thread, Quiet(t),
           lis_qhead' = lis_qhead, lis_scanqhead' = lis_scanqhead,
           freed \subseteq freed',
           \A q \in Queue : q[1] \notin freed' =>
               \A f \in Guards : f \in q_flag[q] => f \in q_flag'[q]
    PROVE  PlaceInv'
<1>1. NoScan'
  BY DEF PlaceInv, NoScan, Quiet, Others, ScanPc
<1>2. \A q \in Queue : Linking(q)' \subseteq Linking(q)
  BY DEF Quiet, Others, Linking
<1>3. \A q \in Queue : \A r \in Runner : Runs(r, q)' => Runs(r, q)
  BY DEF Quiet, Others, Runs, Thread
<1>4. \A q \in Queue : Listed(q)' = Listed(q)
  BY DEF Listed
<1>5. OnePlace'
  BY <1>2, <1>3, <1>4 DEF PlaceInv, OnePlace
<1>6. PlaceFlagged'
  BY <1>2, <1>3, <1>4 DEF PlaceInv, PlaceFlagged, Live, Has, Guards
<1> QED
  BY <1>1, <1>5, <1>6 DEF PlaceInv

\* lis_qenable gives a queue a place only when it has none: QENAB before the
\* link, and the link after it.
LEMMA PlaceQenable ==
    ASSUME TypeOK, Control, PlaceInv, NEW t \in Thread, QenableStep(t)
    PROVE  PlaceInv'
<1> DEFINE q == arg[t]
<1> USE DEF Goto, rvars
<1>0. pc[t] \in {"enable", "link", "retry"} =>
         q \in Queue /\ ret[t] \in {"idle", "srvp", "bottom"}
  BY DEF Control, ControlOf
<1>1. CASE Qenable(t) /\ pc'[t] = "link" /\ pc[t] = "enable"
  <2>1. /\ q \in Queue /\ Live(q) /\ ~Has(q, Q_INH_ENABLE)
        /\ q_flag' = SetFlags({q}, {"QENAB"})
        /\ pc' = [pc EXCEPT ![t] = "link"] /\ pc[t] = "enable"
        /\ UNCHANGED <<lis_qhead, lis_scanqhead, arg, cur, ret, freed>>
    BY <1>0, <1>1 DEF Qenable, TypeOK
  <2>2. Listed(q) = {} /\ Linking(q) = {} /\ \A r \in Runner : ~Runs(r, q)
    BY <2>1 DEF PlaceInv, PlaceFlagged, Has, Q_INH_ENABLE
  <2>3. \A q2 \in Queue : Linking(q2)' = IF q2 = q THEN {t} ELSE Linking(q2)
    BY <2>1, <2>2 DEF Linking, TypeOK
  <2>4. \A q2 \in Queue : \A r \in Runner : Runs(r, q2)' = Runs(r, q2)
    BY <2>1 DEF Runs, RunPc, TypeOK, Thread
  <2>5. \A q2 \in Queue : Listed(q2)' = Listed(q2)
    BY <2>1 DEF Listed
  <2>6. OnePlace'
    BY <2>2, <2>3, <2>4, <2>5 DEF PlaceInv, OnePlace
  <2>7. PlaceFlagged'
    BY <2>1, <2>2, <2>3, <2>4, <2>5
       DEF PlaceInv, PlaceFlagged, Live, Has, SetFlags
  <2>8. NoScan'
    BY <2>1 DEF PlaceInv, NoScan, TypeOK
  <2> QED
    BY <2>6, <2>7, <2>8 DEF PlaceInv
<1>2. CASE Qenable(t) /\ ~(pc'[t] = "link" /\ pc[t] = "enable")
  <2>1. Quiet(t)
    BY <1>0, <1>2 DEF Qenable, Quiet, Others, ScanPc, Runs, RunPc, TypeOK
  <2>2. \A q2 \in Queue : q_flag[q2] \subseteq q_flag'[q2]
    BY <1>2 DEF Qenable, SetFlags, TypeOK
  <2> QED
    BY <1>2, <2>1, <2>2, PlaceFrame DEF Qenable
<1>3. CASE RetryQenable(t)
  <2>1. Quiet(t)
    BY <1>0, <1>3 DEF RetryQenable, Quiet, Others, ScanPc, Runs, RunPc, TypeOK,
                      Control, ControlOf
  <2>2. \A q2 \in Queue : \A f \in Guards : f \in q_flag[q2] => f \in q_flag'[q2]
    BY <1>3 DEF RetryQenable, ClrFlags, TypeOK, Guards
  <2> QED
    BY <1>3, <2>1, <2>2, PlaceFrame DEF RetryQenable
<1>4. CASE QenableLink(t)
  <2>1. /\ q \in Queue /\ t \in Linking(q)
        /\ pc' = [pc EXCEPT ![t] = ret[t]] /\ pc[t] = "link"
        /\ ret[t] \in {"idle", "srvp", "bottom"}
        /\ lis_qhead' = Append(lis_qhead, q)
        /\ UNCHANGED <<q_flag, lis_scanqhead, arg, cur, ret, freed>>
    BY <1>0, <1>4 DEF QenableLink, TypeOK, Linking
  <2>2. Listed(q) = {} /\ Linking(q) = {t} /\ \A r \in Runner : ~Runs(r, q)
    BY <2>1 DEF PlaceInv, OnePlace
  <2>3. \A q2 \in Queue : Linking(q2)' = IF q2 = q THEN {} ELSE Linking(q2)
    BY <2>1, <2>2 DEF Linking, TypeOK
  <2>4. \A q2 \in Queue : \A r \in Runner : Runs(r, q2)' => Runs(r, q2)
    BY <2>1 DEF Runs, RunPc, TypeOK, Thread
  <2>5. \A q2 \in Queue :
          Listed(q2)' = IF q2 = q THEN {Len(lis_qhead) + 1} ELSE Listed(q2)
    <3>1. lis_qhead \in Seq(Queue)
      BY DEF TypeOK
    <3> QED
      BY <2>1, <2>2, <3>1 DEF Listed
  <2>6. OnePlace'
    BY <2>2, <2>3, <2>4, <2>5 DEF PlaceInv, OnePlace
  <2>7. PlaceFlagged'
    BY <2>1, <2>2, <2>3, <2>4, <2>5 DEF PlaceInv, PlaceFlagged, Live, Has
  <2>8. NoScan'
    BY <2>1 DEF PlaceInv, NoScan, TypeOK
  <2> QED
    BY <2>6, <2>7, <2>8 DEF PlaceInv
<1> QED
  BY <1>1, <1>2, <1>3, <1>4 DEF QenableStep

\* queuerun takes the head of the run list: the queue leaves the list for the
\* runner, and QRUNNING takes over from QENAB.
LEMMA PlaceMainPop ==
    ASSUME AtomicFlags, TypeOK, PlaceInv, NEW r \in Runner, MainPop(r)
    PROVE  PlaceInv'
<1>0. r \in Thread /\ lis_qhead \in Seq(Queue) /\ lis_qhead # <<>>
  BY DEF Thread, TypeOK, MainPop
<1>q. PICK q \in Queue : q = Head(lis_qhead)
  BY <1>0
<1>1. /\ pc[r] = "main"
      /\ lis_qhead' = Tail(lis_qhead)
      /\ cur' = [cur EXCEPT ![r] = q]
      /\ q_flag' = SetFlags({q}, {"QRUNNING"})
      /\ pc' = [pc EXCEPT ![r] = "main_clear"]
      /\ UNCHANGED <<lis_scanqhead, arg, ret, freed>>
  BY <1>q DEF MainPop, SetRunning, Goto, rvars
<1>2. 1 \in Listed(q)
  BY <1>0, <1>q DEF Listed
<1>3. Listed(q) = {1} /\ Linking(q) = {} /\ \A s \in Runner : ~Runs(s, q)
  BY <1>2 DEF PlaceInv, OnePlace
<1>4. \A q2 \in Queue : Linking(q2)' = Linking(q2)
  BY <1>0, <1>1 DEF Linking, TypeOK
<1>5. \A q2 \in Queue : \A s \in Runner :
         Runs(s, q2)' => Runs(s, q2) \/ (s = r /\ q2 = q)
  BY <1>0, <1>1 DEF Runs, RunPc, TypeOK, Thread
<1>6. \A q2 \in Queue : \A i \in Listed(q2)' :
         i \in Nat \ {0} /\ i + 1 \in Listed(q2)
  BY <1>0, <1>1 DEF Listed
<1>7. Listed(q)' = {}
  BY <1>1, <1>3, <1>6
<1>8. OnePlace'
  <2> SUFFICES ASSUME NEW q2 \in Queue
      PROVE /\ \A i, j \in Listed(q2)' : i = j
            /\ \A t, u \in Linking(q2)' : t = u
            /\ \A s, u \in Runner : Runs(s, q2)' /\ Runs(u, q2)' => s = u
            /\ Listed(q2)' # {} => Linking(q2)' = {}
            /\ \A s \in Runner :
                  Runs(s, q2)' => Listed(q2)' = {} /\ Linking(q2)' = {}
    BY DEF OnePlace
  <2>1. /\ \A i, j \in Listed(q2) : i = j
        /\ \A t, u \in Linking(q2) : t = u
        /\ \A s, u \in Runner : Runs(s, q2) /\ Runs(u, q2) => s = u
        /\ Listed(q2) # {} => Linking(q2) = {}
        /\ \A s \in Runner :
              Runs(s, q2) => Listed(q2) = {} /\ Linking(q2) = {}
    BY DEF PlaceInv, OnePlace
  <2>2. CASE q2 = q
    BY <1>3, <1>4, <1>5, <1>7, <2>2
  <2>3. CASE q2 # q
    <3>1. \A i, j \in Listed(q2)' : i = j
      BY <1>6, <2>1
    <3>2. \A s \in Runner : Runs(s, q2)' => Runs(s, q2)
      BY <1>5, <2>3
    <3> QED
      BY <1>4, <1>6, <2>1, <3>1, <3>2
  <2> QED
    BY <2>2, <2>3
<1>9. PlaceFlagged'
  BY <1>1, <1>3, <1>4, <1>5, <1>6, <1>7
     DEF PlaceInv, PlaceFlagged, Live, Has, SetFlags
<1>10. NoScan'
  BY <1>0, <1>1 DEF PlaceInv, NoScan, TypeOK
<1> QED
  BY <1>8, <1>9, <1>10 DEF PlaceInv

\* The runner clears QENAB when the queue is no longer listed, and QRUNNING
\* when it has done with the queue.
LEMMA PlaceRunFlags ==
    ASSUME TypeOK, Control, PlaceInv, NEW r \in Runner, ClearQenab(r) \/ RunDone(r)
    PROVE  PlaceInv'
<1>0. r \in Thread
  BY DEF Thread
<1>q. PICK q \in Queue : q = cur[r]
  BY <1>0 DEF Control, ControlOf, RunPc, ClearQenab, RunDone
<1>1. \A q2 \in Queue : Linking(q2)' = Linking(q2) /\ Listed(q2)' = Listed(q2)
  BY <1>0 DEF Linking, Listed, ClearQenab, RunDone, Goto, TypeOK
<1>2. \A q2 \in Queue : \A s \in Runner : Runs(s, q2)' => Runs(s, q2)
  <2>1. CASE ClearQenab(r)
    BY <1>0, <2>1 DEF Runs, RunPc, ClearQenab, Goto, TypeOK
  <2>2. CASE RunDone(r)
    <3>1. pc'[r] \in {"wakeup", "retry", "bottom"} /\ Others(r)
      BY <1>0, <2>2 DEF RunDone, Goto, TypeOK, Others
    <3> QED
      BY <3>1 DEF Runs, RunPc, Others, Thread
  <2> QED
    BY <2>1, <2>2
<1>3. OnePlace'
  BY <1>1, <1>2 DEF PlaceInv, OnePlace
<1>4. NoScan'
  BY <1>0 DEF PlaceInv, NoScan, ClearQenab, RunDone, Goto, TypeOK
<1>5. \A q2 \in Queue \ {q} : q_flag'[q2] = q_flag[q2]
  BY <1>q DEF ClearQenab, RunDone, ClrFlags, TypeOK
<1>6. freed' = freed
  BY DEF ClearQenab, RunDone, rvars
<1>7. Runs(r, q)
  BY <1>q DEF Runs, RunPc, ClearQenab, RunDone
<1>8. Listed(q) = {} /\ Linking(q) = {}
  BY <1>7 DEF PlaceInv, OnePlace
<1>9. ASSUME Live(q), NEW s \in Runner, Runs(s, q)'
      PROVE  "QRUNNING" \in q_flag'[q]
  <2>1. s = r
    BY <1>2, <1>7, <1>9 DEF PlaceInv, OnePlace
  <2>2. CASE RunDone(r)
    BY <1>0, <1>q, <1>9, <2>1, <2>2 DEF Runs, RunPc, RunDone, Goto, TypeOK
  <2>3. CASE ClearQenab(r)
    BY <1>q, <1>7, <1>9, <2>3 DEF PlaceInv, PlaceFlagged, ClearQenab, ClrFlags
  <2> QED
    BY <2>2, <2>3
<1>10. PlaceFlagged'
  <2> SUFFICES ASSUME NEW q2 \in Queue, Live(q2)'
      PROVE /\ \A s \in Runner : Runs(s, q2)' => "QRUNNING" \in q_flag'[q2]
            /\ Listed(q2)' # {} \/ Linking(q2)' # {} =>
                  Has(q2, {"QENAB", "QCLOSING", "QPROCSOFF"})'
    BY DEF PlaceFlagged
  <2>1. CASE q2 = q
    BY <1>1, <1>6, <1>8, <1>9, <2>1 DEF Live
  <2>2. CASE q2 # q
    BY <1>1, <1>2, <1>5, <1>6, <2>2 DEF PlaceInv, PlaceFlagged, Live, Has
  <2> QED
    BY <2>1, <2>2
<1> QED
  BY <1>3, <1>4, <1>10 DEF PlaceInv

LEMMA PlaceRunner ==
    ASSUME AtomicFlags, TypeOK, Control, PlaceInv, NEW r \in Runner,
           RunnerStep(r)
    PROVE  PlaceInv'
<1>0. r \in Thread
  BY DEF Thread
<1>1. MainPop(r) => PlaceInv'
  BY PlaceMainPop
<1>2. ClearQenab(r) \/ RunDone(r) => PlaceInv'
  BY PlaceRunFlags
<1>3. QenableStep(r) => PlaceInv'
  BY <1>0, PlaceQenable
<1>4. ~ScanPop(r) /\ ~StoreRunning(r) /\ ~ScanClear(r) /\ ~ScanSend(r)
      /\ ~ScanDone(r)
  BY <1>0 DEF PlaceInv, NoScan, ScanPop, StoreRunning, ScanClear, ScanSend,
              ScanDone
<1>5. ASSUME StartRun(r) \/ ScanEmpty(r) \/ EnterService(r) \/ Drain(r)
             \/ ServiceReturn(r) \/ WakeUp(r) \/ LoopBottom(r) \/ RunEnd(r)
      PROVE  PlaceInv'
  <2> USE <1>0, <1>5 DEF StartRun, ScanEmpty, EnterService, Drain,
             ServiceReturn, WakeUp, LoopBottom, RunEnd, qvars, rvars, Goto
  <2>1. Others(r) /\ pc'[r] \notin ScanPc /\ pc'[r] # "link"
    BY DEF Others, ScanPc, TypeOK
  <2>2. \A q \in Queue : Runs(r, q)' => Runs(r, q)
    BY DEF Runs, RunPc, TypeOK
  <2>3. /\ lis_qhead' = lis_qhead /\ lis_scanqhead' = lis_scanqhead
        /\ q_flag' = q_flag /\ freed' = freed
    OBVIOUS
  <2> QED
    BY <2>1, <2>2, <2>3, PlaceFrame DEF Quiet
<1> QED
  BY <1>1, <1>2, <1>3, <1>4, <1>5 DEF RunnerStep

\* Linking an entry out of a list adds no entry and repeats none.
LEMMA UnlinkPlaces ==
    ASSUME NEW S, NEW s \in Seq(S), NEW e, NEW q
    PROVE  LET u == Unlink(s, e) IN
           /\ \A i \in DOMAIN u : u[i] = q => \E j \in DOMAIN s : s[j] = q
           /\ (\A i, j \in DOMAIN s : s[i] = q /\ s[j] = q => i = j)
                => (\A i, j \in DOMAIN u : u[i] = q /\ u[j] = q => i = j)
<1>1. CASE e \notin Range(s)
  BY <1>1 DEF Unlink
<1>2. CASE e \in Range(s)
  <2>1. PICK i \in DOMAIN s : s[i] = e
    BY <1>2 DEF Range
  <2> DEFINE k == At(s, e)
             u == Unlink(s, e)
  <2>2. k \in 1 .. Len(s) /\ Len(s) - 1 \in Nat
    BY <2>1 DEF At
  <2>3. u = [j \in 1 .. Len(s) - 1 |-> IF j < k THEN s[j] ELSE s[j + 1]]
    BY <1>2 DEF Unlink
  <2> HIDE DEF k, u
  <2>4. DOMAIN u = 1 .. Len(s) - 1 /\ DOMAIN s = 1 .. Len(s)
    BY <2>2, <2>3
  <2>5. \A j \in DOMAIN u : u[j] = IF j < k THEN s[j] ELSE s[j + 1]
    BY <2>3, <2>4
  <2>6. \A j \in DOMAIN u : u[j] = q => \E l \in DOMAIN s : s[l] = q
    BY <2>2, <2>4, <2>5
  <2>7. ASSUME \A l, m \in DOMAIN s : s[l] = q /\ s[m] = q => l = m,
               NEW l \in DOMAIN u, NEW m \in DOMAIN u, u[l] = q, u[m] = q
        PROVE  l = m
    <3>1. l \in Int /\ m \in Int /\ k \in Int
      BY <2>2, <2>4
    <3>2. l \in DOMAIN s /\ l + 1 \in DOMAIN s /\ m \in DOMAIN s
          /\ m + 1 \in DOMAIN s
      BY <2>2, <2>4
    <3>3. CASE l < k /\ m < k
      BY <2>5, <2>7, <3>2, <3>3
    <3>4. CASE ~(l < k) /\ ~(m < k)
      <4>1. s[l + 1] = q /\ s[m + 1] = q
        BY <2>5, <2>7, <3>4
      <4>2. l + 1 = m + 1
        BY <2>7, <3>2, <4>1
      <4> QED
        BY <3>1, <4>2
    <3>5. CASE l < k /\ ~(m < k)
      <4>1. s[l] = q /\ s[m + 1] = q
        BY <2>5, <2>7, <3>5
      <4>2. l = m + 1
        BY <2>7, <3>2, <4>1
      <4> QED
        BY <3>1, <3>5, <4>2
    <3>6. CASE ~(l < k) /\ m < k
      <4>1. s[l + 1] = q /\ s[m] = q
        BY <2>5, <2>7, <3>6
      <4>2. l + 1 = m
        BY <2>7, <3>2, <4>1
      <4> QED
        BY <3>1, <3>6, <4>2
    <3> QED
      BY <3>3, <3>4, <3>5, <3>6
  <2> QED
    BY <2>6, <2>7 DEF u
<1> QED
  BY <1>1, <1>2

\* deschedule takes queues off the run list and clears QENAB, but the pair
\* has been marked: lis_qenable gives it no place.
LEMMA PlaceDeschedule ==
    ASSUME TypeOK, PlaceInv, MarkedFirst, NEW c \in Closer, Deschedule(c)
    PROVE  PlaceInv'
<1>q. PICK p \in Pair : p = ArgPair
  BY TodoType DEF Deschedule, Doing
<1> DEFINE wq == <<p, "wq">>
           rq == <<p, "rq">>
<1>1. /\ lis_scanqhead = <<>>
      /\ pc' = pc /\ arg' = arg /\ cur' = cur /\ ret' = ret /\ freed' = freed
  BY DEF Deschedule, tvars, PlaceInv, NoScan
<1>2. lis_scanqhead' = <<>>
  <2>1. Unlink(<<>>, wq) = <<>>
    BY DEF Unlink, Range
  <2> QED
    BY <1>q, <1>1, <2>1 DEF Deschedule
<1>3. \/ lis_qhead' = lis_qhead
      \/ lis_qhead' = Unlink(Unlink(lis_qhead, wq), rq)
  BY <1>q DEF Deschedule
<1>4. \A q \in Queue :
        /\ Listed(q)' # {} => Listed(q) # {}
        /\ (\A i, j \in Listed(q) : i = j) => (\A i, j \in Listed(q)' : i = j)
  <2>1. CASE lis_qhead' = lis_qhead
    BY <2>1 DEF Listed
  <2>2. CASE lis_qhead' = Unlink(Unlink(lis_qhead, wq), rq)
    <3> TAKE q \in Queue
    <3> DEFINE m == Unlink(lis_qhead, wq)
               n == Unlink(m, rq)
    <3>1. lis_qhead \in Seq(Queue) /\ m \in Seq(Queue)
      BY UnlinkType DEF TypeOK
    <3>2. /\ \A i \in DOMAIN m : m[i] = q =>
                \E j \in DOMAIN lis_qhead : lis_qhead[j] = q
          /\ (\A i, j \in DOMAIN lis_qhead :
                 lis_qhead[i] = q /\ lis_qhead[j] = q => i = j)
             => (\A i, j \in DOMAIN m : m[i] = q /\ m[j] = q => i = j)
      BY <3>1, UnlinkPlaces
    <3> HIDE DEF m
    <3>3. /\ \A i \in DOMAIN n : n[i] = q => \E j \in DOMAIN m : m[j] = q
          /\ (\A i, j \in DOMAIN m : m[i] = q /\ m[j] = q => i = j)
             => (\A i, j \in DOMAIN n : n[i] = q /\ n[j] = q => i = j)
      BY <3>1, UnlinkPlaces
    <3>4. lis_qhead' = n
      BY <2>2 DEF m
    <3> HIDE DEF n
    <3> QED
      BY <3>2, <3>3, <3>4 DEF Listed
  <2> QED
    BY <1>3, <2>1, <2>2
<1>5. \A q \in Queue : Linking(q)' = Linking(q)
  BY <1>1 DEF Linking
<1>6. \A q \in Queue : \A r \in Runner : Runs(r, q)' = Runs(r, q)
  BY <1>1 DEF Runs
<1>7. OnePlace'
  BY <1>4, <1>5, <1>6 DEF PlaceInv, OnePlace
<1>8. NoScan'
  BY <1>1, <1>2 DEF PlaceInv, NoScan
<1>9. \/ p \in freed
      \/ \A q \in Both(p) : Has(q, {"QCLOSING", "QPROCSOFF"})
  <2>1. 1 \in DOMAIN todo /\ todo[1] = Head(todo)
    BY DEF Deschedule, Doing, TypeOK
  <2> QED
    BY <1>q, <2>1 DEF MarkedFirst, Deschedule, Doing, ArgPair
<1>10. q_flag' = [q \in Queue |->
                    IF q = wq THEN q_flag[q] \ {"QSCAN", "QENAB"}
                    ELSE IF q = rq THEN q_flag[q] \ {"QENAB"}
                    ELSE q_flag[q]]
  BY <1>q DEF Deschedule
<1>11. PlaceFlagged'
  <2> SUFFICES ASSUME NEW q \in Queue, Live(q)'
      PROVE /\ \A r \in Runner : Runs(r, q)' => "QRUNNING" \in q_flag'[q]
            /\ Listed(q)' # {} \/ Linking(q)' # {} =>
                  Has(q, {"QENAB", "QCLOSING", "QPROCSOFF"})'
    BY DEF PlaceFlagged
  <2>1. Live(q)
    BY <1>1 DEF Live
  <2>2. \A r \in Runner : Runs(r, q)' => "QRUNNING" \in q_flag'[q]
    BY <1>6, <1>10, <2>1 DEF PlaceInv, PlaceFlagged
  <2>3. CASE q \in Both(p)
    <3>1. Has(q, {"QCLOSING", "QPROCSOFF"})
      BY <1>9, <2>1, <2>3 DEF Both, Live
    <3> QED
      BY <1>10, <2>2, <3>1 DEF Has
  <2>4. CASE q \notin Both(p)
    <3>1. q_flag'[q] = q_flag[q]
      BY <1>10, <2>4 DEF Both
    <3> QED
      BY <1>4, <1>5, <2>1, <2>2, <3>1 DEF PlaceInv, PlaceFlagged, Has
  <2> QED
    BY <2>3, <2>4
<1> QED
  BY <1>7, <1>8, <1>11 DEF PlaceInv

LEMMA PlaceCloser ==
    ASSUME TypeOK, Control, PlaceInv, MarkedFirst, NEW c \in Closer,
           CloserStep(c)
    PROVE  PlaceInv'
<1>0. c \in Thread /\ c \notin Runner
  BY ThreadAssumption DEF ThreadAssumption, Thread
<1>1. CASE Deschedule(c)
  BY <1>1, PlaceDeschedule
<1>2. CASE QenableStep(c)
  BY <1>0, <1>2, PlaceQenable
<1>3. ASSUME Freeze(c) \/ Unfreeze(c) \/ MarkClosing(c) \/ ProcsOff(c)
             \/ QiQclose(c) \/ AwaitQsched(c) \/ AwaitDown(c) \/ FreeQ(c)
      PROVE  PlaceInv'
  <2> USE <1>0 DEF Freeze, Unfreeze, MarkClosing, ProcsOff, QiQclose,
                   AwaitQsched, AwaitDown, FreeQ, qvars, tvars, Goto
  <2>1. Others(c)
    BY <1>3 DEF Others, TypeOK
  <2>2. pc'[c] \notin ScanPc /\ pc'[c] # "link"
    BY <1>3 DEF TypeOK, Doing, ScanPc
  <2>3. lis_qhead' = lis_qhead /\ lis_scanqhead' = lis_scanqhead
    BY <1>3
  <2>4. freed \subseteq freed'
    BY <1>3
  <2>5. \A q \in Queue : q[1] \notin freed' =>
            \A f \in Guards : f \in q_flag[q] => f \in q_flag'[q]
    <3>1. \A q \in Queue : q = <<q[1], "rq">> \/ q = <<q[1], "wq">>
      BY DEF Queue, Side
    <3>2. CASE Freeze(c) \/ MarkClosing(c) \/ ProcsOff(c) \/ QiQclose(c)
               \/ AwaitQsched(c)
      BY <3>2 DEF TypeOK, SetFlags
    <3>3. CASE Unfreeze(c) \/ AwaitDown(c)
      <4>1. \E Q : \E f \in {"QFROZEN", "QWAITING"} :
               q_flag' = ClrFlags(Q, {f}) \/ q_flag' = q_flag
        BY <3>3
      <4> QED
        BY <4>1 DEF TypeOK, ClrFlags, Guards
    <3>4. CASE FreeQ(c)
      <4>1. \A q \in Queue : q[1] # ArgPair => q \notin Both(ArgPair)
        BY <3>1 DEF Both
      <4> QED
        BY <3>4, <4>1 DEF TypeOK, ClrFlags
    <3> QED
      BY <1>3, <3>2, <3>3, <3>4
  <2> QED
    BY <2>1, <2>2, <2>3, <2>4, <2>5, PlaceFrame DEF Quiet
<1> QED
  BY <1>1, <1>2, <1>3 DEF CloserStep

\* QCLOSING and QPROCSOFF go away only with the queue.
Stays == /\ freed \subseteq freed'
         /\ \A q \in Queue : q[1] \notin freed' =>
               \A f \in {"QCLOSING", "QPROCSOFF"} :
                   f \in q_flag[q] => f \in q_flag'[q]

LEMMA StaysQenable ==
    ASSUME TypeOK, NEW t \in Thread, QenableStep(t)
    PROVE  Stays /\ todo' = todo
<1>1. CASE Qenable(t)
  BY <1>1 DEF Stays, Qenable, rvars, TypeOK, SetFlags
<1>2. CASE QenableLink(t)
  BY <1>2 DEF Stays, QenableLink
<1>3. CASE RetryQenable(t)
  BY <1>3 DEF Stays, RetryQenable, rvars, TypeOK, ClrFlags
<1> QED
  BY <1>1, <1>2, <1>3 DEF QenableStep

LEMMA StaysRunner ==
    ASSUME AtomicFlags, TypeOK, PlaceInv, NEW r \in Runner, RunnerStep(r)
    PROVE  Stays /\ todo' = todo
<1>0. r \in Thread
  BY DEF Thread
<1>1. CASE StartRun(r) \/ ScanEmpty(r) \/ EnterService(r) \/ Drain(r)
           \/ ServiceReturn(r) \/ WakeUp(r) \/ LoopBottom(r) \/ RunEnd(r)
  BY <1>1 DEF Stays, StartRun, ScanEmpty, EnterService, Drain, ServiceReturn,
              WakeUp, LoopBottom, RunEnd, qvars, rvars
<1>2. CASE QenableStep(r)
  BY <1>0, <1>2, StaysQenable
<1>3. CASE MainPop(r)
  BY <1>3 DEF Stays, MainPop, SetRunning, SetFlags, rvars, TypeOK
<1>4. CASE ClearQenab(r) \/ RunDone(r)
  <2>1. \A q \in Queue, f \in {"QCLOSING", "QPROCSOFF"} :
            f \in q_flag[q] => f \in q_flag'[q]
    BY <1>4 DEF ClearQenab, RunDone, ClrFlags, TypeOK
  <2> QED
    BY <1>4, <2>1 DEF Stays, ClearQenab, RunDone, rvars
<1>5. ~ScanPop(r) /\ ~StoreRunning(r) /\ ~ScanClear(r) /\ ~ScanSend(r)
      /\ ~ScanDone(r)
  BY <1>0 DEF PlaceInv, NoScan, ScanPop, StoreRunning, ScanClear, ScanSend,
              ScanDone
<1> QED
  BY <1>1, <1>2, <1>3, <1>4, <1>5 DEF RunnerStep

LEMMA StaysCloser ==
    ASSUME TypeOK, Control, NEW c \in Closer, CloserStep(c)
    PROVE  /\ Stays
           /\ \/ todo' = todo
              \/ /\ todo # <<>> /\ todo' = Tail(todo)
                 /\ \A p \in Pair : Marks(Head(todo), p) =>
                       \A q \in Both(p) : Has(q, {"QCLOSING", "QPROCSOFF"})'
<1>0. c \in Thread
  BY DEF Thread
<1>1. \A q \in Queue : q[1] # ArgPair => q \notin Both(ArgPair)
  BY DEF Both, Queue, Side
<1>2. \A p \in Pair : Both(p) \subseteq Queue
  BY DEF Both, Queue, Side
<1>3. CASE QenableStep(c)
  BY <1>0, <1>3, StaysQenable
<1>4. CASE MarkClosing(c) \/ ProcsOff(c)
  <2>1. /\ todo # <<>> /\ todo' = Tail(todo) /\ freed' = freed
        /\ \/ q_flag' = SetFlags(Both(ArgPair), {"QCLOSING"})
           \/ q_flag' = SetFlags(Both(ArgPair), {"QPROCSOFF"})
    BY <1>4 DEF MarkClosing, ProcsOff, Doing, DoneStep
  <2>2. \A q \in Queue : q_flag[q] \subseteq q_flag'[q]
    BY <2>1 DEF SetFlags, TypeOK
  <2>3. \A p \in Pair : Marks(Head(todo), p) =>
            \A q \in Both(p) : Has(q, {"QCLOSING", "QPROCSOFF"})'
    <3> SUFFICES ASSUME NEW p \in Pair, Marks(Head(todo), p), NEW q \in Both(p)
                 PROVE  q_flag'[q] \cap {"QCLOSING", "QPROCSOFF"} # {}
      BY DEF Has
    <3>1. p = ArgPair /\ q \in Queue
      BY <1>2 DEF Marks, ArgPair
    <3> QED
      BY <2>1, <3>1 DEF SetFlags, TypeOK
  <2> QED
    BY <2>1, <2>2, <2>3 DEF Stays
<1>5. ASSUME Freeze(c) \/ Unfreeze(c) \/ QiQclose(c) \/ AwaitQsched(c)
             \/ AwaitDown(c) \/ Deschedule(c) \/ FreeQ(c)
      PROVE  /\ Stays
             /\ \/ todo' = todo
                \/ /\ todo # <<>> /\ todo' = Tail(todo)
                   /\ Head(todo).op \notin {"mark_closing", "procsoff"}
  <2>1. CASE Freeze(c) \/ QiQclose(c)
    BY <2>1 DEF Freeze, QiQclose, Stays, SetFlags, TypeOK, Doing, DoneStep,
                qvars
  <2>2. CASE Unfreeze(c)
    <3>1. /\ freed' = freed /\ todo # <<>> /\ todo' = Tail(todo)
          /\ Head(todo).op \notin {"mark_closing", "procsoff"}
      BY <2>2 DEF Unfreeze, Doing, DoneStep
    <3>2. \A q \in Queue, f \in {"QCLOSING", "QPROCSOFF"} :
              f \in q_flag[q] => f \in q_flag'[q]
      <4>1. \E Q : q_flag' = ClrFlags(Q, {"QFROZEN"}) \/ q_flag' = q_flag
        BY <2>2 DEF Unfreeze
      <4> QED
        BY <4>1 DEF ClrFlags, TypeOK
    <3> QED
      BY <3>1, <3>2 DEF Stays
  <2>3. CASE AwaitQsched(c)
    <3>1. Stays
      BY <2>3 DEF AwaitQsched, Stays, SetFlags, TypeOK
    <3> QED
      BY <2>3, <3>1 DEF AwaitQsched, Doing, DoneStep
  <2>4. CASE AwaitDown(c)
    <3>1. q_flag' = ClrFlags(Both(ArgPair), {"QWAITING"}) \/ q_flag' = q_flag
      BY <2>4 DEF AwaitDown
    <3>2. Stays
      BY <2>4, <3>1 DEF AwaitDown, Stays, ClrFlags, TypeOK
    <3> QED
      BY <2>4, <3>2 DEF AwaitDown, Control, DoneStep
  <2>5. CASE Deschedule(c)
    BY <2>5 DEF Deschedule, Stays, TypeOK, Doing, DoneStep
  <2>6. CASE FreeQ(c)
    BY <1>1, <2>6 DEF FreeQ, Stays, ClrFlags, TypeOK, Doing, DoneStep
  <2> QED
    BY <1>5, <2>1, <2>2, <2>3, <2>4, <2>5, <2>6
<1> QED
  BY <1>3, <1>4, <1>5 DEF CloserStep, Marks

\* Every step of a program names a pair of the stream.
LEMMA StepPair ==
    ASSUME NEW s \in Seq(Step)
    PROVE  \A i \in DOMAIN s : s[i].q[1] \in Pair
<1> TAKE i \in DOMAIN s
<1>1. s[i] \in Step
  OBVIOUS
<1>2. s[i].q \in Queue
  BY <1>1 DEF Step
<1> QED
  BY <1>2 DEF Queue

\* A step of the program is performed only when it is the first of the rest:
\* the mark that precedes a deschedule is still to come, or is made.
LEMMA MarkedFirstStep ==
    ASSUME TypeOK, TypeOK', MarkedFirst, Stays,
           \/ todo' = todo
           \/ /\ todo # <<>> /\ todo' = Tail(todo)
              /\ \A p \in Pair : Marks(Head(todo), p) =>
                    \A q \in Both(p) : Has(q, {"QCLOSING", "QPROCSOFF"})'
    PROVE  MarkedFirst'
<1> DEFINE Safe(p) == \/ p \in freed
                      \/ \A q \in Both(p) : Has(q, {"QCLOSING", "QPROCSOFF"})
<1>1. \A i \in DOMAIN todo : todo[i].q[1] \in Pair
  BY StepPair DEF TypeOK
<1>2. \A p \in Pair : Safe(p) => Safe(p)'
  <2> TAKE p \in Pair
  <2>1. \A q \in Both(p) : q \in Queue /\ q[1] = p
    BY DEF Both, Queue, Side
  <2> QED
    BY <2>1 DEF Stays, Has
<1>3. \A p \in Pair : \A i \in DOMAIN todo :
         todo[i].op = "deschedule" /\ todo[i].q[1] = p =>
            Safe(p) \/ \E j \in 1 .. i - 1 : Marks(todo[j], p)
  BY <1>1 DEF MarkedFirst
<1>4. SUFFICES ASSUME NEW p \in Pair, NEW i \in DOMAIN todo',
                      todo'[i].op = "deschedule", todo'[i].q[1] = p
               PROVE  Safe(p)' \/ \E j \in 1 .. i - 1 : Marks(todo'[j], p)
  <2>1. todo' \in Seq(Step)
    BY DEF TypeOK
  <2>2. \A i \in DOMAIN todo' : todo'[i].q[1] \in Pair
    BY <2>1, StepPair
  <2>3. ASSUME \A p \in Pair : \A i \in DOMAIN todo' :
                  todo'[i].op = "deschedule" /\ todo'[i].q[1] = p =>
                     Safe(p)' \/ \E j \in 1 .. i - 1 : Marks(todo'[j], p)
        PROVE  MarkedFirst'
    BY <2>2, <2>3 DEF MarkedFirst
  <2> HIDE DEF Safe
  <2> QED
    BY <2>3
<1> HIDE DEF Safe
<1>5. CASE todo' = todo
  BY <1>2, <1>3, <1>4, <1>5
<1>6. ASSUME todo # <<>>, todo' = Tail(todo),
             \A r \in Pair : Marks(Head(todo), r) =>
                \A q \in Both(r) : Has(q, {"QCLOSING", "QPROCSOFF"})'
      PROVE  Safe(p)' \/ \E j \in 1 .. i - 1 : Marks(todo'[j], p)
  <2>1. todo \in Seq(Step)
    BY DEF TypeOK
  <2>2. /\ DOMAIN todo = 1 .. Len(todo) /\ i \in 1 .. Len(todo) - 1
        /\ Head(todo) = todo[1] /\ i + 1 \in DOMAIN todo
        /\ \A j \in 1 .. Len(todo) - 1 : todo'[j] = todo[j + 1]
    BY <1>6, <2>1
  <2>3. todo[i + 1].op = "deschedule" /\ todo[i + 1].q[1] = p
    BY <1>4, <2>2
  <2>4. Safe(p) \/ \E j \in 1 .. i : Marks(todo[j], p)
    <3>1. (i + 1) - 1 = i
      BY <2>2
    <3> QED
      BY <1>3, <2>2, <2>3, <3>1
  <2>5. ASSUME NEW j \in 1 .. i, Marks(todo[j], p)
        PROVE  Safe(p)' \/ \E k \in 1 .. i - 1 : Marks(todo'[k], p)
    <3>1. CASE j = 1
      BY <1>6, <2>2, <2>5, <3>1 DEF Safe
    <3>2. CASE j # 1
      <4>1. j - 1 \in 1 .. i - 1 /\ j - 1 \in 1 .. Len(todo) - 1
            /\ (j - 1) + 1 = j
        BY <2>2, <3>2
      <4>2. todo'[j - 1] = todo[j]
        BY <2>2, <4>1
      <4> QED
        BY <2>5, <4>1, <4>2
    <3> QED
      BY <3>1, <3>2
  <2> QED
    BY <1>2, <2>4, <2>5
<1> QED
  BY <1>5, <1>6

LEMMA ServiceInit == Init => ServiceInv
<1> SUFFICES ASSUME Init PROVE ServiceInv
  OBVIOUS
<1>1. NoScan
  BY DEF Init, NoScan
<1>2. \A q \in Queue : /\ Listed(q) = {} /\ Linking(q) = {}
                       /\ \A r \in Runner : ~Runs(r, q)
  BY DEF Init, Listed, Linking, Runs, RunPc, Thread
<1>3. OnePlace /\ PlaceFlagged
  BY <1>2 DEF OnePlace, PlaceFlagged
<1>4. MarkedFirst
  BY ProgramAssumption DEF ProgramAssumption, Init, MarkedFirst
<1> QED
  BY <1>1, <1>3, <1>4 DEF ServiceInv, PlaceInv

LEMMA ServiceNext ==
    ASSUME AtomicFlags, Timer = {}, TypeOK, TypeOK', Control, ServiceInv, [Next]_vars
    PROVE  ServiceInv'
<1> USE DEF ServiceInv
<1>0. ASSUME NEW t \in Caller \cup Runner, NEW q \in Queue,
             CallQenable(t, q) \/ (t \in Runner /\ ServiceCallsQenable(t, q))
      PROVE  ServiceInv'
  <2>1. t \in Thread
    BY DEF Thread
  <2> USE <2>1 DEF CallQenable, ServiceCallsQenable, rvars, Goto
  <2>2. Others(t) /\ pc'[t] = "enable"
    BY <1>0 DEF Others, TypeOK
  <2>3. \A q2 \in Queue : t \in Runner /\ Runs(t, q2)' => Runs(t, q2)
    BY <1>0, ThreadAssumption DEF ThreadAssumption, Runs, RunPc, TypeOK
  <2>4. /\ lis_qhead' = lis_qhead /\ lis_scanqhead' = lis_scanqhead
        /\ q_flag' = q_flag /\ freed' = freed /\ todo' = todo
    BY <1>0
  <2>5. Quiet(t) /\ Stays
    BY <2>2, <2>3, <2>4 DEF Quiet, ScanPc, Stays
  <2> QED
    BY <2>4, <2>5, PlaceFrame, MarkedFirstStep
<1>1. ASSUME NEW t \in Caller, QenableStep(t) PROVE ServiceInv'
  BY <1>1, PlaceQenable, StaysQenable, MarkedFirstStep DEF Thread
<1>2. ASSUME NEW r \in Runner, RunnerStep(r) PROVE ServiceInv'
  BY <1>2, PlaceRunner, StaysRunner, MarkedFirstStep
<1>3. ASSUME NEW c \in Closer, CloserStep(c) PROVE ServiceInv'
  BY <1>3, PlaceCloser, StaysCloser, MarkedFirstStep
<1>4. CASE UNCHANGED vars
  BY <1>4 DEF vars, qvars, rvars, tvars, PlaceInv, NoScan, OnePlace, Listed,
              Linking, Runs, PlaceFlagged, Live, Has, MarkedFirst
<1>5. CASE Gone
  BY <1>4, <1>5 DEF Gone
<1> QED
  BY <1>0, <1>1, <1>2, <1>3, <1>4, <1>5 DEF Next, CallerStep

\* No two queue runners are ever inside the same queue, whatever the number of
\* CPUs, contexts and queues, the layout of the queue locks and the plumbing
\* under way, as long as the flag updates of queuerun are indivisible and no
\* write is held: queuerun's promise to service procedures, which run under a
\* lock that lis_set_q_sync may turn off.
THEOREM OneRunner ==
    ASSUME AtomicFlags, Timer = {}
    PROVE  Spec => []OneRunnerPerQueue
<1>1. Init => TypeOK /\ Control /\ ServiceInv
  BY TypeInit, ControlInit, ServiceInit
<1>2. TypeOK /\ Control /\ ServiceInv /\ [Next]_vars
         => (TypeOK /\ Control /\ ServiceInv)'
  BY TypeNext, ControlNext, ServiceNext
<1>3. ServiceInv => OneRunnerPerQueue
  BY DEF ServiceInv, PlaceInv, OnePlace, OneRunnerPerQueue
<1> QED
  BY <1>1, <1>2, <1>3, PTL DEF Spec

-----------------------------------------------------------------------------
(* A module that is popped is out of the way                               *)

\* What a step does to the places of a queue ...
PlaceMoves(q) ==
    /\ Listed(q)' # {} => Listed(q) # {} \/ Linking(q) # {}
    /\ Linking(q)' # {} =>
          \/ Linking(q) # {}
          \/ Live(q) /\ ~Has(q, Q_INH_ENABLE) /\ "QENAB" \in q_flag'[q]
    /\ \A r \in Runner : Runs(r, q)' => Runs(r, q) \/ Listed(q) # {}

\* ... to its flags ...
Performs(ops, p) == todo # <<>> /\ todo' # todo /\ Head(todo).op \in ops /\ ArgPair = p
FlagMoves(q) ==
    /\ "QENAB" \in q_flag[q] =>
          \/ "QENAB" \in q_flag'[q]
          \/ Listed(q)' = {} /\ Linking(q)' = {}
          \/ Performs({"deschedule", "free"}, q[1])
    /\ "QPROCSOFF" \in q_flag'[q] =>
          "QPROCSOFF" \in q_flag[q] \/ Performs({"procsoff"}, q[1])
    /\ "QPROCSOFF" \in q_flag[q] => "QPROCSOFF" \in q_flag'[q] \/ q[1] \in freed'
    /\ "QFROZEN" \in q_flag[q] =>
          \/ "QFROZEN" \in q_flag'[q] \/ q[1] \in freed'
          \/ todo' # todo /\ todo # <<>> /\ Head(todo) = [op |-> "unfreeze", q |-> q]

\* ... to a thread that comes to lis_qenable ...
Enters(t) ==
    pc'[t] = "enable" =>
        \/ pc[t] = "enable" /\ arg'[t] = arg[t]
        \/ /\ arg'[t] \in Queue /\ Live(arg'[t])
           /\ \/ Quiesces => arg'[t][1] \notin qclosed
              \/ ~Has(arg'[t], Q_INH_ENABLE)

Moves == /\ \A q \in Queue : PlaceMoves(q) /\ FlagMoves(q)
         /\ \A t \in Thread : Enters(t)

\* ... and to the program.
Advances ==
    LET p == ArgPair
        op == Head(todo).op IN
    /\ todo # <<>> /\ todo' = Tail(todo)
    /\ freed' = IF op = "free" THEN freed \cup {p} ELSE freed
    /\ qclosed' = IF op = "qi_qclose" THEN qclosed \cup {p} ELSE qclosed
    /\ op = "freeze" /\ Live(Arg) => "QFROZEN" \in q_flag'[Arg]
    /\ op = "procsoff" => \A q \in Both(p) : "QPROCSOFF" \in q_flag'[q]
    /\ op = "qi_qclose" /\ Quiesces => \A t \in Thread : pc'[t] = "enable" => arg'[t][1] # p
    /\ op = "await" => ~Busy(p)
Stands == UNCHANGED <<todo, freed, qclosed>>

LEMMA PairQueues == \A p \in Pair : \A q \in Both(p) : q \in Queue /\ q[1] = p
BY DEF Both, Queue, Side

LEMMA QueuePair == \A q \in Queue : q[1] \in Pair /\ q \in Both(q[1])
BY DEF Both, Queue, Side

\* A step of one thread that leaves the run list alone and does not come to link a
\* queue, and clears none of the flags.
LEMMA MovesFrame ==
    ASSUME TypeOK, TypeOK', NEW t \in Thread, Others(t),
           lis_qhead' = lis_qhead, Enters(t),
           pc'[t] = "link" => pc[t] = "link" /\ arg'[t] = arg[t],
           t \in Runner => \A q \in Queue : Runs(t, q)' => Runs(t, q),
           \A q \in Queue : FlagMoves(q)
    PROVE  Moves
<1>1. \A q \in Queue : Listed(q)' = Listed(q)
  BY DEF Listed
<1>2. \A q \in Queue : Linking(q)' \subseteq Linking(q)
  BY DEF Linking, Others
<1>3. \A q \in Queue : \A r \in Runner : Runs(r, q)' => Runs(r, q)
  BY DEF Others, Runs, Thread
<1>4. \A q \in Queue : PlaceMoves(q)
  BY <1>1, <1>2, <1>3 DEF PlaceMoves
<1>5. \A u \in Thread : Enters(u)
  BY DEF Enters, Others
<1> QED
  BY <1>4, <1>5 DEF Moves

\* Flags that a step keeps, or does not touch.
LEMMA FlagsKept ==
    ASSUME NEW q \in Queue,
           "QENAB" \in q_flag[q] => "QENAB" \in q_flag'[q],
           "QPROCSOFF" \in q_flag[q] <=> "QPROCSOFF" \in q_flag'[q],
           "QFROZEN" \in q_flag[q] => "QFROZEN" \in q_flag'[q]
    PROVE  FlagMoves(q)
BY DEF FlagMoves

LEMMA MovesCall ==
    ASSUME TypeOK, TypeOK', Control, NEW t \in Thread, NEW q \in Queue,
           CallQenable(t, q) \/ ServiceCallsQenable(t, q)
    PROVE  Moves /\ Stands
<1> USE DEF CallQenable, ServiceCallsQenable, rvars, Goto
<1>1. Others(t) /\ pc'[t] = "enable" /\ arg'[t] = q
  BY DEF Others, TypeOK
<1>2. Enters(t)
  BY <1>1 DEF Enters, Callable
<1>3. t \in Runner => \A q2 \in Queue : Runs(t, q2)' => Runs(t, q2)
  BY ThreadAssumption DEF ThreadAssumption, Runs, RunPc, TypeOK
<1>4. \A q2 \in Queue : FlagMoves(q2)
  BY FlagsKept
<1>5. lis_qhead' = lis_qhead
  OBVIOUS
<1>6. Moves
  BY <1>1, <1>2, <1>3, <1>4, <1>5, MovesFrame
<1> QED
  BY <1>6 DEF Stands

LEMMA MovesQenable ==
    ASSUME TypeOK, TypeOK', Control, NEW t \in Thread, QenableStep(t)
    PROVE  Moves /\ Stands
<1> DEFINE q == arg[t]
<1> USE DEF Goto, rvars
<1>0. pc[t] \in {"enable", "link", "retry"} =>
         q \in Queue /\ ret[t] \in {"idle", "srvp", "bottom"}
  BY DEF Control, ControlOf
<1>s. Stands
  BY DEF QenableStep, Qenable, QenableLink, RetryQenable, Stands
<1>o. Others(t)
  BY ControlQenable
<1>1. CASE Qenable(t) /\ pc'[t] = "link"
  <2>1. /\ q \in Queue /\ Live(q) /\ ~Has(q, Q_INH_ENABLE)
        /\ q_flag' = SetFlags({q}, {"QENAB"})
        /\ pc' = [pc EXCEPT ![t] = "link"] /\ pc[t] = "enable"
        /\ UNCHANGED <<lis_qhead, arg, cur, ret>>
    BY <1>0, <1>1 DEF Qenable, TypeOK
  <2>2. \A q2 \in Queue : q2 # q => Linking(q2)' \subseteq Linking(q2)
    BY <2>1 DEF Linking, TypeOK
  <2>3. \A q2 \in Queue : \A r \in Runner : Runs(r, q2)' => Runs(r, q2)
    BY <2>1 DEF Runs, RunPc, TypeOK, Thread
  <2>4. \A q2 \in Queue : Listed(q2)' = Listed(q2)
    BY <2>1 DEF Listed
  <2>5. "QENAB" \in q_flag'[q]
    BY <2>1 DEF SetFlags
  <2>6. \A q2 \in Queue : PlaceMoves(q2)
    BY <2>1, <2>2, <2>3, <2>4, <2>5 DEF PlaceMoves
  <2>7. \A q2 \in Queue : FlagMoves(q2)
    BY <2>1, FlagsKept DEF SetFlags, TypeOK
  <2>8. \A u \in Thread : Enters(u)
    BY <2>1 DEF Enters, TypeOK
  <2> QED
    BY <1>s, <2>6, <2>7, <2>8 DEF Moves
<1>2. CASE Qenable(t) /\ pc'[t] # "link"
  <2>1. t \in Runner => \A q2 \in Queue : Runs(t, q2)' => Runs(t, q2)
    BY <1>0, <1>2 DEF Qenable, Runs, RunPc, TypeOK
  <2>2. \A q2 \in Queue : FlagMoves(q2)
    <3>1. q_flag' = q_flag \/ q_flag' = SetFlags({q}, {"QWANTENAB"})
      BY <1>2 DEF Qenable, TypeOK
    <3>2. \A q2 \in Queue : q_flag'[q2] \in {q_flag[q2], q_flag[q2] \cup {"QWANTENAB"}}
      BY <3>1 DEF SetFlags, TypeOK
    <3> QED
      BY <3>2, FlagsKept
  <2>3. Enters(t)
    BY <1>0, <1>2 DEF Enters, Qenable, TypeOK
  <2>4. lis_qhead' = lis_qhead
    BY <1>2 DEF Qenable
  <2> QED
    BY <1>2, <1>o, <1>s, <2>1, <2>2, <2>3, <2>4, MovesFrame
<1>3. CASE RetryQenable(t)
  <2>1. t \in Runner => \A q2 \in Queue : Runs(t, q2)' => Runs(t, q2)
    BY <1>0, <1>3 DEF RetryQenable, Runs, RunPc, TypeOK, Control, ControlOf
  <2>2. \A q2 \in Queue : FlagMoves(q2)
    <3>1. q_flag' = q_flag \/ q_flag' = ClrFlags({q}, {"QWANTENAB"})
      BY <1>3 DEF RetryQenable, TypeOK
    <3>2. \A q2 \in Queue : q_flag'[q2] \in {q_flag[q2], q_flag[q2] \ {"QWANTENAB"}}
      BY <3>1 DEF ClrFlags, TypeOK
    <3> QED
      BY <3>2, FlagsKept
  <2>3. Enters(t)
    BY <1>0, <1>3 DEF Enters, RetryQenable, TypeOK
  <2>4. lis_qhead' = lis_qhead /\ pc'[t] # "link"
    BY <1>0, <1>3 DEF RetryQenable, TypeOK
  <2> QED
    BY <1>o, <1>s, <2>1, <2>2, <2>3, <2>4, MovesFrame
<1>4. CASE QenableLink(t)
  <2>1. /\ q \in Queue /\ t \in Linking(q)
        /\ pc' = [pc EXCEPT ![t] = ret[t]] /\ pc[t] = "link"
        /\ ret[t] \in {"idle", "srvp", "bottom"}
        /\ lis_qhead' = Append(lis_qhead, q)
        /\ UNCHANGED <<q_flag, arg, cur, ret>>
    BY <1>0, <1>4 DEF QenableLink, TypeOK, Linking
  <2>2. \A q2 \in Queue : Linking(q2)' \subseteq Linking(q2)
    BY <2>1 DEF Linking, TypeOK
  <2>3. \A q2 \in Queue : \A r \in Runner : Runs(r, q2)' => Runs(r, q2)
    BY <2>1 DEF Runs, RunPc, TypeOK, Thread
  <2>4. \A q2 \in Queue : q2 # q => Listed(q2)' \subseteq Listed(q2)
    <3>1. lis_qhead \in Seq(Queue)
      BY DEF TypeOK
    <3> QED
      BY <2>1, <3>1 DEF Listed
  <2>5. \A q2 \in Queue : PlaceMoves(q2)
    BY <2>1, <2>2, <2>3, <2>4 DEF PlaceMoves
  <2>6. \A q2 \in Queue : FlagMoves(q2)
    BY <2>1, FlagsKept
  <2>7. \A u \in Thread : Enters(u)
    BY <2>1 DEF Enters, TypeOK
  <2> QED
    BY <1>s, <2>5, <2>6, <2>7 DEF Moves
<1> QED
  BY <1>1, <1>2, <1>3, <1>4 DEF QenableStep

LEMMA MovesRunner ==
    ASSUME AtomicFlags, TypeOK, TypeOK', Control, PlaceInv, NEW r \in Runner,
           RunnerStep(r)
    PROVE  Moves /\ Stands
<1>0. r \in Thread /\ Others(r)
  BY ControlRunner DEF Thread
<1>1. CASE QenableStep(r)
  BY <1>0, <1>1, MovesQenable
<1>2. ~ScanPop(r) /\ ~StoreRunning(r) /\ ~ScanClear(r) /\ ~ScanSend(r)
      /\ ~ScanDone(r)
  BY <1>0 DEF PlaceInv, NoScan, ScanPop, StoreRunning, ScanClear, ScanSend,
              ScanDone
<1>3. CASE StartRun(r) \/ ScanEmpty(r) \/ EnterService(r) \/ Drain(r)
           \/ ServiceReturn(r) \/ WakeUp(r) \/ LoopBottom(r) \/ RunEnd(r)
  <2> USE <1>0, <1>3 DEF StartRun, ScanEmpty, EnterService, Drain, ServiceReturn,
                         WakeUp, LoopBottom, RunEnd, qvars, rvars, Goto
  <2>1. lis_qhead' = lis_qhead /\ q_flag' = q_flag /\ Stands
    BY DEF Stands
  <2>2. pc'[r] \notin {"link", "enable"}
    BY DEF TypeOK
  <2>3. \A q \in Queue : Runs(r, q)' => Runs(r, q)
    BY DEF Runs, RunPc, TypeOK
  <2>4. \A q \in Queue : FlagMoves(q)
    BY <2>1, FlagsKept
  <2>5. Enters(r)
    BY <2>2 DEF Enters
  <2> QED
    BY <2>1, <2>2, <2>3, <2>4, <2>5, MovesFrame
<1>4. CASE RunDone(r)
  <2> USE <1>0, <1>4 DEF RunDone, rvars, Goto
  <2>1. lis_qhead' = lis_qhead /\ Stands
    BY DEF Stands
  <2>2. pc'[r] \in {"wakeup", "retry", "bottom"}
    BY DEF TypeOK
  <2>3. \A q \in Queue : ~Runs(r, q)'
    BY <2>2 DEF Runs, RunPc
  <2>4. \A q \in Queue : FlagMoves(q)
    BY FlagsKept DEF ClrFlags, TypeOK
  <2>5. Enters(r)
    BY <2>2 DEF Enters
  <2> QED
    BY <2>1, <2>2, <2>3, <2>4, <2>5, MovesFrame
<1>5. CASE ClearQenab(r)
  <2> USE <1>0, <1>5 DEF ClearQenab, rvars, Goto
  <2>q. PICK q \in Queue : q = cur[r]
    BY DEF Control, ControlOf, RunPc
  <2>1. lis_qhead' = lis_qhead /\ Stands
    BY DEF Stands
  <2>2. pc'[r] = "lockq"
    BY DEF TypeOK
  <2>3. \A q2 \in Queue : Runs(r, q2)' => Runs(r, q2)
    BY DEF Runs, RunPc
  <2>4. Listed(q) = {} /\ Linking(q) = {}
    <3>1. Runs(r, q)
      BY <2>q DEF Runs, RunPc
    <3> QED
      BY <3>1 DEF PlaceInv, OnePlace
  <2>5. Listed(q)' = {} /\ Linking(q)' = {}
    BY <2>1, <2>2, <2>4 DEF Listed, Linking, Others
  <2>6. \A q2 \in Queue : FlagMoves(q2)
    <3>1. \A q2 \in Queue : /\ q2 # q => q_flag'[q2] = q_flag[q2]
                            /\ q_flag'[q2] = q_flag[q2] \/ q_flag'[q2] = q_flag[q2] \ {"QENAB"}
      BY <2>q DEF ClrFlags, TypeOK
    <3>2. \A q2 \in Queue : q2 # q => FlagMoves(q2)
      BY <3>1, FlagsKept
    <3>3. FlagMoves(q)
      BY <2>5, <3>1 DEF FlagMoves
    <3> QED
      BY <3>2, <3>3
  <2>7. Enters(r)
    BY <2>2 DEF Enters
  <2> QED
    BY <2>1, <2>2, <2>3, <2>6, <2>7, MovesFrame
<1>6. CASE MainPop(r)
  <2>0. lis_qhead \in Seq(Queue) /\ lis_qhead # <<>>
    BY <1>6 DEF TypeOK, MainPop
  <2>q. PICK q \in Queue : q = Head(lis_qhead)
    BY <2>0
  <2>1. /\ pc[r] = "main"
        /\ lis_qhead' = Tail(lis_qhead)
        /\ cur' = [cur EXCEPT ![r] = q]
        /\ q_flag' = SetFlags({q}, {"QRUNNING"})
        /\ pc' = [pc EXCEPT ![r] = "main_clear"]
        /\ UNCHANGED <<arg, ret>>
    BY <1>6, <2>q DEF MainPop, SetRunning, Goto
  <2>2. 1 \in Listed(q)
    BY <2>0, <2>q DEF Listed
  <2>3. \A q2 \in Queue : Linking(q2)' \subseteq Linking(q2)
    BY <1>0, <2>1 DEF Linking, TypeOK
  <2>4. \A q2 \in Queue : \A s \in Runner :
           Runs(s, q2)' => Runs(s, q2) \/ q2 = q
    BY <1>0, <2>1 DEF Runs, RunPc, TypeOK, Thread
  <2>5. \A q2 \in Queue : \A i \in Listed(q2)' : i + 1 \in Listed(q2)
    BY <2>0, <2>1 DEF Listed
  <2>6. \A q2 \in Queue : PlaceMoves(q2)
    BY <2>2, <2>3, <2>4, <2>5 DEF PlaceMoves
  <2>7. \A q2 \in Queue : FlagMoves(q2)
    BY <2>1, FlagsKept DEF SetFlags, TypeOK
  <2>8. \A u \in Thread : Enters(u)
    BY <1>0, <2>1 DEF Enters, TypeOK
  <2>9. Stands
    BY <1>6 DEF MainPop, rvars, Stands
  <2> QED
    BY <2>6, <2>7, <2>8, <2>9 DEF Moves
<1> QED
  BY <1>1, <1>2, <1>3, <1>4, <1>5, <1>6 DEF RunnerStep


LEMMA MovesDeschedule ==
    ASSUME TypeOK, TypeOK', PlaceInv, NEW c \in Closer, Deschedule(c)
    PROVE  Moves /\ Advances
<1> DEFINE p  == ArgPair
           wq == <<p, "wq">>
           rq == <<p, "rq">>
<1>q. Deschedule(c)
  OBVIOUS
<1>1. UNCHANGED tvars
  BY <1>q DEF Deschedule
<1>2. todo # <<>> /\ Head(todo).op = "deschedule" /\ todo' = Tail(todo)
  BY <1>q DEF Deschedule, Doing, DoneStep
<1>3. \A q \in Queue : Listed(q)' # {} => Listed(q) # {}
  <2>1. lis_qhead \in Seq(Queue)
    BY DEF TypeOK
  <2>2. lis_qhead' = lis_qhead \/ lis_qhead' = Unlink(Unlink(lis_qhead, wq), rq)
    BY <1>q DEF Deschedule
  <2>3. ASSUME NEW q \in Queue, lis_qhead' = Unlink(Unlink(lis_qhead, wq), rq)
        PROVE  Listed(q)' # {} => Listed(q) # {}
    <3> DEFINE m == Unlink(lis_qhead, wq)
    <3>1. m \in Seq(Queue)
      BY <2>1, UnlinkType
    <3>2. \A i \in DOMAIN m : m[i] = q => \E j \in DOMAIN lis_qhead : lis_qhead[j] = q
      BY <2>1, UnlinkPlaces
    <3> DEFINE n == Unlink(m, rq)
    <3> HIDE DEF m
    <3>3. \A i \in DOMAIN n : n[i] = q => \E j \in DOMAIN m : m[j] = q
      BY <3>1, UnlinkPlaces
    <3>4. lis_qhead' = n
      BY <2>3 DEF m
    <3> HIDE DEF n
    <3> QED
      BY <3>2, <3>3, <3>4 DEF Listed
  <2> QED
    BY <2>2, <2>3 DEF Listed
<1>4. \A q \in Queue : Linking(q)' = Linking(q)
  BY <1>1 DEF Linking, tvars
<1>5. \A q \in Queue : \A r \in Runner : Runs(r, q)' = Runs(r, q)
  BY <1>1 DEF Runs, tvars
<1>6. \A q \in Queue : PlaceMoves(q)
  BY <1>3, <1>4, <1>5 DEF PlaceMoves
<1>7. todo' # todo
  BY <1>2 DEF TypeOK
<1>8. \A q \in Queue : FlagMoves(q)
  <2>1. \A q \in Queue : q \in Both(p) => q[1] = p
    BY DEF Both
  <2>2. \A q \in Queue :
          /\ q_flag'[q] \in {q_flag[q], q_flag[q] \ {"QENAB"}, q_flag[q] \ {"QSCAN", "QENAB"}}
          /\ q \notin Both(p) => q_flag'[q] = q_flag[q]
    BY <1>q DEF Deschedule, Both
  <2> QED
    BY <1>2, <1>7, <2>1, <2>2 DEF FlagMoves, Performs
<1>9. \A t \in Thread : Enters(t)
  BY <1>1 DEF Enters, tvars
<1>10. Advances
  BY <1>2, <1>q DEF Advances, Deschedule
<1> QED
  BY <1>6, <1>8, <1>9, <1>10 DEF Moves

\* The steps of the program that leave the lists alone.
LEMMA MovesPlumbing ==
    ASSUME TypeOK, TypeOK', Control, NEW c \in Closer,
           Freeze(c) \/ Unfreeze(c) \/ MarkClosing(c) \/ ProcsOff(c)
           \/ QiQclose(c) \/ AwaitQsched(c) \/ AwaitDown(c) \/ FreeQ(c)
    PROVE  Moves /\ (Stands \/ Advances)
<1>0. c \in Thread /\ c \notin Runner
  BY ThreadAssumption DEF ThreadAssumption, Thread
<1>1. /\ Others(c) /\ lis_qhead' = lis_qhead
      /\ pc'[c] \notin {"link", "enable"}
  BY <1>0 DEF Freeze, Unfreeze, MarkClosing, ProcsOff, QiQclose, AwaitQsched, AwaitDown,
              FreeQ, qvars, tvars, Goto, Others, TypeOK, Doing
<1>2. Enters(c)
  BY <1>1 DEF Enters
<1>3. SUFFICES (\A q \in Queue : FlagMoves(q)) /\ (Stands \/ Advances)
  BY <1>0, <1>1, <1>2, MovesFrame
<1>4. todo # <<>> => Arg \in Queue /\ ArgPair \in Pair /\ Tail(todo) # todo
  BY TodoType DEF TypeOK
<1>5. CASE Freeze(c)
  <2>1. /\ todo # <<>> /\ todo' = Tail(todo) /\ Head(todo).op = "freeze"
        /\ UNCHANGED <<freed, qclosed>>
        /\ q_flag' = IF Live(Arg) THEN SetFlags({Arg}, {"QFROZEN"}) ELSE q_flag
    BY <1>5 DEF Freeze, Doing, DoneStep
  <2>2. \A q \in Queue : q_flag'[q] \in {q_flag[q], q_flag[q] \cup {"QFROZEN"}}
    BY <2>1 DEF SetFlags, TypeOK
  <2>3. Live(Arg) => "QFROZEN" \in q_flag'[Arg]
    BY <1>4, <2>1 DEF SetFlags
  <2>4. \A q \in Queue : FlagMoves(q)
    BY <2>2, FlagsKept
  <2> QED
    BY <2>1, <2>3, <2>4 DEF Advances
<1>6. CASE Unfreeze(c)
  <2>1. /\ todo # <<>> /\ todo' = Tail(todo) /\ Head(todo).op = "unfreeze"
        /\ UNCHANGED <<freed, qclosed>>
    BY <1>6 DEF Unfreeze, Doing, DoneStep
  <2>2. \A q \in Queue :
          \/ q_flag'[q] = q_flag[q]
          \/ q = Arg /\ q_flag'[q] = q_flag[q] \ {"QFROZEN"}
    <3>1. CASE q_flag' = q_flag
      BY <3>1
    <3>2. CASE q_flag' = ClrFlags({Arg}, {"QFROZEN"})
      BY <3>2 DEF ClrFlags
    <3> QED
      BY <1>6, <3>1, <3>2 DEF Unfreeze
  <2>3. Head(todo) = [op |-> "unfreeze", q |-> Arg]
    <3>1. Head(todo) \in Step
      BY <2>1 DEF TypeOK
    <3> QED
      BY <2>1, <3>1 DEF Step, Arg
  <2>4. \A q \in Queue : FlagMoves(q)
    BY <1>4, <2>1, <2>2, <2>3 DEF FlagMoves
  <2> QED
    BY <2>1, <2>4 DEF Advances
<1>7. CASE MarkClosing(c)
  <2>1. /\ todo # <<>> /\ todo' = Tail(todo) /\ Head(todo).op = "mark_closing"
        /\ UNCHANGED <<freed, qclosed>>
        /\ q_flag' = SetFlags(Both(ArgPair), {"QCLOSING"})
    BY <1>7 DEF MarkClosing, Doing, DoneStep
  <2>2. \A q \in Queue : q_flag'[q] \in {q_flag[q], q_flag[q] \cup {"QCLOSING"}}
    BY <2>1 DEF SetFlags, TypeOK
  <2>3. \A q \in Queue : FlagMoves(q)
    BY <2>2, FlagsKept
  <2> QED
    BY <2>1, <2>3 DEF Advances
<1>8. CASE ProcsOff(c)
  <2>1. /\ todo # <<>> /\ todo' = Tail(todo) /\ Head(todo).op = "procsoff"
        /\ UNCHANGED <<freed, qclosed>>
        /\ q_flag' = SetFlags(Both(ArgPair), {"QPROCSOFF"})
    BY <1>8 DEF ProcsOff, Doing, DoneStep
  <2>2. \A q \in Queue :
          /\ q_flag'[q] \in {q_flag[q], q_flag[q] \cup {"QPROCSOFF"}}
          /\ q \notin Both(ArgPair) => q_flag'[q] = q_flag[q]
          /\ q \in Both(ArgPair) => q_flag'[q] = q_flag[q] \cup {"QPROCSOFF"}
    BY <2>1 DEF SetFlags, TypeOK
  <2>3. \A q \in Queue : FlagMoves(q)
    BY <1>4, <2>1, <2>2, PairQueues DEF FlagMoves, Performs
  <2>4. \A q \in Both(ArgPair) : "QPROCSOFF" \in q_flag'[q]
    BY <1>4, <2>1, <2>2, PairQueues
  <2> QED
    BY <2>1, <2>3, <2>4 DEF Advances
<1>9. CASE QiQclose(c)
  <2>1. /\ todo # <<>> /\ todo' = Tail(todo) /\ Head(todo).op = "qi_qclose"
        /\ UNCHANGED <<freed, q_flag, pc, arg>>
        /\ qclosed' = qclosed \cup {ArgPair}
        /\ Quiesces => InFlight(ArgPair) = {}
    BY <1>9 DEF QiQclose, Doing, DoneStep, qvars, tvars
  <2>2. Quiesces => \A t \in Thread : pc'[t] = "enable" => arg'[t][1] # ArgPair
    BY <2>1 DEF InFlight
  <2>3. \A q \in Queue : FlagMoves(q)
    BY <2>1, FlagsKept
  <2> QED
    BY <2>1, <2>2, <2>3 DEF Advances
<1>10. CASE AwaitQsched(c)
  <2>1. \A q \in Queue : q_flag'[q] \in {q_flag[q], q_flag[q] \cup {"QWAITING"}}
    <3>1. q_flag' = q_flag \/ q_flag' = SetFlags(Both(ArgPair), {"QWAITING"})
      BY <1>10 DEF AwaitQsched
    <3> QED
      BY <3>1 DEF SetFlags, TypeOK
  <2>2. \A q \in Queue : FlagMoves(q)
    BY <2>1, FlagsKept
  <2>3. CASE Busy(ArgPair)
    BY <1>10, <2>2, <2>3 DEF AwaitQsched, Stands
  <2>4. CASE ~Busy(ArgPair)
    BY <1>10, <2>2, <2>4 DEF AwaitQsched, Doing, DoneStep, Advances
  <2> QED
    BY <2>3, <2>4
<1>11. CASE AwaitDown(c)
  <2>1. \A q \in Queue : q_flag'[q] \in {q_flag[q], q_flag[q] \ {"QWAITING"}}
    <3>1. CASE q_flag' = q_flag
      BY <3>1
    <3>2. CASE q_flag' = ClrFlags(Both(ArgPair), {"QWAITING"})
      BY <3>2 DEF ClrFlags
    <3> QED
      BY <1>11, <3>1, <3>2 DEF AwaitDown
  <2>2. \A q \in Queue : FlagMoves(q)
    BY <2>1, FlagsKept
  <2>3. todo # <<>> /\ Head(todo).op = "await"
    BY <1>11 DEF AwaitDown, Control
  <2>4. CASE Busy(ArgPair)
    BY <1>11, <2>2, <2>4 DEF AwaitDown, Stands
  <2>5. CASE ~Busy(ArgPair)
    BY <1>11, <2>2, <2>3, <2>5 DEF AwaitDown, DoneStep, Advances
  <2> QED
    BY <2>4, <2>5
<1>12. CASE FreeQ(c)
  <2>1. /\ todo # <<>> /\ todo' = Tail(todo) /\ Head(todo).op = "free"
        /\ qclosed' = qclosed /\ freed' = freed \cup {ArgPair}
        /\ q_flag' = ClrFlags(Both(ArgPair), Flag)
    BY <1>12 DEF FreeQ, Doing, DoneStep
  <2>2. \A q \in Queue :
          /\ q \notin Both(ArgPair) => q_flag'[q] = q_flag[q]
          /\ q \in Both(ArgPair) => q_flag'[q] = {} /\ q[1] = ArgPair
    BY <1>4, <2>1, PairQueues DEF ClrFlags, TypeOK
  <2>3. \A q \in Queue : FlagMoves(q)
    BY <1>4, <2>1, <2>2 DEF FlagMoves, Performs
  <2> QED
    BY <2>1, <2>3 DEF Advances
<1> QED
  BY <1>5, <1>6, <1>7, <1>8, <1>9, <1>10, <1>11, <1>12

LEMMA MovesNext ==
    ASSUME AtomicFlags, Timer = {}, TypeOK, TypeOK', Control, PlaceInv, [Next]_vars
    PROVE  Moves /\ (Stands \/ Advances)
<1>1. ASSUME NEW t \in Thread, NEW q \in Queue,
             CallQenable(t, q) \/ ServiceCallsQenable(t, q)
      PROVE  Moves /\ Stands
  BY <1>1, MovesCall
<1>2. ASSUME NEW t \in Thread, QenableStep(t) PROVE Moves /\ Stands
  BY <1>2, MovesQenable
<1>3. ASSUME NEW r \in Runner, RunnerStep(r) PROVE Moves /\ Stands
  BY <1>3, MovesRunner
<1>4. ASSUME NEW c \in Closer, CloserStep(c) PROVE Moves /\ (Stands \/ Advances)
  BY <1>4, <1>2, MovesDeschedule, MovesPlumbing DEF CloserStep, Thread
<1>5. CASE UNCHANGED vars
  <2>1. UNCHANGED <<q_flag, lis_qhead, pc, cur, arg, ret>> /\ Stands
    BY <1>5 DEF vars, qvars, rvars, tvars, Stands
  <2>2. \A q \in Queue : /\ Listed(q)' = Listed(q) /\ Linking(q)' = Linking(q)
                         /\ \A r \in Runner : Runs(r, q)' = Runs(r, q)
    BY <2>1 DEF Listed, Linking, Runs
  <2>3. \A q \in Queue : FlagMoves(q)
    BY <2>1, FlagsKept
  <2> QED
    BY <2>1, <2>2, <2>3 DEF Moves, PlaceMoves, Enters
<1>6. CASE Gone
  BY <1>5, <1>6 DEF Gone
<1> QED
  BY <1>1, <1>2, <1>3, <1>4, <1>5, <1>6 DEF Next, CallerStep, Thread


-----------------------------------------------------------------------------
(* The program, one step further                                           *)

LEMMA HeldBackStep ==
    ASSUME NEW q \in Queue, NEW n \in Nat, HeldBack(q, n + 1)
    PROVE  \/ Program[n + 1] = [op |-> "freeze", q |-> q]
           \/ HeldBack(q, n) /\ Program[n + 1] # [op |-> "unfreeze", q |-> q]
<1>1. PICK k \in 1 .. n + 1 :
         /\ Program[k] = [op |-> "freeze", q |-> q]
         /\ \A m \in k .. n + 1 : Program[m] # [op |-> "unfreeze", q |-> q]
  BY DEF HeldBack
<1>2. CASE k = n + 1
  BY <1>1, <1>2
<1>3. CASE k # n + 1
  <2>1. k \in 1 .. n /\ n + 1 \in k .. n + 1 /\ k .. n \subseteq k .. n + 1
    BY <1>3
  <2> QED
    BY <1>1, <2>1 DEF HeldBack
<1> QED
  BY <1>2, <1>3

LEMMA AtRestStep ==
    ASSUME NEW p \in Pair, NEW n \in Nat, AtRest(p, n + 1)
    PROVE  /\ \A q \in Both(p) : Program[n + 1] # [op |-> "unfreeze", q |-> q]
           /\ \/ AtRest(p, n)
              \/ /\ Program[n + 1].op = "await" /\ Program[n + 1].q[1] = p
                 /\ \A q \in Both(p) : HeldBack(q, n)
<1>1. PICK k \in 1 .. n + 1 :
         /\ Program[k].op = "await" /\ Program[k].q[1] = p
         /\ \A q \in Both(p) :
               /\ HeldBack(q, k - 1)
               /\ \A m \in k .. n + 1 : Program[m] # [op |-> "unfreeze", q |-> q]
  BY DEF AtRest
<1>2. \A q \in Both(p) : Program[n + 1] # [op |-> "unfreeze", q |-> q]
  <2>1. n + 1 \in k .. n + 1
    OBVIOUS
  <2> QED
    BY <1>1, <2>1
<1>3. CASE k = n + 1
  <2>1. k - 1 = n
    BY <1>3
  <2> QED
    BY <1>1, <1>2, <1>3, <2>1
<1>4. CASE k # n + 1
  <2>1. k \in 1 .. n /\ k .. n \subseteq k .. n + 1
    BY <1>4
  <2> QED
    BY <1>1, <1>2, <2>1 DEF AtRest
<1> QED
  BY <1>3, <1>4

LEMMA MadeStep ==
    ASSUME NEW op, NEW p, NEW n \in Nat, Made(op, p, n + 1)
    PROVE  \/ Made(op, p, n)
           \/ Program[n + 1].op = op /\ Program[n + 1].q[1] = p
<1>1. PICK k \in 1 .. n + 1 : Program[k].op = op /\ Program[k].q[1] = p
  BY DEF Made
<1>2. CASE k = n + 1
  BY <1>1, <1>2
<1>3. CASE k # n + 1
  <2>1. k \in 1 .. n
    BY <1>3
  <2> QED
    BY <1>1, <2>1 DEF Made
<1> QED
  BY <1>2, <1>3

\* The step that is performed is the next of the program.
LEMMA FollowsStep ==
    ASSUME TypeOK, Follows, Stands \/ Advances
    PROVE  /\ Follows' /\ Performed \in Nat
           /\ todo' = todo => Performed' = Performed
           /\ todo' # todo => /\ Performed' = Performed + 1
                              /\ Performed + 1 \in DOMAIN Program
                              /\ Performed + 1 <= Len(Program)
                              /\ Head(todo) = Program[Performed + 1]
           /\ todo # <<>> /\ todo' = Tail(todo) => todo' # todo
<1>1. todo \in Seq(Step) /\ Program \in Seq(Step)
  BY StreamAssumption DEF StreamAssumption, TypeOK
<1>2. Len(todo) \in Nat /\ Len(Program) \in Nat /\ Len(todo) <= Len(Program)
  BY <1>1 DEF Follows
<1>3. Performed \in Nat
  BY <1>2 DEF Performed
<1>4. CASE todo' = todo
  <2>1. todo # <<>> => Tail(todo) # todo
    BY <1>1
  <2>2. Performed' = Performed
    BY <1>4 DEF Performed
  <2> QED
    BY <1>3, <1>4, <2>1, <2>2 DEF Follows
<1>5. CASE todo' # todo
  <2>1. todo # <<>> /\ todo' = Tail(todo)
    BY <1>5 DEF Stands, Advances
  <2>2. Len(todo') = Len(todo) - 1 /\ Len(todo) > 0
    BY <1>1, <2>1
  <2>3. Performed' = Performed + 1
    BY <1>2, <2>2 DEF Performed
  <2>4. \A i \in 1 .. Len(todo') : todo'[i] = todo[i + 1] /\ i + 1 \in 1 .. Len(todo)
    BY <1>1, <2>1, <2>2
  <2>5. Follows'
    <3>1. \A i \in 1 .. Len(todo') : todo'[i] = Program[Performed + (i + 1)]
      BY <2>4 DEF Follows
    <3>2. \A i \in 1 .. Len(todo') : Performed + (i + 1) = Performed' + i
      BY <1>3, <2>3
    <3>3. \A i \in 1 .. Len(todo') : todo'[i] = Program[Performed' + i]
      BY <3>1, <3>2
    <3> QED
      BY <1>2, <2>2, <3>3 DEF Follows
  <2>6. Head(todo) = Program[Performed + 1]
    BY <1>1, <2>2 DEF Follows
  <2>7. Performed + 1 <= Len(Program)
    BY <1>2, <2>2 DEF Performed
  <2>8. Performed + 1 \in DOMAIN Program
    BY <1>1, <1>3, <2>7
  <2> QED
    BY <1>3, <1>5, <2>3, <2>5, <2>6, <2>7, <2>8
<1> QED
  BY <1>4, <1>5

-----------------------------------------------------------------------------
(* The invariant                                                           *)

\* A queue that is frozen or turned off, or that is no longer there, stays still.
LEMMA StaysStill ==
    ASSUME NEW q \in Queue, PlaceMoves(q), Still(q),
           "QFROZEN" \in q_flag[q] \/ "QPROCSOFF" \in q_flag[q] \/ q[1] \in freed
    PROVE  Still(q)'
<1>1. ~Live(q) \/ Has(q, Q_INH_ENABLE)
  BY DEF Live, Has, Q_INH_ENABLE
<1> QED
  BY <1>1 DEF Still, PlaceMoves

\* A pair whose close routine has returned is still.
LEMMA ClosedStill ==
    ASSUME OffIsStill, ClosedIsLeft, FreedIsLeft, NEW p \in Pair,
           p \in qclosed \/ Made("procsoff", p, Performed)
    PROVE  \A q \in Both(p) :
              Still(q) /\ ("QPROCSOFF" \in q_flag[q] \/ q[1] \in freed)
<1>1. p \in freed \/ \A q \in Both(p) : "QPROCSOFF" \in q_flag[q]
  BY DEF OffIsStill, ClosedIsLeft
<1>2. \A q \in Both(p) : q \in Queue /\ q[1] = p
  BY PairQueues
<1> QED
  BY <1>1, <1>2 DEF OffIsStill, FreedIsLeft

\* What the order of the program says of the step that is performed.
LEMMA InOrder ==
    ASSUME TypeOK, Follows, Orderly, Stands \/ Advances, todo' # todo
    PROVE  /\ ArgPair \in Pair
           /\ Head(todo).op = "procsoff" =>
                 AtRest(ArgPair, Performed) /\ ArgPair \in TurnedOff
           /\ Head(todo).op = "qi_qclose" => Made("procsoff", ArgPair, Performed)
           /\ Head(todo).op = "free" => Made("qi_qclose", ArgPair, Performed)
           /\ Head(todo).op = "deschedule" /\ ArgPair \in TurnedOff =>
                 Made("procsoff", ArgPair, Performed)
<1>1. /\ Performed \in Nat /\ Performed + 1 \in DOMAIN Program
      /\ Head(todo) = Program[Performed + 1] /\ Performed + 1 <= Len(Program)
  BY FollowsStep
<1>2. (Performed + 1) - 1 = Performed
  BY <1>1
<1>3. todo # <<>> /\ ArgPair = Program[Performed + 1].q[1]
  BY <1>1 DEF Stands, Advances, ArgPair
<1>4. ArgPair \in Pair
  BY <1>3, TodoType
<1>5. Head(todo).op = "procsoff" => ArgPair \in TurnedOff
  <2>1. Performed + 1 \in 1 .. Len(Program)
    BY <1>1, StreamAssumption DEF StreamAssumption
  <2> QED
    BY <1>1, <1>3, <1>4, <2>1 DEF TurnedOff, Made
<1>6. LET p == ArgPair
          i == Performed + 1 IN
      /\ Program[i].op = "procsoff" => AtRest(p, i - 1)
      /\ Program[i].op = "qi_qclose" => Made("procsoff", p, i - 1)
      /\ Program[i].op = "free" => Made("qi_qclose", p, i - 1)
      /\ Program[i].op = "deschedule" /\ p \in TurnedOff => Made("procsoff", p, i - 1)
  BY <1>1, <1>3 DEF Orderly
<1> QED
  BY <1>1, <1>2, <1>4, <1>5, <1>6

LEMMA HeldIsFrozenStep ==
    ASSUME TypeOK, Follows, HeldIsFrozen, Moves, Stands \/ Advances
    PROVE  HeldIsFrozen'
<1> SUFFICES ASSUME NEW q \in Queue, HeldBack(q, Performed')
             PROVE  q[1] \in freed' \/ "QFROZEN" \in q_flag'[q]
  BY DEF HeldIsFrozen, HeldBack
<1>0. freed \subseteq freed'
  BY DEF Stands, Advances
<1>1. FlagMoves(q)
  BY DEF Moves
<1>2. CASE todo' = todo
  <2>1. HeldBack(q, Performed)
    BY <1>2, FollowsStep
  <2> QED
    BY <1>0, <1>1, <1>2, <2>1 DEF HeldIsFrozen, FlagMoves
<1>3. CASE todo' # todo
  <2>1. /\ Performed \in Nat /\ Performed' = Performed + 1
        /\ Head(todo) = Program[Performed + 1]
    BY <1>3, FollowsStep
  <2>2. CASE Head(todo) = [op |-> "freeze", q |-> q]
    <3>1. Advances /\ Arg = q
      BY <1>3, <2>2 DEF Stands, Arg
    <3> QED
      BY <1>0, <2>2, <3>1 DEF Advances, Live
  <2>3. CASE HeldBack(q, Performed) /\ Head(todo) # [op |-> "unfreeze", q |-> q]
    BY <1>0, <1>1, <2>3 DEF HeldIsFrozen, FlagMoves
  <2> QED
    BY <2>1, <2>2, <2>3, HeldBackStep
<1> QED
  BY <1>2, <1>3

\* When lis_await_qsched returns for a frozen pair, nobody has its queues.
LEMMA NotBusyStill ==
    ASSUME PlaceInv, EnabIsKept, NEW p \in TurnedOff, p \notin freed, ~Busy(p)
    PROVE  \A q \in Both(p) : Still(q)
<1> SUFFICES ASSUME NEW q \in Both(p) PROVE Still(q)
  OBVIOUS
<1>1. q \in Queue /\ q[1] = p
  BY PairQueues DEF TurnedOff
<1>2. "QENAB" \notin q_flag[q] /\ "QRUNNING" \notin q_flag[q]
  BY DEF Busy, Has
<1>3. Listed(q) = {} /\ Linking(q) = {}
  BY <1>1, <1>2 DEF EnabIsKept
<1>4. \A r \in Runner : ~Runs(r, q)
  BY <1>1, <1>2 DEF PlaceInv, PlaceFlagged, Live
<1> QED
  BY <1>3, <1>4 DEF Still

LEMMA RestIsStillStep ==
    ASSUME TypeOK, PlaceInv, Follows, HeldIsFrozen, RestIsStill, EnabIsKept, Moves,
           Stands \/ Advances
    PROVE  RestIsStill'
<1> SUFFICES ASSUME NEW p \in TurnedOff, AtRest(p, Performed'), p \notin freed',
                    NEW q \in Both(p)
             PROVE  "QFROZEN" \in q_flag'[q] /\ Still(q)'
  BY DEF RestIsStill, AtRest, HeldBack, TurnedOff, Made
<1>0. p \in Pair /\ p \notin freed
  BY DEF Stands, Advances, TurnedOff
<1>1. q \in Queue /\ q[1] = p
  BY <1>0, PairQueues
<1>2. FlagMoves(q) /\ PlaceMoves(q)
  BY <1>1 DEF Moves
<1>3. ASSUME "QFROZEN" \in q_flag[q], Still(q),
             todo' = todo \/ Head(todo) # [op |-> "unfreeze", q |-> q]
      PROVE  "QFROZEN" \in q_flag'[q] /\ Still(q)'
  BY <1>1, <1>2, <1>3, StaysStill DEF FlagMoves
<1>4. CASE todo' = todo
  <2>1. AtRest(p, Performed)
    BY <1>4, FollowsStep
  <2> QED
    BY <1>0, <1>3, <1>4, <2>1 DEF RestIsStill
<1>5. CASE todo' # todo
  <2>1. /\ Performed \in Nat /\ Performed' = Performed + 1
        /\ Head(todo) = Program[Performed + 1]
    BY <1>5, FollowsStep
  <2>2. Head(todo) # [op |-> "unfreeze", q |-> q]
    BY <1>0, <2>1, AtRestStep
  <2>3. CASE AtRest(p, Performed)
    BY <1>0, <1>3, <2>2, <2>3 DEF RestIsStill
  <2>4. CASE /\ Head(todo).op = "await" /\ Head(todo).q[1] = p
             /\ \A q2 \in Both(p) : HeldBack(q2, Performed)
    <3>1. ~Busy(p)
      BY <1>5, <2>4 DEF Stands, Advances, ArgPair
    <3>2. Still(q)
      BY <1>0, <3>1, NotBusyStill
    <3>3. "QFROZEN" \in q_flag[q]
      BY <1>0, <1>1, <2>4 DEF HeldIsFrozen
    <3> QED
      BY <1>3, <2>2, <3>2, <3>3
  <2> QED
    BY <1>0, <2>1, <2>3, <2>4, AtRestStep
<1> QED
  BY <1>4, <1>5

LEMMA OffIsStillStep ==
    ASSUME TypeOK, Orderly, Follows, RestIsStill, OffIsStill, FreedIsLeft, Moves,
           Stands \/ Advances
    PROVE  OffIsStill'
<1>0. freed \subseteq freed'
  BY DEF Stands, Advances
<1>1. ASSUME NEW q \in Queue, "QPROCSOFF" \in q_flag'[q] PROVE Still(q)'
  <2>1. FlagMoves(q) /\ PlaceMoves(q)
    BY DEF Moves
  <2>2. CASE "QPROCSOFF" \in q_flag[q]
    BY <2>1, <2>2, StaysStill DEF OffIsStill
  <2>3. CASE Performs({"procsoff"}, q[1])
    <3>1. AtRest(q[1], Performed) /\ q[1] \in TurnedOff
      BY <2>3, InOrder DEF Performs
    <3>4. q \in Both(q[1])
      BY QueuePair
    <3>2. q[1] \in freed \/ ("QFROZEN" \in q_flag[q] /\ Still(q))
      BY <3>1, <3>4 DEF RestIsStill
    <3>3. q[1] \in freed => Still(q)
      BY QueuePair DEF FreedIsLeft
    <3> QED
      BY <2>1, <3>2, <3>3, StaysStill
  <2> QED
    BY <1>1, <2>1, <2>2, <2>3 DEF FlagMoves
<1>2. ASSUME NEW p \in Pair, Made("procsoff", p, Performed'), p \notin freed',
             NEW q \in Both(p)
      PROVE  "QPROCSOFF" \in q_flag'[q]
  <2>1. q \in Queue /\ q[1] = p
    BY PairQueues
  <2>2. FlagMoves(q)
    BY <2>1 DEF Moves
  <2>3. CASE Made("procsoff", p, Performed)
    BY <1>0, <1>2, <2>1, <2>2, <2>3 DEF OffIsStill, FlagMoves
  <2>4. CASE ~Made("procsoff", p, Performed)
    <3>1. todo' # todo
      BY <1>2, <2>4, FollowsStep
    <3>2. Head(todo).op = "procsoff" /\ ArgPair = p
      BY <1>2, <2>4, <3>1, FollowsStep, MadeStep DEF ArgPair
    <3> QED
      BY <3>1, <3>2 DEF Stands, Advances
  <2> QED
    BY <2>3, <2>4
<1> QED
  BY <1>1, <1>2 DEF OffIsStill, Made

LEMMA ClosedIsLeftStep ==
    ASSUME Quiesces, TypeOK, Orderly, Follows, OffIsStill, ClosedIsLeft, Moves,
           qclosed \subseteq Pair, Stands \/ Advances
    PROVE  ClosedIsLeft'
<1>0. freed \subseteq freed' /\ qclosed \subseteq qclosed'
  BY DEF Stands, Advances
<1>1. ASSUME NEW p \in Pair, Made("qi_qclose", p, Performed') PROVE p \in qclosed'
  <2>1. CASE Made("qi_qclose", p, Performed)
    BY <1>0, <2>1 DEF ClosedIsLeft
  <2>2. CASE ~Made("qi_qclose", p, Performed)
    <3>1. todo' # todo
      BY <1>1, <2>2, FollowsStep
    <3>2. Head(todo).op = "qi_qclose" /\ ArgPair = p
      BY <1>1, <2>2, <3>1, FollowsStep, MadeStep DEF ArgPair
    <3> QED
      BY <3>1, <3>2 DEF Stands, Advances
  <2> QED
    BY <2>1, <2>2
<1>2. \A p \in qclosed' :
         \/ p \in qclosed
         \/ /\ Advances /\ todo' # todo
            /\ Head(todo).op = "qi_qclose" /\ ArgPair = p
  <2> SUFFICES ASSUME NEW p \in qclosed', p \notin qclosed
               PROVE  /\ Advances /\ todo' # todo
                      /\ Head(todo).op = "qi_qclose" /\ ArgPair = p
    OBVIOUS
  <2>1. Advances
    BY DEF Stands
  <2>2. Head(todo).op = "qi_qclose" /\ ArgPair = p
    BY <2>1 DEF Advances
  <2>3. todo' # todo
    BY <2>1, FollowsStep DEF Advances
  <2> QED
    BY <2>1, <2>2, <2>3
<1>3. ASSUME NEW p \in qclosed'
      PROVE  /\ p \in Pair
             /\ p \in freed \/ \A q \in Both(p) : "QPROCSOFF" \in q_flag[q]
  <2>1. CASE p \in qclosed
    BY <2>1 DEF ClosedIsLeft
  <2>2. CASE Advances /\ todo' # todo /\ Head(todo).op = "qi_qclose" /\ ArgPair = p
    <3>1. p \in Pair /\ Made("procsoff", p, Performed)
      BY <2>2, InOrder
    <3> QED
      BY <3>1 DEF OffIsStill
  <2> QED
    BY <1>2, <2>1, <2>2
<1>4. ASSUME NEW p \in qclosed', p \notin freed', NEW q \in Both(p)
      PROVE  "QPROCSOFF" \in q_flag'[q]
  <2>1. q \in Queue /\ q[1] = p /\ "QPROCSOFF" \in q_flag[q]
    BY <1>0, <1>3, <1>4, PairQueues
  <2> QED
    BY <1>4, <2>1 DEF Moves, FlagMoves
<1>5. ASSUME NEW p \in qclosed', NEW t \in Thread, pc'[t] = "enable", arg'[t][1] = p
      PROVE  FALSE
  <2>1. CASE p \notin qclosed
    BY <1>2, <1>5, <2>1 DEF Advances
  <2>2. CASE p \in qclosed
    <3>1. ~(pc[t] = "enable" /\ arg'[t] = arg[t])
      BY <1>5, <2>2 DEF ClosedIsLeft
    <3>2. /\ arg'[t] \in Queue /\ Live(arg'[t])
          /\ ~Has(arg'[t], Q_INH_ENABLE)
      BY <1>5, <2>2, <3>1 DEF Moves, Enters
    <3>3. "QPROCSOFF" \in q_flag[arg'[t]]
      BY <1>3, <1>5, <3>2, QueuePair DEF Live
    <3> QED
      BY <3>2, <3>3 DEF Has, Q_INH_ENABLE
  <2> QED
    BY <2>1, <2>2
<1> QED
  BY <1>1, <1>4, <1>5 DEF ClosedIsLeft, Made

LEMMA FreedIsLeftStep ==
    ASSUME TypeOK, Orderly, Follows, OffIsStill, ClosedIsLeft, FreedIsLeft, Moves,
           Stands \/ Advances
    PROVE  FreedIsLeft'
<1>0. freed \subseteq Pair
  BY DEF TypeOK
<1>1. ASSUME NEW p \in freed'
      PROVE  p \in Pair /\ p \in qclosed
  <2>1. CASE p \in freed
    BY <1>0, <2>1 DEF FreedIsLeft
  <2>2. CASE p \notin freed
    <3>1. Head(todo).op = "free" /\ ArgPair = p /\ todo' # todo
      BY <1>1, <2>2, FollowsStep DEF Stands, Advances
    <3>2. p \in Pair /\ Made("qi_qclose", p, Performed)
      BY <3>1, InOrder
    <3> QED
      BY <3>2 DEF ClosedIsLeft
  <2> QED
    BY <2>1, <2>2
<1>2. ASSUME NEW p \in freed', NEW q \in Both(p) PROVE Still(q)'
  <2>1. Still(q) /\ ("QPROCSOFF" \in q_flag[q] \/ q[1] \in freed)
    BY <1>1, <1>2, ClosedStill
  <2>2. q \in Queue
    BY <1>1, <1>2, PairQueues
  <2> QED
    BY <2>1, <2>2, StaysStill DEF Moves
<1>3. qclosed \subseteq qclosed'
  BY DEF Stands, Advances
<1> QED
  BY <1>1, <1>2, <1>3 DEF FreedIsLeft

LEMMA EnabIsKeptStep ==
    ASSUME TypeOK, Orderly, Follows, OffIsStill, ClosedIsLeft, FreedIsLeft, EnabIsKept,
           Moves, Stands \/ Advances
    PROVE  EnabIsKept'
<1> SUFFICES ASSUME NEW q \in Queue, q[1] \in TurnedOff,
                    Listed(q)' # {} \/ Linking(q)' # {}
             PROVE  "QENAB" \in q_flag'[q]
  BY DEF EnabIsKept, TurnedOff, Made
<1>1. FlagMoves(q) /\ PlaceMoves(q)
  BY DEF Moves
<1>2. \/ "QENAB" \in q_flag'[q]
      \/ Listed(q) # {} \/ Linking(q) # {}
  BY <1>1 DEF PlaceMoves
<1>3. CASE Listed(q) # {} \/ Linking(q) # {}
  <2>1. "QENAB" \in q_flag[q]
    BY <1>3 DEF EnabIsKept
  <2>2. ~Performs({"deschedule", "free"}, q[1])
    <3> SUFFICES ASSUME Performs({"deschedule", "free"}, q[1]) PROVE FALSE
      OBVIOUS
    <3>1. q[1] \in Pair /\ q \in Both(q[1])
      BY QueuePair
    <3>2. Made("procsoff", q[1], Performed) \/ Made("qi_qclose", q[1], Performed)
      BY InOrder DEF Performs
    <3>3. Made("procsoff", q[1], Performed) \/ q[1] \in qclosed
      BY <3>1, <3>2 DEF ClosedIsLeft
    <3>4. Still(q)
      BY <3>1, <3>3, ClosedStill
    <3> QED
      BY <1>3, <3>4 DEF Still
  <2> QED
    BY <1>1, <2>1, <2>2 DEF FlagMoves
<1> QED
  BY <1>2, <1>3

LEMMA DetachInit == Init => DetachInv
<1> SUFFICES ASSUME Init PROVE DetachInv
  OBVIOUS
<1>1. Program \in Seq(Step) /\ todo = Program
  BY StreamAssumption DEF StreamAssumption, Init
<1>2. Performed = 0
  BY <1>1 DEF Performed
<1>3. Follows
  BY <1>1, <1>2 DEF Follows
<1>4. /\ \A q : ~HeldBack(q, Performed)
      /\ \A p : ~AtRest(p, Performed)
      /\ \A op, p : ~Made(op, p, Performed)
  BY <1>2 DEF HeldBack, AtRest, Made
<1>5. /\ freed = {} /\ qclosed = {} /\ \A q \in Queue : q_flag[q] = {}
      /\ lis_qhead = <<>> /\ \A t \in Thread : pc[t] = "idle"
  BY DEF Init
<1>6. \A q \in Queue : Listed(q) = {} /\ Linking(q) = {}
  BY <1>5 DEF Listed, Linking
<1> QED
  BY <1>3, <1>4, <1>5, <1>6
     DEF DetachInv, HeldIsFrozen, RestIsStill, OffIsStill, ClosedIsLeft, FreedIsLeft,
         EnabIsKept

LEMMA DetachNext ==
    ASSUME AtomicFlags, Timer = {}, Quiesces, Orderly, TypeOK, TypeOK', Control, PlaceInv,
           DetachInv, [Next]_vars
    PROVE  DetachInv'
<1>1. Moves /\ (Stands \/ Advances)
  BY MovesNext
<1>2. qclosed \subseteq Pair
  BY DEF TypeOK
<1> QED
  BY <1>1, <1>2, FollowsStep, HeldIsFrozenStep, RestIsStillStep, OffIsStillStep,
     ClosedIsLeftStep, FreedIsLeftStep, EnabIsKeptStep DEF DetachInv

LEMMA InvDetached ==
    ASSUME TypeOK, Control, PlaceInv, DetachInv
    PROVE  Detached
<1>1. FreedIsQuiet
  <2> SUFFICES ASSUME NEW p \in freed, NEW q \in Both(p)
      PROVE  /\ q \notin Range(lis_qhead) /\ q \notin Range(lis_scanqhead)
             /\ \A r \in Runner : ~Runs(r, q)
             /\ \A t \in Caller \cup Timer : arg[t] = q =>
                   pc[t] \notin {"enable", "link", "scan_link"}
    BY DEF FreedIsQuiet
  <2>1. p \in Pair /\ p \in qclosed /\ Still(q)
    BY DEF DetachInv, FreedIsLeft, TypeOK
  <2>2. q \in Queue /\ q[1] = p
    BY <2>1, PairQueues
  <2>3. q \notin Range(lis_qhead)
    BY <2>1 DEF Still, Listed, Range
  <2>4. q \notin Range(lis_scanqhead)
    BY DEF PlaceInv, NoScan, Range
  <2>5. \A r \in Runner : ~Runs(r, q)
    BY <2>1 DEF Still
  <2>6. ASSUME NEW t \in Caller \cup Timer, arg[t] = q
        PROVE  pc[t] \notin {"enable", "link", "scan_link"}
    <3>1. t \in Thread
      BY DEF Thread
    <3>2. pc[t] # "enable"
      BY <2>1, <2>2, <2>6, <3>1 DEF DetachInv, ClosedIsLeft
    <3>3. pc[t] # "link"
      BY <2>1, <2>6, <3>1 DEF Still, Linking
    <3>4. pc[t] # "scan_link"
      BY <3>1 DEF PlaceInv, NoScan
    <3> QED
      BY <3>2, <3>3, <3>4
  <2> QED
    BY <2>3, <2>4, <2>5, <2>6
<1>2. NoServiceAfterProcsOff
  <2> SUFFICES ASSUME NEW r \in Runner, pc[r] \in {"srvp", "drained"},
                      "QPROCSOFF" \in q_flag[cur[r]]
               PROVE  FALSE
    BY DEF NoServiceAfterProcsOff, Has
  <2>1. cur[r] \in Queue
    BY DEF Control, ControlOf, RunPc, Thread
  <2>2. Runs(r, cur[r])
    BY DEF Runs, RunPc
  <2> QED
    BY <2>1, <2>2 DEF DetachInv, OffIsStill, Still
<1> QED
  BY <1>1, <1>2 DEF Detached

\* A pair that has been freed is on no list, no runner works on it and no context is
\* inside lis_qenable for it; and no service procedure runs once its procedures are off
\* (lis_qdetach), whatever the number of CPUs, contexts and modules: as long as the
\* program detaches a pair in the order of pop_mod -- frozen, awaited, turned off, its
\* close routine called, descheduled, freed --, the close routine quiesces the contexts
\* that enable the pair, the flag updates of queuerun are indivisible, and no write is
\* held.  TLC evaluates Orderly for the program of pop_mod.
THEOREM PoppedIsDetached ==
    ASSUME AtomicFlags, Timer = {}, Quiesces, Orderly
    PROVE  Spec => []Detached
<1> DEFINE Inv == TypeOK /\ Control /\ ServiceInv /\ DetachInv
<1>1. Init => Inv
  BY TypeInit, ControlInit, ServiceInit, DetachInit
<1>2. Inv /\ [Next]_vars => Inv'
  BY TypeNext, ControlNext, ServiceNext, DetachNext DEF ServiceInv
<1>3. Inv => Detached
  BY InvDetached DEF ServiceInv
<1> QED
  BY <1>1, <1>2, <1>3, PTL DEF Spec

-----------------------------------------------------------------------------
(* The references on the stream head, and the count of requests            *)

\* The entries of a list that are queues of the stream head, and the runners that
\* work on one.
HeadEntries(s) == {i \in DOMAIN s : Head_q(s[i])}
HeadRunners    == {r \in Runner : cur[r] # NoQueue /\ Head_q(cur[r])}
One(b)         == IF b THEN 1 ELSE 0

\* A runner between two entries works on none, and comes back from lis_qenable to
\* what it was doing.
InHand(r) == /\ pc[r] \in {"idle", "scan", "main"} => cur[r] = NoQueue
             /\ pc[r] \in {"enable", "link", "retry"} => ret[r] \in {"srvp", "bottom"}

\* Only write queues of the stream head are on the scan list.
OnlyScanQ == \A i \in DOMAIN lis_scanqhead : lis_scanqhead[i] = ScanQ

BalanceInv == /\ \A r \in Runner : InHand(r)
              /\ IsFiniteSet(HeadRunners)
              /\ OnlyScanQ
              /\ HeadRefsBalanced /\ ReqCntCountsEntries

LEMMA EntriesFinite ==
    ASSUME NEW s \in Seq(Queue)
    PROVE  /\ IsFiniteSet(HeadEntries(s))
           /\ Cardinality(HeadEntries(s)) \in Nat
<1>1. DOMAIN s = 1 .. Len(s) /\ Len(s) \in Nat
  OBVIOUS
<1>2. IsFiniteSet(1 .. Len(s))
  BY <1>1, FS_Interval
<1>3. HeadEntries(s) \in SUBSET (1 .. Len(s))
  BY <1>1 DEF HeadEntries
<1>4. IsFiniteSet(HeadEntries(s))
  BY <1>2, <1>3, FS_Subset
<1> QED
  BY <1>4, FS_CardinalityType

\* A queue is linked at the end.
LEMMA EntriesAppend ==
    ASSUME NEW s \in Seq(Queue), NEW q \in Queue
    PROVE  Cardinality(HeadEntries(Append(s, q)))
              = Cardinality(HeadEntries(s)) + One(Head_q(q))
<1> DEFINE n == Len(s) + 1
           a == Append(s, q)
<1>1. n \in Nat /\ DOMAIN s = 1 .. Len(s) /\ DOMAIN a = 1 .. n
  OBVIOUS
<1>2. a[n] = q /\ \A i \in DOMAIN s : a[i] = s[i]
  OBVIOUS
<1>3. n \notin HeadEntries(s)
  BY <1>1 DEF HeadEntries
<1> HIDE DEF a
<1>4. \A i : i \in DOMAIN a <=> i \in DOMAIN s \/ i = n
  BY <1>1
<1>5. CASE Head_q(q)
  <2>1. HeadEntries(a) = HeadEntries(s) \cup {n}
    BY <1>2, <1>4, <1>5 DEF HeadEntries
  <2>2. Cardinality(HeadEntries(s) \cup {n}) = Cardinality(HeadEntries(s)) + 1
    BY <1>3, EntriesFinite, FS_AddElement
  <2> QED
    BY <1>5, <2>1, <2>2 DEF One, a
<1>6. CASE ~Head_q(q)
  <2>1. \A i \in DOMAIN a : Head_q(a[i]) <=> i \in DOMAIN s /\ Head_q(s[i])
    BY <1>1, <1>2, <1>4, <1>6
  <2>2. HeadEntries(a) = HeadEntries(s)
    BY <1>4, <2>1 DEF HeadEntries
  <2>3. Cardinality(HeadEntries(s)) \in Nat
    BY EntriesFinite
  <2> QED
    BY <1>6, <2>2, <2>3 DEF One, a
<1> QED
  BY <1>5, <1>6

\* The k-th entry is taken out, and those behind it move up.
LEMMA EntriesRemoved ==
    ASSUME NEW s \in Seq(Queue), NEW k \in 1 .. Len(s), NEW u \in Seq(Queue),
           Len(u) = Len(s) - 1,
           \A j \in 1 .. Len(s) - 1 : u[j] = IF j < k THEN s[j] ELSE s[j + 1]
    PROVE  Cardinality(HeadEntries(u))
              = Cardinality(HeadEntries(s)) - One(Head_q(s[k]))
<1>1. /\ Len(s) \in Nat /\ k \in Nat
      /\ DOMAIN s = 1 .. Len(s) /\ DOMAIN u = 1 .. Len(s) - 1
  OBVIOUS
<1> DEFINE H == HeadEntries(s) \ {k}
           f == [j \in HeadEntries(u) |-> IF j < k THEN j ELSE j + 1]
<1>2. \A j \in HeadEntries(u) : j \in 1 .. Len(s) - 1 /\ Head_q(u[j])
  BY <1>1 DEF HeadEntries
<1>3. f \in Injection(HeadEntries(u), H)
  <2>1. ASSUME NEW j \in HeadEntries(u) PROVE f[j] \in H
    <3>1. j \in 1 .. Len(s) - 1 /\ Head_q(u[j])
      BY <1>2
    <3>2. CASE j < k
      <4>1. j \in 1 .. Len(s) /\ j # k /\ Head_q(s[j])
        BY <1>1, <3>1, <3>2
      <4> QED
        BY <1>1, <3>2, <4>1 DEF HeadEntries
    <3>3. CASE ~(j < k)
      <4>1. j + 1 \in 1 .. Len(s) /\ j + 1 # k /\ Head_q(s[j + 1])
        BY <1>1, <3>1, <3>3
      <4> QED
        BY <1>1, <3>3, <4>1 DEF HeadEntries
    <3> QED
      BY <3>2, <3>3
  <2>2. ASSUME NEW i \in HeadEntries(u), NEW j \in HeadEntries(u), f[i] = f[j]
        PROVE  i = j
    BY <1>1, <1>2, <2>2
  <2>3. f \in [HeadEntries(u) -> H]
    BY <2>1
  <2> HIDE DEF f
  <2> QED
    BY <2>2, <2>3 DEF Injection, IsInjective
<1>4. f \in Surjection(HeadEntries(u), H)
  <2>1. ASSUME NEW i \in H PROVE \E j \in HeadEntries(u) : f[j] = i
    <3>1. i \in 1 .. Len(s) /\ i # k /\ Head_q(s[i])
      BY <1>1 DEF HeadEntries
    <3>2. CASE i < k
      <4>1. i \in 1 .. Len(s) - 1 /\ Head_q(u[i])
        BY <1>1, <3>1, <3>2
      <4>2. i \in HeadEntries(u)
        BY <1>1, <4>1 DEF HeadEntries
      <4> QED
        BY <3>2, <4>2
    <3>3. CASE ~(i < k)
      <4>1. i - 1 \in 1 .. Len(s) - 1 /\ ~(i - 1 < k) /\ i - 1 + 1 = i
        BY <1>1, <3>1, <3>3
      <4>2. Head_q(u[i - 1])
        BY <3>1, <4>1
      <4>3. i - 1 \in HeadEntries(u)
        BY <1>1, <4>1, <4>2 DEF HeadEntries
      <4> QED
        BY <4>1, <4>3
    <3> QED
      BY <3>2, <3>3
  <2>2. f \in [HeadEntries(u) -> H]
    BY <1>3 DEF Injection
  <2> HIDE DEF f
  <2> QED
    BY <2>1, <2>2 DEF Surjection
<1>5. ExistsBijection(HeadEntries(u), H)
  BY <1>3, <1>4 DEF ExistsBijection, Bijection
<1>6. Cardinality(H) = Cardinality(HeadEntries(u))
  BY <1>5, EntriesFinite, FS_Bijection
<1>7. Cardinality(H) = IF k \in HeadEntries(s) THEN Cardinality(HeadEntries(s)) - 1
                       ELSE Cardinality(HeadEntries(s))
  BY EntriesFinite, FS_RemoveElement
<1>8. k \in HeadEntries(s) <=> Head_q(s[k])
  BY <1>1 DEF HeadEntries
<1>9. Cardinality(HeadEntries(s)) \in Nat
  BY EntriesFinite
<1> HIDE DEF H
<1> QED
  BY <1>6, <1>7, <1>8, <1>9 DEF One

\* deschedule takes out the first entry of a queue.
LEMMA EntriesUnlink ==
    ASSUME NEW s \in Seq(Queue), NEW q \in Queue
    PROVE  /\ Unlink(s, q) \in Seq(Queue)
           /\ q \notin Range(s) => Unlink(s, q) = s
           /\ Cardinality(HeadEntries(Unlink(s, q)))
                 = Cardinality(HeadEntries(s))
                   - (IF Head_q(q) THEN Len(s) - Len(Unlink(s, q)) ELSE 0)
<1>1. Unlink(s, q) \in Seq(Queue)
  BY UnlinkType
<1>2. Cardinality(HeadEntries(s)) \in Nat
  BY EntriesFinite
<1>3. CASE q \notin Range(s)
  BY <1>1, <1>2, <1>3 DEF Unlink
<1>4. CASE q \in Range(s)
  <2>1. PICK i \in DOMAIN s : s[i] = q
    BY <1>4 DEF Range
  <2> DEFINE k == At(s, q)
             u == Unlink(s, q)
  <2>2. k \in 1 .. Len(s) /\ s[k] = q /\ Len(s) - 1 \in Nat
    BY <2>1 DEF At
  <2>3. u = [j \in 1 .. Len(s) - 1 |-> IF j < k THEN s[j] ELSE s[j + 1]]
    BY <1>4 DEF Unlink
  <2> HIDE DEF k
  <2>4. Len(u) = Len(s) - 1
    BY <2>2, <2>3
  <2>5. \A j \in 1 .. Len(s) - 1 : u[j] = IF j < k THEN s[j] ELSE s[j + 1]
    BY <2>3
  <2> HIDE DEF u
  <2>6. Cardinality(HeadEntries(u)) = Cardinality(HeadEntries(s)) - One(Head_q(s[k]))
    BY <1>1, <2>2, <2>4, <2>5, EntriesRemoved DEF u
  <2> QED
    BY <1>1, <1>4, <2>2, <2>4, <2>6 DEF u, One
<1> QED
  BY <1>3, <1>4

\* queuerun takes the first entry.
LEMMA EntriesTail ==
    ASSUME NEW s \in Seq(Queue), s # <<>>
    PROVE  /\ Head(s) \in Queue /\ Tail(s) \in Seq(Queue)
           /\ Len(Tail(s)) = Len(s) - 1
           /\ Cardinality(HeadEntries(Tail(s)))
                 = Cardinality(HeadEntries(s)) - One(Head_q(Head(s)))
<1>1. /\ Head(s) \in Queue /\ Tail(s) \in Seq(Queue) /\ Len(Tail(s)) = Len(s) - 1
      /\ Head(s) = s[1] /\ 1 \in 1 .. Len(s)
  OBVIOUS
<1>2. \A j \in 1 .. Len(s) - 1 : Tail(s)[j] = IF j < 1 THEN s[j] ELSE s[j + 1]
  OBVIOUS
<1>3. Cardinality(HeadEntries(Tail(s))) = Cardinality(HeadEntries(s)) - One(Head_q(s[1]))
  BY <1>1, <1>2, EntriesRemoved
<1> QED
  BY <1>1, <1>3

\* A runner takes a queue in hand, and lets go of it.
LEMMA RunnerTakes ==
    ASSUME TypeOK, IsFiniteSet(HeadRunners), NEW r \in Runner, NEW q \in Queue,
           cur[r] = NoQueue, cur' = [cur EXCEPT ![r] = q]
    PROVE  /\ IsFiniteSet(HeadRunners')
           /\ Cardinality(HeadRunners') = Cardinality(HeadRunners) + One(Head_q(q))
<1>1. q # NoQueue /\ DOMAIN cur = Thread /\ r \in Thread
  BY StreamAssumption DEF StreamAssumption, TypeOK, Thread
<1>2. r \notin HeadRunners
  BY DEF HeadRunners
<1>3. Cardinality(HeadRunners) \in Nat
  BY FS_CardinalityType
<1>4. CASE Head_q(q)
  <2>1. HeadRunners' = HeadRunners \cup {r}
    BY <1>1, <1>4 DEF HeadRunners, Thread, Head_q
  <2> QED
    BY <1>2, <1>4, <2>1, FS_AddElement DEF One
<1>5. CASE ~Head_q(q)
  <2>1. HeadRunners' = HeadRunners
    BY <1>1, <1>5 DEF HeadRunners, Thread, Head_q
  <2> QED
    BY <1>3, <1>5, <2>1 DEF One
<1> QED
  BY <1>4, <1>5

LEMMA RunnerGives ==
    ASSUME TypeOK, IsFiniteSet(HeadRunners), NEW r \in Runner, cur[r] \in Queue,
           cur' = [cur EXCEPT ![r] = NoQueue]
    PROVE  /\ IsFiniteSet(HeadRunners')
           /\ Cardinality(HeadRunners') = Cardinality(HeadRunners) - One(Head_q(cur[r]))
<1>1. cur[r] # NoQueue /\ DOMAIN cur = Thread /\ r \in Thread
  BY StreamAssumption DEF StreamAssumption, TypeOK, Thread
<1>2. HeadRunners' = HeadRunners \ {r}
  BY <1>1 DEF HeadRunners, Thread, Head_q
<1>3. r \in HeadRunners <=> Head_q(cur[r])
  BY <1>1 DEF HeadRunners
<1>4. Cardinality(HeadRunners) \in Nat
  BY FS_CardinalityType
<1> QED
  BY <1>2, <1>3, <1>4, FS_RemoveElement DEF One

\* A step that leaves the lists and the counts alone, and takes no queue in hand.
LEMMA BalanceFrame ==
    ASSUME BalanceInv, NEW t \in Thread, Others(t), t \in Runner => InHand(t)',
           UNCHANGED <<lis_qhead, lis_scanqhead, lis_runq_req_cnt, sd_refcnt, cur>>
    PROVE  BalanceInv'
<1>1. \A r \in Runner : InHand(r)'
  BY DEF BalanceInv, Others, InHand, Thread
<1>2. HeadRunners' = HeadRunners
  BY DEF HeadRunners, Head_q
<1>3. OnlyScanQ'
  BY DEF BalanceInv, OnlyScanQ, ScanQ
<1>4. HeadRefsBalanced'
  BY DEF BalanceInv, HeadRefsBalanced, Head_q
<1> QED
  BY <1>1, <1>2, <1>3, <1>4 DEF BalanceInv, ReqCntCountsEntries

\* HeadRefsBalanced, in the terms of the lemmas.
LEMMA Balance ==
    HeadRefsBalanced <=>
        sd_refcnt = Cardinality(HeadEntries(lis_qhead)) + Len(lis_scanqhead)
                    + Cardinality(HeadRunners)
BY DEF HeadRefsBalanced, HeadEntries, HeadRunners

LEMMA BalanceQenable ==
    ASSUME TypeOK, Control, BalanceInv, NEW t \in Thread, QenableStep(t)
    PROVE  BalanceInv'
<1>1. Others(t) /\ ret' = ret /\ cur' = cur
  BY ControlQenable DEF QenableStep, Qenable, QenableLink, RetryQenable
<1>2. t \in Runner => InHand(t)'
  BY <1>1 DEF BalanceInv, InHand, QenableStep, Qenable, QenableLink, RetryQenable,
              Goto, TypeOK
<1>3. CASE Qenable(t) \/ RetryQenable(t)
  <2>1. UNCHANGED <<lis_qhead, lis_scanqhead, lis_runq_req_cnt, sd_refcnt, cur>>
    BY <1>3 DEF Qenable, RetryQenable, rvars
  <2> QED
    BY <1>1, <1>2, <2>1, BalanceFrame
<1>4. CASE QenableLink(t)
  <2>1. PICK q \in Queue : q = arg[t]
    BY <1>4 DEF QenableLink, Control, ControlOf
  <2>2. /\ lis_qhead' = Append(lis_qhead, q) /\ lis_qhead \in Seq(Queue)
        /\ lis_runq_req_cnt' = lis_runq_req_cnt + 1
        /\ sd_refcnt' = sd_refcnt + One(Head_q(q))
        /\ lis_scanqhead' = lis_scanqhead
    BY <1>4, <2>1 DEF QenableLink, HeadGet, One, TypeOK
  <2>3. Cardinality(HeadEntries(lis_qhead')) = Cardinality(HeadEntries(lis_qhead))
                                              + One(Head_q(q))
    BY <2>2, EntriesAppend
  <2>4. HeadRunners' = HeadRunners
    BY <1>1 DEF HeadRunners, Head_q
  <2>5. OnlyScanQ'
    BY <2>2 DEF BalanceInv, OnlyScanQ, ScanQ
  <2>6. \A r \in Runner : InHand(r)'
    BY <1>1, <1>2 DEF BalanceInv, Others, InHand, Thread
  <2>7. /\ Cardinality(HeadEntries(lis_qhead)) \in Nat
        /\ Cardinality(HeadRunners) \in Nat
        /\ Len(lis_scanqhead) \in Nat /\ Len(lis_qhead) \in Nat
        /\ One(Head_q(q)) \in Int
    BY EntriesFinite, FS_CardinalityType DEF TypeOK, BalanceInv, One
  <2>8. sd_refcnt' = Cardinality(HeadEntries(lis_qhead')) + Len(lis_scanqhead')
                     + Cardinality(HeadRunners')
    <3>1. sd_refcnt = Cardinality(HeadEntries(lis_qhead)) + Len(lis_scanqhead)
                      + Cardinality(HeadRunners)
      BY Balance DEF BalanceInv
    <3> QED
      BY <2>2, <2>3, <2>4, <2>7, <3>1
  <2>9. HeadRefsBalanced'
    BY <2>8 DEF HeadRefsBalanced, HeadEntries, HeadRunners, Head_q
  <2>10. ReqCntCountsEntries'
    BY <2>2, <2>7 DEF BalanceInv, ReqCntCountsEntries
  <2> QED
    BY <2>4, <2>5, <2>6, <2>9, <2>10 DEF BalanceInv
<1> QED
  BY <1>3, <1>4 DEF QenableStep

\* queuerun takes an entry from a list.
LEMMA BalancePop ==
    ASSUME TypeOK, Control, BalanceInv, NEW r \in Runner, ScanPop(r) \/ MainPop(r)
    PROVE  BalanceInv'
<1>0. r \in Thread /\ cur[r] = NoQueue
  BY DEF Thread, BalanceInv, InHand, ScanPop, MainPop
<1>n. /\ Cardinality(HeadEntries(lis_qhead)) \in Nat
      /\ Cardinality(HeadRunners) \in Nat
      /\ lis_qhead \in Seq(Queue) /\ lis_scanqhead \in Seq(Queue)
      /\ Len(lis_scanqhead) \in Nat /\ Len(lis_qhead) \in Nat
  BY EntriesFinite, FS_CardinalityType DEF TypeOK, BalanceInv
<1>b. sd_refcnt = Cardinality(HeadEntries(lis_qhead)) + Len(lis_scanqhead)
                  + Cardinality(HeadRunners)
  BY Balance DEF BalanceInv
<1>1. \A s \in Runner : InHand(s)'
  BY <1>0 DEF BalanceInv, InHand, ScanPop, MainPop, SetRunning, Goto, TypeOK, Thread
<1>2. CASE MainPop(r)
  <2>1. PICK q \in Queue : q = Head(lis_qhead)
    BY <1>2, <1>n, EntriesTail DEF MainPop
  <2>2. /\ lis_qhead # <<>> /\ lis_qhead' = Tail(lis_qhead)
        /\ lis_runq_req_cnt' = lis_runq_req_cnt - 1
        /\ cur' = [cur EXCEPT ![r] = q]
        /\ UNCHANGED <<lis_scanqhead, sd_refcnt>>
    BY <1>2, <2>1 DEF MainPop, rvars
  <2>3. /\ Len(lis_qhead') = Len(lis_qhead) - 1
        /\ Cardinality(HeadEntries(lis_qhead'))
              = Cardinality(HeadEntries(lis_qhead)) - One(Head_q(q))
    BY <2>1, <2>2, <1>n, EntriesTail
  <2>4. /\ IsFiniteSet(HeadRunners')
        /\ Cardinality(HeadRunners') = Cardinality(HeadRunners) + One(Head_q(q))
    BY <1>0, <2>2, RunnerTakes DEF BalanceInv
  <2>5. OnlyScanQ'
    BY <2>2 DEF BalanceInv, OnlyScanQ, ScanQ
  <2>6. One(Head_q(q)) \in Int
    BY DEF One
  <2>7. sd_refcnt' = Cardinality(HeadEntries(lis_qhead')) + Len(lis_scanqhead')
                     + Cardinality(HeadRunners')
    BY <1>n, <1>b, <2>2, <2>3, <2>4, <2>6
  <2>8. HeadRefsBalanced'
    BY <2>7 DEF HeadRefsBalanced, HeadEntries, HeadRunners, Head_q
  <2>9. ReqCntCountsEntries'
    BY <1>n, <2>2, <2>3 DEF BalanceInv, ReqCntCountsEntries
  <2> QED
    BY <1>1, <2>4, <2>5, <2>8, <2>9 DEF BalanceInv
<1>3. CASE ScanPop(r)
  <2>1. /\ lis_scanqhead # <<>> /\ lis_scanqhead' = Tail(lis_scanqhead)
        /\ lis_runq_req_cnt' = lis_runq_req_cnt - 1
        /\ cur' = [cur EXCEPT ![r] = Head(lis_scanqhead)]
        /\ UNCHANGED <<lis_qhead, sd_refcnt>>
    BY <1>3 DEF ScanPop, rvars
  <2>2. Head(lis_scanqhead) = ScanQ /\ Head_q(ScanQ) /\ ScanQ \in Queue
    <3>1. 1 \in DOMAIN lis_scanqhead /\ Head(lis_scanqhead) = lis_scanqhead[1]
      BY <1>n, <2>1
    <3> QED
      BY <3>1, ScanQType DEF BalanceInv, OnlyScanQ, ScanQ, Head_q
  <2>3. Len(lis_scanqhead') = Len(lis_scanqhead) - 1
    BY <2>1, <1>n
  <2>4. /\ IsFiniteSet(HeadRunners')
        /\ Cardinality(HeadRunners') = Cardinality(HeadRunners) + One(Head_q(ScanQ))
    BY <1>0, <2>1, <2>2, RunnerTakes DEF BalanceInv
  <2>5. \A i \in DOMAIN lis_scanqhead' : i + 1 \in DOMAIN lis_scanqhead
                                         /\ lis_scanqhead'[i] = lis_scanqhead[i + 1]
    BY <2>1, <1>n
  <2>6. OnlyScanQ'
    BY <2>5 DEF BalanceInv, OnlyScanQ, ScanQ
  <2>7. HeadEntries(lis_qhead)' = HeadEntries(lis_qhead)
    BY <2>1 DEF HeadEntries, Head_q
  <2>8. sd_refcnt' = Cardinality(HeadEntries(lis_qhead')) + Len(lis_scanqhead')
                     + Cardinality(HeadRunners')
    BY <1>n, <1>b, <2>1, <2>2, <2>3, <2>4, <2>7 DEF One
  <2>9. HeadRefsBalanced'
    BY <2>8 DEF HeadRefsBalanced, HeadEntries, HeadRunners, Head_q
  <2>10. ReqCntCountsEntries'
    BY <1>n, <2>1, <2>3 DEF BalanceInv, ReqCntCountsEntries
  <2> QED
    BY <1>1, <2>4, <2>6, <2>9, <2>10 DEF BalanceInv
<1> QED
  BY <1>2, <1>3

\* lis_head_put, when the runner has done with the queue.
LEMMA BalanceBottom ==
    ASSUME TypeOK, Control, BalanceInv, NEW r \in Runner, LoopBottom(r)
    PROVE  BalanceInv'
<1>0. r \in Thread /\ cur[r] \in Queue
  BY DEF Thread, Control, ControlOf, LoopBottom
<1>1. /\ cur' = [cur EXCEPT ![r] = NoQueue]
      /\ sd_refcnt' = sd_refcnt - One(Head_q(cur[r]))
      /\ UNCHANGED <<lis_qhead, lis_scanqhead, lis_runq_req_cnt>>
  BY DEF LoopBottom, qvars, HeadPut, One, TypeOK
<1>2. \A s \in Runner : InHand(s)'
  BY <1>0 DEF BalanceInv, InHand, LoopBottom, Goto, TypeOK, Thread
<1>3. /\ IsFiniteSet(HeadRunners')
      /\ Cardinality(HeadRunners') = Cardinality(HeadRunners) - One(Head_q(cur[r]))
  BY <1>0, <1>1, RunnerGives DEF BalanceInv
<1>4. /\ Cardinality(HeadEntries(lis_qhead)) \in Nat
      /\ Cardinality(HeadRunners) \in Nat
      /\ Len(lis_scanqhead) \in Nat
      /\ One(Head_q(cur[r])) \in Int
  BY EntriesFinite, FS_CardinalityType DEF TypeOK, BalanceInv, One
<1>5. sd_refcnt = Cardinality(HeadEntries(lis_qhead)) + Len(lis_scanqhead)
                  + Cardinality(HeadRunners)
  BY Balance DEF BalanceInv
<1>6. sd_refcnt' = Cardinality(HeadEntries(lis_qhead)) + Len(lis_scanqhead)
                   + Cardinality(HeadRunners')
  BY <1>1, <1>3, <1>4, <1>5
<1>7. HeadRefsBalanced'
  BY <1>1, <1>6 DEF HeadRefsBalanced, HeadEntries, HeadRunners, Head_q
<1>8. OnlyScanQ'
  BY <1>1 DEF BalanceInv, OnlyScanQ, ScanQ
<1> QED
  BY <1>1, <1>2, <1>3, <1>7, <1>8 DEF BalanceInv, ReqCntCountsEntries

LEMMA BalanceRunner ==
    ASSUME TypeOK, Control, BalanceInv, NEW r \in Runner, RunnerStep(r)
    PROVE  BalanceInv'
<1>0. r \in Thread /\ Others(r)
  BY ControlRunner DEF Thread
<1>1. CASE QenableStep(r)
  BY <1>0, <1>1, BalanceQenable
<1>2. CASE ScanPop(r) \/ MainPop(r)
  BY <1>2, BalancePop
<1>3. CASE LoopBottom(r)
  BY <1>3, BalanceBottom
<1>4. CASE RunEnd(r)
  <2>1. lis_runq_req_cnt' = lis_runq_req_cnt
    BY <1>4 DEF RunEnd, ListsEmpty, BalanceInv, ReqCntCountsEntries
  <2>2. UNCHANGED <<lis_qhead, lis_scanqhead, sd_refcnt, cur>>
    BY <1>4 DEF RunEnd, rvars
  <2>3. InHand(r)'
    BY <1>0, <1>4 DEF RunEnd, Goto, BalanceInv, InHand, TypeOK
  <2> QED
    BY <1>0, <2>1, <2>2, <2>3, BalanceFrame
<1>5. CASE StartRun(r) \/ ScanEmpty(r) \/ ScanClear(r) \/ ScanSend(r) \/ ScanDone(r)
           \/ ClearQenab(r) \/ EnterService(r) \/ Drain(r) \/ ServiceReturn(r)
           \/ RunDone(r) \/ WakeUp(r) \/ StoreRunning(r)
  <2>1. UNCHANGED <<lis_qhead, lis_scanqhead, lis_runq_req_cnt, sd_refcnt, cur>>
    BY <1>5 DEF StartRun, ScanEmpty, ScanClear, ScanSend, ScanDone, ClearQenab,
                EnterService, Drain, ServiceReturn, RunDone, WakeUp, StoreRunning,
                qvars, rvars
  <2>3. CASE ~(StartRun(r) \/ ScanEmpty(r))
    <3>1. \/ pc'[r] \in {"main_clear", "scan_clear", "scan_lockq", "scan_done", "wakeup",
                         "bottom", "lockq", "srvp", "drained", "done", "oops"}
          \/ /\ pc'[r] = "retry"
             /\ ret'[r] = "bottom"
      BY <1>0, <1>5, <2>3
         DEF ScanClear, ScanSend, ScanDone, ClearQenab, EnterService, Drain,
             ServiceReturn, RunDone, WakeUp, StoreRunning, Goto, TypeOK
    <3>2. InHand(r)'
      BY <3>1 DEF InHand
    <3> QED
      BY <1>0, <2>1, <3>2, BalanceFrame
  <2>4. StartRun(r) \/ ScanEmpty(r) => InHand(r)'
    BY <1>0 DEF StartRun, ScanEmpty, Goto, BalanceInv, InHand, TypeOK
  <2> QED
    BY <1>0, <2>1, <2>3, <2>4, BalanceFrame
<1> QED
  BY <1>1, <1>2, <1>3, <1>4, <1>5 DEF RunnerStep

\* deschedule gives back what it takes out.
LEMMA BalanceDeschedule ==
    ASSUME TypeOK, Control, BalanceInv, NEW c \in Closer, Deschedule(c)
    PROVE  BalanceInv'
<1>0. PICK p \in Pair : p = ArgPair
  BY TodoType DEF Deschedule, Doing
<1> DEFINE wq    == <<p, "wq">>
           rq    == <<p, "rq">>
           scans == lis_scanqhead'
           runs  == lis_qhead'
           gone  == (Len(lis_scanqhead) - Len(scans)) + (Len(lis_qhead) - Len(runs))
<1>1. /\ scans = Unlink(lis_scanqhead, wq) \/ scans = lis_scanqhead
      /\ runs = Unlink(Unlink(lis_qhead, wq), rq) \/ runs = lis_qhead
      /\ lis_runq_req_cnt' = lis_runq_req_cnt - gone
      /\ sd_refcnt' = IF Head_q(wq) THEN sd_refcnt - gone ELSE sd_refcnt
      /\ UNCHANGED <<pc, cur, arg, ret>>
  BY <1>0 DEF Deschedule, tvars
<1>2. /\ wq \in Queue /\ rq \in Queue
      /\ Head_q(rq) <=> Head_q(wq)
      /\ wq = ScanQ => Head_q(wq)
  BY DEF Queue, Side, Head_q, ScanQ
<1>3. /\ lis_qhead \in Seq(Queue) /\ lis_scanqhead \in Seq(Queue)
      /\ runs \in Seq(Queue) /\ scans \in Seq(Queue)
      /\ Len(lis_scanqhead) \in Nat /\ Len(lis_qhead) \in Nat
      /\ Len(runs) \in Nat /\ Len(scans) \in Nat
  BY <1>1, UnlinkType DEF TypeOK
<1>4. /\ Cardinality(HeadEntries(lis_qhead)) \in Nat
      /\ Cardinality(HeadEntries(runs)) \in Nat
      /\ Cardinality(HeadRunners) \in Nat
  BY <1>3, EntriesFinite, FS_CardinalityType DEF BalanceInv
<1>5. Cardinality(HeadEntries(runs)) = Cardinality(HeadEntries(lis_qhead))
          - (IF Head_q(wq) THEN Len(lis_qhead) - Len(runs) ELSE 0)
  <2>1. CASE runs = lis_qhead
    BY <1>3, <1>4, <2>1
  <2>2. CASE runs = Unlink(Unlink(lis_qhead, wq), rq)
    <3> DEFINE m == Unlink(lis_qhead, wq)
    <3>1. /\ m \in Seq(Queue)
          /\ Cardinality(HeadEntries(m)) = Cardinality(HeadEntries(lis_qhead))
                - (IF Head_q(wq) THEN Len(lis_qhead) - Len(m) ELSE 0)
      BY <1>2, <1>3, EntriesUnlink
    <3> HIDE DEF m
    <3>2. Cardinality(HeadEntries(Unlink(m, rq))) = Cardinality(HeadEntries(m))
                - (IF Head_q(rq) THEN Len(m) - Len(Unlink(m, rq)) ELSE 0)
      BY <1>2, <3>1, EntriesUnlink
    <3>3. runs = Unlink(m, rq)
      BY <2>2 DEF m
    <3>4. Len(m) \in Nat /\ Cardinality(HeadEntries(m)) \in Nat
      BY <3>1, EntriesFinite
    <3> HIDE DEF runs, wq, rq
    <3> QED
      BY <1>2, <1>3, <1>4, <3>1, <3>2, <3>3, <3>4
  <2> QED
    BY <1>1, <2>1, <2>2
<1>6. ~Head_q(wq) => scans = lis_scanqhead
  <2>1. wq \in Range(lis_scanqhead) => wq = ScanQ
    BY DEF BalanceInv, OnlyScanQ, Range
  <2> QED
    BY <1>1, <1>2, <1>3, <2>1, EntriesUnlink
<1>7. OnlyScanQ'
  <2>1. CASE scans = lis_scanqhead
    BY <2>1 DEF BalanceInv, OnlyScanQ, ScanQ
  <2>2. CASE scans = Unlink(lis_scanqhead, wq)
    <3>1. ASSUME NEW i \in DOMAIN scans
          PROVE  \E j \in DOMAIN lis_scanqhead : lis_scanqhead[j] = scans[i]
      <4> DEFINE q == scans[i]
                 u == Unlink(lis_scanqhead, wq)
      <4>1. \A l \in DOMAIN u : u[l] = q =>
                \E j \in DOMAIN lis_scanqhead : lis_scanqhead[j] = q
        BY <1>3, UnlinkPlaces
      <4> QED
        BY <2>2, <4>1
    <3> QED
      BY <3>1 DEF BalanceInv, OnlyScanQ, ScanQ
  <2> QED
    BY <1>1, <2>1, <2>2
<1>8. HeadRunners' = HeadRunners
  BY <1>1 DEF HeadRunners, Head_q
<1>9. sd_refcnt = Cardinality(HeadEntries(lis_qhead)) + Len(lis_scanqhead)
                  + Cardinality(HeadRunners)
  BY Balance DEF BalanceInv
<1>10. sd_refcnt' = Cardinality(HeadEntries(runs)) + Len(scans) + Cardinality(HeadRunners)
  <2> DEFINE e1 == Cardinality(HeadEntries(lis_qhead))
             e2 == Cardinality(HeadEntries(runs))
             s1 == Len(lis_scanqhead)
             s2 == Len(scans)
             r1 == Len(lis_qhead)
             r2 == Len(runs)
             n  == Cardinality(HeadRunners)
  <2>0. /\ e1 \in Nat /\ e2 \in Nat /\ s1 \in Nat /\ s2 \in Nat
        /\ r1 \in Nat /\ r2 \in Nat /\ n \in Nat
        /\ sd_refcnt = e1 + s1 + n
    BY <1>3, <1>4, <1>9
  <2>1. CASE Head_q(wq)
    <3>1. e2 = e1 - (r1 - r2) /\ sd_refcnt' = sd_refcnt - ((s1 - s2) + (r1 - r2))
      BY <1>1, <1>5, <2>1
    <3> HIDE DEF e1, e2, s1, s2, r1, r2, n
    <3>2. sd_refcnt' = e2 + s2 + n
      BY <2>0, <3>1
    <3> QED
      BY <3>2 DEF e2, s2, n
  <2>2. CASE ~Head_q(wq)
    <3>1. e2 = e1 - 0 /\ s2 = s1 /\ sd_refcnt' = sd_refcnt
      BY <1>1, <1>5, <1>6, <2>2
    <3> HIDE DEF e1, e2, s1, s2, r1, r2, n
    <3>2. sd_refcnt' = e2 + s2 + n
      BY <2>0, <3>1
    <3> QED
      BY <3>2 DEF e2, s2, n
  <2> QED
    BY <2>1, <2>2
<1>11. HeadRefsBalanced'
  BY <1>8, <1>10 DEF HeadRefsBalanced, HeadEntries, HeadRunners, Head_q
<1>12. ReqCntCountsEntries'
  BY <1>1, <1>3 DEF BalanceInv, ReqCntCountsEntries
<1>13. \A r \in Runner : InHand(r)'
  BY <1>1 DEF BalanceInv, InHand
<1> QED
  BY <1>7, <1>8, <1>11, <1>12, <1>13 DEF BalanceInv

LEMMA BalanceCloser ==
    ASSUME TypeOK, Control, BalanceInv, NEW c \in Closer, CloserStep(c)
    PROVE  BalanceInv'
<1>0. c \in Thread /\ c \notin Runner
  BY ThreadAssumption DEF ThreadAssumption, Thread
<1>1. CASE QenableStep(c)
  BY <1>0, <1>1, BalanceQenable
<1>2. CASE Deschedule(c)
  BY <1>2, BalanceDeschedule
<1>3. CASE Freeze(c) \/ Unfreeze(c) \/ MarkClosing(c) \/ ProcsOff(c)
           \/ QiQclose(c) \/ AwaitQsched(c) \/ AwaitDown(c) \/ FreeQ(c)
  <2> USE <1>0 DEF Freeze, Unfreeze, MarkClosing, ProcsOff, QiQclose,
                   AwaitQsched, AwaitDown, FreeQ, qvars, tvars, Goto
  <2>1. Others(c)
    BY <1>3 DEF Others, TypeOK
  <2>2. UNCHANGED <<lis_qhead, lis_scanqhead, lis_runq_req_cnt, sd_refcnt, cur>>
    BY <1>3
  <2> QED
    BY <1>0, <2>1, <2>2, BalanceFrame
<1> QED
  BY <1>1, <1>2, <1>3 DEF CloserStep

\* add_to_scanl takes a reference for the entry it links.
LEMMA BalanceScanLink ==
    ASSUME TypeOK, Control, BalanceInv, NEW t \in Timer, ScanLink(t)
    PROVE  BalanceInv'
<1>0. t \in Thread /\ t \notin Runner
  BY ThreadAssumption DEF ThreadAssumption, Thread
<1>1. /\ lis_scanqhead' = Append(lis_scanqhead, ScanQ)
      /\ lis_runq_req_cnt' = lis_runq_req_cnt + 1
      /\ sd_refcnt' = sd_refcnt + 1
      /\ UNCHANGED <<lis_qhead, cur, ret>>
      /\ \A r \in Runner : pc'[r] = pc[r]
  BY <1>0 DEF ScanLink, Goto, TypeOK, Thread
<1>2. /\ lis_scanqhead \in Seq(Queue) /\ ScanQ \in Queue
      /\ Len(lis_scanqhead) \in Nat /\ Len(lis_qhead) \in Nat
      /\ Len(lis_scanqhead') = Len(lis_scanqhead) + 1
  BY <1>1, ScanQType DEF TypeOK
<1>3. OnlyScanQ'
  <2>1. \A i \in DOMAIN lis_scanqhead' :
            lis_scanqhead'[i] = ScanQ \/ (i \in DOMAIN lis_scanqhead
                                          /\ lis_scanqhead'[i] = lis_scanqhead[i])
    BY <1>1, <1>2
  <2> QED
    BY <2>1 DEF BalanceInv, OnlyScanQ, ScanQ
<1>4. HeadRunners' = HeadRunners
  BY <1>1 DEF HeadRunners, Head_q
<1>5. /\ Cardinality(HeadEntries(lis_qhead)) \in Nat
      /\ Cardinality(HeadRunners) \in Nat
  BY EntriesFinite, FS_CardinalityType DEF TypeOK, BalanceInv
<1>6. sd_refcnt = Cardinality(HeadEntries(lis_qhead)) + Len(lis_scanqhead)
                  + Cardinality(HeadRunners)
  BY Balance DEF BalanceInv
<1>7. sd_refcnt' = Cardinality(HeadEntries(lis_qhead)) + Len(lis_scanqhead')
                   + Cardinality(HeadRunners)
  BY <1>1, <1>2, <1>5, <1>6
<1>8. HeadRefsBalanced'
  BY <1>1, <1>4, <1>7 DEF HeadRefsBalanced, HeadEntries, HeadRunners, Head_q
<1>9. ReqCntCountsEntries'
  BY <1>1, <1>2 DEF BalanceInv, ReqCntCountsEntries
<1>10. \A r \in Runner : InHand(r)'
  BY <1>1 DEF BalanceInv, InHand
<1> QED
  BY <1>3, <1>4, <1>8, <1>9, <1>10 DEF BalanceInv

LEMMA BalanceInit == Init => BalanceInv
<1> SUFFICES ASSUME Init PROVE BalanceInv
  OBVIOUS
<1>1. \A r \in Runner : cur[r] = NoQueue /\ pc[r] = "idle"
  BY DEF Init, Thread
<1>2. HeadRunners = {}
  BY <1>1 DEF HeadRunners
<1>3. HeadEntries(lis_qhead) = {} /\ lis_scanqhead = <<>> /\ lis_qhead = <<>>
      /\ sd_refcnt = 0 /\ lis_runq_req_cnt = 0
  BY DEF Init, HeadEntries
<1>4. IsFiniteSet(HeadRunners) /\ HeadRefsBalanced
  BY <1>2, <1>3, FS_EmptySet, Balance
<1>5. OnlyScanQ /\ ReqCntCountsEntries
  BY <1>3 DEF OnlyScanQ, ReqCntCountsEntries
<1> QED
  BY <1>1, <1>4, <1>5 DEF BalanceInv, InHand

LEMMA BalanceNext == TypeOK /\ Control /\ BalanceInv /\ [Next]_vars => BalanceInv'
<1> SUFFICES ASSUME TypeOK, Control, BalanceInv, [Next]_vars PROVE BalanceInv'
  OBVIOUS
<1>0. Caller \cap Runner = {} /\ Timer \cap Runner = {}
  BY ThreadAssumption DEF ThreadAssumption
<1>1. ASSUME NEW t \in Caller, NEW q \in Queue, CallQenable(t, q) PROVE BalanceInv'
  <2>1. t \in Thread /\ t \notin Runner /\ Others(t)
    BY <1>0, <1>1 DEF Thread, CallQenable, Goto, TypeOK, Others
  <2>2. UNCHANGED <<lis_qhead, lis_scanqhead, lis_runq_req_cnt, sd_refcnt, cur>>
    BY <1>1 DEF CallQenable, rvars
  <2> QED
    BY <2>1, <2>2, BalanceFrame
<1>2. ASSUME NEW r \in Runner, NEW q \in Queue, ServiceCallsQenable(r, q)
      PROVE  BalanceInv'
  <2>1. r \in Thread /\ Others(r)
    BY <1>2 DEF Thread, ServiceCallsQenable, Goto, TypeOK, Others
  <2>2. UNCHANGED <<lis_qhead, lis_scanqhead, lis_runq_req_cnt, sd_refcnt, cur>>
    BY <1>2 DEF ServiceCallsQenable, rvars
  <2>3. InHand(r)'
    BY <1>2, <2>1 DEF ServiceCallsQenable, InHand, Goto, TypeOK
  <2> QED
    BY <2>1, <2>2, <2>3, BalanceFrame
<1>3. ASSUME NEW t \in Caller, QenableStep(t) PROVE BalanceInv'
  BY <1>3, BalanceQenable DEF Thread
<1>4. ASSUME NEW r \in Runner, RunnerStep(r) PROVE BalanceInv'
  BY <1>4, BalanceRunner
<1>5. ASSUME NEW t \in Timer, AddToScanl(t) PROVE BalanceInv'
  <2>1. t \in Thread /\ t \notin Runner /\ Others(t)
    BY <1>0, <1>5 DEF Thread, AddToScanl, Goto, TypeOK, Others
  <2>2. UNCHANGED <<lis_qhead, lis_scanqhead, lis_runq_req_cnt, sd_refcnt, cur>>
    BY <1>5 DEF AddToScanl, rvars
  <2> QED
    BY <2>1, <2>2, BalanceFrame
<1>6. ASSUME NEW t \in Timer, ScanLink(t) PROVE BalanceInv'
  BY <1>6, BalanceScanLink
<1>7. ASSUME NEW c \in Closer, CloserStep(c) PROVE BalanceInv'
  BY <1>7, BalanceCloser
<1>8. CASE UNCHANGED vars
  <2>1. UNCHANGED <<lis_qhead, lis_scanqhead, lis_runq_req_cnt, sd_refcnt, cur, pc, ret>>
    BY <1>8 DEF vars, qvars, rvars, tvars
  <2>2. HeadRunners' = HeadRunners /\ \A r \in Runner : InHand(r)'
    BY <2>1 DEF HeadRunners, Head_q, BalanceInv, InHand
  <2>3. OnlyScanQ' /\ ReqCntCountsEntries'
    BY <2>1 DEF BalanceInv, OnlyScanQ, ScanQ, ReqCntCountsEntries
  <2>4. HeadRefsBalanced'
    BY <2>1 DEF BalanceInv, HeadRefsBalanced, Head_q
  <2> QED
    BY <2>2, <2>3, <2>4 DEF BalanceInv
<1>9. CASE Gone
  BY <1>8, <1>9 DEF Gone
<1> QED
  BY <1>1, <1>2, <1>3, <1>4, <1>5, <1>6, <1>7, <1>8, <1>9
     DEF Next, CallerStep, TimerStep

\* The scheduler gives the stream head back as often as it has taken it, whatever
\* deschedule removes meanwhile, and lis_runq_req_cnt is what is on the lists: with
\* held writes or without, with torn updates of q_flag or indivisible ones.
THEOREM ListsBalanced == Spec => [](HeadRefsBalanced /\ ReqCntCountsEntries)
<1>1. Init => TypeOK /\ Control /\ BalanceInv
  BY TypeInit, ControlInit, BalanceInit
<1>2. TypeOK /\ Control /\ BalanceInv /\ [Next]_vars => (TypeOK /\ Control /\ BalanceInv)'
  BY TypeNext, ControlNext, BalanceNext
<1>3. TypeOK /\ Control /\ BalanceInv => HeadRefsBalanced /\ ReqCntCountsEntries
  BY DEF BalanceInv
<1> QED
  BY <1>1, <1>2, <1>3, PTL DEF Spec

-----------------------------------------------------------------------------
(* Scheduled once, and no work stranded, with held writes and torn flags   *)

\* Plumbing that takes nothing away: a push, or none.
Gentle == {"freeze", "unfreeze", "await"}
Marked == {"QCLOSING", "QPROCSOFF"}

\* Nothing is closed, marked or freed.
Plain == /\ freed = {}
         /\ \A i \in DOMAIN todo : todo[i].op \in Gentle
         /\ \A q \in Queue : q_flag[q] \cap Marked = {}
         /\ \A r \in Runner : seen[r] \cap Marked = {} /\ ~procsoff[r]

\* Where the update of q_flag is divided, the write queue of the stream head, which is
\* on the scan list, is never enabled.
Wished    == {"QENAB", "QWANTENAB"}
ScanApart ==
    /\ AtomicFlags => \A r \in Runner : pc[r] \notin {"main_rmw", "scan_rmw"}
    /\ \A r \in Runner : pc[r] = "scan_rmw" =>
            cur[r] = ScanQ /\ seen[r] \cap Wished = {}
    /\ ~AtomicFlags =>
            /\ ~work[ScanQ] /\ q_flag[ScanQ] \cap Wished = {}
            /\ \A t \in Thread : pc[t] \in {"enable", "link"} => arg[t] # ScanQ

\* A queue has one place to be in, and QENAB says that it has one; the store of a
\* divided "q_flag |= QRUNNING" does not lose it.
Placed(q) == Listed(q) # {} \/ Linking(q) # {} \/ Popped(q) # {}
Places ==
    \A q \in Queue :
        /\ \A i, j \in Listed(q) : i = j
        /\ \A t, u \in Linking(q) : t = u
        /\ \A r, s \in Popped(q) : r = s
        /\ Listed(q) # {} => Linking(q) = {}
        /\ Popped(q) # {} => Listed(q) = {} /\ Linking(q) = {}
        /\ "QENAB" \in q_flag[q] <=> Placed(q)
        /\ \A r \in Popped(q) : pc[r] = "main_rmw" => "QENAB" \in seen[r]

\* Who will look at the work of a queue.
Enables(t, q) == arg[t] = q /\ pc[t] \in {"enable", "link"}
Serves(r, q)  == /\ cur[r] = q
                 /\ \/ pc[r] \in {"lockq", "srvp"}
                    \/ /\ pc[r] \in {"enable", "link"}
                       /\ ret[r] = "srvp"
Covered == \A q \in Queue : work[q] =>
               \/ q_flag[q] \cap Wished # {}
               \/ \E t \in Thread : Enables(t, q)
               \/ \E r \in Runner : Serves(r, q)

LEMMA GentleStep ==
    ASSUME TypeOK, Plain, NEW c, NEW op, Doing(c, op)
    PROVE  op \in Gentle
<1>1. 1 \in DOMAIN todo /\ todo[1] = Head(todo)
  BY DEF Doing, TypeOK
<1> QED
  BY <1>1 DEF Doing, Plain

\* The steps that a gentle program does not take.
LEMMA NeverTaken ==
    ASSUME TypeOK, Plain, NEW c
    PROVE  /\ ~MarkClosing(c) /\ ~ProcsOff(c) /\ ~QiQclose(c)
           /\ ~Deschedule(c) /\ ~FreeQ(c)
<1>1. \A op : Doing(c, op) => op \in Gentle
  BY GentleStep
<1>2. /\ ~Doing(c, "mark_closing") /\ ~Doing(c, "procsoff") /\ ~Doing(c, "qi_qclose")
      /\ ~Doing(c, "deschedule") /\ ~Doing(c, "free")
  BY <1>1 DEF Gentle
<1> QED
  BY <1>2 DEF MarkClosing, ProcsOff, QiQclose, Deschedule, FreeQ

\* What a step may do to the flags, the program and the pairs of a stream that is only
\* frozen and thawed.
Tame == /\ freed' = freed
        /\ todo' = todo \/ (todo # <<>> /\ todo' = Tail(todo))
        /\ \A q \in Queue : q_flag'[q] \cap Marked = {}
        /\ \A r \in Runner : seen'[r] \cap Marked = {} /\ ~procsoff'[r]

LEMMA PlainKept == ASSUME TypeOK, Plain, Tame PROVE Plain'
<1>1. \A i \in DOMAIN todo' : todo'[i].op \in Gentle
  <2>1. CASE todo' = todo
    BY <2>1 DEF Plain
  <2>2. CASE todo # <<>> /\ todo' = Tail(todo)
    <3>1. \A i \in DOMAIN todo' : i + 1 \in DOMAIN todo /\ todo'[i] = todo[i + 1]
      BY <2>2 DEF TypeOK
    <3> QED
      BY <3>1 DEF Plain
  <2> QED
    BY <2>1, <2>2 DEF Tame
<1> QED
  BY <1>1 DEF Plain, Tame

LEMMA TameQenable ==
    ASSUME TypeOK, Control, Plain, NEW t \in Thread, QenableStep(t)
    PROVE  Tame
<1>1. CASE Qenable(t)
  BY <1>1 DEF Tame, Plain, Qenable, SetFlags, Marked, rvars
<1>2. CASE QenableLink(t)
  BY <1>2 DEF Tame, Plain, QenableLink
<1>3. CASE RetryQenable(t)
  BY <1>3 DEF Tame, Plain, RetryQenable, ClrFlags, rvars
<1> QED
  BY <1>1, <1>2, <1>3 DEF QenableStep

LEMMA TameRunner ==
    ASSUME TypeOK, Control, Plain, NEW r \in Runner, RunnerStep(r)
    PROVE  Tame
<1>0. r \in Thread /\ \A s \in Runner : s \in Thread
  BY DEF Thread
<1>f. /\ freed' = freed /\ todo' = todo
  BY ControlRunner DEF RunnerStep, StartRun, ScanPop, ScanEmpty, MainPop, StoreRunning,
     ScanClear, ScanSend, ScanDone, ClearQenab, EnterService, Drain, ServiceReturn,
     RunDone, WakeUp, LoopBottom, RunEnd, QenableStep, Qenable, QenableLink,
     RetryQenable, rvars
<1>1. CASE QenableStep(r)
  BY <1>0, <1>1, TameQenable
<1>2. CASE StartRun(r) \/ ScanEmpty(r) \/ ScanSend(r) \/ EnterService(r) \/ Drain(r)
           \/ ServiceReturn(r) \/ WakeUp(r) \/ RunEnd(r)
  <2>1. UNCHANGED <<q_flag, seen, procsoff>>
    BY <1>2 DEF StartRun, ScanEmpty, ScanSend, EnterService, Drain, ServiceReturn,
                WakeUp, RunEnd, qvars
  <2> QED
    BY <1>f, <2>1 DEF Tame, Plain
<1>3. CASE ScanPop(r) \/ MainPop(r)
  <2>1. PICK q \in Queue : \E l, n : SetRunning(r, q, l, n)
    <3>1. /\ lis_qhead # <<>> => Head(lis_qhead) \in Queue
          /\ lis_scanqhead # <<>> => Head(lis_scanqhead) \in Queue
      BY DEF TypeOK
    <3> QED
      BY <1>3, <3>1 DEF ScanPop, MainPop
  <2>2. procsoff' = procsoff
    BY <1>3 DEF ScanPop, MainPop
  <2>q. q_flag' = q_flag \/ q_flag' = SetFlags({q}, {"QRUNNING"})
    BY <2>1 DEF SetRunning
  <2>m. \A p \in Queue : \A f \in Marked : f \in q_flag'[p] => f \in q_flag[p]
    BY <2>q DEF SetFlags, Marked
  <2>3. \A p \in Queue : q_flag'[p] \cap Marked = {}
    BY <2>m DEF Plain
  <2>4. \A s \in Runner : seen'[s] \cap Marked = {}
    BY <1>0, <2>1 DEF SetRunning, Plain, TypeOK
  <2> QED
    BY <1>f, <2>2, <2>3, <2>4 DEF Tame, Plain
<1>4. CASE StoreRunning(r)
  <2>1. cur[r] \in Queue
    BY <1>0, <1>4 DEF StoreRunning, Control, ControlOf, RunPc
  <2>2. PICK f : /\ q_flag' = [q_flag EXCEPT ![cur[r]] = f]
                 /\ f \subseteq seen[r] \cup q_flag[cur[r]] \cup {"QRUNNING"}
    BY <1>4 DEF StoreRunning
  <2>3. \A p \in Queue : q_flag'[p] \cap Marked = {}
    <3>1. f \cap Marked = {}
      BY <2>1, <2>2 DEF Plain, Marked
    <3>2. \A p \in Queue : q_flag'[p] = f \/ q_flag'[p] = q_flag[p]
      BY <2>2 DEF TypeOK
    <3> QED
      BY <3>1, <3>2 DEF Plain
  <2>4. \A s \in Runner : seen'[s] \cap Marked = {}
    BY <1>0, <1>4 DEF StoreRunning, Plain, TypeOK
  <2>5. procsoff' = procsoff
    BY <1>4 DEF StoreRunning
  <2> QED
    BY <1>f, <2>3, <2>4, <2>5 DEF Tame, Plain
<1>5. CASE ScanClear(r) \/ ClearQenab(r)
  <2>1. cur[r] \in Queue
    BY <1>0, <1>5 DEF ScanClear, ClearQenab, Control, ControlOf, RunPc
  <2>2. /\ ~Has(cur[r], {"QCLOSING", "QPROCSOFF"})
        /\ ~Has(cur[r], {"QPROCSOFF"})
    BY <2>1 DEF Plain, Has, Marked
  <2>3. \A s \in Runner : ~procsoff'[s]
    BY <1>0, <1>5, <2>2 DEF ScanClear, ClearQenab, Plain, TypeOK
  <2>4. \A p \in Queue : q_flag'[p] \subseteq q_flag[p]
    BY <1>5 DEF ScanClear, ClearQenab, ClrFlags
  <2>5. seen' = seen
    BY <1>5 DEF ScanClear, ClearQenab
  <2> QED
    BY <1>f, <2>3, <2>4, <2>5 DEF Tame, Plain
<1>6. CASE ScanDone(r) \/ RunDone(r)
  <2>1. \A p \in Queue : q_flag'[p] \subseteq q_flag[p]
    BY <1>6 DEF ScanDone, RunDone, ClrFlags
  <2>2. seen' = seen /\ procsoff' = procsoff
    BY <1>6 DEF ScanDone, RunDone
  <2> QED
    BY <1>f, <2>1, <2>2 DEF Tame, Plain
<1>7. CASE LoopBottom(r)
  <2>1. \A s \in Runner : ~procsoff'[s]
    BY <1>0, <1>7 DEF LoopBottom, Plain, TypeOK
  <2>2. seen' = seen /\ q_flag' = q_flag
    BY <1>7 DEF LoopBottom, qvars
  <2> QED
    BY <1>f, <2>1, <2>2 DEF Tame, Plain
<1> QED
  BY <1>1, <1>2, <1>3, <1>4, <1>5, <1>6, <1>7 DEF RunnerStep

LEMMA TameCloser ==
    ASSUME TypeOK, Control, Plain, NEW c \in Closer, CloserStep(c)
    PROVE  Tame
<1>0. c \in Thread
  BY DEF Thread
<1>1. CASE QenableStep(c)
  BY <1>0, <1>1, TameQenable
<1>2. CASE Freeze(c) \/ Unfreeze(c) \/ AwaitQsched(c) \/ AwaitDown(c)
  <2> USE DEF Freeze, Unfreeze, AwaitQsched, AwaitDown, tvars, Doing, DoneStep
  <2>1. freed' = freed /\ seen' = seen /\ procsoff' = procsoff
    BY <1>2
  <2>2. todo' = todo \/ (todo # <<>> /\ todo' = Tail(todo))
    BY <1>2 DEF Control
  <2>3. \A q \in Queue : q_flag'[q] \cap Marked = {}
    BY <1>2 DEF SetFlags, ClrFlags, Plain, Marked
  <2> QED
    BY <2>1, <2>2, <2>3 DEF Tame, Plain
<1> QED
  BY <1>1, <1>2, NeverTaken DEF CloserStep

LEMMA TameNext == ASSUME TypeOK, Control, Plain, [Next]_vars PROVE Plain'
<1>1. ASSUME NEW t \in Caller, NEW q \in Queue, CallQenable(t, q) PROVE Tame
  BY <1>1 DEF Tame, Plain, CallQenable, rvars
<1>2. ASSUME NEW r \in Runner, NEW q \in Queue, ServiceCallsQenable(r, q) PROVE Tame
  BY <1>2 DEF Tame, Plain, ServiceCallsQenable, rvars
<1>3. ASSUME NEW t \in Caller, QenableStep(t) PROVE Tame
  BY <1>3, TameQenable DEF Thread
<1>4. ASSUME NEW r \in Runner, RunnerStep(r) PROVE Tame
  BY <1>4, TameRunner
<1>5. ASSUME NEW t \in Timer, AddToScanl(t) PROVE Tame
  BY <1>5 DEF Tame, Plain, AddToScanl, rvars, SetFlags, Marked
<1>6. ASSUME NEW t \in Timer, ScanLink(t) PROVE Tame
  BY <1>6 DEF Tame, Plain, ScanLink
<1>7. ASSUME NEW c \in Closer, CloserStep(c) PROVE Tame
  BY <1>7, TameCloser
<1>8. UNCHANGED vars => Tame
  BY DEF Tame, Plain, vars, qvars, rvars, tvars
<1>9. Gone => Tame
  BY <1>8 DEF Gone
<1>10. Tame
  BY <1>1, <1>2, <1>3, <1>4, <1>5, <1>6, <1>7, <1>8, <1>9
     DEF Next, CallerStep, TimerStep
<1> QED
  BY <1>10, PlainKept

\* The steps of thread t that schedule nothing, take nothing from the run list, and
\* leave the work of every queue to whom it was left.
InPlace  == {"enable", "link", "main_rmw", "main_clear", "scan_rmw"}
Idles(t) ==
    /\ Others(t) /\ lis_qhead' = lis_qhead
    /\ \A u \in Thread \ {t} : seen'[u] = seen[u]
    /\ \A q \in Queue : work'[q] = work[q]
    /\ \A q \in Queue : \A f \in Wished : f \in q_flag'[q] <=> f \in q_flag[q]
    /\ pc[t] \notin InPlace /\ pc'[t] \notin InPlace
    /\ t \in Runner => \A q \in Queue : Serves(t, q) => Serves(t, q)'

Lists == ScanApart /\ Places /\ Covered

LEMMA PlacesFrame ==
    ASSUME Places, NEW t \in Thread, Others(t), lis_qhead' = lis_qhead,
           \A u \in Thread \ {t} : seen'[u] = seen[u],
           \A q \in Queue : "QENAB" \in q_flag'[q] <=> "QENAB" \in q_flag[q],
           pc[t] \notin {"link", "main_rmw", "main_clear"},
           pc'[t] \notin {"link", "main_rmw", "main_clear"}
    PROVE  Places'
<1>1. \A q \in Queue : Listed(q)' = Listed(q)
  BY DEF Listed
<1>2. \A q \in Queue : Linking(q)' = Linking(q)
  BY DEF Linking, Others
<1>3. \A q \in Queue : Popped(q)' = Popped(q) /\ t \notin Popped(q)
  BY DEF Popped, Others, Thread
<1>4. \A q \in Queue : \A r \in Popped(q) :
          r \in Thread \ {t} /\ pc'[r] = pc[r] /\ seen'[r] = seen[r]
  BY <1>3 DEF Popped, Others, Thread
<1> QED
  BY <1>1, <1>2, <1>3, <1>4 DEF Places, Placed

LEMMA IdlesKeeps ==
    ASSUME Lists, NEW t \in Thread, Idles(t)
    PROVE  Lists'
<1>1. Places'
  BY PlacesFrame DEF Lists, Idles, InPlace, Wished
<1>2. ScanApart'
  <2>1. ScanQ' = ScanQ /\ ScanQ \in Queue
    BY ScanQType DEF ScanQ
  <2> QED
    BY <2>1 DEF Lists, ScanApart, Idles, InPlace, Others, Wished, Thread
<1>3. Covered'
  <2>1. \A q \in Queue : \A u \in Thread : Enables(u, q) => Enables(u, q)'
    BY DEF Idles, InPlace, Others, Enables
  <2>2. \A q \in Queue : \A r \in Runner : Serves(r, q) => Serves(r, q)'
    BY DEF Idles, Others, Serves, Thread
  <2>3. \A q \in Queue : q_flag[q] \cap Wished # {} => q_flag'[q] \cap Wished # {}
    BY DEF Idles
  <2> QED
    BY <2>1, <2>2, <2>3 DEF Lists, Covered, Idles
<1> QED
  BY <1>1, <1>2, <1>3 DEF Lists

\* Thread t begins lis_qenable for q, because there is work for q or because it was
\* wished for.
Begins(t, q) ==
    /\ Others(t) /\ lis_qhead' = lis_qhead /\ seen' = seen
    /\ \A p \in Queue \ {q} : work'[p] = work[p] /\ q_flag'[p] = q_flag[p]
    /\ "QENAB" \in q_flag'[q] <=> "QENAB" \in q_flag[q]
    /\ pc[t] \notin InPlace /\ pc'[t] = "enable" /\ arg'[t] = q
    /\ t \in Runner => \A p \in Queue : Serves(t, p) => Serves(t, p)'
    /\ AtomicFlags \/ q # ScanQ

LEMMA BeginsKeeps ==
    ASSUME Lists, NEW t \in Thread, NEW q \in Queue, Begins(t, q)
    PROVE  Lists'
<1>1. Places'
  <2>1. \A p \in Queue : "QENAB" \in q_flag'[p] <=> "QENAB" \in q_flag[p]
    BY DEF Begins
  <2> QED
    BY <2>1, PlacesFrame DEF Lists, Begins, InPlace
<1>2. ScanApart'
  <2>1. ScanQ' = ScanQ /\ ScanQ \in Queue
    BY ScanQType DEF ScanQ
  <2> QED
    BY <2>1 DEF Lists, ScanApart, Begins, InPlace, Others, Thread
<1>3. Covered'
  <2>1. \A p \in Queue : \A u \in Thread : Enables(u, p) => Enables(u, p)'
    BY DEF Begins, InPlace, Others, Enables
  <2>2. \A p \in Queue : \A r \in Runner : Serves(r, p) => Serves(r, p)'
    BY DEF Begins, Others, Serves, Thread
  <2>3. Enables(t, q)'
    BY DEF Begins, Enables
  <2>4. ASSUME NEW p \in Queue, work'[p]
        PROVE  \/ q_flag'[p] \cap Wished # {}
               \/ \E u \in Thread : Enables(u, p)'
               \/ \E r \in Runner : Serves(r, p)'
    <3>1. CASE p = q
      BY <2>3, <3>1
    <3>2. CASE p # q
      <4>1. work[p] /\ q_flag'[p] = q_flag[p]
        BY <2>4, <3>2 DEF Begins
      <4> QED
        BY <2>1, <2>2, <4>1 DEF Lists, Covered
    <3> QED
      BY <3>1, <3>2
  <2> QED
    BY <2>4 DEF Covered
<1> QED
  BY <1>1, <1>2, <1>3 DEF Lists

\* Under the isr lock: scheduled, or put off.
LEMMA ListsQenable ==
    ASSUME TypeOK, Control, Plain, Lists, NEW t \in Thread, Qenable(t)
    PROVE  Lists'
<1>1. PICK q \in Queue : q = arg[t]
  BY DEF Qenable, Control, ControlOf
<1>2. /\ pc[t] = "enable" /\ Live(q) /\ Others(t) /\ q[1] \notin freed
      /\ UNCHANGED <<lis_qhead, work, cur, arg, ret, seen>>
      /\ ret[t] \in {"idle", "srvp", "bottom"}
      /\ t \in Thread /\ Enables(t, q)
  BY <1>1 DEF Qenable, Plain, Live, Control, ControlOf, Enables, Others, Goto, TypeOK
<1>3. CASE Has(q, Q_INH_ENABLE)
  <2>1. Has(q, Q_DEFER_ENABLE)
    BY <1>3 DEF Plain, Has, Q_DEFER_ENABLE, Q_INH_ENABLE, Marked
  <2>2. q_flag' = SetFlags({q}, {"QWANTENAB"}) /\ pc' = [pc EXCEPT ![t] = ret[t]]
    BY <1>1, <1>2, <1>3, <2>1 DEF Qenable, Goto
  <2>3. /\ pc'[t] \in {"idle", "srvp", "bottom"} /\ pc'[t] = ret[t]
        /\ \A p \in Queue \ {q} : q_flag'[p] = q_flag[p]
        /\ q_flag'[q] = q_flag[q] \cup {"QWANTENAB"}
    BY <1>2, <2>2 DEF TypeOK, SetFlags
  <2>4. Places'
    <3>1. \A p \in Queue : "QENAB" \in q_flag'[p] <=> "QENAB" \in q_flag[p]
      BY <2>3
    <3> QED
      BY <1>2, <2>3, <3>1, PlacesFrame DEF Lists
  <2>5. ScanApart'
    <3>1. ScanQ' = ScanQ /\ ScanQ \in Queue
      BY ScanQType DEF ScanQ
    <3>2. ~AtomicFlags => q # ScanQ
      BY <1>1, <1>2 DEF Lists, ScanApart
    <3> QED
      BY <1>2, <2>3, <3>1, <3>2 DEF Lists, ScanApart, Others, Thread
  <2>6. Covered'
    <3>1. q_flag'[q] \cap Wished # {}
      BY <2>3 DEF Wished
    <3>2. \A p \in Queue \ {q} : \A u \in Thread : Enables(u, p) => Enables(u, p)'
      BY <1>1, <1>2 DEF Others, Enables
    <3>3. \A p \in Queue : \A r \in Runner : Serves(r, p) => Serves(r, p)'
      BY <1>2, <2>3 DEF Others, Serves, Thread
    <3> QED
      BY <1>2, <2>3, <3>1, <3>2, <3>3 DEF Lists, Covered
  <2> QED
    BY <2>4, <2>5, <2>6 DEF Lists
<1>4. CASE ~Has(q, Q_INH_ENABLE)
  <2>1. q_flag' = SetFlags({q}, {"QENAB"}) /\ pc' = [pc EXCEPT ![t] = "link"]
    BY <1>1, <1>2, <1>4 DEF Qenable, Goto
  <2>2. /\ pc'[t] = "link"
        /\ \A p \in Queue \ {q} : q_flag'[p] = q_flag[p]
        /\ q_flag'[q] = q_flag[q] \cup {"QENAB"}
        /\ "QENAB" \notin q_flag[q]
    BY <1>2, <1>4, <2>1 DEF TypeOK, SetFlags, Has, Q_INH_ENABLE
  <2>3. Listed(q) = {} /\ Linking(q) = {} /\ Popped(q) = {}
    BY <2>2 DEF Lists, Places, Placed
  <2>4. \A p \in Queue : Listed(p)' = Listed(p)
    BY <1>2 DEF Listed
  <2>5. \A p \in Queue : Linking(p)' = IF p = q THEN {t} ELSE Linking(p)
    BY <1>1, <1>2, <2>2, <2>3 DEF Linking, Others
  <2>6. \A p \in Queue : Popped(p)' = Popped(p) /\ t \notin Popped(p)
    BY <1>2, <2>2 DEF Popped, Others, Thread
  <2>7. \A p \in Queue : \A r \in Popped(p) : pc'[r] = pc[r] /\ seen'[r] = seen[r]
    BY <1>2, <2>6 DEF Popped, Others, Thread
  <2>8. Places'
    <3> SUFFICES ASSUME NEW p \in Queue
        PROVE  /\ \A i, j \in Listed(p)' : i = j
               /\ \A u, v \in Linking(p)' : u = v
               /\ \A r, s \in Popped(p)' : r = s
               /\ Listed(p)' # {} => Linking(p)' = {}
               /\ Popped(p)' # {} => Listed(p)' = {} /\ Linking(p)' = {}
               /\ "QENAB" \in q_flag'[p] <=> Placed(p)'
               /\ \A r \in Popped(p)' : pc'[r] = "main_rmw" => "QENAB" \in seen'[r]
      BY DEF Places
    <3>1. CASE p = q
      BY <2>2, <2>3, <2>4, <2>5, <2>6, <3>1 DEF Placed
    <3>2. CASE p # q
      BY <2>2, <2>4, <2>5, <2>6, <2>7, <3>2 DEF Lists, Places, Placed
    <3> QED
      BY <3>1, <3>2
  <2>9. ScanApart'
    <3>1. ScanQ' = ScanQ /\ ScanQ \in Queue
      BY ScanQType DEF ScanQ
    <3>2. ~AtomicFlags => q # ScanQ
      BY <1>1, <1>2 DEF Lists, ScanApart
    <3> QED
      BY <1>1, <1>2, <2>2, <3>1, <3>2 DEF Lists, ScanApart, Others, Thread
  <2>10. Covered'
    <3>1. \A p \in Queue : \A u \in Thread : Enables(u, p) => Enables(u, p)'
      BY <1>1, <1>2, <2>2 DEF Others, Enables
    <3>2. \A p \in Queue : \A r \in Runner : Serves(r, p) => Serves(r, p)'
      BY <1>2, <2>2 DEF Others, Serves, Thread
    <3>3. \A p \in Queue : q_flag[p] \subseteq q_flag'[p]
      BY <2>2
    <3> QED
      BY <1>2, <3>1, <3>2, <3>3 DEF Lists, Covered
  <2> QED
    BY <2>8, <2>9, <2>10 DEF Lists
<1> QED
  BY <1>3, <1>4

\* Under lis_qhead_lock: the queue is on the run list.
LEMMA ListsLink ==
    ASSUME TypeOK, Control, Lists, NEW t \in Thread, QenableLink(t)
    PROVE  Lists'
<1>1. PICK q \in Queue : q = arg[t]
  BY DEF QenableLink, Control, ControlOf
<1>2. /\ pc[t] = "link" /\ Others(t) /\ pc'[t] = ret[t]
      /\ ret[t] \in {"idle", "srvp", "bottom"}
      /\ lis_qhead' = Append(lis_qhead, q) /\ lis_qhead \in Seq(Queue)
      /\ UNCHANGED <<q_flag, work, cur, arg, ret, seen>>
      /\ t \in Linking(q)
  BY <1>1 DEF QenableLink, Control, ControlOf, Linking, Others, Goto, TypeOK
<1>3. Listed(q) = {} /\ Linking(q) = {t} /\ Popped(q) = {}
  BY <1>2 DEF Lists, Places
<1>4. \A p \in Queue : Listed(p)' = IF p = q THEN {Len(lis_qhead) + 1} ELSE Listed(p)
  BY <1>2, <1>3 DEF Listed
<1>5. \A p \in Queue : Linking(p)' = IF p = q THEN {} ELSE Linking(p)
  BY <1>1, <1>2, <1>3 DEF Linking, Others
<1>6. \A p \in Queue : Popped(p)' = Popped(p) /\ t \notin Popped(p)
  BY <1>2 DEF Popped, Others, Thread
<1>7. \A p \in Queue : \A r \in Popped(p) : pc'[r] = pc[r] /\ seen'[r] = seen[r]
  BY <1>2, <1>6 DEF Popped, Others, Thread
<1>8. Places'
  <2> SUFFICES ASSUME NEW p \in Queue
      PROVE  /\ \A i, j \in Listed(p)' : i = j
             /\ \A u, v \in Linking(p)' : u = v
             /\ \A r, s \in Popped(p)' : r = s
             /\ Listed(p)' # {} => Linking(p)' = {}
             /\ Popped(p)' # {} => Listed(p)' = {} /\ Linking(p)' = {}
             /\ "QENAB" \in q_flag'[p] <=> Placed(p)'
             /\ \A r \in Popped(p)' : pc'[r] = "main_rmw" => "QENAB" \in seen'[r]
    BY DEF Places
  <2>1. CASE p = q
    <3>1. "QENAB" \in q_flag[q]
      BY <1>3 DEF Lists, Places, Placed
    <3> QED
      BY <1>2, <1>3, <1>4, <1>5, <1>6, <2>1, <3>1 DEF Placed
  <2>2. CASE p # q
    BY <1>2, <1>4, <1>5, <1>6, <1>7, <2>2 DEF Lists, Places, Placed
  <2> QED
    BY <2>1, <2>2
<1>9. ScanApart'
  <2>1. ScanQ' = ScanQ /\ ScanQ \in Queue
    BY ScanQType DEF ScanQ
  <2> QED
    BY <1>2, <2>1 DEF Lists, ScanApart, Others, Thread
<1>10. Covered'
  <2>1. "QENAB" \in q_flag'[q]
    BY <1>2, <1>3 DEF Lists, Places, Placed
  <2>2. \A p \in Queue \ {q} : \A u \in Thread : Enables(u, p) => Enables(u, p)'
    BY <1>1, <1>2 DEF Others, Enables
  <2>3. \A p \in Queue : \A r \in Runner : Serves(r, p) => Serves(r, p)'
    BY <1>2 DEF Others, Serves, Thread
  <2>4. q_flag'[q] \cap Wished # {}
    BY <2>1 DEF Wished
  <2> QED
    BY <1>2, <2>2, <2>3, <2>4 DEF Lists, Covered
<1> QED
  BY <1>8, <1>9, <1>10 DEF Lists

\* lis_retry_qenable: if it was wished for, and nothing hinders, lis_qenable after all.
LEMMA ListsRetry ==
    ASSUME TypeOK, Control, Lists, NEW t \in Thread, RetryQenable(t)
    PROVE  Lists'
<1>1. PICK q \in Queue : q = arg[t]
  BY DEF RetryQenable, Control, ControlOf
<1>2. /\ pc[t] = "retry" /\ Others(t)
      /\ ret[t] \in {"idle", "bottom"}
      /\ UNCHANGED <<lis_qhead, work, cur, arg, ret, seen>>
  BY DEF RetryQenable, Control, ControlOf, Others, Goto, TypeOK
<1>3. CASE q_flag' = ClrFlags({q}, {"QWANTENAB"}) /\ pc' = [pc EXCEPT ![t] = "enable"]
           /\ "QWANTENAB" \in q_flag[q]
  <2>1. AtomicFlags \/ q # ScanQ
    BY <1>3 DEF Lists, ScanApart, Wished
  <2>2. Begins(t, q)
    BY <1>1, <1>2, <1>3, <2>1 DEF Begins, InPlace, ClrFlags, Serves, TypeOK
  <2> QED
    BY <2>2, BeginsKeeps
<1>4. CASE q_flag' = q_flag /\ pc'[t] \in {"oops", "idle", "bottom"}
  <2>1. Idles(t)
    BY <1>2, <1>4 DEF Idles, InPlace, Serves
  <2> QED
    BY <2>1, IdlesKeeps
<1>5. \/ /\ q_flag' = ClrFlags({q}, {"QWANTENAB"})
         /\ pc' = [pc EXCEPT ![t] = "enable"]
         /\ "QWANTENAB" \in q_flag[q]
      \/ /\ q_flag' = q_flag
         /\ pc'[t] \in {"oops", "idle", "bottom"}
  BY <1>1, <1>2 DEF RetryQenable, Goto, Has, TypeOK
<1> QED
  BY <1>3, <1>4, <1>5

\* queuerun takes the head of the run list.
LEMMA ListsMainPop ==
    ASSUME TypeOK, Control, Lists, NEW r \in Runner, MainPop(r)
    PROVE  Lists'
<1>0. r \in Thread /\ lis_qhead \in Seq(Queue) /\ lis_qhead # <<>>
  BY DEF Thread, TypeOK, MainPop
<1>q. PICK q \in Queue : q = Head(lis_qhead)
  BY <1>0
<1>1. /\ pc[r] = "main"
      /\ lis_qhead' = Tail(lis_qhead)
      /\ cur' = [cur EXCEPT ![r] = q]
      /\ SetRunning(r, q, "main_rmw", "main_clear")
      /\ UNCHANGED <<lis_scanqhead, arg, ret, work>>
  BY <1>q DEF MainPop
<1>2. /\ pc'[r] = IF AtomicFlags THEN "main_clear" ELSE "main_rmw"
      /\ Others(r) /\ cur'[r] = q
      /\ \A u \in Thread \ {r} : seen'[u] = seen[u]
      /\ ~AtomicFlags => seen'[r] = q_flag[q]
      /\ \A p \in Queue : \A f \in Wished : f \in q_flag'[p] <=> f \in q_flag[p]
  <2>1. pc' = [pc EXCEPT ![r] = IF AtomicFlags THEN "main_clear" ELSE "main_rmw"]
    BY <1>1 DEF SetRunning, Goto
  <2>2. Others(r) /\ cur'[r] = q
    BY <1>0, <1>1, <2>1 DEF Others, TypeOK
  <2>3. /\ \A u \in Thread \ {r} : seen'[u] = seen[u]
        /\ ~AtomicFlags => seen'[r] = q_flag[q]
    BY <1>0, <1>1 DEF SetRunning, TypeOK
  <2>4. \/ q_flag' = q_flag
        \/ q_flag' = SetFlags({q}, {"QRUNNING"})
    BY <1>1 DEF SetRunning
  <2>5. \A p \in Queue : \A f \in Wished : f \in q_flag'[p] <=> f \in q_flag[p]
    BY <2>4 DEF SetFlags, Wished
  <2> QED
    BY <1>0, <2>1, <2>2, <2>3, <2>5 DEF TypeOK
<1>3. 1 \in Listed(q)
  BY <1>0, <1>q DEF Listed
<1>4. Listed(q) = {1} /\ Linking(q) = {} /\ Popped(q) = {} /\ "QENAB" \in q_flag[q]
  BY <1>3 DEF Lists, Places, Placed
<1>5. \A p \in Queue : Linking(p)' = Linking(p)
  BY <1>1, <1>2 DEF Linking, Others
<1>6. \A p \in Queue : Popped(p)' = IF p = q THEN {r} ELSE Popped(p)
  <2>1. \A p \in Queue : \A s \in Runner : s # r => (s \in Popped(p)' <=> s \in Popped(p))
    BY <1>2 DEF Popped, Others, Thread
  <2>2. \A p \in Queue : r \notin Popped(p) /\ (r \in Popped(p)' <=> p = q)
    BY <1>1, <1>2 DEF Popped
  <2>3. \A p \in Queue : Popped(p) \subseteq Runner /\ Popped(p)' \subseteq Runner
    BY DEF Popped
  <2> QED
    BY <1>4, <2>1, <2>2, <2>3
<1>7. \A p \in Queue : \A i \in Listed(p)' : i \in Nat \ {0} /\ i + 1 \in Listed(p)
  BY <1>0, <1>1 DEF Listed
<1>8. Listed(q)' = {}
  BY <1>4, <1>7
<1>9. \A p \in Queue \ {q} : Listed(p) # {} => Listed(p)' # {}
  <2> SUFFICES ASSUME NEW p \in Queue \ {q}, NEW i \in Listed(p)
      PROVE  i - 1 \in Listed(p)'
    OBVIOUS
  <2>1. i \in 1 .. Len(lis_qhead) /\ lis_qhead[i] = p /\ i # 1
    BY <1>0, <1>q DEF Listed
  <2>2. i - 1 \in 1 .. Len(lis_qhead) - 1 /\ i - 1 + 1 = i
    BY <1>0, <2>1
  <2>3. DOMAIN lis_qhead' = 1 .. Len(lis_qhead) - 1 /\ lis_qhead'[i - 1] = lis_qhead[i]
    BY <1>0, <1>1, <2>2
  <2> QED
    BY <2>1, <2>2, <2>3 DEF Listed
<1>10. \A p \in Queue \ {q} : \A i, j \in Listed(p)' : i = j
  BY <1>7 DEF Lists, Places
<1>11. \A p \in Queue : \A s \in Popped(p) : pc'[s] = pc[s] /\ seen'[s] = seen[s]
  BY <1>1, <1>2 DEF Popped, Others, Thread
<1>12. Places'
  <2> SUFFICES ASSUME NEW p \in Queue
      PROVE  /\ \A i, j \in Listed(p)' : i = j
             /\ \A u, v \in Linking(p)' : u = v
             /\ \A s, u \in Popped(p)' : s = u
             /\ Listed(p)' # {} => Linking(p)' = {}
             /\ Popped(p)' # {} => Listed(p)' = {} /\ Linking(p)' = {}
             /\ "QENAB" \in q_flag'[p] <=> Placed(p)'
             /\ \A s \in Popped(p)' : pc'[s] = "main_rmw" => "QENAB" \in seen'[s]
    BY DEF Places
  <2>f. "QENAB" \in q_flag'[p] <=> "QENAB" \in q_flag[p]
    BY <1>2 DEF Wished
  <2>1. CASE p = q
    BY <1>2, <1>4, <1>5, <1>6, <1>8, <2>1, <2>f DEF Placed
  <2>2. CASE p # q
    <3>1. Listed(p)' # {} <=> Listed(p) # {}
      BY <1>7, <1>9, <2>2
    <3> QED
      BY <1>5, <1>6, <1>10, <1>11, <2>2, <2>f, <3>1 DEF Lists, Places, Placed
  <2> QED
    BY <2>1, <2>2
<1>13. ScanApart'
  <2>1. ScanQ' = ScanQ /\ ScanQ \in Queue
    BY ScanQType DEF ScanQ
  <2>2. q_flag[ScanQ] \cap Wished = {} => q_flag'[ScanQ] \cap Wished = {}
    BY <1>2, <2>1
  <2> QED
    BY <1>1, <1>2, <2>1, <2>2 DEF Lists, ScanApart, Others, Thread
<1>14. Covered'
  <2>1. \A p \in Queue : \A u \in Thread : Enables(u, p) => Enables(u, p)'
    BY <1>1, <1>2 DEF Others, Enables
  <2>2. \A p \in Queue : \A s \in Runner : Serves(s, p) => Serves(s, p)'
    BY <1>1, <1>2 DEF Others, Serves, Thread
  <2>3. \A p \in Queue : q_flag[p] \cap Wished # {} => q_flag'[p] \cap Wished # {}
    BY <1>2
  <2> QED
    BY <1>1, <2>1, <2>2, <2>3 DEF Lists, Covered
<1> QED
  BY <1>12, <1>13, <1>14 DEF Lists

\* queuerun takes the head of the scan list.
LEMMA ListsScanPop ==
    ASSUME TypeOK, Control, BalanceInv, Lists, NEW r \in Runner, ScanPop(r)
    PROVE  Lists'
<1>0. r \in Thread /\ ScanQ \in Queue /\ ScanQ' = ScanQ
  BY ScanQType DEF Thread, ScanQ
<1>1. Head(lis_scanqhead) = ScanQ
  <2>1. 1 \in DOMAIN lis_scanqhead /\ Head(lis_scanqhead) = lis_scanqhead[1]
    BY DEF ScanPop, TypeOK
  <2> QED
    BY <2>1 DEF BalanceInv, OnlyScanQ
<1>2. /\ pc[r] = "scan" /\ cur' = [cur EXCEPT ![r] = ScanQ]
      /\ SetRunning(r, ScanQ, "scan_rmw", "scan_clear")
      /\ UNCHANGED <<lis_qhead, work, arg, ret>>
  BY <1>1 DEF ScanPop
<1>3. Others(r) /\ \A u \in Thread \ {r} : seen'[u] = seen[u]
  BY <1>0, <1>2 DEF SetRunning, Goto, Others, TypeOK
<1>4. \A p \in Queue : \A f \in Wished : f \in q_flag'[p] <=> f \in q_flag[p]
  BY <1>0, <1>2 DEF SetRunning, SetFlags, Wished
<1>5. CASE AtomicFlags
  <2>1. pc'[r] = "scan_clear"
    BY <1>0, <1>2, <1>5 DEF SetRunning, Goto, TypeOK
  <2>2. Idles(r)
    BY <1>2, <1>3, <1>4, <2>1 DEF Idles, InPlace, Serves
  <2> QED
    BY <1>0, <2>2, IdlesKeeps
<1>6. CASE ~AtomicFlags
  <2>1. /\ pc'[r] = "scan_rmw" /\ seen'[r] = q_flag[ScanQ] /\ cur'[r] = ScanQ
        /\ q_flag' = q_flag
    BY <1>0, <1>2, <1>6 DEF SetRunning, Goto, TypeOK
  <2>2. Places'
    BY <1>0, <1>2, <1>3, <2>1, PlacesFrame DEF Lists
  <2>3. ScanApart'
    BY <1>0, <1>2, <1>3, <1>6, <2>1 DEF Lists, ScanApart, Others, Thread
  <2>4. Covered'
    <3>1. \A p \in Queue : \A u \in Thread : Enables(u, p) => Enables(u, p)'
      BY <1>2, <1>3 DEF Others, Enables
    <3>2. \A p \in Queue : \A s \in Runner : Serves(s, p) => Serves(s, p)'
      BY <1>2, <1>3 DEF Others, Serves, Thread
    <3> QED
      BY <1>2, <2>1, <3>1, <3>2 DEF Lists, Covered
  <2> QED
    BY <2>2, <2>3, <2>4 DEF Lists
<1> QED
  BY <1>5, <1>6

\* The store of a divided "q_flag |= QRUNNING", which may undo another update.
LEMMA ListsStore ==
    ASSUME TypeOK, Control, Lists, NEW r \in Runner, StoreRunning(r)
    PROVE  Lists'
<1>0. r \in Thread /\ ScanQ \in Queue /\ ScanQ' = ScanQ /\ ~AtomicFlags
  BY ScanQType DEF Thread, ScanQ, Lists, ScanApart, StoreRunning
<1>1. PICK q \in Queue : q = cur[r]
  BY <1>0 DEF StoreRunning, Control, ControlOf, RunPc
<1>2. /\ pc[r] \in {"main_rmw", "scan_rmw"} /\ Others(r)
      /\ pc'[r] = IF pc[r] = "main_rmw" THEN "main_clear" ELSE "scan_clear"
      /\ \A u \in Thread \ {r} : seen'[u] = seen[u]
      /\ UNCHANGED <<lis_qhead, work, cur, arg, ret>>
  BY <1>0 DEF StoreRunning, Others, Goto, TypeOK
<1>3. PICK f : /\ q_flag' = [q_flag EXCEPT ![q] = f]
               /\ f \in {seen[r] \cup {"QRUNNING"}, q_flag[q] \cup {"QRUNNING"}, q_flag[q]}
  BY <1>1 DEF StoreRunning
<1>4. q_flag'[q] = f /\ \A p \in Queue \ {q} : q_flag'[p] = q_flag[p]
  BY <1>3 DEF TypeOK
<1>5. \A p \in Queue : \A u \in Thread : Enables(u, p) => Enables(u, p)'
  BY <1>2 DEF Others, Enables
<1>6. \A p \in Queue : \A s \in Runner : Serves(s, p) => Serves(s, p)'
  BY <1>2 DEF Others, Serves, Thread
<1>7. CASE pc[r] = "scan_rmw"
  <2>1. q = ScanQ /\ seen[r] \cap Wished = {} /\ q_flag[q] \cap Wished = {}
    BY <1>0, <1>1, <1>7 DEF Lists, ScanApart
  <2>2. f \cap Wished = {}
    BY <1>3, <2>1 DEF Wished
  <2>3. \A p \in Queue : \A g \in Wished : g \in q_flag'[p] <=> g \in q_flag[p]
    BY <1>4, <2>1, <2>2
  <2>4. Places'
    BY <1>0, <1>2, <1>7, <2>3, PlacesFrame DEF Lists, Wished
  <2>5. ScanApart'
    BY <1>0, <1>2, <1>4, <1>7, <2>1, <2>2 DEF Lists, ScanApart, Others, Thread
  <2>6. Covered'
    BY <1>2, <1>5, <1>6, <2>3 DEF Lists, Covered
  <2> QED
    BY <2>4, <2>5, <2>6 DEF Lists
<1>8. CASE pc[r] = "main_rmw"
  <2>1. r \in Popped(q)
    BY <1>1, <1>8 DEF Popped
  <2>2. "QENAB" \in q_flag[q] /\ "QENAB" \in seen[r]
    BY <1>8, <2>1 DEF Lists, Places, Placed
  <2>3. "QENAB" \in q_flag'[q]
    BY <1>3, <1>4, <2>2
  <2>4. q # ScanQ
    BY <1>0, <2>2 DEF Lists, ScanApart, Wished
  <2>5. /\ \A p \in Queue : Listed(p)' = Listed(p) /\ Linking(p)' = Linking(p)
        /\ \A p \in Queue : Popped(p)' = Popped(p)
    <3>1. \A p \in Queue : Listed(p)' = Listed(p)
      BY <1>2 DEF Listed
    <3>2. \A p \in Queue : Linking(p)' = Linking(p)
      BY <1>2, <1>8 DEF Linking, Others
    <3>3. \A p \in Queue : Popped(p)' = Popped(p)
      BY <1>2, <1>8 DEF Popped, Others, Thread
    <3> QED
      BY <3>1, <3>2, <3>3
  <2>6. \A p \in Queue : \A s \in Popped(p) : pc'[s] = "main_rmw" =>
            pc[s] = "main_rmw" /\ seen'[s] = seen[s]
    BY <1>2, <1>8 DEF Popped, Others, Thread
  <2>7. \A p \in Queue : "QENAB" \in q_flag'[p] <=> "QENAB" \in q_flag[p]
    BY <1>4, <2>2, <2>3
  <2>8. Places'
    BY <2>5, <2>6, <2>7 DEF Lists, Places, Placed
  <2>9. ScanApart'
    BY <1>0, <1>2, <1>4, <1>8, <2>4 DEF Lists, ScanApart, Others, Thread
  <2>10. Covered'
    <3>1. q_flag'[q] \cap Wished # {}
      BY <2>3 DEF Wished
    <3> QED
      BY <1>2, <1>4, <1>5, <1>6, <3>1 DEF Lists, Covered
  <2> QED
    BY <2>8, <2>9, <2>10 DEF Lists
<1> QED
  BY <1>2, <1>7, <1>8

\* The runner clears QENAB, and has the queue to serve.
LEMMA ListsClear ==
    ASSUME TypeOK, Control, Lists, NEW r \in Runner, ClearQenab(r)
    PROVE  Lists'
<1>0. r \in Thread /\ ScanQ \in Queue /\ ScanQ' = ScanQ
  BY ScanQType DEF Thread, ScanQ
<1>1. PICK q \in Queue : q = cur[r]
  BY <1>0 DEF ClearQenab, Control, ControlOf, RunPc
<1>2. /\ pc[r] = "main_clear" /\ pc'[r] = "lockq" /\ Others(r)
      /\ q_flag'[q] = q_flag[q] \ {"QENAB"}
      /\ \A p \in Queue \ {q} : q_flag'[p] = q_flag[p]
      /\ UNCHANGED <<lis_qhead, work, cur, arg, ret, seen>>
      /\ r \in Popped(q)
  BY <1>0, <1>1 DEF ClearQenab, Others, Goto, ClrFlags, Popped, TypeOK
<1>3. Listed(q) = {} /\ Linking(q) = {} /\ Popped(q) = {r}
  BY <1>2 DEF Lists, Places
<1>4. \A p \in Queue : Listed(p)' = Listed(p)
  BY <1>2 DEF Listed
<1>5. \A p \in Queue : Linking(p)' = Linking(p)
  BY <1>2 DEF Linking, Others
<1>6. \A p \in Queue : Popped(p)' = IF p = q THEN {} ELSE Popped(p)
  <2>1. \A p \in Queue : \A s \in Runner : s # r => (s \in Popped(p)' <=> s \in Popped(p))
    BY <1>2 DEF Popped, Others, Thread
  <2>2. \A p \in Queue : r \notin Popped(p)' /\ (p # q => r \notin Popped(p))
    BY <1>1, <1>2 DEF Popped
  <2>3. \A p \in Queue : Popped(p) \subseteq Runner /\ Popped(p)' \subseteq Runner
    BY DEF Popped
  <2> QED
    BY <1>3, <2>1, <2>2, <2>3
<1>7. \A p \in Queue \ {q} : \A s \in Popped(p) : pc'[s] = pc[s] /\ seen'[s] = seen[s]
  BY <1>1, <1>2 DEF Popped, Others, Thread
<1>8. Places'
  <2> SUFFICES ASSUME NEW p \in Queue
      PROVE  /\ \A i, j \in Listed(p)' : i = j
             /\ \A u, v \in Linking(p)' : u = v
             /\ \A s, u \in Popped(p)' : s = u
             /\ Listed(p)' # {} => Linking(p)' = {}
             /\ Popped(p)' # {} => Listed(p)' = {} /\ Linking(p)' = {}
             /\ "QENAB" \in q_flag'[p] <=> Placed(p)'
             /\ \A s \in Popped(p)' : pc'[s] = "main_rmw" => "QENAB" \in seen'[s]
    BY DEF Places
  <2>1. CASE p = q
    BY <1>2, <1>3, <1>4, <1>5, <1>6, <2>1 DEF Placed
  <2>2. CASE p # q
    BY <1>2, <1>4, <1>5, <1>6, <1>7, <2>2 DEF Lists, Places, Placed
  <2> QED
    BY <2>1, <2>2
<1>9. ScanApart'
  BY <1>0, <1>2 DEF Lists, ScanApart, Others, Thread
<1>10. Covered'
  <2>1. \A p \in Queue : \A u \in Thread : Enables(u, p) => Enables(u, p)'
    BY <1>2 DEF Others, Enables
  <2>2. \A p \in Queue : \A s \in Runner : Serves(s, p) => Serves(s, p)'
    BY <1>2 DEF Others, Serves, Thread
  <2>3. Serves(r, q)'
    BY <1>1, <1>2 DEF Serves
  <2> QED
    BY <1>2, <2>1, <2>2, <2>3 DEF Lists, Covered
<1> QED
  BY <1>8, <1>9, <1>10 DEF Lists

\* The service procedure takes what there is.
LEMMA ListsDrain ==
    ASSUME TypeOK, Control, Lists, NEW r \in Runner, Drain(r)
    PROVE  Lists'
<1>0. r \in Thread /\ ScanQ \in Queue /\ ScanQ' = ScanQ
  BY ScanQType DEF Thread, ScanQ
<1>1. PICK q \in Queue : q = cur[r]
  BY <1>0 DEF Drain, Control, ControlOf, RunPc
<1>2. /\ pc[r] = "srvp" /\ pc'[r] = "drained" /\ Others(r)
      /\ ~work'[q] /\ \A p \in Queue \ {q} : work'[p] = work[p]
      /\ UNCHANGED <<q_flag, lis_qhead, cur, arg, ret, seen>>
  BY <1>0, <1>1 DEF Drain, Others, Goto, TypeOK
<1>3. Places'
  BY <1>0, <1>2, PlacesFrame DEF Lists
<1>4. ScanApart'
  BY <1>0, <1>2 DEF Lists, ScanApart, Others, Thread
<1>5. Covered'
  <2>1. \A p \in Queue : \A u \in Thread : Enables(u, p) => Enables(u, p)'
    BY <1>2 DEF Others, Enables
  <2>2. \A p \in Queue \ {q} : \A s \in Runner : Serves(s, p) => Serves(s, p)'
    BY <1>1, <1>2 DEF Others, Serves, Thread
  <2> QED
    BY <1>2, <2>1, <2>2 DEF Lists, Covered
<1> QED
  BY <1>3, <1>4, <1>5 DEF Lists

LEMMA ListsRunner ==
    ASSUME TypeOK, Control, BalanceInv, Plain, Lists, NEW r \in Runner, RunnerStep(r)
    PROVE  Lists'
<1>0. r \in Thread /\ Others(r)
  BY ControlRunner DEF Thread
<1>1. CASE QenableStep(r)
  BY <1>0, <1>1, ListsQenable, ListsLink, ListsRetry DEF QenableStep
<1>2. CASE MainPop(r)
  BY <1>2, ListsMainPop
<1>3. CASE ScanPop(r)
  BY <1>3, ListsScanPop
<1>4. CASE StoreRunning(r)
  BY <1>4, ListsStore
<1>5. CASE ClearQenab(r)
  BY <1>5, ListsClear
<1>6. CASE Drain(r)
  BY <1>6, ListsDrain
<1>7. CASE StartRun(r) \/ ScanEmpty(r) \/ ScanClear(r) \/ ScanSend(r) \/ ScanDone(r)
           \/ EnterService(r) \/ ServiceReturn(r) \/ RunDone(r) \/ WakeUp(r)
           \/ LoopBottom(r) \/ RunEnd(r)
  <2> USE DEF StartRun, ScanEmpty, ScanClear, ScanSend, ScanDone, EnterService,
              ServiceReturn, RunDone, WakeUp, LoopBottom, RunEnd, qvars, rvars
  <2>1. lis_qhead' = lis_qhead /\ seen' = seen /\ work' = work
    BY <1>7
  <2>2. \A q \in Queue : \A f \in Wished : f \in q_flag'[q] <=> f \in q_flag[q]
    <3>1. \/ q_flag' = q_flag
          \/ \E Q : \E f \in {"QSCAN", "QRUNNING"} : q_flag' = ClrFlags(Q, {f})
      BY <1>7
    <3> QED
      BY <3>1 DEF ClrFlags, Wished
  <2>3. pc[r] \notin InPlace /\ pc'[r] \notin InPlace
    BY <1>0, <1>7 DEF Goto, TypeOK, InPlace
  <2>4. \A q \in Queue : Serves(r, q) => Serves(r, q)'
    <3>1. CASE EnterService(r)
      <4>1. pc'[r] = "srvp" /\ cur' = cur
        BY <1>0, <3>1 DEF Goto, TypeOK, Plain
      <4> QED
        BY <4>1 DEF Serves
    <3>2. CASE ~EnterService(r)
      <4>1. pc[r] \notin {"lockq", "srvp", "enable", "link"}
        BY <1>7, <3>2
      <4> QED
        BY <4>1 DEF Serves
    <3> QED
      BY <3>1, <3>2
  <2>5. Idles(r)
    BY <1>0, <2>1, <2>2, <2>3, <2>4 DEF Idles
  <2> QED
    BY <1>0, <2>5, IdlesKeeps
<1> QED
  BY <1>1, <1>2, <1>3, <1>4, <1>5, <1>6, <1>7 DEF RunnerStep

LEMMA ListsCloser ==
    ASSUME TypeOK, Control, Plain, Lists, NEW c \in Closer, CloserStep(c)
    PROVE  Lists'
<1>0. c \in Thread /\ c \notin Runner
  BY ThreadAssumption DEF ThreadAssumption, Thread
<1>1. CASE QenableStep(c)
  BY <1>0, <1>1, ListsQenable, ListsLink, ListsRetry DEF QenableStep
<1>2. CASE Freeze(c) \/ Unfreeze(c) \/ AwaitQsched(c) \/ AwaitDown(c)
  <2> USE DEF Freeze, Unfreeze, AwaitQsched, AwaitDown, tvars, Doing, Goto
  <2>1. Others(c) /\ lis_qhead' = lis_qhead /\ seen' = seen /\ work' = work
    BY <1>0, <1>2 DEF Others, TypeOK
  <2>2. \A q \in Queue : \A f \in Wished : f \in q_flag'[q] <=> f \in q_flag[q]
    <3>1. \/ q_flag' = q_flag
          \/ \E Q : \E f \in {"QFROZEN", "QWAITING"} :
                 q_flag' = ClrFlags(Q, {f}) \/ q_flag' = SetFlags(Q, {f})
      BY <1>2
    <3> QED
      BY <3>1 DEF ClrFlags, SetFlags, Wished
  <2>3. pc[c] \notin InPlace /\ pc'[c] \notin InPlace
    BY <1>0, <1>2 DEF TypeOK, InPlace
  <2>4. Idles(c)
    BY <1>0, <2>1, <2>2, <2>3 DEF Idles
  <2> QED
    BY <1>0, <2>4, IdlesKeeps
<1> QED
  BY <1>1, <1>2, NeverTaken DEF CloserStep

LEMMA ListsTimer ==
    ASSUME TypeOK, Lists, NEW t \in Timer, TimerStep(t)
    PROVE  Lists'
<1>0. t \in Thread /\ t \notin Runner
  BY ThreadAssumption DEF ThreadAssumption, Thread
<1> USE DEF TimerStep, AddToScanl, ScanLink, Goto
<1>1. Others(t) /\ lis_qhead' = lis_qhead /\ seen' = seen /\ work' = work
  BY <1>0 DEF Others, TypeOK
<1>2. \A q \in Queue : \A f \in Wished : f \in q_flag'[q] <=> f \in q_flag[q]
  BY DEF SetFlags, Wished
<1>3. pc[t] \notin InPlace /\ pc'[t] \notin InPlace
  BY <1>0 DEF TypeOK, InPlace
<1>4. Idles(t)
  BY <1>0, <1>1, <1>2, <1>3 DEF Idles
<1> QED
  BY <1>0, <1>4, IdlesKeeps

LEMMA ListsNext ==
    ASSUME AtomicFlags \/ ScanQ \notin HasSrvp,
           TypeOK, Control, BalanceInv, Plain, Lists, [Next]_vars
    PROVE  Lists'
<1>1. ASSUME NEW t \in Caller, NEW q \in Queue, CallQenable(t, q) PROVE Lists'
  <2>1. t \in Thread /\ t \notin Runner
    BY ThreadAssumption DEF ThreadAssumption, Thread
  <2>2. Begins(t, q)
    BY <1>1, <2>1 DEF CallQenable, Callable, Begins, Others, InPlace, Goto, TypeOK
  <2> QED
    BY <2>1, <2>2, BeginsKeeps
<1>2. ASSUME NEW r \in Runner, NEW q \in Queue, ServiceCallsQenable(r, q) PROVE Lists'
  <2>1. r \in Thread
    BY DEF Thread
  <2>2. \A p \in Queue : Serves(r, p) => Serves(r, p)'
    BY <1>2, <2>1 DEF ServiceCallsQenable, Serves, Goto, TypeOK
  <2>3. Begins(r, q)
    BY <1>2, <2>1, <2>2
       DEF ServiceCallsQenable, Callable, Begins, Others, InPlace, Goto, TypeOK
  <2> QED
    BY <2>1, <2>3, BeginsKeeps
<1>3. ASSUME NEW t \in Caller, QenableStep(t) PROVE Lists'
  BY <1>3, ListsQenable, ListsLink, ListsRetry DEF QenableStep, Thread
<1>4. ASSUME NEW r \in Runner, RunnerStep(r) PROVE Lists'
  BY <1>4, ListsRunner
<1>5. ASSUME NEW t \in Timer, TimerStep(t) PROVE Lists'
  BY <1>5, ListsTimer
<1>6. ASSUME NEW c \in Closer, CloserStep(c) PROVE Lists'
  BY <1>6, ListsCloser
<1>7. CASE UNCHANGED vars
  BY <1>7 DEF vars, qvars, rvars, tvars, Lists, ScanApart, ScanQ, Places, Placed,
              Covered, Listed, Linking, Popped, Enables, Serves
<1>8. CASE Gone
  BY <1>7, <1>8 DEF Gone
<1> QED
  BY <1>1, <1>2, <1>3, <1>4, <1>5, <1>6, <1>7, <1>8 DEF Next, CallerStep

LEMMA AccountInit ==
    ASSUME \A i \in DOMAIN Program : Program[i].op \in Gentle
    PROVE  Init => Plain /\ Lists
<1> SUFFICES ASSUME Init PROVE Plain /\ Lists
  OBVIOUS
<1>1. Plain
  BY DEF Init, Plain, Thread
<1>2. ScanApart
  BY ScanQType DEF Init, ScanApart, Thread
<1>3. \A q \in Queue : Listed(q) = {} /\ Linking(q) = {} /\ Popped(q) = {}
  BY DEF Init, Listed, Linking, Popped, Thread
<1>4. Places
  BY <1>3 DEF Init, Places, Placed
<1>5. Covered
  BY DEF Init, Covered
<1> QED
  BY <1>1, <1>2, <1>4, <1>5 DEF Lists

\* A set whose members are equal has one member, or none.
LEMMA OneMember ==
    ASSUME NEW S, \A x, y \in S : x = y
    PROVE  Cardinality(S) = IF S = {} THEN 0 ELSE 1
<1>1. CASE S = {}
  BY <1>1, FS_EmptySet
<1>2. CASE S # {}
  <2>1. PICK x : x \in S
    BY <1>2
  <2>2. S = {x}
    BY <2>1
  <2> QED
    BY <1>2, <2>2, FS_Singleton
<1> QED
  BY <1>1, <1>2

LEMMA ListsScheduled == ASSUME Places PROVE ScheduledOnce
<1> SUFFICES ASSUME NEW q \in Queue
    PROVE LET places == Cardinality(Listed(q)) + Cardinality(Linking(q))
                        + Cardinality(Popped(q))
          IN /\ places <= 1
             /\ Has(q, {"QENAB"}) => places = 1
             /\ Listed(q) # {} => Has(q, {"QENAB"})
  BY DEF ScheduledOnce
<1>1. /\ Cardinality(Listed(q))  = IF Listed(q) = {} THEN 0 ELSE 1
      /\ Cardinality(Linking(q)) = IF Linking(q) = {} THEN 0 ELSE 1
      /\ Cardinality(Popped(q))  = IF Popped(q) = {} THEN 0 ELSE 1
  BY OneMember DEF Places
<1>2. /\ Listed(q) # {} => Linking(q) = {}
      /\ Popped(q) # {} => Listed(q) = {} /\ Linking(q) = {}
      /\ Has(q, {"QENAB"}) <=> Placed(q)
  BY DEF Places, Has
<1> QED
  BY <1>1, <1>2 DEF Placed

LEMMA ListsCovered == ASSUME Plain, Covered PROVE NoStrandedWork
<1> SUFFICES ASSUME NEW q \in Queue, work[q]
    PROVE  \/ Has(q, {"QENAB", "QWANTENAB"})
           \/ \E t \in Thread : arg[t] = q /\ pc[t] \in {"enable", "link"}
           \/ \E r \in Runner : /\ cur[r] = q /\ ~procsoff[r]
                                /\ \/ pc[r] \in {"lockq", "srvp"}
                                   \/ pc[r] \in {"enable", "link"}
                                      /\ ret[r] = "srvp"
  BY DEF NoStrandedWork
<1>1. CASE q_flag[q] \cap Wished # {}
  BY <1>1 DEF Has, Wished
<1>2. CASE \E t \in Thread : Enables(t, q)
  BY <1>2 DEF Enables
<1>3. CASE \E r \in Runner : Serves(r, q)
  BY <1>3 DEF Serves, Plain
<1> QED
  BY <1>1, <1>2, <1>3 DEF Covered

\* While a stream is only frozen and thawed (by a push, or not at all), a queue is
\* scheduled once, the lists are counted, and no work is stranded: with any number of
\* runners and held writes, and even if an update of q_flag may be lost because queuerun
\* makes it under another lock, as long as that queue is not also enabled otherwise.
THEOREM ListsAreAccounted ==
    ASSUME AtomicFlags \/ ScanQ \notin HasSrvp,
           \A i \in DOMAIN Program : Program[i].op \in Gentle
    PROVE  Spec => []ListsAccounted
<1> DEFINE Inv == TypeOK /\ Control /\ BalanceInv /\ Plain /\ Lists
<1>1. Init => Inv
  BY TypeInit, ControlInit, BalanceInit, AccountInit
<1>2. Inv /\ [Next]_vars => Inv'
  BY TypeNext, ControlNext, BalanceNext, TameNext, ListsNext
<1>3. Inv => ListsAccounted
  BY ListsScheduled, ListsCovered DEF BalanceInv, Lists, ListsAccounted
<1> QED
  BY <1>1, <1>2, <1>3, PTL DEF Spec
=============================================================================
