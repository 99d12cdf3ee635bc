------------------------------ MODULE Scheduler ------------------------------
(***************************************************************************)
(* The STREAMS queue scheduler of LiS: lis_qenable and lis_retry_qenable   *)
(* (head/queue.c), queuerun (head/stream.c), the scan list of held writes, *)
(* and the plumbing that must not disturb it -- freezing, lis_await_qsched *)
(* and lis_qdetach (head/head.c).                                          *)
(*                                                                         *)
(* A queue is <<pair, side>>.  An action is one critical section (of the   *)
(* queue's isr lock or of lis_qhead_lock) or one lock-free step; lis_lockq *)
(* is the lock a service procedure runs under.  The queue-runner threads,  *)
(* the contexts that call lis_qenable and the process that plumbs the      *)
(* stream (closes it, pops or pushes) interleave freely.                   *)
(***************************************************************************)
EXTENDS Integers, Sequences, FiniteSets, Functions

CONSTANTS
    Stream,            \* the pairs of the stream, from the stream head down
    HasSrvp,           \* the queues whose qi_srvp is not NULL
    Runner,            \* the queue-runner threads, one per CPU
    Caller,            \* contexts (put procedures, interrupts) that qenable
    Timer,             \* contexts in which the scan timer fires
    Closer,            \* the process that plumbs the stream, at most one
    Program,           \* the plumbing it performs, a sequence of steps
    q_qsp,             \* the lock (lis_set_q_sync) of each queue, or NoLock
    NoLock, NoTask, NoQueue,
    Quiesces,          \* no context is inside, or enters, lis_qenable for a pair
                       \* whose qi_qclose has returned
    AtomicFlags        \* "q_flag |= QRUNNING" is indivisible

Pair   == Range(Stream)
Side   == {"rq", "wq"}
Queue  == Pair \X Side
Thread == Runner \cup Caller \cup Timer \cup Closer

Flag == {"QENAB", "QWANTENAB", "QRUNNING", "QSCAN", "QPROCSOFF", "QCLOSING",
         "QWAITING", "QFROZEN"}

\* Q_INH_ENABLE and Q_DEFER_ENABLE; QOPENING only occurs on a queue that is
\* not yet reachable.
InhNotRunning  == {"QENAB", "QPROCSOFF", "QCLOSING", "QFROZEN"}
Q_INH_ENABLE   == {"QENAB", "QPROCSOFF", "QCLOSING", "QRUNNING", "QFROZEN"}
DeferNotRunning == {"QENAB", "QPROCSOFF", "QFROZEN"}
DeferNotFrozen  == {"QENAB", "QPROCSOFF", "QRUNNING"}
Q_DEFER_ENABLE == Q_INH_ENABLE \ {"QCLOSING"}

Op   == {"freeze", "unfreeze", "mark_closing", "deschedule", "procsoff",
         "qi_qclose", "await", "free"}
Step == [op : Op, q : Queue]

PC == {"idle", "scan", "scan_rmw", "scan_clear", "scan_lockq", "scan_done",
       "main", "main_rmw", "main_clear", "lockq", "srvp", "drained", "done",
       "wakeup", "bottom", "oops", "retry", "enable", "link",
       "scan_link", "down"}

ASSUME StreamAssumption ==
    /\ Stream \in Seq(Range(Stream)) /\ Stream # <<>>
    /\ HasSrvp \subseteq Queue
    /\ Program \in Seq(Step)
    /\ q_qsp \in [Queue -> Range(q_qsp)]
    /\ NoQueue \notin Queue
    /\ NoTask \notin Thread

ASSUME ThreadAssumption ==
    /\ Runner \cap Caller = {} /\ Runner \cap Timer = {}
    /\ Runner \cap Closer = {} /\ Caller \cap Timer = {}
    /\ Caller \cap Closer = {} /\ Timer \cap Closer = {}
    /\ \A c, d \in Closer : c = d

\* mark_closing and lis_qdetach set QCLOSING or QPROCSOFF before deschedule.
Marks(s, p) == s.op \in {"mark_closing", "procsoff"} /\ s.q[1] = p

ASSUME ProgramAssumption ==
    \A i \in DOMAIN Program : Program[i].op = "deschedule" =>
        \E j \in 1 .. i - 1 : Marks(Program[j], Program[i].q[1])

ASSUME SwitchAssumption ==
    Quiesces \in BOOLEAN /\ AtomicFlags \in BOOLEAN

VARIABLES
    q_flag,            \* the flags of each queue
    lis_qhead,         \* the run list, threaded through q_link
    lis_scanqhead,     \* the scan list, threaded through q_scnxt
    lis_runq_req_cnt,  \* the number of entries of both lists
    qs_taskp,          \* the owner of each lis_lockq lock
    work,              \* a queue has something for its service procedure
    qclosed,           \* the pairs whose qi_qclose has returned
    freed,             \* the pairs lis_freeq has released
    sd_refcnt,         \* the references the scheduler holds on the stream head
    q_wakeup_sem,      \* the pairs whose q_wakeup_sem is not NULL
    wakeup_sem,        \* the count of the closer's semaphore
    todo,              \* the rest of the closer's program
    pc, cur, arg, ret, \* per thread: control, queue being run, argument of
                       \* qenable, and where qenable returns to
    procsoff,          \* queuerun's local copy of QPROCSOFF
    seen               \* the flags read by a read-modify-write under way

qvars  == <<q_flag, lis_qhead, lis_scanqhead, lis_runq_req_cnt, work>>
rvars  == <<freed, qclosed, sd_refcnt, q_wakeup_sem, wakeup_sem, todo>>
tvars  == <<pc, cur, arg, ret, procsoff, seen>>
vars   == <<qvars, qs_taskp, rvars, tvars>>

\* lis_head_get and lis_head_put of the scheduler: only the queues of the
\* stream head are counted.
Head_q(q)      == q[1] = Stream[1]
HeadGet(q)     == IF Head_q(q) THEN sd_refcnt + 1 ELSE sd_refcnt
PutNever(q)    == sd_refcnt
HeadPut(q)     == IF Head_q(q) THEN sd_refcnt - 1 ELSE sd_refcnt

Live(q)   == q[1] \notin freed
Callable(q) == /\ Live(q) /\ q \in HasSrvp
               /\ Quiesces => q[1] \notin qclosed
Both(p)   == {<<p, "rq">>, <<p, "wq">>}
Has(q, F) == q_flag[q] \cap F # {}

SetFlags(Q, F) == [q \in Queue |->
                      IF q \in Q THEN q_flag[q] \cup F ELSE q_flag[q]]
ClrFlags(Q, F) == [q \in Queue |->
                      IF q \in Q THEN q_flag[q] \ F ELSE q_flag[q]]

\* A list without the entry q, which is linked around.
At(s, q)     == CHOOSE i \in DOMAIN s : s[i] = q
Unlink(s, q) == IF q \in Range(s)
                THEN [i \in 1 .. Len(s) - 1 |->
                         IF i < At(s, q) THEN s[i] ELSE s[i + 1]]
                ELSE s

LockFree(t, q) == q_qsp[q] = NoLock \/ qs_taskp[q_qsp[q]] \in {NoTask, t}
Lock(t, q)     == IF q_qsp[q] = NoLock THEN qs_taskp
                  ELSE [qs_taskp EXCEPT ![q_qsp[q]] = t]
Unlock(q)      == IF q_qsp[q] = NoLock THEN qs_taskp
                  ELSE [qs_taskp EXCEPT ![q_qsp[q]] = NoTask]

\* lis_qhead_lock is held across a step only while a divided read-modify-write
\* of q_flag is under way.
QheadFree == \A r \in Runner : pc[r] \notin {"main_rmw", "scan_rmw"}

Goto(t, l) == pc' = [pc EXCEPT ![t] = l]

Init ==
    /\ q_flag = [q \in Queue |-> {}]
    /\ lis_qhead = <<>> /\ lis_scanqhead = <<>> /\ lis_runq_req_cnt = 0
    /\ qs_taskp = [l \in Range(q_qsp) |-> NoTask]
    /\ work = [q \in Queue |-> FALSE]
    /\ qclosed = {} /\ freed = {} /\ sd_refcnt = 0
    /\ q_wakeup_sem = {} /\ wakeup_sem = 0
    /\ todo = Program
    /\ pc = [t \in Thread |-> "idle"]
    /\ cur = [t \in Thread |-> NoQueue]
    /\ arg = [t \in Thread |-> NoQueue]
    /\ ret = [t \in Thread |-> "idle"]
    /\ procsoff = [t \in Thread |-> FALSE]
    /\ seen = [t \in Thread |-> {}]

-----------------------------------------------------------------------------
(* lis_qenable and lis_retry_qenable, run by any thread.  A thread that     *)
(* touches a freed queue stops ("oops"): what it does next is anything.     *)

\* A context finds work for q (it has put a message, or a buffer has come
\* free) and calls lis_qenable.
CallQenable(t, q) ==
    /\ t \in Caller /\ pc[t] = "idle"
    /\ Callable(q)
    /\ work' = [work EXCEPT ![q] = TRUE]
    /\ arg' = [arg EXCEPT ![t] = q]
    /\ ret' = [ret EXCEPT ![t] = "idle"]
    /\ Goto(t, "enable")
    /\ UNCHANGED <<q_flag, lis_qhead, lis_scanqhead, lis_runq_req_cnt,
                   qs_taskp, rvars, cur, procsoff, seen>>

\* A service procedure puts a message to a queue and enables it.
ServiceCallsQenable(r, q) ==
    /\ pc[r] = "srvp"
    /\ Callable(q)
    /\ work' = [work EXCEPT ![q] = TRUE]
    /\ arg' = [arg EXCEPT ![r] = q]
    /\ ret' = [ret EXCEPT ![r] = "srvp"]
    /\ Goto(r, "enable")
    /\ UNCHANGED <<q_flag, lis_qhead, lis_scanqhead, lis_runq_req_cnt,
                   qs_taskp, rvars, cur, procsoff, seen>>

\* The test under the isr lock: inhibited, deferred, or scheduled.
Qenable(t) ==
    LET q == arg[t] IN
    /\ pc[t] = "enable"
    /\ IF ~Live(q)
       THEN UNCHANGED q_flag /\ Goto(t, "oops")
       ELSE IF Has(q, Q_INH_ENABLE)
       THEN /\ q_flag' = IF Has(q, Q_DEFER_ENABLE)
                         THEN SetFlags({q}, {"QWANTENAB"}) ELSE q_flag
            /\ Goto(t, ret[t])
       ELSE /\ q_flag' = SetFlags({q}, {"QENAB"})
            /\ Goto(t, "link")
    /\ UNCHANGED <<lis_qhead, lis_scanqhead, lis_runq_req_cnt, work, qs_taskp,
                   rvars, cur, arg, ret, procsoff, seen>>

\* The link under lis_qhead_lock, after lis_head_get for a stream head queue.
QenableLink(t) ==
    LET q == arg[t] IN
    /\ pc[t] = "link" /\ QheadFree
    /\ lis_qhead' = Append(lis_qhead, q)
    /\ lis_runq_req_cnt' = lis_runq_req_cnt + 1
    /\ sd_refcnt' = HeadGet(q)
    /\ Goto(t, ret[t])
    /\ UNCHANGED <<q_flag, lis_scanqhead, work, qs_taskp, freed, qclosed, q_wakeup_sem,
                   wakeup_sem, todo, cur, arg, ret, procsoff, seen>>

RetryQenable(t) ==
    LET q == arg[t] IN
    /\ pc[t] = "retry"
    /\ IF ~Live(q)
       THEN UNCHANGED q_flag /\ Goto(t, "oops")
       ELSE IF Has(q, {"QWANTENAB"}) /\ ~Has(q, Q_INH_ENABLE)
       THEN q_flag' = ClrFlags({q}, {"QWANTENAB"}) /\ Goto(t, "enable")
       ELSE UNCHANGED q_flag /\ Goto(t, ret[t])
    /\ UNCHANGED <<lis_qhead, lis_scanqhead, lis_runq_req_cnt, work, qs_taskp,
                   rvars, cur, arg, ret, procsoff, seen>>

-----------------------------------------------------------------------------
(* queuerun: the scan list, then the run list                              *)

StartRun(r) ==
    /\ r \in Runner /\ pc[r] = "idle" /\ lis_runq_req_cnt > 0
    /\ Goto(r, "scan")
    /\ UNCHANGED <<qvars, qs_taskp, rvars, cur, arg, ret, procsoff, seen>>

\* "q->q_flag |= QRUNNING", which takes lis_qhead_lock but not the isr lock
\* of q: when it is not indivisible the store is a step of its own.
SetRunning(r, q, rmw, next) ==
    IF AtomicFlags
    THEN /\ q_flag' = SetFlags({q}, {"QRUNNING"})
         /\ Goto(r, next) /\ UNCHANGED seen
    ELSE /\ seen' = [seen EXCEPT ![r] = q_flag[q]]
         /\ Goto(r, rmw) /\ UNCHANGED q_flag

ScanPop(r) ==
    /\ pc[r] = "scan" /\ QheadFree /\ lis_scanqhead # <<>>
    /\ lis_scanqhead' = Tail(lis_scanqhead)
    /\ lis_runq_req_cnt' = lis_runq_req_cnt - 1
    /\ cur' = [cur EXCEPT ![r] = Head(lis_scanqhead)]
    /\ SetRunning(r, Head(lis_scanqhead), "scan_rmw", "scan_clear")
    /\ UNCHANGED <<lis_qhead, work, qs_taskp, rvars, arg, ret, procsoff>>

ScanEmpty(r) ==
    /\ pc[r] = "scan" /\ QheadFree /\ lis_scanqhead = <<>>
    /\ Goto(r, "main")
    /\ UNCHANGED <<qvars, qs_taskp, rvars, cur, arg, ret, procsoff, seen>>

MainPop(r) ==
    /\ pc[r] = "main" /\ QheadFree /\ lis_qhead # <<>>
    /\ lis_qhead' = Tail(lis_qhead)
    /\ lis_runq_req_cnt' = lis_runq_req_cnt - 1
    /\ cur' = [cur EXCEPT ![r] = Head(lis_qhead)]
    /\ SetRunning(r, Head(lis_qhead), "main_rmw", "main_clear")
    /\ UNCHANGED <<lis_scanqhead, work, qs_taskp, rvars, arg, ret, procsoff>>

\* The store of a divided read-modify-write.  If the flags changed since they
\* were read, either this store or the other update may be the one that is
\* lost, or neither.
StoreRunning(r) ==
    /\ pc[r] \in {"main_rmw", "scan_rmw"}
    /\ LET q   == cur[r]
           old == seen[r] \cup {"QRUNNING"}
       IN  \E f \in IF q_flag[q] = seen[r] THEN {old}
                    ELSE {old, q_flag[q] \cup {"QRUNNING"}, q_flag[q]} :
             q_flag' = [q_flag EXCEPT ![q] = f]
    /\ Goto(r, IF pc[r] = "main_rmw" THEN "main_clear" ELSE "scan_clear")
    /\ seen' = [seen EXCEPT ![r] = {}]
    /\ UNCHANGED <<lis_qhead, lis_scanqhead, lis_runq_req_cnt, work, qs_taskp,
                   rvars, cur, arg, ret, procsoff>>

\* Scan list: clear QSCAN and copy the flags that say the queue is going away.
ScanClear(r) ==
    /\ pc[r] = "scan_clear"
    /\ q_flag' = ClrFlags({cur[r]}, {"QSCAN"})
    /\ procsoff' = [procsoff EXCEPT ![r] =
                       Has(cur[r], {"QCLOSING", "QPROCSOFF"})]
    /\ Goto(r, "scan_lockq")
    /\ UNCHANGED <<lis_qhead, lis_scanqhead, lis_runq_req_cnt, work, qs_taskp,
                   rvars, cur, arg, ret, seen>>

\* lis_lockq, the held message is sent downstream (unless procsoff), and
\* lis_unlockq.  The message itself is not part of this module's state.
ScanSend(r) ==
    /\ pc[r] = "scan_lockq" /\ LockFree(r, cur[r])
    /\ Goto(r, "scan_done")
    /\ UNCHANGED <<qvars, qs_taskp, rvars, cur, arg, ret, procsoff, seen>>

\* The end of QRUNNING under the isr lock: a waiting closer is woken.  Unlike
\* the run list, the scan list does not look for QWANTENAB.
WakesNobody(q) == FALSE
Wakes(q)       == Has(q, {"QWAITING"}) /\ q[1] \in q_wakeup_sem

ScanDone(r) ==
    LET q == cur[r] IN
    /\ pc[r] = "scan_done"
    /\ q_flag' = ClrFlags({q}, {"QRUNNING"})
    /\ ret' = [ret EXCEPT ![r] = "scan"]
    /\ Goto(r, IF Wakes(q)
               THEN "wakeup" ELSE "bottom")
    /\ UNCHANGED <<lis_qhead, lis_scanqhead, lis_runq_req_cnt, work, qs_taskp,
                   rvars, cur, arg, procsoff, seen>>

\* Run list: clear QENAB and copy QPROCSOFF.
ClearQenab(r) ==
    /\ pc[r] = "main_clear"
    /\ q_flag' = ClrFlags({cur[r]}, {"QENAB"})
    /\ procsoff' = [procsoff EXCEPT ![r] = Has(cur[r], {"QPROCSOFF"})]
    /\ Goto(r, "lockq")
    /\ UNCHANGED <<lis_qhead, lis_scanqhead, lis_runq_req_cnt, work, qs_taskp,
                   rvars, cur, arg, ret, seen>>

\* lis_lockq, and the service procedure is entered unless procsoff.
EnterService(r) ==
    /\ pc[r] = "lockq" /\ LockFree(r, cur[r])
    /\ qs_taskp' = IF procsoff[r] THEN qs_taskp ELSE Lock(r, cur[r])
    /\ Goto(r, IF procsoff[r] THEN "done" ELSE "srvp")
    /\ UNCHANGED <<qvars, rvars, cur, arg, ret, procsoff, seen>>

\* The service procedure has taken what there was on its queue ...
Drain(r) ==
    /\ pc[r] = "srvp"
    /\ work' = [work EXCEPT ![cur[r]] = FALSE]
    /\ Goto(r, "drained")
    /\ UNCHANGED <<q_flag, lis_qhead, lis_scanqhead, lis_runq_req_cnt,
                   qs_taskp, rvars, cur, arg, ret, procsoff, seen>>

\* ... and returns: lis_unlockq.
ServiceReturn(r) ==
    /\ pc[r] = "drained"
    /\ qs_taskp' = Unlock(cur[r])
    /\ Goto(r, "done")
    /\ UNCHANGED <<qvars, rvars, cur, arg, ret, procsoff, seen>>

\* The end of QRUNNING, under the isr lock: a waiting closer is woken, or
\* else an enable that came while the queue was running is retried.
RunDone(r) ==
    LET q == cur[r] IN
    /\ pc[r] = "done"
    /\ q_flag' = ClrFlags({q}, {"QRUNNING"})
    /\ IF Wakes(q)
       THEN Goto(r, "wakeup") /\ UNCHANGED arg
       ELSE IF Has(q, {"QWANTENAB"})
       THEN Goto(r, "retry") /\ arg' = [arg EXCEPT ![r] = q]
       ELSE Goto(r, "bottom") /\ UNCHANGED arg
    /\ ret' = [ret EXCEPT ![r] = "bottom"]
    /\ UNCHANGED <<lis_qhead, lis_scanqhead, lis_runq_req_cnt, work, qs_taskp,
                   rvars, cur, procsoff, seen>>

\* lis_up(q->q_wakeup_sem): the pointer is read again outside the lock, and
\* is NULL once lis_await_qsched has returned.
WakeUp(r) ==
    /\ pc[r] = "wakeup"
    /\ IF cur[r][1] \in q_wakeup_sem
       THEN wakeup_sem' = wakeup_sem + 1 /\ Goto(r, "bottom")
       ELSE UNCHANGED wakeup_sem /\ Goto(r, "oops")
    /\ UNCHANGED <<qvars, qs_taskp, freed, qclosed, sd_refcnt, q_wakeup_sem, todo,
                   cur, arg, ret, procsoff, seen>>

\* lis_head_put balances the reference of qenable or of the scan list; the
\* loop goes back to the list it is working on.
LoopBottom(r) ==
    /\ pc[r] = "bottom"
    /\ sd_refcnt' = HeadPut(cur[r])
    /\ Goto(r, IF ret[r] = "scan" THEN "scan" ELSE "main")
    /\ cur' = [cur EXCEPT ![r] = NoQueue]
    /\ ret' = [ret EXCEPT ![r] = "idle"]
    /\ arg' = [arg EXCEPT ![r] = NoQueue]
    /\ procsoff' = [procsoff EXCEPT ![r] = FALSE]
    /\ UNCHANGED <<qvars, qs_taskp, freed, qclosed, q_wakeup_sem, wakeup_sem, todo,
                   seen>>

ListsEmpty   == lis_qhead = <<>> /\ lis_scanqhead = <<>>

\* Nothing is left: the request count is set back to zero.
RunEnd(r) ==
    /\ pc[r] = "main" /\ QheadFree /\ lis_qhead = <<>>
    /\ lis_runq_req_cnt' = IF ListsEmpty THEN 0 ELSE lis_runq_req_cnt
    /\ Goto(r, "idle")
    /\ UNCHANGED <<q_flag, lis_qhead, lis_scanqhead, work, qs_taskp, rvars,
                   cur, arg, ret, procsoff, seen>>

-----------------------------------------------------------------------------
(* add_to_scanl: the timer that puts a stream head with a held write on    *)
(* the scan list.  It does not call lis_setqsched.                         *)

ScanQ == <<Stream[1], "wq">>

AddToScanl(t) ==
    /\ t \in Timer /\ pc[t] = "idle" /\ Live(ScanQ)
    /\ ~Has(ScanQ, {"QSCAN", "QPROCSOFF"})
    /\ q_flag' = SetFlags({ScanQ}, {"QSCAN"})
    /\ arg' = [arg EXCEPT ![t] = ScanQ]
    /\ Goto(t, "scan_link")
    /\ UNCHANGED <<lis_qhead, lis_scanqhead, lis_runq_req_cnt, work, qs_taskp,
                   rvars, cur, ret, procsoff, seen>>

ScanLink(t) ==
    /\ pc[t] = "scan_link" /\ QheadFree
    /\ lis_scanqhead' = Append(lis_scanqhead, ScanQ)
    /\ lis_runq_req_cnt' = lis_runq_req_cnt + 1
    /\ sd_refcnt' = sd_refcnt + 1
    /\ arg' = [arg EXCEPT ![t] = NoQueue]
    /\ Goto(t, "idle")
    /\ UNCHANGED <<q_flag, lis_qhead, work, qs_taskp, freed, qclosed, q_wakeup_sem,
                   wakeup_sem, todo, cur, ret, procsoff, seen>>

-----------------------------------------------------------------------------
(* Plumbing: the closer performs the steps of its program one by one       *)

Doing(c, op) == /\ c \in Closer /\ pc[c] = "idle"
                /\ todo # <<>> /\ Head(todo).op = op
DoneStep     == todo' = Tail(todo)
Arg          == Head(todo).q
ArgPair      == Head(todo).q[1]

\* lis_freezestr, one queue of its walk at a time.
Freeze(c) ==
    /\ Doing(c, "freeze") /\ DoneStep
    /\ q_flag' = IF Live(Arg) THEN SetFlags({Arg}, {"QFROZEN"}) ELSE q_flag
    /\ UNCHANGED <<lis_qhead, lis_scanqhead, lis_runq_req_cnt, work, qs_taskp,
                   freed, qclosed, sd_refcnt, q_wakeup_sem, wakeup_sem, tvars>>

\* check_for_wantenable, called by lis_unfreezestr: thaw the next queue of the
\* walk and retry the enable it may have missed.
Unfreeze(c) ==
    /\ Doing(c, "unfreeze") /\ DoneStep
    /\ IF Live(Arg)
       THEN /\ q_flag' = ClrFlags({Arg}, {"QFROZEN"})
            /\ arg' = [arg EXCEPT ![c] = Arg]
            /\ Goto(c, "retry")
       ELSE UNCHANGED <<q_flag, arg, pc>>
    /\ UNCHANGED <<lis_qhead, lis_scanqhead, lis_runq_req_cnt, work, qs_taskp,
                   freed, qclosed, sd_refcnt, q_wakeup_sem, wakeup_sem, cur, ret,
                   procsoff, seen>>

\* mark_closing for one pair; the deschedule it calls is the next step.
MarkClosing(c) ==
    /\ Doing(c, "mark_closing") /\ DoneStep
    /\ q_flag' = SetFlags(Both(ArgPair), {"QCLOSING"})
    /\ UNCHANGED <<lis_qhead, lis_scanqhead, lis_runq_req_cnt, work, qs_taskp,
                   freed, qclosed, sd_refcnt, q_wakeup_sem, wakeup_sem, tvars>>

\* lis_qdetach: with both queues locked, so that no service procedure is
\* running, turn the procedures off.
ProcsOff(c) ==
    /\ Doing(c, "procsoff") /\ DoneStep
    /\ \A q \in Both(ArgPair) : LockFree(c, q)
    /\ q_flag' = SetFlags(Both(ArgPair), {"QPROCSOFF"})
    /\ UNCHANGED <<lis_qhead, lis_scanqhead, lis_runq_req_cnt, work, qs_taskp,
                   freed, qclosed, sd_refcnt, q_wakeup_sem, wakeup_sem, tvars>>

InFlight(p) == {t \in Thread : pc[t] \in {"enable", "link", "scan_link"}
                               /\ arg[t][1] = p}

\* The close routine of the driver or module.  If it quiesces, no context is
\* left inside lis_qenable for its queues and none calls it again.
QiQclose(c) ==
    /\ Doing(c, "qi_qclose") /\ DoneStep
    /\ Quiesces => InFlight(ArgPair) = {}
    /\ qclosed' = qclosed \cup {ArgPair}
    /\ UNCHANGED <<qvars, qs_taskp, freed, sd_refcnt, q_wakeup_sem,
                   wakeup_sem, tvars>>

\* deschedule: take the write queue off the scan list if QSCAN, and both
\* queues off the run list if one of them is QENAB, under lis_qhead_lock.
Deschedule(c) ==
    LET wq    == <<ArgPair, "wq">>
        rq    == <<ArgPair, "rq">>
        scan  == Has(wq, {"QSCAN"})
        enab  == Has(wq, {"QENAB"}) \/ Has(rq, {"QENAB"})
        scans == IF scan THEN Unlink(lis_scanqhead, wq) ELSE lis_scanqhead
        runs  == IF enab THEN Unlink(Unlink(lis_qhead, wq), rq) ELSE lis_qhead
        gone  == (Len(lis_scanqhead) - Len(scans))
                 + (Len(lis_qhead) - Len(runs))
    IN
    /\ Doing(c, "deschedule") /\ DoneStep /\ QheadFree
    /\ lis_scanqhead' = scans /\ lis_qhead' = runs
    /\ lis_runq_req_cnt' = lis_runq_req_cnt - gone
    /\ sd_refcnt' = IF Head_q(wq) THEN sd_refcnt - gone ELSE sd_refcnt
    /\ q_flag' = [q \in Queue |->
                     IF q = wq THEN q_flag[q] \ {"QSCAN", "QENAB"}
                     ELSE IF q = rq THEN q_flag[q] \ {"QENAB"}
                     ELSE q_flag[q]]
    /\ UNCHANGED <<work, qs_taskp, freed, qclosed, q_wakeup_sem, wakeup_sem, tvars>>

BusyNotRunning(p) == \E q \in Both(p) : Has(q, {"QENAB", "QSCAN"})
Busy(p) == \E q \in Both(p) : Has(q, {"QENAB", "QSCAN", "QRUNNING"})

\* lis_await_qsched: return at once, or set QWAITING and the semaphore.
AwaitQsched(c) ==
    /\ Doing(c, "await")
    /\ IF Busy(ArgPair)
       THEN /\ q_flag' = SetFlags(Both(ArgPair), {"QWAITING"})
            /\ q_wakeup_sem' = q_wakeup_sem \cup {ArgPair}
            /\ wakeup_sem' = 0
            /\ Goto(c, "down") /\ UNCHANGED todo
       ELSE DoneStep /\ UNCHANGED <<q_flag, q_wakeup_sem, wakeup_sem, pc>>
    /\ UNCHANGED <<lis_qhead, lis_scanqhead, lis_runq_req_cnt, work, qs_taskp,
                   freed, qclosed, sd_refcnt, cur, arg, ret, procsoff, seen>>

DownNeverSleeps == TRUE
DownPasses      == wakeup_sem > 0

\* lis_down of the semaphore, and the loop test under both isr locks.
AwaitDown(c) ==
    /\ c \in Closer /\ pc[c] = "down" /\ DownPasses
    /\ wakeup_sem' = wakeup_sem - 1
    /\ IF Busy(ArgPair)
       THEN UNCHANGED <<q_flag, q_wakeup_sem, pc, todo>>
       ELSE /\ q_flag' = ClrFlags(Both(ArgPair), {"QWAITING"})
            /\ q_wakeup_sem' = q_wakeup_sem \ {ArgPair}
            /\ Goto(c, "idle") /\ DoneStep
    /\ UNCHANGED <<lis_qhead, lis_scanqhead, lis_runq_req_cnt, work, qs_taskp,
                   freed, qclosed, sd_refcnt, cur, arg, ret, procsoff, seen>>

\* The end of lis_qdetach: with both queues locked, flush them, link around
\* them and free them.  A freed queue has no flags and no messages.
FreeQ(c) ==
    /\ Doing(c, "free") /\ DoneStep
    /\ \A q \in Both(ArgPair) : LockFree(c, q)
    /\ freed' = freed \cup {ArgPair}
    /\ q_flag' = ClrFlags(Both(ArgPair), Flag)
    /\ work' = [q \in Queue |-> q[1] # ArgPair /\ work[q]]
    /\ UNCHANGED <<lis_qhead, lis_scanqhead, lis_runq_req_cnt, qs_taskp,
                   qclosed, sd_refcnt, q_wakeup_sem, wakeup_sem, tvars>>

\* The plumbing is done, no queue is left to enable and every thread rests.
Gone == /\ todo = <<>> /\ ~\E q \in Queue : Callable(q)
        /\ \A t \in Thread : pc[t] \in {"idle", "oops"}
        /\ UNCHANGED vars

-----------------------------------------------------------------------------
QenableStep(t) == Qenable(t) \/ QenableLink(t) \/ RetryQenable(t)

CallerStep(t) == (\E q \in Queue : CallQenable(t, q)) \/ QenableStep(t)

RunnerStep(r) ==
    \/ StartRun(r) \/ ScanPop(r) \/ ScanEmpty(r) \/ MainPop(r)
    \/ StoreRunning(r) \/ ScanClear(r) \/ ScanSend(r) \/ ScanDone(r)
    \/ ClearQenab(r) \/ EnterService(r) \/ Drain(r) \/ ServiceReturn(r)
    \/ RunDone(r) \/ WakeUp(r) \/ LoopBottom(r) \/ RunEnd(r)
    \/ QenableStep(r)

TimerStep(t) == AddToScanl(t) \/ ScanLink(t)

CloserStep(c) ==
    \/ Freeze(c) \/ Unfreeze(c) \/ MarkClosing(c) \/ ProcsOff(c)
    \/ QiQclose(c) \/ Deschedule(c) \/ AwaitQsched(c) \/ AwaitDown(c)
    \/ FreeQ(c) \/ QenableStep(c)

Next ==
    \/ \E t \in Caller : CallerStep(t)
    \/ \E r \in Runner : \/ RunnerStep(r)
                         \/ \E q \in Queue : ServiceCallsQenable(r, q)
    \/ \E t \in Timer : TimerStep(t)
    \/ \E c \in Closer : CloserStep(c)
    \/ Gone

Spec == Init /\ [][Next]_vars

\* A queue runner that has work is run, a service procedure returns (it calls
\* qenable finitely often), a thread inside lis_qenable leaves it, and the
\* closer goes on.
Fairness ==
    /\ \A r \in Runner : WF_vars(RunnerStep(r)) /\ SF_vars(Drain(r))
                         /\ SF_vars(EnterService(r))
    /\ \A t \in Caller : WF_vars(QenableStep(t))
    /\ \A t \in Timer : WF_vars(ScanLink(t))
    /\ \A c \in Closer : WF_vars(CloserStep(c)) /\ SF_vars(ProcsOff(c))
                         /\ SF_vars(FreeQ(c))

FairSpec == Spec /\ Fairness

-----------------------------------------------------------------------------
(* The plumbing programs                                                   *)

Do(op, p) == <<[op |-> op, q |-> <<p, "wq">>]>>

\* The walk of lis_freezestr and check_for_wantenable: down the write side,
\* each write queue and then its read queue.
Walk(op) == [i \in 1 .. 2 * Len(Stream) |->
               [op |-> op,
                q  |-> <<Stream[(i + 1) \div 2],
                         IF i % 2 = 1 THEN "wq" ELSE "rq">>]]

\* lis_qdetach of pair p.
Detach(p) == Do("procsoff", p) \o Do("qi_qclose", p) \o Do("deschedule", p)
             \o Do("await", p) \o Do("free", p)

\* push_mod up to the new module, which nobody can reach yet.
PushProgram == Walk("freeze") \o Do("await", Stream[1]) \o Do("await", Stream[2])
               \o Walk("unfreeze")

\* pop_mod of the module below the stream head.
PopProgram == Walk("freeze") \o Do("await", Stream[1]) \o Do("await", Stream[2])
              \o Do("await", Stream[3]) \o Detach(Stream[2])
              \o Walk("unfreeze")

\* close_action of a stream without modules: mark_closing, then lis_qdetach of
\* the driver (the stream thaws) and of the stream head.
CloseProgram ==
    Do("mark_closing", Stream[1]) \o Do("deschedule", Stream[1])
    \o Do("mark_closing", Stream[2]) \o Do("deschedule", Stream[2])
    \o Walk("freeze") \o Detach(Stream[2]) \o Walk("unfreeze")
    \o Walk("freeze") \o Detach(Stream[1])

-----------------------------------------------------------------------------
(* Properties                                                              *)

TypeOK ==
    /\ q_flag \in [Queue -> SUBSET Flag]
    /\ lis_qhead \in Seq(Queue) /\ lis_scanqhead \in Seq(Queue)
    /\ lis_runq_req_cnt \in Int
    /\ qs_taskp \in [Range(q_qsp) -> Thread \cup {NoTask}]
    /\ work \in [Queue -> BOOLEAN]
    /\ freed \in SUBSET Pair /\ qclosed \in SUBSET Pair /\ sd_refcnt \in Int
    /\ q_wakeup_sem \in SUBSET Pair /\ wakeup_sem \in Nat
    /\ todo \in Seq(Step)
    /\ pc \in [Thread -> PC]
    /\ cur \in [Thread -> Queue \cup {NoQueue}]
    /\ arg \in [Thread -> Queue \cup {NoQueue}]
    /\ ret \in [Thread -> PC]
    /\ procsoff \in [Thread -> BOOLEAN]
    /\ seen \in [Thread -> SUBSET Flag]

\* From the removal from a list to the end of QRUNNING the runner works on
\* cur[r]; it may be inside lis_qenable on behalf of the service procedure.
RunPc      == {"main_rmw", "main_clear", "lockq", "srvp", "drained", "done",
               "scan_rmw", "scan_clear", "scan_lockq", "scan_done"}
Runs(r, q) == /\ cur[r] = q
              /\ \/ pc[r] \in RunPc
                 \/ pc[r] \in {"enable", "link"} /\ ret[r] = "srvp"

\* A thread inside lis_qenable has a queue to enable and returns to where it
\* called from; a runner between two turns of its loop has a queue in hand.
ControlOf(t) ==
    /\ pc[t] \in {"enable", "link", "retry"} =>
          arg[t] \in Queue /\ ret[t] \in {"idle", "srvp", "bottom"}
    /\ pc[t] = "retry" => ret[t] # "srvp"
    /\ pc[t] \in RunPc \cup {"wakeup", "bottom"} => cur[t] \in Queue
    /\ pc[t] \in {"enable", "link", "retry"} /\ ret[t] # "idle" =>
          cur[t] \in Queue

Control ==
    /\ \A t \in Thread : ControlOf(t)
    /\ \A c \in Closer :
         /\ ret[c] = "idle"
         /\ pc[c] = "down" => todo # <<>> /\ Head(todo).op = "await"

\* The places an enabled queue can be in: the run list, a thread that is about
\* to link it, a runner that has just unlinked it.
Listed(q)  == {i \in DOMAIN lis_qhead : lis_qhead[i] = q}
Linking(q) == {t \in Thread : pc[t] = "link" /\ arg[t] = q}
Popped(q)  == {r \in Runner : pc[r] \in {"main_rmw", "main_clear"}
                              /\ cur[r] = q}

\* A queue is scheduled at most once: it is on the run list, or on its way
\* there, or just taken from it, and never in two of these places; QENAB says
\* so.  (lis_qenable sets QENAB and links the queue under two locks.)
ScheduledOnce ==
    \A q \in Queue :
        LET places == Cardinality(Listed(q)) + Cardinality(Linking(q))
                      + Cardinality(Popped(q))
        IN /\ places <= 1
           /\ Has(q, {"QENAB"}) => places = 1
           /\ Listed(q) # {} => Has(q, {"QENAB"})

\* No two queue runners work on the same queue: the QRUNNING flag keeps a
\* queue from being scheduled again until its runner has done with it.
OneRunnerPerQueue ==
    \A r, s \in Runner : \A q \in Queue :
        Runs(r, q) /\ Runs(s, q) => r = s

\* Why that is so, without write holding (no scan timer) and with indivisible
\* flag updates.  Nothing is on the scan list; a queue is in one place at a
\* time; QRUNNING, QENAB or a flag of the closer keeps lis_qenable from giving
\* it a second place; and a queue is marked before it is descheduled.
NoScan ==
    /\ lis_scanqhead = <<>>
    /\ \A t \in Thread : pc[t] \notin {"scan_rmw", "scan_clear", "scan_lockq",
                                      "scan_done", "scan_link", "main_rmw"}

OnePlace ==
    \A q \in Queue :
        /\ \A i, j \in Listed(q) : i = j
        /\ \A t, u \in Linking(q) : t = u
        /\ \A r, s \in Runner : Runs(r, q) /\ Runs(s, q) => r = s
        /\ Listed(q) # {} => Linking(q) = {}
        /\ \A r \in Runner :
               Runs(r, q) => Listed(q) = {} /\ Linking(q) = {}

PlaceFlagged ==
    \A q \in Queue : Live(q) =>
        /\ \A r \in Runner : Runs(r, q) => "QRUNNING" \in q_flag[q]
        /\ Listed(q) # {} \/ Linking(q) # {} =>
               Has(q, {"QENAB", "QCLOSING", "QPROCSOFF"})

MarkedFirst ==
    \A i \in DOMAIN todo : todo[i].op = "deschedule" =>
        \/ todo[i].q[1] \in freed
        \/ \A q \in Both(todo[i].q[1]) : Has(q, {"QCLOSING", "QPROCSOFF"})
        \/ \E j \in 1 .. i - 1 : Marks(todo[j], todo[i].q[1])

PlaceInv   == NoScan /\ OnePlace /\ PlaceFlagged
ServiceInv == PlaceInv /\ MarkedFirst

\* Once lis_qdetach has freed a pair no list holds it, no runner works on it,
\* and no caller is inside lis_qenable for it.
FreedIsQuiet ==
    \A p \in freed : \A q \in Both(p) :
        /\ q \notin Range(lis_qhead) /\ q \notin Range(lis_scanqhead)
        /\ \A r \in Runner : ~Runs(r, q)
        /\ \A t \in Caller \cup Timer : arg[t] = q =>
               pc[t] \notin {"enable", "link", "scan_link"}

\* The references taken on the stream head for its scheduled queues are the
\* entries on the lists and the queues being run: none is leaked, none is put
\* twice, whatever deschedule removes.
HeadRefsBalanced ==
    sd_refcnt = Cardinality({i \in DOMAIN lis_qhead : Head_q(lis_qhead[i])})
                + Len(lis_scanqhead)
                + Cardinality({r \in Runner : cur[r] # NoQueue
                                              /\ Head_q(cur[r])})

\* lis_runq_req_cnt counts the entries of both lists, so a runner that finds
\* it zero leaves no queue behind.
ReqCntCountsEntries ==
    lis_runq_req_cnt = Len(lis_qhead) + Len(lis_scanqhead)

Closing(q) == ~Live(q) \/ Has(q, {"QCLOSING", "QPROCSOFF"})

\* Work is never stranded: a queue with work is scheduled, or remembers that
\* it must be (QWANTENAB), or a thread is about to schedule it, or its service
\* procedure is about to look.
NoStrandedWork ==
    \A q \in Queue : work[q] /\ ~Closing(q) =>
        \/ Has(q, {"QENAB", "QWANTENAB"})
        \/ \E t \in Thread : arg[t] = q /\ pc[t] \in {"enable", "link"}
        \/ \E r \in Runner : /\ cur[r] = q /\ ~procsoff[r]
                             /\ \/ pc[r] \in {"lockq", "srvp"}
                                \/ pc[r] \in {"enable", "link"}
                                   /\ ret[r] = "srvp"

\* Whichever of two simultaneous updates of q_flag is lost, a queue is scheduled once,
\* the references and requests are the entries of the lists, and no work is stranded
\* (queuerun, add_to_scanl and lis_qenable while writes are held).
ListsAccounted == /\ ScheduledOnce /\ HeadRefsBalanced
                  /\ ReqCntCountsEntries /\ NoStrandedWork

\* No service procedure runs once QPROCSOFF is set.
NoServiceAfterProcsOff ==
    \A r \in Runner : pc[r] \in {"srvp", "drained"} =>
                          ~Has(cur[r], {"QPROCSOFF"})

\* What is detached is out of everybody's way: lis_qprocsoff and lis_qdetach.
Detached == FreedIsQuiet /\ NoServiceAfterProcsOff

\* Why that is so for a module that is popped.  The program holds a queue back
\* after n steps if it has frozen it and not thawed it since, and a pair is at
\* rest if lis_await_qsched has returned for it in the meantime.
HeldBack(q, n) ==
    \E k \in 1 .. n : /\ Program[k] = [op |-> "freeze", q |-> q]
                     /\ \A m \in k .. n : Program[m] # [op |-> "unfreeze", q |-> q]

AtRest(p, n) ==
    \E k \in 1 .. n :
        /\ Program[k].op = "await" /\ Program[k].q[1] = p
        /\ \A q \in Both(p) :
               /\ HeldBack(q, k - 1)
               /\ \A m \in k .. n : Program[m] # [op |-> "unfreeze", q |-> q]

\* One of the first n steps is an op of the pair p.
Made(op, p, n) == \E k \in 1 .. n : Program[k].op = op /\ Program[k].q[1] = p

\* A pair is turned off at rest, descheduled after it was turned off, and freed
\* after its close routine has returned, as in pop_mod and lis_qdetach.  (The
\* mark_closing of a close deschedules first.)
TurnedOff == {p \in Pair : Made("procsoff", p, Len(Program))}
Orderly ==
    \A i \in DOMAIN Program :
        LET p == Program[i].q[1] IN
        /\ Program[i].op = "procsoff" => AtRest(p, i - 1)
        /\ Program[i].op = "qi_qclose" => Made("procsoff", p, i - 1)
        /\ Program[i].op = "free" => Made("qi_qclose", p, i - 1)
        /\ Program[i].op = "deschedule" /\ p \in TurnedOff => Made("procsoff", p, i - 1)

\* How many steps of the program have been performed.
Performed == Len(Program) - Len(todo)

\* No list and no runner has the queue, and nobody is about to link it.
Still(q) == /\ Listed(q) = {} /\ Linking(q) = {}
            /\ \A r \in Runner : ~Runs(r, q)

Follows ==
    /\ Len(todo) <= Len(Program)
    /\ \A i \in 1 .. Len(todo) : todo[i] = Program[Performed + i]

HeldIsFrozen ==
    \A q \in Queue : HeldBack(q, Performed) =>
        q[1] \in freed \/ "QFROZEN" \in q_flag[q]

RestIsStill ==
    \A p \in TurnedOff : AtRest(p, Performed) =>
        p \in freed \/ \A q \in Both(p) : "QFROZEN" \in q_flag[q] /\ Still(q)

OffIsStill ==
    /\ \A q \in Queue : "QPROCSOFF" \in q_flag[q] => Still(q)
    /\ \A p \in Pair : Made("procsoff", p, Performed) =>
           p \in freed \/ \A q \in Both(p) : "QPROCSOFF" \in q_flag[q]

\* The close routine has quiesced the contexts that enable the queue.
ClosedIsLeft ==
    /\ \A p \in Pair : Made("qi_qclose", p, Performed) => p \in qclosed
    /\ \A p \in qclosed :
           /\ p \in freed \/ \A q \in Both(p) : "QPROCSOFF" \in q_flag[q]
           /\ \A t \in Thread : pc[t] = "enable" => arg[t][1] # p

FreedIsLeft == freed \subseteq qclosed /\ \A p \in freed : \A q \in Both(p) : Still(q)

\* Until it is turned off, a queue of such a pair keeps QENAB for as long as it
\* is listed: this is what lis_await_qsched looks at.
EnabIsKept ==
    \A q \in Queue : q[1] \in TurnedOff /\ (Listed(q) # {} \/ Linking(q) # {}) =>
        "QENAB" \in q_flag[q]

DetachInv == /\ Follows /\ HeldIsFrozen /\ RestIsStill /\ OffIsStill
             /\ ClosedIsLeft /\ FreedIsLeft /\ EnabIsKept

\* Work on a queue that stays open is served.
WorkServed == \A q \in HasSrvp : work[q] ~> (~work[q] \/ Closing(q))

\* The plumbing operation finishes: lis_await_qsched misses no wakeup.
CloserFinishes == <>(todo = <<>>)

=============================================================================
