# LiS in TLA+

LiS (Linux STREAMS) implements the System V STREAMS framework in the Linux
kernel: a *stream* is a stack of modules over a driver, each a pair of queues
with put and service procedures, topped by a stream head that user processes
open, read, write and control.  This directory holds TLA+ models of its core,
the TLC configurations that check them and the theorems proved about them.
Paths are relative to `src/`.

## 1. The system

| part | source | state | operations | interacts with |
|---|---|---|---|---|
| queue scheduler | `head/queue.c`, `head/stream.c`, `head/head.c` | run list `lis_qhead`, scan list `lis_scanqhead`, `q_flag`, `lis_runq_req_cnt` | `lis_qenable`, `lis_retry_qenable`, `queuerun`, `add_to_scanl`, `deschedule`, `lis_await_qsched` | every put procedure and interrupt enables queues; open, close, push and pop freeze and detach them |
| queues and flow control | `head/queue.c` | message list, `q_count`, `q_flag`, band structures | `putq`, `putbq`, `insq`, `rmvq`, `getq`, `bcanput`, `flushq`, `flushband`, `lis_backenable` | enables queues, back-enables the queue upstream |
| queue runners | `head/linux-mdep.c` | one thread and semaphore per CPU, `lis_queues_running`, `qsched_running` | `lis_setqsched`, `lis_thread_runqueues` | run `queuerun`; woken by whoever links work |
| bufcall | `head/buffcall.c` | hash table of lists, free list, timer | `bufcall`, `unbufcall`, `lis_dobufcall` | timer sets `lis_strbcflag`, runners make the callbacks |
| ioctl | `head/head.c`, `head/wait.c` | `sd_wioc`, `sd_wiocing`, `sd_iocblk`, `IOCWAIT`, `STIOCTMR` | `lis_strdoioctl`, `lis_wait_for_wiocing`, `lis_strrput`, `lis_do_tmout` | driver answers from any context; M_ERROR, signals, timer |
| open, close, references | `head/head.c` | `sd_refcnt`, `sd_opencnt`, semaphores, list of stream heads | `lis_stropen`, `lis_doclose`, `lis_head_get/put` | everything that holds a stream head |
| put synchronisation | `head/safe.c`, `head/queue.c` | queue locks, deferred messages | `lis_safe_do_putmsg`, `lis_do_deferred_puts`, `lis_lockq` | freeze and detach make puts deferred |
| read and write | `head/head.c`, `head/wait.c` | `sd_wmsg`, rput list, sleeper counts | `strwrite`, `strread`, `putmsg`, `getmsg`, `strrsrv`, `strwsrv` | flow control, scheduler |
| messages | `head/msg.c`, `head/msgutl.c` | blocks, `db_ref` | `allocb`, `dupb`, `freeb`, `adjmsg`, `pullupmsg` | all |
| multiplexors | `head/head.c` | link lists | `I_LINK`, `I_PLINK`, `I_UNLINK` | ioctl, close |
| DKI timers | `head/dki.c` | hashed timer list | `timeout`, `untimeout` | drivers, close, scan |
| poll, events | `head/head.c`, `head/events.c` | poll and signal lists | poll, `I_SETSIG` | read side |
| tables | `head/mod.c` | modules, drivers, autopush | register, look up | open, push |
| pipes, FIFOs | `drivers/str/fifo.c`, `drivers/str/linux/connld.c`, `head/linux-mdep.c` | joined heads, passed files | open, twist, close, send and receive a file | open and close |
| drivers | `drivers/str` | own | own | the models' "any driver", and three of their own |
| locks | `head/linux/lislocks.c` | owner, nesting count | `lis_spin_lock`, `lis_spin_trylock`, `_irqsave` | all |
| glue | `head/linux`, `head/linux-mdep.c`, `head/user`, `libc`, `util`, `scripts` | the kernel's | wrappers | mounts of streams only |

What is hard in it, and what makes each part correct:

* *Scheduler.*  `lis_qenable` works under two locks in turn and runs in
  interrupts, while the stream is being taken apart.  A queue must be scheduled
  once, be served by one runner, never be lost with work on it, and never be
  touched after it has been freed.
* *Flow control.*  Most routines drop the queue's isr lock between a test and the
  action it decides.  Order, counts and full flags must be exact, and whoever
  was refused must be told when there is room.
* *Runners.*  The decision to wake a thread reads shared counters without a lock;
  a thread decides to sleep by a counter others change.  No work may be left
  with all threads asleep.
* *bufcall, timers.*  Callbacks may ask again, and are made without the lock;
  entries may be cancelled meanwhile, and their structures used again.
* *ioctl.*  Timer, answer, error and signal race for one semaphore that carries
  no reason; the answer lies in one slot.
* *Open and close.*  A reference count is read before it is decremented, openers
  of a device meet on a semaphore while the first is in the driver, and there are
  many ways out.
* *Put.*  Messages for a frozen queue are deferred and performed later; the lock of
  a queue is taken, or not, by flags that change while it is held.
* *Read and write.*  Sleepers are counted outside the lock, wakeups are shared by
  several causes, remains go back to the front of the queue.
* *The rest.*  Tables whose entries are looked up, slept upon and used, with
  reference counts of their own: modules, links, FIFO units, passed files, mounts.

`PROJECT.json` lists the components, the hazards at the lines where they bite,
and which property covers each.

## 2. The modules

| module | models | an action is |
|---|---|---|
| `Scheduler` | run and scan lists, flags, service procedures, plumbing programs | one critical section of the isr lock or of `lis_qhead_lock`, or one lock-free step |
| `FlowControl` | one queue, its bands, the writer above, the queue below, an interrupt, a flush | one critical section of the isr lock |
| `RunQueues` | `lis_setqsched` and the runner threads | one critical section, or one read or write of a shared counter |
| `Ioctl` | the ioctl transaction of a stream head | one step between two accesses to shared state |
| `OpenClose` | `lis_stropen`, `lis_doclose`, references to stream heads, clone opens | the same |
| `Counted` | what a reference count promises (abstract) | create, acquire, release, destroy |
| `PutSync` | put procedures, deferred messages, the lock of a queue, a push or pop meanwhile | one critical section, or a call or return of a put procedure |
| `StreamRead` | `strread`, `getmsg`, `strrput`, `strrsrv` | one use of an isr lock or a semaphore |
| `StreamWrite` | `strwrite`, `putmsg`, `strwsrv`, held writes and the scan timer | the same |
| `HeadIoctl` | the ioctls a stream head answers itself, M_SETOPTS | what a call does between two sleeps |
| `BufCall`, `Timers` | the bufcall table; `timeout` and `untimeout` | one critical section of the table's lock |
| `Messages` | headers, data blocks, `db_ref` and its lock | one access to shared memory |
| `MsgUtil` | `adjmsg`, `pullupmsg`, `rmvb`, `copymsg`, ... as operators on messages | one call |
| `SpinLocks` | nestable spin locks, interrupts | one access to the lock's fields |
| `Modules`, `Autopush` | module table, loading, autopush lists | one step between two sleeps |
| `AutopushTable` | what the lists are to their users (abstract) | configure, unconfigure, forget |
| `Multiplexor` | links, unlinks, closes | the same |
| `FifoSync`, `Pipes`, `PassFd` | opens of a FIFO; units and ends of pipes; files passed through them | a critical section of the pipe mutex; a look at shared state; a call |
| `Fattach` | streams mounted on paths | a step of `umount2`, `lis_doclose` or `lis_fdetach_stream` |
| `Events` | signals asked for, polls | a node of a walk, a step of a poll |
| `Loop`, `Minimux`, `Sad` | three drivers | a handler, or its part between two looks |

`SchedulerProofs`, `ServiceProofs`, `IoctlProofs`, `RunQueueProofs`, `OpenCloseProofs`,
`StreamWriteProofs`, `StreamReadProofs` and `FlowControlProofs` have the theorems (section 6).  `MCScheduler`,
`MCFlow` and `MCRead` hold definitions for instances of one module.  The other MC
modules put several modules *side by side*: `MCServices` (spin locks, messages,
utilities, FIFO opens, links, modules, autopush), `MCCalls` (`OpenClose`, `PutSync`),
`MCWaits` (`StreamWrite`, `BufCall`, `Timers`) and `MCDevices` (`Loop`, `Minimux`, `Sad`,
`Events`, `HeadIoctl`, `Pipes`, `PassFd`, `Fattach`).  There the variable `part` is chosen
at the start and never changes; the modules of the other parts stay at rest, so
that such a run is the union of separate state spaces and not a product: these
components share no state in the code but through the interfaces named above.  What
such a run checks of a module is stated for the behaviours of that module's part.
`MCTraffic` does the same with two instances of `Scheduler` over the same variables.

Names follow the source: `q_flag`, `lis_qhead`, `sd_refcnt`, flags as sets of their
names.  `pc[t]` or a stack of frames says where a thread is.  Each module begins
with what it leaves out.  Some correspondences that are not obvious:

**Scheduler.**  A queue is `<<pair, side>>`.  In `queuerun` a runner is at `scan...` for
the scan list, `main...` for the run list, `lockq` when it waits for `lis_lockq`, `srvp`
inside a service procedure; a thread in `lis_qenable` is at `enable` before the
isr-locked half and at `link` between that and the linking.  Whether a queue has
messages is one Boolean, `work`.  The plumbing process performs a `Program`, a
sequence of the critical sections that `close_action`, `pop_mod` or `push_mod`
perform.  `Quiesces` says whether the close routine of the driver keeps its other
contexts from enabling a pair that it has closed, as the DDI demands;
`AtomicFlags` whether `q->q_flag |= QRUNNING` in `queuerun`, made under another lock
than every other update of the word, is indivisible.

**FlowControl.**  A message is a class (`hi`, band 0 or 1, data or not) and a
number.  The size is 1 for all.  `owes[x]` says that context x has unlocked the
queue and has yet to call `lis_qenable`.  `bcanput` takes two steps (test under the
read lock, note the wish under the write lock) and keeps the band pointer of the
first (`up_qp`), as the code does.

**RunQueues.**  The lists are their lengths; `lis_setqsched` is taken apart into its
reads, since it takes no lock beyond the `qsched_running` flag.  Which CPU a caller
runs on is chosen freely.

**Ioctl.**  `at[n]` says where message n is: `down` with the driver, `wanted` past the
test in `lis_strrput`, at the `head`, or `gone`.  A timer is `armed`, `due` (its function
has begun) or `ringing` (past the test of `STIOCTMR`); `lis_untmout` takes back an armed
one only, as `del_timer` does.  M_IOCNAK counts as M_IOCACK and M_COPYOUT as
M_COPYIN: they differ in what is copied, not in the steps.

**OpenClose.**  Every way out of `lis_stropen` and `lis_doclose` is an action.
`lis_head_put` is two steps, the read of the count and the decrement.  A head is
`Shared` when an open of it has failed while somebody else had found it: `error_rtn`
lets go of `sd_opening` before it looks at `sd_opencnt`, and what is promised of a
head excepts those.

**PutSync.**  `LockQ` and `UnlockQ` are as unlike as in the code: the first does nothing while
`QOPENING` is set.  An open routine that fails during a push is not modelled (its `lis_qdetach`
touches only the queue that is freed), nor the first open of the driver, which nobody writes to
yet; a failing one may give the shared semaphore of `LIS_QLOCK_GLOBAL` a token too many.

**StreamRead, StreamWrite.**  A unit of data is numbered by its sender; a message or
a block is a sequence of units.  A copy to the user that fails part of the way through a message
(`ReadFault`) puts back the block it failed on and what follows; in `RNORM` the call then fails and
what had been copied of this message is lost, otherwise it returns what has been copied.  The counts `sd_rdcnt`, `sd_wrcnt` are changed in the
places in which the code changes them, under the lock or not.  `wr[w].held` is the
block that writer w works on, `sd_wmsg` the held one.

**Events.**  `Starts` is a walk of `kill_procs` whose caller has tested `sd_sigflags`; `Signalusr` is
the one that does not, and goes astray when there is no list.

**Pipes.**  A FIFO takes one unit from `free_fifos`, a pipe one for each of its two clone
opens.  `broken` says that a wait for `fifo_sem` was interrupted, after which one unit may be
allocated twice.

**Messages.**  `db_ref` is kept modulo `Width`, 256 in the run.  `SharedPullup` allows
`lis_msgpullup` of a block that others refer to, which the code gets wrong
(section 4).

Some definitions are variants of an operation with one line changed; the next-state
relations do not use them.  They are the small bugs that the mutants of
`PROJECT.json` put into the model to show that a property can be violated.

## 3. The runs

| run | shows | bounds |
|---|---|---|
| `Sched_pop` | a module is popped under traffic: `OneRunnerPerQueue`; the freed pair is quiet (`Detached`) | head, module, driver; 2 runners, 1 enabling context; a lock per queue; afterwards `mark_closing` of the whole stream |
| `Sched_hold` | held writes and the scan list, with torn flag updates: `ListsAccounted` | 1 runner, 2 contexts, a scan timer, no lock for the driver |
| `Sched_traffic` | `HeadRefsBalanced` through a close and a push; work is served and the push ends | head and driver; 1 runner, 1 context |
| `Flow` | order and FIFO in a class (`InOrder`), counts and full flags (`Accounted`), a noted writer is served | high water 1, low 0; 3 messages from above, 1 from an interrupt; 1 flush of 2 kinds |
| `Run` | entries are abandoned only for a stated reason; the threads come to rest | 2 CPUs, 1 caller, 2 enables, 1 scan, 1 timer tick |
| `Ioctl` | answers belong to their ioctl, late ones are freed, sleepers wake | 2 processes, one timed; 3 messages; 1 M_ERROR or signal |
| `Services` | locks, data blocks, utilities, FIFO counts, links, modules, autopush | 2 CPUs nested twice; 3 headers; messages of 3 blocks of 2 bytes; 3 opens; 3 streams; 2 modules, 3 entries; 2 minors |
| `Read` | one reader at a time, each unit read once and in order, `STRPRI` means a message, sleepers are served | 2 readers (one calls `read`, the other `getmsg` with and without `MSG_HIPRI`), 2 messages, 1 signal; 3 of 9 pairs of read options |
| `Calls` | stream heads are counted objects, puts take turns, every call returns | 2 processes, 3 heads, 1 device and the clone driver, 3 opens; 2 messages each of 2 tasks, 3 lock options |
| `Waits` | sleeping writers are counted and woken, what is written is sent; bufcalls and timeouts happen once or are cancelled | 2 writers, 1 error, freeze and signal; 2 buckets, 3 nodes; 7 handles |
| `Devices` | three drivers, events, head ioctls, pipes, passed files, mounts | 2 or 3 of each, at most 4 calls; a pipe takes two of the 3 FIFO units and two of 4 opens, so that FIFOs come and go beside it, and one wait for `fifo_sem` is interrupted |
| `Sched_v_close` | a disagreement, section 4 | |

The bounds are the smallest that bring every step into play with every other:
two threads for everything that two may do to one object (a third adds no new
pair of steps); a high-water mark of 1, so that each message crosses a mark;
three messages, so that a band is filled, drained and its structure used again;
one flush against everything; three ioctl messages, so that an answer can be
late by one transaction and the effect be seen in the next; three opens, so that
a head is found while it is closed and another is made for the same device.
Constants named `Max...` (and `PerPutter`) only stop the environment.  Deadlock is
not checked where a run ends with these spent or a program done.  Each property
of a passing run has a mutant in `PROJECT.json`, a small bug in a modelled
definition that it finds.

## 4. Where code and documentation disagree

`PROJECT.json`, "findings", lists them with the lines and the words that are
contradicted.  One is shown by a run of its own:

* `Sched_v_close` (`head/head.c:8170`).  A context has set `QENAB` and not yet linked the
  queue when the stream is closed.  The first `deschedule` clears the flag and
  finds nothing to unlink; the queue is linked; the second `deschedule` looks at
  the flag and skips the list; the pair is freed while it is on the run list.

The others were met while modelling.  Most have a definition that states what the
comment promises; it is kept beside the property that does hold, and naming it in
a cfg makes TLC print a behaviour against it:

| definition | what happens |
|---|---|
| `FlowControl!RefusedIsServed` | `bcanput` finds the queue full, the queue is drained, `bcanput` sets `QWANTW`: the writer waits for a back-enable that nobody owes |
| `RunQueues!NothingAbandoned` | a `lis_setqsched` that finds another one active returns ("one of these is enough"); the other has already looked |
| `PutSync!DeferredPutsPerformed` | of two deferred messages the first is deferred again because of the second |
| `StreamRead!NoFalseEnd` | `strread` finds a message, lets go of the isr lock, and a flush takes it: the read returns 0 on a stream that is not hung up |
| `StreamRead!HangupIsSeen` | a reader that sleeps may not be woken by a hangup |
| `StreamWrite!SemaphoreProtects`, `ThawWakes` | `sd_wmsg` is taken without `sd_write_sem`; a thaw misses a writer that has not yet counted itself |
| `OpenClose!NothingLeft` | two that give back the last two references at the same time leave a head that nobody frees |
| `OpenClose!OpenerUndisturbed` | a stream is taken apart while a process is in its first open |
| `Modules!PushedAsNamed` | an entry is given to another module while a process sleeps on it |
| `Multiplexor!NoCycle` | three links in a circle succeed |
| `Autopush!RangeIsFound` | a minor in a `SAP_RANGE` is not found |
| `FifoSync!PartnersMeet` | a blocking open of a FIFO keeps its partner out |
| `Timers!NotEarly` | a late callback runs a new timeout |
| `Pipes!EndsPart` | the ends of a pipe that close together keep each other's references |
| `HeadIoctl!ReadoptAsAsked` | M_SETOPTS takes read options from the wrong field |

Passing properties are worded around these where they must be, and say so:
`NotedIsServed` speaks of writers whose wish was noted in time, `RunnersSound` lists
the reasons for which work is abandoned, `OneReader` speaks of streams that no error
or hangup has reached, and the properties of `Ioctl` stop at the first ioctl that
gave up.  After that the following happens in the model, as in the code: the
answer of an ioctl that has timed out is left in `sd_iocblk`; if its wakeup is left
over as well the next ioctl takes it for its own answer, and if not, `lis_strrput`
frees every later answer because the slot is occupied.  `NestedTry = FALSE` and
`SharedPullup = FALSE` leave out a nested `lis_spin_trylock`, which is not counted,
and `lis_msgpullup` of a shared block; `Racing = FALSE` an `unbufcall` beside another.

## 5. Fairness

Threads, timers and semaphores are the kernel's.  Weak fairness of a step says
that a runnable thread runs on and an armed timer fires.  Strong fairness is
used for what waits for a lock that others take and release again and again; the
kernel's semaphores queue their waiters.  In particular:

* `Scheduler` (as used by `MCTraffic`): strong fairness of `EnterService`, `ProcsOff`
  and `FreeQ`, which wait for locks, and of `Drain`: a service procedure that may
  go on for a while looks at its queue at last.
* `RunQueues` needs only that something goes on as long as something can (`Goes`).
* `Ioctl` assumes nothing of the driver: a timed wait ends though it never answers.
* `OpenClose` and `PutSync`: strong fairness of each process (`Turn`, `Change` of
  `MCCalls`), as each of them may wait for a semaphore.
* `StreamWrite`: strong fairness of a writer that has been woken (`WokenUp`), and that
  the driver takes messages; `StreamRead`, `BufCall`, `Timers`: weak fairness.
* `Modules` and `Multiplexor` state no liveness: `SomeCallGoesOn` says that calls do not
  all wait for one another.

## 6. What is proved

For every value of the constants that the assumptions of the modules allow
(TLC evaluates them on the instances), for any number of processes and messages,
and without bounds other than those in the guards:

| theorem | of | states |
|---|---|---|
| `TypeCorrect` | `SchedulerProofs` | Every reachable state of the scheduler is well typed, for every stream, set of threads, plumbing program and lock layout: no thread works on, enables or returns to something that is not there. |
| `OneRunner` | `SchedulerProofs` | No two queue runners are inside the same queue, for any number of CPUs, contexts and queues, any lock layout and any plumbing program that marks a pair before it deschedules it, as long as the flag updates of queuerun are indivisible and no write is held. |
| `PoppedIsDetached` | `SchedulerProofs` | For any stream, threads and queue locks, a program that takes modules out in the order of popmod and whose close routines quiesce their callers leaves no freed queue on a list, with a runner or about to be linked. |
| `ListsBalanced` | `SchedulerProofs` | For every program and every choice of the switches, torn flags and timers included: the references of the stream heads are the scheduled queues of the heads, and lis_runq_req_cnt counts the entries of the lists. |
| `ListsAreAccounted` | `SchedulerProofs` | While streams are only frozen and thawed, a queue has one place, QENAB says that it has one, and somebody looks after its work, with any number of runners, held writes and torn updates of q_flag, as long as the queue on the scan list is not enabled too where updates are torn. |
| `LockIsHeldByOne` | `ServiceProofs` | A nestable spin lock is owned by at most one CPU at a time, for any number of CPUs and any nesting depth: whoever is inside is the recorded owner and nobody else spins past the lock. |
| `FifoCountsAreFiles` | `ServiceProofs` | For any number of files, opens that wait for a partner, refusals and interruptions: readers and writers count the files that have the FIFO open, i_pipe says whether there are any, and a file that waits has missed nobody. |
| `AnswersAreOwn` | `IoctlProofs` | For any number of processes, messages and troubles: as long as no ioctl has given up, an ioctl returns the answer of the last message of its own dialogue, and it returns 0 without an answer only after a wakeup that was meant for another. |
| `LateAnswersFreed` | `IoctlProofs` | An answer on its way when its ioctl returned is freed by lis_strrput when it comes, whoever waits then and whatever went wrong before. |
| `RunnersAreSound` | `RunQueueProofs` | For any number of CPUs, callers and list entries: every queue-runner thread sleeps while entries are left only if no lis_setqsched looked after they were linked, or lis_runq_req_cnt had fallen below the truth. |
| `HeadsAreSound` | `OpenCloseProofs` | For any number of processes, heads and devices the stream heads are sound: nothing in use is freed, sd_refcnt and sd_opencnt say who holds what, open files are whole, a device has one stream. |
| `HeadsAreCounted` | `OpenCloseProofs` | sd_refcnt implements the reference count of an abstract object (Counted): every step of an open, a close or a call is one step of one object, or none. |
| `WritersAreCounted` | `StreamWriteProofs` | For any number of writers, wakeups, signals and errors: sd_wrcnt and the semaphore sd_wwrite together count the writers that sleep. |
| `WritesAreSent` | `StreamWriteProofs` | What writers have copied in is sent downstream or held: once, in the order of each writer, and with somebody to see to it, for any number of writers and any size of a block, unless the scan list or a signal comes between. |
| `OneReaderAtATime` | `StreamReadProofs` | For any number of readers and messages: sd_read_sem lets one reader in at a time, until a hangup or an error wakes all. |
| `PriIsNotStuck` | `StreamReadProofs` | For any number of readers and messages: while STRPRI is set, which makes lis_strrput throw M_PCPROTO messages away, there is one on the queues or with a reader. |
| `QueueInOrder` | `FlowControlProofs` | For any water marks, any number of messages of any class and any flushes: the queue stays sorted, priority messages first and then by band, and until a flush the messages of a sender and class stay in the order in which it put them. |
| `QueueAccounted` | `FlowControlProofs` | For any water marks, messages and flushes: q_count, the counts and first messages of the bands and the full flags are right, through reset and reused band structures and retained messages, and no message is forgotten on the queue. |
| `EachUnitIsReadOnce` | `StreamReadProofs` | For any number of readers and messages, read options, faults, flushes and puts back: every unit the driver has sent is in one place, on its way, with a reader, returned once or counted as lost, and ordinary units are returned in the order sent while one reader is let in at a time. |
| `PutsAreSound` | `OpenCloseProofs` | For any number of putters, messages and options and any width of q_count: one task at a time is in the put procedures that share a lock, every message sent is in exactly one place with q_count counting the deferred ones, and what a task sends is delivered in order, while a module is pushed or popped. |
| `TablesAreSound` | `StreamWriteProofs` | For any number of nodes, callers, runners and timeouts: the nodes of bufcalls and DKI timers are in one place each, the counts are right, nobody is called twice, and a bufcall that waits has the timer or lis_dobufcall to see to it, provided unbufcall meets no other unbufcall or lis_dobufcall. |
| `BlocksAreFreedExactly` | `ServiceProofs` | For any number of tasks and any pool with fewer headers than db_ref can count: no header, data block or buffer is freed twice, while somebody has a block that needs it, or never, as long as pullupmsg is not used on a block whose own data block is shared. It is the half of BlocksSound that is about Messages. |

**Scheduler.**  The types alone are not inductive: a thread that returns from
`lis_qenable` must come back to a place that exists.  `Control` says what `arg`, `ret` and
`cur` hold at each `pc`.

*One runner* (`ServiceInv`).  `QRUNNING` excludes a second runner only if a queue
cannot be popped twice, so the invariant follows a queue through its places.
`OnePlace`: it is on the run list once, or in the hands of one linking thread, or
of one runner, and not in two of these.  `PlaceFlagged`: while in a place, a flag
that inhibits `lis_qenable` is set: `QRUNNING` with a runner, else `QENAB`, or `QCLOSING`
or `QPROCSOFF` if `deschedule` has cleared `QENAB` under a thread that is about to link.
That is safe because a pair is marked before it is descheduled (`MarkedFirst`,
from `ProgramAssumption`).  Assumed: indivisible flag updates and no scan timer;
the scan pass clears the same `QRUNNING` bit another runner may rely on
(`head/stream.c:213`).

*Detached* (`DetachInv`).  The program must be `Orderly`: freeze, await, procedures off,
the module's close routine, deschedule, await, free, which is what `popmod` does and
what TLC evaluates of `PopProgram` (`PopIsOrderly`).  The invariant says how much of
this is behind each position of the program: a frozen and awaited pair has no
enable under way but those `QENAB` announces, and the await waits for these.  A
close is not orderly: `mark_closing` deschedules before anything is awaited, which
is the finding of section 4.

*Balance* (`BalanceInv`).  Needs no hypothesis at all, torn updates included: each
reference is tied to an entry of a list or to a thread that has linked or
unlinked one and not yet counted it.  The lemmas count entries of sequences
under append, removal and unlinking.

*Accounts.*  For programs that only freeze and thaw: `QENAB` is set iff the queue has
exactly one place, which torn stores preserve because whoever stores has seen
`QENAB`; and whatever has work has somebody to look after it (`Covered`).  Excluded
is a queue of the scan list that has a service procedure as well when updates
are torn, where it is not true.

**SpinLocks** (in `ServiceProofs`).  `taskp` is the recorded owner exactly when a level of that CPU is
inside; two levels of one CPU are the same owner to the lock and are kept apart by
interrupts, so the invariant relates nesting counts, interrupts and `pc` of each
level (`Levels`, `Kinds`, `Ints`).

**FifoSync** (in `ServiceProofs`).  The files that are counted are finitely many whatever
`File` is (`FifoCounts`), and a step adds one of them or takes one away.  `FifoWaits`: the
counter that a file waits for is never behind what the file has read of it, and if it
has not moved, the side it counts has no open file; that is what makes
`fifo_open_sync` return when a partner has come and gone.

**Messages** (in `ServiceProofs`).  The headers that use a data block (`Users`) are counted by
`db_ref` until a task writes the count back (`Referenced`), so the invariant is about sets
and the steps about a set that gains or loses one member.  A header whose data block is
another's has one of its own that nobody uses and that counts 1 (`Referenced`), which is
what `--mydp->db_ref` relies on.  `AtFree` is the reason why the lock may be left out if the count
is 1: whoever reads 1 is the only user, and no other task can come to use the data block of
a message it does not have.  A header stays allocated exactly while it is in the pool,
in a task's hands or used (`Needed`).  Other tasks' work is disturbed by no step, because
what a task relies on is used by what it holds, or it has the lock (`WorkIsOwn`,
`OthersStay`).  Assumed: fewer headers than `Width` (`PoolFits`), or the count could wrap, and
no `SharedPullup` (section 4).

**Ioctl.**  `Exclusive`: one process is between taking and giving `sd_wioc`.  `Numbered`:
messages are numbered in the order sent, so that the one waited for is the
last.  `OneAnswer` and `WakeupsMatch` tie the slot and the semaphore to it while
nobody has given up and no timer has rung.

**RunQueues.**  `Heard`: if some thread or caller is still to look after an entry was
linked, it is not abandoned; `RunningCounted` and `ActiveRuns` tie the counters to the
places of the threads.

**OpenClose.**  One part for each head (`Sound`): who holds a reference, and what a
process at each place has found.  `Kept`: a living head that nobody tears down has
somebody who keeps it.  `TearsDown` and `LeavesOne` are about the gap between the look
at the count and the decrement: who tears a head down holds its only reference, who
does not leaves one behind, unless the two overlapped.  For the refinement of `Counted` the abstract state of a head is
computed from its holders (`Life`, `Holders`); every action touches one head
(`OnlySubject`), and its step is one step of the abstract object or none.

**PutSync** (in `OpenCloseProofs`, which proves about the composition `MCCalls`).
`PutsTakeTurns` says only what a reader wants to know; the invariant `PInv` has to say why.
`OpenSound`: `lis_lockq` takes nothing of a queue that is being opened and `lis_unlockq` gives it
back all the same, so nobody may be past the test of a module that has `QOPENING`, and the
driver never has it here.
`CallsSound` lists the forms that a task's stack of put procedures can take, and
`ControlSound` where the process that pushes or pops is and what that means for the links
and flags.  `LockCounts`: `qs_nest` is the number of the owner's calls inside and
everybody else has none.  The order needs one sequence, `Way`: what was delivered, what is
deferred on the driver, what the changer holds, what is deferred on the module.  It is the
order of delivery although it lies on two queues and in a stack, because
`lis_do_deferred_puts` lets the module's messages go while the driver is still frozen.  On
it no message occurs twice, and each sender's messages are in order (`OrderSound`);
`Passed` says from which place on a putter has none of its own behind the message it
carries.  `Placed`: whatever was sent is on the way, with a putter, or flushed.  The
lengths add up by one lemma on repetition-free sequences (`LenIsCardinality`).  `q_count`
is an integer of some `Width`: what is proved is equality modulo `Width`, by three lemmas
on remainders, and in the run no list is as long as `Width`.

**StreamWrite.**  `OneWorks`: semaphore and writers at work together are at most one,
unless a signal broke it.  `HeldIsTheirs`: what a writer fills is the block in
`sd_wmsg`, and the scan list is not clearing that meanwhile.  `Timed`: a held block on
which nobody works is `SeenTo`, by the timer, by an entry of the scan list or by a scan
that is under way.  `WrittenOnce` gives the order, by following the units through
appends to the channel (`CopyAppends`, `OnItsWayKept`).

**BufCall, Timers** (in `StreamWriteProofs`, which proves about the composition `MCWaits`).
Each node is in one place: on the list that its id or handle hashes to, on the free
list, or not yet allocated (`Listed`, `TimersListed`); that it is there once is kept by
lemmas on sequences without repetition (`TakenOut`, `PutFirst`, `PutLast`, `TakenFirst`).
Nobody is called twice because an entry that was called is only still linked while its
callback runs (`CalledBack`), and a timeout leaves its list before its function is called
(`TimersCalled`).  `Alone` says that one thread at a time is in `lis_dobufcall` or in
`unbufcall`; it needs the hypothesis `~Racing`, which nothing in the code enforces.
`BufTimed`: `lis_strbctimer` stands for a timer that is set or has rung, or for the thread
that makes the callbacks, so whoever waits is seen to.  `timeout` looks for a handle that is
free and does not hash to the list of free nodes; that it finds one is arithmetic
(`Reached`, `AllocHandle`) and needs more such handles than nodes (`TimerAssumption`):
fewer than that and `alloc_handle` would not end.

**StreamRead.**  `OneEnters`: `sd_read_sem` and the readers inside add up to at most one
until everybody is woken.  For `STRPRI`, each place of a reader says whether it has
found or will find the message that `STRPRI` speaks of (`PriIsFound`), and requeuing
puts it where it is found again (`PutKept`).

For `ReadOnce` a unit is followed from `lis_strrput`'s list to the queue, into a reader's
hand, maybe back, and to the user.  `Chain` says of a relation between units that it
holds from each unit to all that are behind it on that way; that each step keeps it is
proved once, for any relation.  With "differs" no unit is there twice (`Once`); with
"is less", between ordinary units and while one reader is inside, none overtakes
(`Sound`).  The hard step is putting back what was not read: it goes to the front of
its band, behind high-priority messages only, which is why the invariant says that
these stay in front (`PriFirst`, `Overtakers`) and when a hand holds a message at all
(`HandsFit`).

**FlowControl.**  The queue is sorted by *rank* (priority messages, then band 1, then
band 0); `Behind` and `Ahead` are the spots at which `putq` and `putbq` insert, and the
lemmas say that sortedness survives there and under the removal of any entry.  `InTurn`
adds that the numbers of one sender and class grow, which is claimed only while
nothing has been flushed.  `Bands`: at most one band structure is in use, it points to
the first message of its band and counts them; `QueueCount` does the same for `q_count`
and the high-water flags.  `Attended`: a queue with messages is enabled, or a context
`owes` it a `lis_qenable`, or its service procedure looks once more.  What a flush
retains is a fold over the queue; that it stays a sequence of messages is proved by
the least position at which it would not.

## 7. What is only model-checked

Liveness throughout (`PushGoesOn`, `NotedIsServed`, `RunnersRest`, `SleepersWake`,
`SleeperIsServed`, `AllReturn`, `NoneWaits`): fairness and ENABLED are out of reach of
the prover, and so is `SomeCallGoesOn`, which is about ENABLED.  What the
operators of `MsgUtil` compute for every input (`MessageIntact`) would need an induction
over data.  The
remaining invariants of `Services` and `Devices`, and the implementation of `AutopushTable` by `Autopush`, can be proved with
the means used here and have not been yet.

## 8. Plan

1. Proofs, in this order: `ConfiguresMinors`; `LinksSound`; that `Autopush` implements `AutopushTable`; the devices.
2. Models: the drain and timer of a close; `fork` and `dup`; `I_PEEK`, bands and marks
   of the read side; `strqset`, `QNOENB` and `QCLOSEWT`; pipemod; the log driver.
3. An abstract scheduler that keeps a *set* of enabled queues, which `Scheduler`
   implements.

## 9. What is not modelled

Modules' and drivers' own protocols stand for any driver but the three above;
formatting, tracing, statistics, the kernel's and the user-mode glue, the
C library, build and utilities hold none of the state above.  The largest files that the
models leave aside are the test programs and `strconf` (`util`), the user-level port
(`head/user`) and the wrappers of the kernel (`head/osif.c`, most of `head/linux-mdep.c`
and of `lislocks.c`); what is modelled amounts to about 18 per cent of all lines
that could be.  Weak memory is not modelled: an access is indivisible unless a
switch says otherwise.  `PROJECT.json`, "components", says for each part what of it
is left out.
