------------------------------ MODULE StreamWrite ------------------------------
(***************************************************************************)
(* Writing at the stream head: lis_strwrite, lis_strputpmsg, lis_strwsrv    *)
(* (head/head.c), the semaphores of head/wait.c they meet at, and messages  *)
(* held back until they are full or the scan timer runs out (add_to_scanl,  *)
(* and the scan list in queuerun, head/stream.c).                           *)
(*                                                                         *)
(* A write is made of chunks of sd_maxpsz bytes; a chunk is one unit of     *)
(* data, numbered for each writer.  The queue below the head belongs to a   *)
(* driver that takes its messages off one by one.  lis_runqueues and        *)
(* references to the head are left out.  A wakeup takes one from sd_wrcnt   *)
(* and raises the semaphore in one step: nobody looks at both.              *)
(***************************************************************************)
EXTENDS Integers, FiniteSets, SequencesExt

CONSTANTS
  Writer,      \* processes that write
  NoTask,
  Kinds,       \* Kinds[STRHOLD]: of "write", "putmsg" and "hipri", those to call
  BlockSize,   \* how many units a block has room for
  HiWater,     \* of the queue below
  Faults,      \* may lis_copyin fail?
  Errors,      \* what may come from below: "write", "read", "clear", "hangup"
  MaxCalls,    \* bound on the calls of each writer
  MaxErrors, MaxFreezes, MaxSignals  \* bounds; no errors or freezes with STRHOLD

ASSUME WriterAssumption == IsFiniteSet(Writer)
ASSUME KindsAssumption == Kinds \in [BOOLEAN -> SUBSET {"write", "putmsg", "hipri"}]
ASSUME BlockAssumption == BlockSize \in Nat

VARIABLES
  STRHOLD,
  STWRERR, STRHUP, STRFROZEN,
  lockq,         \* who holds the lock of sd_wq
  sd_wrcnt, sd_wwrite, sd_write_sem,
  sd_wmsg,       \* a block, or 0
  blocks,        \* blocks[i]: the units in block i
  sd_scantimer,  \* is the timer running?
  QSCAN,         \* is sd_wq on the scan list?
  scan,          \* where the queue runner is that has taken it off
  wr,            \* wr[w]: where a writer is, and its local variables
  calls, taken,  \* calls[w]; taken[w]: the units copied in
  below,         \* how many messages are queued below
  QWANTW,        \* of the queue below
  qenab,         \* sd_wq is enabled
  srv,           \* does lis_strwsrv run?
  wk,            \* wk[t]: where a wakeup of all writers is
  errors, freezes, signals,
  sent,          \* the units that went downstream from sd_wmsg
  missed,        \* history: a wakeup of all was over between the test of a writer and its sleep
  clash,         \* history: the scan list met a writer at work on sd_wmsg
  broken,        \* history: lis_down(&sd_write_sem) was interrupted
  stale          \* history: a block was left in sd_wmsg without a timer

flags == <<STRHOLD, STWRERR, STRHUP, STRFROZEN>>
sleepers == <<sd_wrcnt, sd_wwrite>>
hold == <<sd_write_sem, sd_wmsg, blocks, sd_scantimer, QSCAN, scan>>
next == <<below, QWANTW, qenab>>
tasks == <<srv, wk, errors, freezes, signals>>
history == <<sent, missed, clash, broken, stale>>
vars == <<flags, lockq, sleepers, hold, wr, calls, taken, next, tasks, history>>

Waker == {"srv", "err", "thaw"}
Idle == [pc |-> "idle", kind |-> "write", left |-> 0, written |-> 0, held |-> 0,
         newmsg |-> FALSE]

Init ==
  /\ STRHOLD \in BOOLEAN
  /\ STWRERR = FALSE /\ STRHUP = FALSE /\ STRFROZEN = FALSE
  /\ lockq = NoTask
  /\ sd_wrcnt = 0 /\ sd_wwrite = 0 /\ sd_write_sem = 1
  /\ sd_wmsg = 0 /\ blocks = <<>>
  /\ sd_scantimer = FALSE /\ QSCAN = FALSE /\ scan = "idle"
  /\ wr = [w \in Writer |-> Idle]
  /\ calls = [w \in Writer |-> 0] /\ taken = [w \in Writer |-> 0]
  /\ below = 0 /\ QWANTW = FALSE /\ qenab = FALSE
  /\ srv = FALSE /\ wk = [t \in Waker |-> "none"]
  /\ errors = 0 /\ freezes = 0 /\ signals = 0
  /\ sent = <<>>
  /\ missed = FALSE /\ clash = FALSE /\ broken = FALSE /\ stale = FALSE

At(w, l) == wr[w].pc = l
Goto(w, l) == wr' = [wr EXCEPT ![w].pc = l]
Rtn(w) == wr' = [wr EXCEPT ![w] = Idle]

QFULL == below >= HiWater

---------------------------------------------------------------------------
(* lis_strwrite and lis_strputpmsg up to the place where there is room below *)

Begin(w) ==
  /\ At(w, "idle") /\ calls[w] < MaxCalls[w]
  /\ calls' = [calls EXCEPT ![w] = @ + 1]
  /\ \E k \in Kinds[STRHOLD], n \in 1..2 :
       /\ k # "write" => n = 1
       /\ wr' = [wr EXCEPT ![w] = [Idle EXCEPT !.pc = "check", !.kind = k, !.left = n]]
  /\ UNCHANGED <<flags, lockq, sleepers, hold, taken, next, tasks, history>>

CheckErrors(w) ==
  /\ At(w, "check")
  /\ IF STWRERR \/ STRHUP THEN Rtn(w)
     ELSE Goto(w, IF wr[w].kind = "hipri" THEN "put" ELSE "lock")
  /\ UNCHANGED <<flags, lockq, sleepers, hold, calls, taken, next, tasks, history>>

OthersWait == sd_wrcnt # 0
Blocked == OthersWait \/ QFULL \/ STRFROZEN

NotesNobody(w) == FALSE                                   \* mutant
\* Does lis_bcanputnext come to be called, and note that somebody wants to write?
\* The two system calls test in different orders.
Notes(w) == ~OthersWait /\ QFULL /\ (wr[w].kind = "putmsg" => ~STRFROZEN)

Room(w) ==
  /\ At(w, "lock") /\ lockq = NoTask /\ ~Blocked
  /\ Goto(w, IF wr[w].kind = "write" THEN "down" ELSE "put")
  /\ UNCHANGED <<flags, lockq, sleepers, hold, calls, taken, next, tasks, history>>

\* O_NONBLOCK may be set or not.
WouldBlock(w) ==
  /\ At(w, "lock") /\ lockq = NoTask /\ Blocked
  /\ QWANTW' = (QWANTW \/ Notes(w))
  /\ Rtn(w)
  /\ UNCHANGED <<flags, lockq, sleepers, hold, calls, taken, below, qenab, tasks, history>>

WillSleep(w) ==
  /\ At(w, "lock") /\ lockq = NoTask /\ Blocked
  /\ QWANTW' = (QWANTW \/ Notes(w))
  /\ lockq' = w
  /\ Goto(w, "sleep")
  /\ UNCHANGED <<flags, sleepers, hold, calls, taken, below, qenab, tasks, history>>

\* AINC(sd_wrcnt), then lis_unlockq: lis_sleep_on_wwrite
SleepOnWwrite(w) ==
  /\ At(w, "sleep")
  /\ sd_wrcnt' = sd_wrcnt + 1 /\ lockq' = NoTask
  /\ Goto(w, "asleep")
  /\ UNCHANGED <<flags, sd_wwrite, hold, calls, taken, next, tasks, history>>

WokenUp(w) ==
  /\ At(w, "asleep") /\ sd_wwrite > 0
  /\ sd_wwrite' = sd_wwrite - 1
  /\ Goto(w, "relock")
  /\ UNCHANGED <<flags, lockq, sd_wrcnt, hold, calls, taken, next, tasks, history>>

\* The lock is taken once more, and given up for another look at the errors.
Relock(w) ==
  /\ At(w, "relock") /\ lockq = NoTask
  /\ Goto(w, "check")
  /\ UNCHANGED <<flags, lockq, sleepers, hold, calls, taken, next, tasks, history>>

NotBackedOut == sd_wrcnt' = sd_wrcnt                      \* mutant
BackOut == sd_wrcnt' = sd_wrcnt - 1

Interrupted(w) ==
  /\ signals < MaxSignals /\ At(w, "asleep")
  /\ BackOut
  /\ Rtn(w)
  /\ signals' = signals + 1
  /\ UNCHANGED <<flags, lockq, sd_wwrite, hold, calls, taken, next, srv, wk, errors, freezes, history>>

---------------------------------------------------------------------------
(* The rest of lis_strwrite: sd_write_sem is to protect sd_wmsg. *)

AtWork(w) == wr[w].pc \in {"fill", "copy", "send", "clear"}

DownAlways == TRUE                                        \* mutant
DownPasses == sd_write_sem > 0

DownWriteSem(w) ==
  /\ At(w, "down") /\ DownPasses
  /\ sd_write_sem' = sd_write_sem - 1
  /\ Goto(w, "fill")
  /\ UNCHANGED <<flags, lockq, sleepers, sd_wmsg, blocks, sd_scantimer, QSCAN, scan, calls, taken,
                 next, tasks, history>>

\* The result of lis_down is not looked at.
DownInterrupted(w) ==
  /\ signals < MaxSignals /\ At(w, "down")
  /\ Goto(w, "fill")
  /\ signals' = signals + 1
  /\ broken' = TRUE
  /\ UNCHANGED <<flags, lockq, sleepers, hold, calls, taken, next, srv, wk, errors, freezes,
                 sent, missed, clash, stale>>

\* held = sd_wmsg, or a new block
Fill(w) ==
  /\ At(w, "fill")
  /\ IF sd_wmsg # 0
       THEN /\ wr' = [wr EXCEPT ![w].pc = "copy", ![w].held = sd_wmsg, ![w].newmsg = FALSE]
            /\ UNCHANGED <<sd_wmsg, blocks>>
       ELSE /\ blocks' = Append(blocks, <<>>) /\ sd_wmsg' = Len(blocks')
            /\ wr' = [wr EXCEPT ![w].pc = "copy", ![w].held = sd_wmsg', ![w].newmsg = TRUE]
  /\ clash' = (clash \/ scan = "clear")
  /\ UNCHANGED <<flags, lockq, sleepers, sd_write_sem, sd_scantimer, QSCAN, scan, calls, taken,
                 next, tasks, sent, missed, broken, stale>>

HasRoom(w) == Len(blocks[wr[w].held]) < BlockSize

\* The rest of the block is compared with what this call has written.
Hold(w) == STRHOLD /\ BlockSize - Len(blocks'[wr[w].held]) > wr[w].written + 1

StartsTimer(w) == wr[w].newmsg

CopyIn(w) ==
  /\ At(w, "copy") /\ HasRoom(w)
  /\ taken' = [taken EXCEPT ![w] = @ + 1]
  /\ blocks' = [blocks EXCEPT ![wr[w].held] = Append(@, <<w, taken[w] + 1>>)]
  /\ IF Hold(w)
       THEN /\ sd_scantimer' = (sd_scantimer \/ StartsTimer(w))
            /\ sd_write_sem' = sd_write_sem + 1
            /\ Rtn(w)
       ELSE /\ wr' = [wr EXCEPT ![w].pc = "send", ![w].left = @ - 1, ![w].written = @ + 1]
            /\ UNCHANGED <<sd_scantimer, sd_write_sem>>
  /\ UNCHANGED <<flags, lockq, sleepers, sd_wmsg, QSCAN, scan, calls, next, tasks, history>>

BlockIsFull(w) ==
  /\ At(w, "copy") /\ ~HasRoom(w)
  /\ Goto(w, "send")
  /\ UNCHANGED <<flags, lockq, sleepers, hold, calls, taken, next, tasks, history>>

\* A new block stays in sd_wmsg.
CopyFails(w) ==
  /\ Faults /\ At(w, "copy") /\ HasRoom(w)
  /\ sd_write_sem' = sd_write_sem + 1
  /\ stale' = (stale \/ wr[w].newmsg)
  /\ Rtn(w)
  /\ UNCHANGED <<flags, lockq, sleepers, sd_wmsg, blocks, sd_scantimer, QSCAN, scan, calls, taken,
                 next, tasks, sent, missed, clash, broken>>

\* Put what is in sd_wmsg now; lis_putnext does nothing with NULL.
PutWmsg == IF sd_wmsg = 0 THEN UNCHANGED <<sent, below>>
           ELSE sent' = sent \o blocks[sd_wmsg] /\ below' = below + 1

Send(w) ==
  /\ At(w, "send")
  /\ sd_scantimer' = FALSE
  /\ PutWmsg
  /\ Goto(w, "clear")
  /\ UNCHANGED <<flags, lockq, sleepers, sd_write_sem, sd_wmsg, blocks, QSCAN, scan, calls, taken,
                 QWANTW, qenab, tasks, missed, clash, broken, stale>>

Forgotten == sd_wmsg' = 0

Clear(w) ==
  /\ At(w, "clear")
  /\ Forgotten
  /\ sd_write_sem' = sd_write_sem + 1
  /\ IF wr[w].left > 0 THEN Goto(w, "check") ELSE Rtn(w)
  /\ UNCHANGED <<flags, lockq, sleepers, blocks, sd_scantimer, QSCAN, scan, calls, taken, next,
                 tasks, history>>

\* lis_strputpmsg: the message overtakes one that is held.
Put(w) ==
  /\ At(w, "put")
  /\ below' = below + 1
  /\ Rtn(w)
  /\ UNCHANGED <<flags, lockq, sleepers, hold, calls, taken, QWANTW, qenab, tasks, history>>

---------------------------------------------------------------------------
(* add_to_scanl, and the scan list in queuerun *)

AddToScanl ==
  /\ sd_scantimer
  /\ sd_scantimer' = FALSE /\ QSCAN' = TRUE
  /\ UNCHANGED <<flags, lockq, sleepers, sd_write_sem, sd_wmsg, blocks, scan, wr, calls, taken, next,
                 tasks, history>>

ScanStart ==
  /\ QSCAN /\ scan = "idle"
  /\ QSCAN' = FALSE /\ scan' = "lock"
  /\ UNCHANGED <<flags, lockq, sleepers, sd_write_sem, sd_wmsg, blocks, sd_scantimer, wr, calls, taken,
                 next, tasks, history>>

\* The runner holds the lock of the queue, and not sd_write_sem.
ScanLock ==
  /\ scan = "lock" /\ lockq = NoTask
  /\ IF sd_wmsg = 0 THEN scan' = "idle" /\ UNCHANGED lockq
     ELSE scan' = "put" /\ lockq' = "scan"
  /\ UNCHANGED <<flags, sleepers, sd_write_sem, sd_wmsg, blocks, sd_scantimer, QSCAN, wr, calls, taken,
                 next, tasks, history>>

ScanPut ==
  /\ scan = "put"
  /\ PutWmsg
  /\ scan' = "clear"
  /\ clash' = (clash \/ \E w \in Writer : AtWork(w))
  /\ UNCHANGED <<flags, lockq, sleepers, sd_write_sem, sd_wmsg, blocks, sd_scantimer, QSCAN, wr, calls,
                 taken, QWANTW, qenab, tasks, missed, broken, stale>>

ScanClear ==
  /\ scan = "clear"
  /\ Forgotten
  /\ scan' = "idle" /\ lockq' = NoTask
  /\ UNCHANGED <<flags, sleepers, sd_write_sem, blocks, sd_scantimer, QSCAN, wr, calls, taken, next,
                 tasks, history>>

---------------------------------------------------------------------------
(* The driver below, lis_strwsrv, errors, and freezing *)

\* A message is taken off; if that empties the queue, who wanted to write is enabled.
Drain ==
  /\ below > 0
  /\ below' = below - 1
  /\ QWANTW' = (QWANTW /\ below' > 0)
  /\ qenab' = (qenab \/ (QWANTW /\ below' = 0))
  /\ UNCHANGED <<flags, lockq, sleepers, hold, wr, calls, taken, tasks, history>>

Then(t, l) == wk' = [wk EXCEPT ![t] = l]

SrvStart ==
  /\ qenab /\ ~srv /\ lockq = NoTask
  /\ qenab' = FALSE /\ srv' = TRUE /\ lockq' = "srv"
  /\ QWANTW' = (QWANTW \/ QFULL)
  /\ IF QFULL THEN UNCHANGED wk ELSE Then("srv", "test")
  /\ UNCHANGED <<flags, sleepers, hold, wr, calls, taken, below, errors, freezes, signals, history>>

SrvEnd ==
  /\ srv /\ wk["srv"] = "none"
  /\ srv' = FALSE /\ lockq' = NoTask
  /\ UNCHANGED <<flags, sleepers, hold, wr, calls, taken, next, wk, errors, freezes, signals, history>>

\* lis_stream_error, or STRHUP by lis_process_rput or by the other end of a pipe
StreamError ==
  /\ ~STRHOLD /\ errors < MaxErrors /\ wk["err"] = "none"
  /\ errors' = errors + 1
  /\ \E e \in Errors :
       /\ STWRERR' = (e = "write" \/ (STWRERR /\ e # "clear"))
       /\ STRHUP' = (STRHUP \/ e = "hangup")
  /\ Then("err", "test")
  /\ UNCHANGED <<STRHOLD, STRFROZEN, lockq, sleepers, hold, wr, calls, taken, next, srv, freezes, signals, history>>

Freeze ==
  /\ ~STRHOLD /\ ~STRFROZEN /\ freezes < MaxFreezes /\ wk["thaw"] = "none"
  /\ STRFROZEN' = TRUE /\ freezes' = freezes + 1
  /\ UNCHANGED <<STRHOLD, STWRERR, STRHUP, lockq, sleepers, hold, wr, calls, taken, next, srv, wk, errors, signals, history>>

WakesAll == "test"

Unfreeze ==
  /\ STRFROZEN
  /\ STRFROZEN' = FALSE
  /\ Then("thaw", WakesAll)
  /\ UNCHANGED <<STRHOLD, STWRERR, STRHUP, lockq, sleepers, hold, wr, calls, taken, next, srv,
                 errors, freezes, signals, history>>

\* lis_wake_up_all_wwrite: no queue lock
WakeUpAllWwrite(t) ==
  /\ \/ wk[t] = "test" /\ Then(t, IF sd_wrcnt > 0 THEN "up" ELSE "none") /\ UNCHANGED sleepers
     \/ /\ wk[t] = "up" /\ Then(t, "test")
        /\ sd_wrcnt' = sd_wrcnt - 1 /\ sd_wwrite' = sd_wwrite + 1
  /\ missed' = (missed \/ (wk'[t] = "none" /\ \E w \in Writer : At(w, "sleep")))
  /\ UNCHANGED <<flags, lockq, hold, wr, calls, taken, next, srv, errors, freezes, signals,
                 sent, clash, broken, stale>>

---------------------------------------------------------------------------
Writes(w) ==
  \/ CheckErrors(w) \/ Room(w) \/ WouldBlock(w) \/ WillSleep(w) \/ SleepOnWwrite(w) \/ WokenUp(w)
  \/ Relock(w) \/ DownWriteSem(w) \/ Fill(w) \/ CopyIn(w) \/ BlockIsFull(w) \/ CopyFails(w)
  \/ Send(w) \/ Clear(w) \/ Put(w)
Interrupts(w) == Interrupted(w) \/ DownInterrupted(w)
Scan == ScanStart \/ ScanLock \/ ScanPut \/ ScanClear
Service == SrvStart \/ SrvEnd

Next ==
  \/ \E w \in Writer : Begin(w) \/ Writes(w) \/ Interrupts(w)
  \/ AddToScanl \/ Scan \/ Drain \/ Service \/ StreamError \/ Freeze \/ Unfreeze
  \/ \E t \in Waker : WakeUpAllWwrite(t)

\* Processes that can run do; queue runners and the driver's service procedure run; a
\* frozen stream is thawed; the timer runs out; a semaphore lets everyone in once it is their
\* turn.
Fairness ==
  /\ \A w \in Writer : WF_vars(Writes(w)) /\ SF_vars(WokenUp(w))
  /\ WF_vars(AddToScanl) /\ WF_vars(Scan) /\ WF_vars(Drain) /\ WF_vars(Service)
  /\ WF_vars(Unfreeze)
  /\ \A t \in Waker : WF_vars(WakeUpAllWwrite(t))

Spec == Init /\ [][Next]_vars /\ Fairness

---------------------------------------------------------------------------
\* The counter of sleeping writers and the semaphore together count those who sleep,
\* although wakers test the counter without a lock and may take it below zero, and
\* interrupted sleepers go without looking whether they have just been woken.
SleepersCounted == sd_wrcnt + sd_wwrite = Cardinality({w \in Writer : At(w, "asleep")})

\* Every writer that sleeps is woken when there is room, whoever else is woken, interrupted or
\* comes along meanwhile, and when the stream is thawed, unless a writer had made up its
\* mind to sleep and was not counted yet: wakeups other than that of lis_strwsrv do not
\* take the lock that keeps the two together.
WakesUp(w)  == At(w, "asleep") => missed
WriterWakes == \A w \in Writer : []<>WakesUp(w)

\* head/head.c: "STREAM write or putmsg may be sleeping due to encountering a frozen
\* stream.  If so, wake them up now."
ThawWakes == \A w \in Writer : At(w, "asleep") ~> ~At(w, "asleep")

Stored == IF sd_wmsg = 0 THEN <<>> ELSE blocks[sd_wmsg]
InSend == \E w \in Writer : wr[w].pc \in {"clear"}
OnItsWay == IF InSend \/ scan = "clear" THEN sent ELSE sent \o Stored

\* What has been written has gone downstream or is held: once, and in the order in which
\* each writer wrote it.  The semaphore sees to that, while the scan list and signals
\* leave the writers alone.
InOrder(s) == \A i, j \in DOMAIN s : i < j /\ s[i][1] = s[j][1] => s[i][2] < s[j][2]
AllThereInOrder ==
  /\ \A w \in Writer : \A i \in 1..taken[w] : <<w, i>> \in ToSet(OnItsWay)
  /\ \A x \in ToSet(OnItsWay) : x[2] \in 1..taken[x[1]]
  /\ InOrder(OnItsWay)
WrittenOnce == (~clash /\ ~broken) => AllThereInOrder

\* head/head.c: "The semaphore protects sd_wmsg."
SemaphoreProtects == ~broken => AllThereInOrder

\* A message is not held for ever: somebody works on it, the timer runs or the queue is on
\* the scan list, unless a copy has failed and left its block behind.
HeldIsTimed ==
  (~stale /\ ~broken /\ ~clash /\ Stored # <<>>) =>
    (\E w \in Writer : AtWork(w)) \/ sd_scantimer \/ QSCAN \/ scan # "idle"

\* Nothing that has been written is lost, doubled, out of order or held for ever.
WrittenAndSent == WrittenOnce /\ HeldIsTimed
=============================================================================
