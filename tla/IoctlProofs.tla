----------------------------- MODULE IoctlProofs -----------------------------
(***************************************************************************)
(* The ioctl transaction, for any number of processes, messages, errors    *)
(* and signals: an ioctl gets its own answer, returns nothing only through *)
(* a wakeup that was meant for another, and a late answer is freed.        *)
(*                                                                         *)
(* The argument: one process is in a transaction (Exclusive), and its      *)
(* number is that of no ioctl that has ended (Numbered).  As long as none  *)
(* has given up, every message but the last one sent is gone (OneAnswer);  *)
(* as long as no timer has rung and no M_ERROR come either, sd_wiocing and *)
(* the wakeups under way count the answer in sd_iocblk and nothing else    *)
(* (WakeupsMatch).                                                         *)
(***************************************************************************)
EXTENDS Ioctl, TLAPS

Waiting(p) == pc[p] \in {"wait", "sleep", "woken", "cancel", "waited"}
Idle == \A p \in Proc : pc[p] = "idle"

\* The process that has the lock of the transaction is the only one in it, and
\* holds a message from reading sd_iocblk until it sends an M_IOCDATA or returns.
Locked   == sd_wioc => Idle
OnlyOne  == \A p, q \in Proc : pc[p] # "idle" /\ pc[q] # "idle" => p = q
HasMioc  == \A p \in Proc : mioc[p] # NoMsg <=> pc[p] \in {"clear", "answer", "again"}
HasErr   == \A p \in Proc : err[p] => pc[p] \in {"waited", "again"}
SomeWait == IOCWAIT => \E p \in Proc : Waiting(p)
Exclusive == Locked /\ OnlyOne /\ HasMioc /\ HasErr /\ SomeWait

\* sd_iocseq is the number of the ioctl under way, or of the last one, and
\* messages are sent in order.
Current  == \A p \in Proc : pc[p] # "idle" => sd_iocseq \in Msg /\ ended[sd_iocseq] = "no"
Later    == \A i \in Msg : i > sd_iocseq => ended[i] = "no"
Unsent   == \A n \in Msg : n > sent <=> at[n] = "unsent"
Come     == sd_iocblk <= sent /\ \A p \in Proc : mioc[p] <= sent
Numbered == Current /\ Later /\ Unsent /\ Come

\* No ioctl has given up: only the last message may still be on its way.
OthersGone == \A n \in Msg : n < sent => at[n] = "gone"
HeadIsLast == sd_iocblk # NoMsg => sd_iocblk = sent /\ at[sent] = "head"
HeadIsBlk  == \A n \in Msg : at[n] = "head" => sd_iocblk = n
AllGone    == Idle => \A n \in Msg : n <= sent => at[n] = "gone"
Clears     == \A p \in Proc : pc[p] = "clear" => mioc[p] = sent /\ sd_iocblk = sent
Answers    == \A p \in Proc : pc[p] \in {"answer", "again"} =>
                  mioc[p] = sent /\ at[sent] = "gone"
OneAnswer == GaveUp = {} => /\ OthersGone /\ HeadIsLast /\ HeadIsBlk
                            /\ AllGone /\ Clears /\ Answers

NoWakeup == waking = {} /\ sd_wiocing = 0

\* No timer has rung and no M_ERROR come, ...
Quiet  == /\ ~sd_error /\ ~erring /\ ringing = {}
          /\ \A p \in Proc : pc[p] \in {"sleep", "woken", "cancel"} => STIOCTMR
\* ... and no ioctl given up: a wakeup is that of the answer in sd_iocblk.
Rested == Idle => NoWakeup
Asleep == \A p \in Proc : pc[p] \in {"wait", "sleep"} =>
              \/ NoWakeup /\ at[sent] # "head"
              \/ waking = {sent} /\ sd_wiocing = 0 /\ at[sent] = "head"
              \/ waking = {} /\ sd_wiocing = 1 /\ at[sent] = "head"
Woken  == \A p \in Proc :
              \/ pc[p] \in {"woken", "cancel", "clear"}
              \/ pc[p] = "waited" /\ ~err[p]
              => NoWakeup /\ at[sent] = "head"
Served == \A p \in Proc : pc[p] \in {"answer", "again"} => NoWakeup
WakeupsMatch == ~rang => /\ Quiet
                         /\ GaveUp = {} => Rested /\ Asleep /\ Woken /\ Served

IInv == /\ TypeOK /\ Exclusive /\ Numbered /\ OneAnswer /\ NothingFromNothing
        /\ WakeupsMatch

\* The others are idle, and stay so.
Alone(p) ==
    \A q \in Proc : q # p => /\ pc[q] = "idle" /\ pc'[q] = "idle"
                             /\ mioc[q] = NoMsg /\ mioc'[q] = NoMsg
                             /\ ~err[q] /\ ~err'[q]

-----------------------------------------------------------------------------
(* The types, and what has happened                                        *)

\* Every step keeps the types.
LEMMA TypeKept == IInv /\ [Next]_vars => TypeOK'
<1> SUFFICES ASSUME IInv, [Next]_vars PROVE TypeOK'
  OBVIOUS
<1>0. TypeOK /\ HasMioc /\ Current
  BY DEF IInv, Exclusive, Numbered
<1>1. ASSUME NEW p \in Proc, SendIoctl(p) PROVE TypeOK'
  <2>1. sent' = sent + 1 /\ sent + 1 \in Msg /\ sd_iocseq' = sd_iocseq + 1
    BY <1>0, <1>1, IoctlAssumption DEF TypeOK, SendIoctl, Putnext, Msg
  <2>2. at' \in [Msg -> {"unsent", "down", "wanted", "head", "gone"}]
    BY <1>0, <1>1 DEF TypeOK, SendIoctl, Putnext, Move
  <2>3. sd_iocseq + 1 \in 0 .. MaxSend /\ sd_iocseq' \in 0 .. sent' /\ sent' \in 0 .. MaxSend
    BY <1>0, <2>1, IoctlAssumption DEF TypeOK, Msg
  <2>4. ioc_id' \in [Msg -> 0 .. MaxSend]
    BY <1>0, <2>3, <1>1 DEF TypeOK, SendIoctl, Putnext
  <2>5. pc' \in [Proc -> {"idle", "wait", "sleep", "woken", "cancel",
                          "waited", "clear", "answer", "again"}]
    BY <1>0, <1>1 DEF TypeOK, SendIoctl, Goto
  <2> QED
    BY <1>0, <2>2, <2>3, <2>4, <2>5, <1>1 DEF TypeOK, SendIoctl, Putnext, timer
<1>2. ASSUME NEW p \in Proc, SendIocdata(p) PROVE TypeOK'
  <2>1. sent' = sent + 1 /\ sent + 1 \in Msg /\ mioc[p] \in Msg
    BY <1>0, <1>2, IoctlAssumption DEF TypeOK, HasMioc, SendIocdata, Putnext, Msg
  <2>2. at' \in [Msg -> {"unsent", "down", "wanted", "head", "gone"}]
    BY <1>0, <1>2 DEF TypeOK, SendIocdata, Putnext, Move
  <2>3. sd_iocseq \in 0 .. sent' /\ sent' \in 0 .. MaxSend
    BY <1>0, <2>1, IoctlAssumption DEF TypeOK, Msg
  <2>4. ioc_id' \in [Msg -> 0 .. MaxSend]
    BY <1>0, <2>1, <1>2 DEF TypeOK, SendIocdata, Putnext
  <2>5. pc' \in [Proc -> {"idle", "wait", "sleep", "woken", "cancel",
                          "waited", "clear", "answer", "again"}]
        /\ mioc' \in [Proc -> Msg \cup {NoMsg}]
    BY <1>0, <1>2 DEF TypeOK, SendIocdata, Goto
  <2> QED
    BY <1>0, <2>2, <2>3, <2>4, <2>5, <1>2 DEF TypeOK, SendIocdata, Putnext, head, timer
<1>3. ASSUME NEW p \in Proc, CopyFailed(p) PROVE TypeOK'
  BY <1>0, <1>3, IoctlAssumption DEF TypeOK, CopyFailed, Rtn, Goto, head,
      msgs, timer, proc
<1>4. ASSUME NEW p \in Proc, WaitError(p) PROVE TypeOK'
  BY <1>0, <1>4, IoctlAssumption DEF TypeOK, WaitError, Goto, head, msgs,
      timer, proc
<1>5. ASSUME NEW p \in Proc, WaitStart(p) PROVE TypeOK'
  <2>1. sent \in Msg
    BY <1>0, <1>5, IoctlAssumption DEF TypeOK, Current, WaitStart, Msg
  <2> QED
    BY <1>0, <2>1, <1>5 DEF TypeOK, WaitStart, Goto, head, msgs
<1>6. ASSUME NEW p \in Proc, SleepOver(p) PROVE TypeOK'
  BY <1>0, <1>6, IoctlAssumption DEF TypeOK, SleepOver, DownPasses, Goto,
      head, msgs, timer, proc
<1>7. ASSUME NEW p \in Proc, Interrupted(p) PROVE TypeOK'
  <2>1. trouble' \in 0 .. MaxTrouble
    BY <1>0, <1>7, IoctlAssumption DEF TypeOK, Interrupted
  <2>2. armed' \subseteq Msg /\ err' \in [Proc -> BOOLEAN]
    BY <1>0, <1>7 DEF TypeOK, Interrupted, Untmout
  <2> QED
    BY <1>0, <2>1, <2>2, <1>7 DEF TypeOK, Interrupted, Goto, head, msgs
<1>8. ASSUME NEW p \in Proc, TimedOut(p) PROVE TypeOK'
  BY <1>0, <1>8, IoctlAssumption DEF TypeOK, TimedOut, Goto, head, msgs,
      timer, proc
<1>9. ASSUME NEW p \in Proc, GotMsg(p) PROVE TypeOK'
  BY <1>0, <1>9, IoctlAssumption DEF TypeOK, GotMsg, Goto, head, msgs, timer,
      proc
<1>10. ASSUME NEW p \in Proc, CancelTimer(p) PROVE TypeOK'
  BY <1>0, <1>10, IoctlAssumption DEF TypeOK, CancelTimer, Untmout, Goto,
      head, msgs, timer, proc
<1>11. ASSUME NEW p \in Proc, NoAnswer(p) PROVE TypeOK'
  BY <1>0, <1>11, IoctlAssumption DEF TypeOK, NoAnswer, Rtn, Errno, Goto,
      head, msgs, timer, proc
<1>12. ASSUME NEW p \in Proc, ReadIocblk(p) PROVE TypeOK'
  BY <1>0, <1>12, IoctlAssumption DEF TypeOK, ReadIocblk, Goto, head, msgs,
      timer, proc
<1>13. ASSUME NEW p \in Proc, ClearIocblk(p) PROVE TypeOK'
  BY <1>0, <1>13, IoctlAssumption DEF TypeOK, ClearIocblk, IocblkCleared,
      Move, Goto, head, msgs, timer, proc
<1>14. ASSUME NEW p \in Proc, Answered(p) PROVE TypeOK'
  BY <1>0, <1>14, IoctlAssumption DEF TypeOK, Answered, Rtn, Goto, head, msgs,
      timer, proc
<1>15. ASSUME NEW p \in Proc, Copy(p) PROVE TypeOK'
  BY <1>0, <1>15, IoctlAssumption DEF TypeOK, Copy, Goto, head, msgs, timer,
      proc
<1>16. ASSUME NEW n \in Msg, RputTest(n) PROVE TypeOK'
  BY <1>0, <1>16, IoctlAssumption DEF TypeOK, RputTest, Unwanted, bad_ioc_seq,
      Move, head, msgs, timer, proc
<1>17. ASSUME NEW n \in Msg, RputStore(n) PROVE TypeOK'
  BY <1>0, <1>17, IoctlAssumption DEF TypeOK, RputStore, Move, head, msgs,
      timer, proc
<1>18. ASSUME NEW n \in Msg, RputWake(n) PROVE TypeOK'
  BY <1>0, <1>18, IoctlAssumption DEF TypeOK, RputWake, Wakes, head, msgs,
      timer, proc
<1>19. ASSUME NEW n \in Msg, TimerRuns(n) PROVE TypeOK'
  BY <1>0, <1>19, IoctlAssumption DEF TypeOK, TimerRuns, head, msgs, timer,
      proc
<1>20. ASSUME NEW n \in Msg, DoTmout(n) PROVE TypeOK'
  BY <1>0, <1>20, IoctlAssumption DEF TypeOK, DoTmout, Rings, head, msgs,
      timer, proc
<1>21. ASSUME NEW n \in Msg, TmoutWake(n) PROVE TypeOK'
  BY <1>0, <1>21, IoctlAssumption DEF TypeOK, TmoutWake, Wakes, head, msgs,
      timer, proc
<1>22. CASE StreamError
  BY <1>0, <1>22, IoctlAssumption DEF TypeOK, StreamError, head, msgs, timer,
      proc
<1>23. CASE StreamErrorWake
  <2>1. sd_wiocing' \in Nat
    BY <1>0, <1>23 DEF TypeOK, StreamErrorWake, Wakes
  <2> QED
    BY <1>0, <2>1, <1>23 DEF TypeOK, StreamErrorWake, head, msgs, timer, proc
<1>24. CASE UNCHANGED vars
  BY <1>0, <1>24 DEF TypeOK, vars, head, msgs, timer, proc
<1> QED
  BY <1>1, <1>2, <1>3, <1>4, <1>5, <1>6, <1>7, <1>8, <1>9, <1>10, <1>11,
      <1>12, <1>13, <1>14, <1>15, <1>16, <1>17, <1>18, <1>19, <1>20, <1>21,
      <1>22, <1>23, <1>24 DEF Next, Process, Rput, Tmout

\* While a process works on its ioctl the others are idle, before and after.
LEMMA ProcessAlone ==
    ASSUME IInv, NEW p \in Proc, Process(p)
    PROVE  Alone(p)
<1>0. TypeOK /\ Locked /\ OnlyOne /\ HasMioc /\ HasErr
  BY DEF IInv, Exclusive
<1>1. \A q \in Proc : q # p => pc[q] = "idle" /\ mioc[q] = NoMsg /\ ~err[q]
  <2>1. pc[p] # "idle" \/ sd_wioc
    BY DEF Process, SendIoctl, SendIocdata, CopyFailed, WaitError, WaitStart, SleepOver,
           Interrupted, TimedOut, GotMsg, CancelTimer, NoAnswer, ReadIocblk, ClearIocblk,
           Answered, Copy
  <2>2. \A q \in Proc : q # p => pc[q] = "idle"
    BY <1>0, <2>1 DEF Locked, Idle, OnlyOne
  <2> QED
    BY <1>0, <2>2 DEF HasMioc, HasErr
<1>2. \A q \in Proc : q # p => pc'[q] = pc[q]
  BY <1>0 DEF TypeOK, Process, SendIoctl, SendIocdata, CopyFailed, WaitError, WaitStart,
              SleepOver, Interrupted, TimedOut, GotMsg, CancelTimer, NoAnswer, ReadIocblk,
              ClearIocblk, Answered, Copy, Rtn, Goto
<1>3. \A q \in Proc : q # p => mioc'[q] = mioc[q] /\ err'[q] = err[q]
  BY <1>0 DEF TypeOK, Process, SendIoctl, SendIocdata, CopyFailed, WaitError, WaitStart,
              SleepOver, Interrupted, TimedOut, GotMsg, CancelTimer, NoAnswer, ReadIocblk,
              ClearIocblk, Answered, Copy, Rtn
<1> QED
  BY <1>1, <1>2, <1>3 DEF Alone

-----------------------------------------------------------------------------
(* One process is in a transaction                                         *)

\* The lock is free only while no process is in a transaction.
LEMMA LockedKept == IInv /\ [Next]_vars => Locked'
<1> SUFFICES ASSUME IInv, [Next]_vars PROVE Locked'
  OBVIOUS
<1>0. Locked
  BY DEF IInv, Exclusive, Numbered
<1>d. /\ DOMAIN pc = Proc /\ DOMAIN mioc = Proc /\ DOMAIN err = Proc
      /\ DOMAIN at = Msg /\ DOMAIN ended = Msg /\ DOMAIN ioc_id = Msg
  BY DEF IInv, TypeOK
<1>1. ASSUME NEW p \in Proc, Process(p) PROVE Locked'
  <2>a. Alone(p)
    BY <1>1, ProcessAlone
  <2>1. CASE SendIoctl(p)
    BY <1>0, <1>d, <2>a, <2>1 DEF Alone, SendIoctl, Putnext, Goto, Move,
        Locked, Idle, head, msgs, timer, proc
  <2>2. CASE SendIocdata(p)
    BY <1>0, <1>d, <2>a, <2>2 DEF Alone, SendIocdata, Putnext, Goto, Move,
        Locked, Idle, head, msgs, timer, proc
  <2>3. CASE CopyFailed(p)
    BY <1>0, <1>d, <2>a, <2>3 DEF Alone, CopyFailed, Rtn, Goto, Locked, Idle,
        head, msgs, timer, proc
  <2>4. CASE WaitError(p)
    BY <1>0, <1>d, <2>a, <2>4 DEF Alone, WaitError, Goto, Locked, Idle, head,
        msgs, timer, proc
  <2>5. CASE WaitStart(p)
    BY <1>0, <1>d, <2>a, <2>5 DEF Alone, WaitStart, Goto, Locked, Idle, head,
        msgs, timer, proc
  <2>6. CASE SleepOver(p)
    BY <1>0, <1>d, <2>a, <2>6 DEF Alone, SleepOver, DownPasses, Goto, Locked,
        Idle, head, msgs, timer, proc
  <2>7. CASE Interrupted(p)
    BY <1>0, <1>d, <2>a, <2>7 DEF Alone, Interrupted, DownPasses, Untmout,
        Goto, Locked, Idle, head, msgs, timer, proc
  <2>8. CASE TimedOut(p)
    BY <1>0, <1>d, <2>a, <2>8 DEF Alone, TimedOut, Goto, Locked, Idle, head,
        msgs, timer, proc
  <2>9. CASE GotMsg(p)
    BY <1>0, <1>d, <2>a, <2>9 DEF Alone, GotMsg, Goto, Locked, Idle, head,
        msgs, timer, proc
  <2>10. CASE CancelTimer(p)
    BY <1>0, <1>d, <2>a, <2>10 DEF Alone, CancelTimer, Untmout, Goto, Locked,
        Idle, head, msgs, timer, proc
  <2>11. CASE NoAnswer(p)
    BY <1>0, <1>d, <2>a, <2>11 DEF Alone, NoAnswer, Rtn, Errno, Goto, Locked,
        Idle, head, msgs, timer, proc
  <2>12. CASE ReadIocblk(p)
    BY <1>0, <1>d, <2>a, <2>12 DEF Alone, ReadIocblk, Goto, Locked, Idle,
        head, msgs, timer, proc
  <2>13. CASE ClearIocblk(p)
    BY <1>0, <1>d, <2>a, <2>13 DEF Alone, ClearIocblk, IocblkCleared, Move,
        Goto, Locked, Idle, head, msgs, timer, proc
  <2>14. CASE Answered(p)
    BY <1>0, <1>d, <2>a, <2>14 DEF Alone, Answered, Rtn, Goto, Locked, Idle,
        head, msgs, timer, proc
  <2>15. CASE Copy(p)
    BY <1>0, <1>d, <2>a, <2>15 DEF Alone, Copy, Goto, Locked, Idle, head,
        msgs, timer, proc
  <2> QED
    BY <1>1, <2>1, <2>2, <2>3, <2>4, <2>5, <2>6, <2>7, <2>8, <2>9, <2>10,
        <2>11, <2>12, <2>13, <2>14, <2>15 DEF Process
<1>2. CASE (\E n \in Msg : RputTest(n) \/ RputStore(n) \/ RputWake(n) \/
      TimerRuns(n) \/ DoTmout(n) \/ TmoutWake(n)) \/ StreamError \/
      StreamErrorWake \/ UNCHANGED vars
  <2>1. UNCHANGED <<sd_wioc, pc>>
    BY <1>2 DEF RputTest, Unwanted, bad_ioc_seq, Move, RputStore, RputWake,
        Wakes, TimerRuns, DoTmout, Rings, TmoutWake, StreamError,
        StreamErrorWake, vars, head, msgs, timer, proc
  <2> QED
    BY <1>0, <2>1 DEF Locked, Idle
<1> QED
  BY <1>1, <1>2 DEF Next, Rput, Tmout

\* Two processes are never in a transaction at once.
LEMMA OnlyOneKept == IInv /\ [Next]_vars => OnlyOne'
<1> SUFFICES ASSUME IInv, [Next]_vars PROVE OnlyOne'
  OBVIOUS
<1>0. OnlyOne
  BY DEF IInv, Exclusive, Numbered
<1>d. /\ DOMAIN pc = Proc /\ DOMAIN mioc = Proc /\ DOMAIN err = Proc
      /\ DOMAIN at = Msg /\ DOMAIN ended = Msg /\ DOMAIN ioc_id = Msg
  BY DEF IInv, TypeOK
<1>1. ASSUME NEW p \in Proc, Process(p) PROVE OnlyOne'
  <2>a. Alone(p)
    BY <1>1, ProcessAlone
  <2>1. CASE SendIoctl(p)
    BY <1>0, <1>d, <2>a, <2>1 DEF Alone, SendIoctl, Putnext, Goto, Move,
        OnlyOne, head, msgs, timer, proc
  <2>2. CASE SendIocdata(p)
    BY <1>0, <1>d, <2>a, <2>2 DEF Alone, SendIocdata, Putnext, Goto, Move,
        OnlyOne, head, msgs, timer, proc
  <2>3. CASE CopyFailed(p)
    BY <1>0, <1>d, <2>a, <2>3 DEF Alone, CopyFailed, Rtn, Goto, OnlyOne, head,
        msgs, timer, proc
  <2>4. CASE WaitError(p)
    BY <1>0, <1>d, <2>a, <2>4 DEF Alone, WaitError, Goto, OnlyOne, head, msgs,
        timer, proc
  <2>5. CASE WaitStart(p)
    BY <1>0, <1>d, <2>a, <2>5 DEF Alone, WaitStart, Goto, OnlyOne, head, msgs,
        timer, proc
  <2>6. CASE SleepOver(p)
    BY <1>0, <1>d, <2>a, <2>6 DEF Alone, SleepOver, DownPasses, Goto, OnlyOne,
        head, msgs, timer, proc
  <2>7. CASE Interrupted(p)
    BY <1>0, <1>d, <2>a, <2>7 DEF Alone, Interrupted, DownPasses, Untmout,
        Goto, OnlyOne, head, msgs, timer, proc
  <2>8. CASE TimedOut(p)
    BY <1>0, <1>d, <2>a, <2>8 DEF Alone, TimedOut, Goto, OnlyOne, head, msgs,
        timer, proc
  <2>9. CASE GotMsg(p)
    BY <1>0, <1>d, <2>a, <2>9 DEF Alone, GotMsg, Goto, OnlyOne, head, msgs,
        timer, proc
  <2>10. CASE CancelTimer(p)
    BY <1>0, <1>d, <2>a, <2>10 DEF Alone, CancelTimer, Untmout, Goto, OnlyOne,
        head, msgs, timer, proc
  <2>11. CASE NoAnswer(p)
    BY <1>0, <1>d, <2>a, <2>11 DEF Alone, NoAnswer, Rtn, Errno, Goto, OnlyOne,
        head, msgs, timer, proc
  <2>12. CASE ReadIocblk(p)
    BY <1>0, <1>d, <2>a, <2>12 DEF Alone, ReadIocblk, Goto, OnlyOne, head,
        msgs, timer, proc
  <2>13. CASE ClearIocblk(p)
    BY <1>0, <1>d, <2>a, <2>13 DEF Alone, ClearIocblk, IocblkCleared, Move,
        Goto, OnlyOne, head, msgs, timer, proc
  <2>14. CASE Answered(p)
    BY <1>0, <1>d, <2>a, <2>14 DEF Alone, Answered, Rtn, Goto, OnlyOne, head,
        msgs, timer, proc
  <2>15. CASE Copy(p)
    BY <1>0, <1>d, <2>a, <2>15 DEF Alone, Copy, Goto, OnlyOne, head, msgs,
        timer, proc
  <2> QED
    BY <1>1, <2>1, <2>2, <2>3, <2>4, <2>5, <2>6, <2>7, <2>8, <2>9, <2>10,
        <2>11, <2>12, <2>13, <2>14, <2>15 DEF Process
<1>2. CASE (\E n \in Msg : RputTest(n) \/ RputStore(n) \/ RputWake(n) \/
      TimerRuns(n) \/ DoTmout(n) \/ TmoutWake(n)) \/ StreamError \/
      StreamErrorWake \/ UNCHANGED vars
  <2>1. UNCHANGED <<pc>>
    BY <1>2 DEF RputTest, Unwanted, bad_ioc_seq, Move, RputStore, RputWake,
        Wakes, TimerRuns, DoTmout, Rings, TmoutWake, StreamError,
        StreamErrorWake, vars, head, msgs, timer, proc
  <2> QED
    BY <1>0, <2>1 DEF OnlyOne
<1> QED
  BY <1>1, <1>2 DEF Next, Rput, Tmout

\* A process holds a message from reading sd_iocblk to answering or returning.
LEMMA HasMiocKept == IInv /\ [Next]_vars => HasMioc'
<1> SUFFICES ASSUME IInv, [Next]_vars PROVE HasMioc'
  OBVIOUS
<1>0. HasMioc
  BY DEF IInv, Exclusive, Numbered
<1>d. /\ DOMAIN pc = Proc /\ DOMAIN mioc = Proc /\ DOMAIN err = Proc
      /\ DOMAIN at = Msg /\ DOMAIN ended = Msg /\ DOMAIN ioc_id = Msg
  BY DEF IInv, TypeOK
<1>1. ASSUME NEW p \in Proc, Process(p) PROVE HasMioc'
  <2>a. Alone(p)
    BY <1>1, ProcessAlone
  <2>1. CASE SendIoctl(p)
    BY <1>0, <1>d, <2>a, <2>1 DEF Alone, SendIoctl, Putnext, Goto, Move,
        HasMioc, head, msgs, timer, proc
  <2>2. CASE SendIocdata(p)
    BY <1>0, <1>d, <2>a, <2>2 DEF Alone, SendIocdata, Putnext, Goto, Move,
        HasMioc, head, msgs, timer, proc
  <2>3. CASE CopyFailed(p)
    BY <1>0, <1>d, <2>a, <2>3 DEF Alone, CopyFailed, Rtn, Goto, HasMioc, head,
        msgs, timer, proc
  <2>4. CASE WaitError(p)
    BY <1>0, <1>d, <2>a, <2>4 DEF Alone, WaitError, Goto, HasMioc, head, msgs,
        timer, proc
  <2>5. CASE WaitStart(p)
    BY <1>0, <1>d, <2>a, <2>5 DEF Alone, WaitStart, Goto, HasMioc, head, msgs,
        timer, proc
  <2>6. CASE SleepOver(p)
    BY <1>0, <1>d, <2>a, <2>6 DEF Alone, SleepOver, DownPasses, Goto, HasMioc,
        head, msgs, timer, proc
  <2>7. CASE Interrupted(p)
    BY <1>0, <1>d, <2>a, <2>7 DEF Alone, Interrupted, DownPasses, Untmout,
        Goto, HasMioc, head, msgs, timer, proc
  <2>8. CASE TimedOut(p)
    BY <1>0, <1>d, <2>a, <2>8 DEF Alone, TimedOut, Goto, HasMioc, head, msgs,
        timer, proc
  <2>9. CASE GotMsg(p)
    BY <1>0, <1>d, <2>a, <2>9 DEF Alone, GotMsg, Goto, HasMioc, head, msgs,
        timer, proc
  <2>10. CASE CancelTimer(p)
    BY <1>0, <1>d, <2>a, <2>10 DEF Alone, CancelTimer, Untmout, Goto, HasMioc,
        head, msgs, timer, proc
  <2>11. CASE NoAnswer(p)
    BY <1>0, <1>d, <2>a, <2>11 DEF Alone, NoAnswer, Rtn, Errno, Goto, HasMioc,
        head, msgs, timer, proc
  <2>12. CASE ReadIocblk(p)
    BY <1>0, <1>d, <2>a, <2>12 DEF Alone, ReadIocblk, Goto, HasMioc, head,
        msgs, timer, proc
  <2>13. CASE ClearIocblk(p)
    BY <1>0, <1>d, <2>a, <2>13 DEF Alone, ClearIocblk, IocblkCleared, Move,
        Goto, HasMioc, head, msgs, timer, proc
  <2>14. CASE Answered(p)
    BY <1>0, <1>d, <2>a, <2>14 DEF Alone, Answered, Rtn, Goto, HasMioc, head,
        msgs, timer, proc
  <2>15. CASE Copy(p)
    BY <1>0, <1>d, <2>a, <2>15 DEF Alone, Copy, Goto, HasMioc, head, msgs,
        timer, proc
  <2> QED
    BY <1>1, <2>1, <2>2, <2>3, <2>4, <2>5, <2>6, <2>7, <2>8, <2>9, <2>10,
        <2>11, <2>12, <2>13, <2>14, <2>15 DEF Process
<1>2. CASE (\E n \in Msg : RputTest(n) \/ RputStore(n) \/ RputWake(n) \/
      TimerRuns(n) \/ DoTmout(n) \/ TmoutWake(n)) \/ StreamError \/
      StreamErrorWake \/ UNCHANGED vars
  <2>1. UNCHANGED <<pc, mioc>>
    BY <1>2 DEF RputTest, Unwanted, bad_ioc_seq, Move, RputStore, RputWake,
        Wakes, TimerRuns, DoTmout, Rings, TmoutWake, StreamError,
        StreamErrorWake, vars, head, msgs, timer, proc
  <2> QED
    BY <1>0, <2>1 DEF HasMioc
<1> QED
  BY <1>1, <1>2 DEF Next, Rput, Tmout

\* An error is pending only where the wait or the copy has left it.
LEMMA HasErrKept == IInv /\ [Next]_vars => HasErr'
<1> SUFFICES ASSUME IInv, [Next]_vars PROVE HasErr'
  OBVIOUS
<1>0. HasErr
  BY DEF IInv, Exclusive, Numbered
<1>d. /\ DOMAIN pc = Proc /\ DOMAIN mioc = Proc /\ DOMAIN err = Proc
      /\ DOMAIN at = Msg /\ DOMAIN ended = Msg /\ DOMAIN ioc_id = Msg
  BY DEF IInv, TypeOK
<1>1. ASSUME NEW p \in Proc, Process(p) PROVE HasErr'
  <2>a. Alone(p)
    BY <1>1, ProcessAlone
  <2>1. CASE SendIoctl(p)
    BY <1>0, <1>d, <2>a, <2>1 DEF Alone, SendIoctl, Putnext, Goto, Move,
        HasErr, head, msgs, timer, proc
  <2>2. CASE SendIocdata(p)
    BY <1>0, <1>d, <2>a, <2>2 DEF Alone, SendIocdata, Putnext, Goto, Move,
        HasErr, head, msgs, timer, proc
  <2>3. CASE CopyFailed(p)
    BY <1>0, <1>d, <2>a, <2>3 DEF Alone, CopyFailed, Rtn, Goto, HasErr, head,
        msgs, timer, proc
  <2>4. CASE WaitError(p)
    BY <1>0, <1>d, <2>a, <2>4 DEF Alone, WaitError, Goto, HasErr, head, msgs,
        timer, proc
  <2>5. CASE WaitStart(p)
    BY <1>0, <1>d, <2>a, <2>5 DEF Alone, WaitStart, Goto, HasErr, head, msgs,
        timer, proc
  <2>6. CASE SleepOver(p)
    BY <1>0, <1>d, <2>a, <2>6 DEF Alone, SleepOver, DownPasses, Goto, HasErr,
        head, msgs, timer, proc
  <2>7. CASE Interrupted(p)
    BY <1>0, <1>d, <2>a, <2>7 DEF Alone, Interrupted, DownPasses, Untmout,
        Goto, HasErr, head, msgs, timer, proc
  <2>8. CASE TimedOut(p)
    BY <1>0, <1>d, <2>a, <2>8 DEF Alone, TimedOut, Goto, HasErr, head, msgs,
        timer, proc
  <2>9. CASE GotMsg(p)
    BY <1>0, <1>d, <2>a, <2>9 DEF Alone, GotMsg, Goto, HasErr, head, msgs,
        timer, proc
  <2>10. CASE CancelTimer(p)
    BY <1>0, <1>d, <2>a, <2>10 DEF Alone, CancelTimer, Untmout, Goto, HasErr,
        head, msgs, timer, proc
  <2>11. CASE NoAnswer(p)
    BY <1>0, <1>d, <2>a, <2>11 DEF Alone, NoAnswer, Rtn, Errno, Goto, HasErr,
        head, msgs, timer, proc
  <2>12. CASE ReadIocblk(p)
    BY <1>0, <1>d, <2>a, <2>12 DEF Alone, ReadIocblk, Goto, HasErr, head,
        msgs, timer, proc
  <2>13. CASE ClearIocblk(p)
    BY <1>0, <1>d, <2>a, <2>13 DEF Alone, ClearIocblk, IocblkCleared, Move,
        Goto, HasErr, head, msgs, timer, proc
  <2>14. CASE Answered(p)
    BY <1>0, <1>d, <2>a, <2>14 DEF Alone, Answered, Rtn, Goto, HasErr, head,
        msgs, timer, proc
  <2>15. CASE Copy(p)
    BY <1>0, <1>d, <2>a, <2>15 DEF Alone, Copy, Goto, HasErr, head, msgs,
        timer, proc
  <2> QED
    BY <1>1, <2>1, <2>2, <2>3, <2>4, <2>5, <2>6, <2>7, <2>8, <2>9, <2>10,
        <2>11, <2>12, <2>13, <2>14, <2>15 DEF Process
<1>2. CASE (\E n \in Msg : RputTest(n) \/ RputStore(n) \/ RputWake(n) \/
      TimerRuns(n) \/ DoTmout(n) \/ TmoutWake(n)) \/ StreamError \/
      StreamErrorWake \/ UNCHANGED vars
  <2>1. UNCHANGED <<pc, err>>
    BY <1>2 DEF RputTest, Unwanted, bad_ioc_seq, Move, RputStore, RputWake,
        Wakes, TimerRuns, DoTmout, Rings, TmoutWake, StreamError,
        StreamErrorWake, vars, head, msgs, timer, proc
  <2> QED
    BY <1>0, <2>1 DEF HasErr
<1> QED
  BY <1>1, <1>2 DEF Next, Rput, Tmout

\* IOCWAIT is set only while a process waits.
LEMMA SomeWaitKept == IInv /\ [Next]_vars => SomeWait'
<1> SUFFICES ASSUME IInv, [Next]_vars PROVE SomeWait'
  OBVIOUS
<1>0. SomeWait
  BY DEF IInv, Exclusive, Numbered
<1>d. /\ DOMAIN pc = Proc /\ DOMAIN mioc = Proc /\ DOMAIN err = Proc
      /\ DOMAIN at = Msg /\ DOMAIN ended = Msg /\ DOMAIN ioc_id = Msg
  BY DEF IInv, TypeOK
<1>1. ASSUME NEW p \in Proc, Process(p) PROVE SomeWait'
  <2>a. Alone(p)
    BY <1>1, ProcessAlone
  <2>1. CASE SendIoctl(p)
    BY <1>0, <1>d, <2>a, <2>1 DEF Alone, SendIoctl, Putnext, Goto, Move,
        SomeWait, Waiting, head, msgs, timer, proc
  <2>2. CASE SendIocdata(p)
    BY <1>0, <1>d, <2>a, <2>2 DEF Alone, SendIocdata, Putnext, Goto, Move,
        SomeWait, Waiting, head, msgs, timer, proc
  <2>3. CASE CopyFailed(p)
    BY <1>0, <1>d, <2>a, <2>3 DEF Alone, CopyFailed, Rtn, Goto, SomeWait,
        Waiting, head, msgs, timer, proc
  <2>4. CASE WaitError(p)
    BY <1>0, <1>d, <2>a, <2>4 DEF Alone, WaitError, Goto, SomeWait, Waiting,
        head, msgs, timer, proc
  <2>5. CASE WaitStart(p)
    BY <1>0, <1>d, <2>a, <2>5 DEF Alone, WaitStart, Goto, SomeWait, Waiting,
        head, msgs, timer, proc
  <2>6. CASE SleepOver(p)
    BY <1>0, <1>d, <2>a, <2>6 DEF Alone, SleepOver, DownPasses, Goto,
        SomeWait, Waiting, head, msgs, timer, proc
  <2>7. CASE Interrupted(p)
    BY <1>0, <1>d, <2>a, <2>7 DEF Alone, Interrupted, DownPasses, Untmout,
        Goto, SomeWait, Waiting, head, msgs, timer, proc
  <2>8. CASE TimedOut(p)
    BY <1>0, <1>d, <2>a, <2>8 DEF Alone, TimedOut, Goto, SomeWait, Waiting,
        head, msgs, timer, proc
  <2>9. CASE GotMsg(p)
    BY <1>0, <1>d, <2>a, <2>9 DEF Alone, GotMsg, Goto, SomeWait, Waiting,
        head, msgs, timer, proc
  <2>10. CASE CancelTimer(p)
    BY <1>0, <1>d, <2>a, <2>10 DEF Alone, CancelTimer, Untmout, Goto,
        SomeWait, Waiting, head, msgs, timer, proc
  <2>11. CASE NoAnswer(p)
    BY <1>0, <1>d, <2>a, <2>11 DEF Alone, NoAnswer, Rtn, Errno, Goto,
        SomeWait, Waiting, head, msgs, timer, proc
  <2>12. CASE ReadIocblk(p)
    BY <1>0, <1>d, <2>a, <2>12 DEF Alone, ReadIocblk, Goto, SomeWait, Waiting,
        head, msgs, timer, proc
  <2>13. CASE ClearIocblk(p)
    BY <1>0, <1>d, <2>a, <2>13 DEF Alone, ClearIocblk, IocblkCleared, Move,
        Goto, SomeWait, Waiting, head, msgs, timer, proc
  <2>14. CASE Answered(p)
    BY <1>0, <1>d, <2>a, <2>14 DEF Alone, Answered, Rtn, Goto, SomeWait,
        Waiting, head, msgs, timer, proc
  <2>15. CASE Copy(p)
    BY <1>0, <1>d, <2>a, <2>15 DEF Alone, Copy, Goto, SomeWait, Waiting, head,
        msgs, timer, proc
  <2> QED
    BY <1>1, <2>1, <2>2, <2>3, <2>4, <2>5, <2>6, <2>7, <2>8, <2>9, <2>10,
        <2>11, <2>12, <2>13, <2>14, <2>15 DEF Process
<1>2. CASE (\E n \in Msg : RputTest(n) \/ RputStore(n) \/ RputWake(n) \/
      TimerRuns(n) \/ DoTmout(n) \/ TmoutWake(n)) \/ StreamError \/
      StreamErrorWake \/ UNCHANGED vars
  <2>1. UNCHANGED <<IOCWAIT, pc>>
    BY <1>2 DEF RputTest, Unwanted, bad_ioc_seq, Move, RputStore, RputWake,
        Wakes, TimerRuns, DoTmout, Rings, TmoutWake, StreamError,
        StreamErrorWake, vars, head, msgs, timer, proc
  <2> QED
    BY <1>0, <2>1 DEF SomeWait, Waiting
<1> QED
  BY <1>1, <1>2 DEF Next, Rput, Tmout

\* The ioctl under way has not ended.
LEMMA CurrentKept == IInv /\ [Next]_vars => Current'
<1> SUFFICES ASSUME IInv, [Next]_vars PROVE Current'
  OBVIOUS
<1>0. TypeOK /\ Current /\ Later
  BY DEF IInv, Exclusive, Numbered
<1>d. /\ DOMAIN pc = Proc /\ DOMAIN mioc = Proc /\ DOMAIN err = Proc
      /\ DOMAIN at = Msg /\ DOMAIN ended = Msg /\ DOMAIN ioc_id = Msg
  BY DEF IInv, TypeOK
<1>t. /\ sd_iocseq \in Nat /\ sent \in Nat /\ MaxSend \in Nat /\ sd_iocseq <= sent
      /\ sent <= MaxSend /\ \A i : i \in Msg <=> i \in Nat /\ i >= 1 /\ i <= MaxSend
      /\ sd_iocblk \in Nat /\ NoMsg = 0 /\ \A p \in Proc : mioc[p] \in Nat
  BY IoctlAssumption DEF IInv, TypeOK, Msg, NoMsg
<1>1. ASSUME NEW p \in Proc, Process(p) PROVE Current'
  <2>a. Alone(p)
    BY <1>1, ProcessAlone
  <2>1. CASE SendIoctl(p)
    <3>1. sd_iocseq' = sd_iocseq + 1 /\ sd_iocseq + 1 \in Msg /\ ended' = ended
      BY <1>t, <2>1 DEF SendIoctl, Putnext
    <3>2. ended[sd_iocseq + 1] = "no"
      BY <1>0, <1>t, <3>1 DEF Later
    <3> QED
      BY <3>1, <3>2 DEF Current
  <2>2. CASE SendIocdata(p)
    BY <1>0, <1>d, <1>t, <2>a, <2>2 DEF Alone, SendIocdata, Putnext, Goto,
        Move, Current, head, msgs, timer, proc
  <2>3. CASE CopyFailed(p)
    BY <1>0, <1>d, <1>t, <2>a, <2>3 DEF Alone, CopyFailed, Rtn, Goto, Current,
        head, msgs, timer, proc
  <2>4. CASE WaitError(p)
    BY <1>0, <1>d, <1>t, <2>a, <2>4 DEF Alone, WaitError, Goto, Current, head,
        msgs, timer, proc
  <2>5. CASE WaitStart(p)
    BY <1>0, <1>d, <1>t, <2>a, <2>5 DEF Alone, WaitStart, Goto, Current, head,
        msgs, timer, proc
  <2>6. CASE SleepOver(p)
    BY <1>0, <1>d, <1>t, <2>a, <2>6 DEF Alone, SleepOver, DownPasses, Goto,
        Current, head, msgs, timer, proc
  <2>7. CASE Interrupted(p)
    BY <1>0, <1>d, <1>t, <2>a, <2>7 DEF Alone, Interrupted, DownPasses,
        Untmout, Goto, Current, head, msgs, timer, proc
  <2>8. CASE TimedOut(p)
    BY <1>0, <1>d, <1>t, <2>a, <2>8 DEF Alone, TimedOut, Goto, Current, head,
        msgs, timer, proc
  <2>9. CASE GotMsg(p)
    BY <1>0, <1>d, <1>t, <2>a, <2>9 DEF Alone, GotMsg, Goto, Current, head,
        msgs, timer, proc
  <2>10. CASE CancelTimer(p)
    BY <1>0, <1>d, <1>t, <2>a, <2>10 DEF Alone, CancelTimer, Untmout, Goto,
        Current, head, msgs, timer, proc
  <2>11. CASE NoAnswer(p)
    BY <1>0, <1>d, <1>t, <2>a, <2>11 DEF Alone, NoAnswer, Rtn, Errno, Goto,
        Current, head, msgs, timer, proc
  <2>12. CASE ReadIocblk(p)
    BY <1>0, <1>d, <1>t, <2>a, <2>12 DEF Alone, ReadIocblk, Goto, Current,
        head, msgs, timer, proc
  <2>13. CASE ClearIocblk(p)
    BY <1>0, <1>d, <1>t, <2>a, <2>13 DEF Alone, ClearIocblk, IocblkCleared,
        Move, Goto, Current, head, msgs, timer, proc
  <2>14. CASE Answered(p)
    BY <1>0, <1>d, <1>t, <2>a, <2>14 DEF Alone, Answered, Rtn, Goto, Current,
        head, msgs, timer, proc
  <2>15. CASE Copy(p)
    BY <1>0, <1>d, <1>t, <2>a, <2>15 DEF Alone, Copy, Goto, Current, head,
        msgs, timer, proc
  <2> QED
    BY <1>1, <2>1, <2>2, <2>3, <2>4, <2>5, <2>6, <2>7, <2>8, <2>9, <2>10,
        <2>11, <2>12, <2>13, <2>14, <2>15 DEF Process
<1>2. CASE (\E n \in Msg : RputTest(n) \/ RputStore(n) \/ RputWake(n) \/
      TimerRuns(n) \/ DoTmout(n) \/ TmoutWake(n)) \/ StreamError \/
      StreamErrorWake \/ UNCHANGED vars
  <2>1. UNCHANGED <<pc, sd_iocseq, ended>>
    BY <1>2 DEF RputTest, Unwanted, bad_ioc_seq, Move, RputStore, RputWake,
        Wakes, TimerRuns, DoTmout, Rings, TmoutWake, StreamError,
        StreamErrorWake, vars, head, msgs, timer, proc
  <2> QED
    BY <1>0, <2>1 DEF Current
<1> QED
  BY <1>1, <1>2 DEF Next, Rput, Tmout

\* Nor has one that has not begun.
LEMMA LaterKept == IInv /\ [Next]_vars => Later'
<1> SUFFICES ASSUME IInv, [Next]_vars PROVE Later'
  OBVIOUS
<1>0. TypeOK /\ Current /\ Later
  BY DEF IInv, Exclusive, Numbered
<1>d. /\ DOMAIN pc = Proc /\ DOMAIN mioc = Proc /\ DOMAIN err = Proc
      /\ DOMAIN at = Msg /\ DOMAIN ended = Msg /\ DOMAIN ioc_id = Msg
  BY DEF IInv, TypeOK
<1>t. /\ sd_iocseq \in Nat /\ sent \in Nat /\ MaxSend \in Nat /\ sd_iocseq <= sent
      /\ sent <= MaxSend /\ \A i : i \in Msg <=> i \in Nat /\ i >= 1 /\ i <= MaxSend
      /\ sd_iocblk \in Nat /\ NoMsg = 0 /\ \A p \in Proc : mioc[p] \in Nat
  BY IoctlAssumption DEF IInv, TypeOK, Msg, NoMsg
<1>1. ASSUME NEW p \in Proc, Process(p) PROVE Later'
  <2>a. Alone(p)
    BY <1>1, ProcessAlone
  <2>1. CASE SendIoctl(p)
    BY <1>0, <1>d, <1>t, <2>a, <2>1 DEF Alone, SendIoctl, Putnext, Goto, Move,
        Later, head, msgs, timer, proc
  <2>2. CASE CopyFailed(p)
    BY <1>0, <1>d, <1>t, <2>a, <2>2 DEF Alone, CopyFailed, Rtn, Goto, Later,
        head, msgs, timer, proc
  <2>3. CASE NoAnswer(p)
    BY <1>0, <1>d, <1>t, <2>a, <2>3 DEF Alone, NoAnswer, Rtn, Errno, Goto,
        Later, head, msgs, timer, proc
  <2>4. CASE Answered(p)
    BY <1>0, <1>d, <1>t, <2>a, <2>4 DEF Alone, Answered, Rtn, Goto, Later,
        head, msgs, timer, proc
  <2>5. CASE SendIocdata(p) \/ WaitError(p) \/ WaitStart(p) \/ SleepOver(p) \/
          Interrupted(p) \/ TimedOut(p) \/ GotMsg(p) \/ CancelTimer(p) \/
          ReadIocblk(p) \/ ClearIocblk(p) \/ Copy(p)
    <3>1. UNCHANGED <<sd_iocseq, ended>>
      BY <2>5 DEF SendIocdata, Putnext, Goto, Move, WaitError, WaitStart,
          SleepOver, DownPasses, Interrupted, Untmout, TimedOut, GotMsg,
          CancelTimer, ReadIocblk, ClearIocblk, IocblkCleared, Copy, head,
          msgs, timer, proc
    <3> QED
      BY <1>0, <3>1 DEF Later
  <2> QED
    BY <1>1, <2>1, <2>2, <2>3, <2>4, <2>5 DEF Process
<1>2. CASE (\E n \in Msg : RputTest(n) \/ RputStore(n) \/ RputWake(n) \/
      TimerRuns(n) \/ DoTmout(n) \/ TmoutWake(n)) \/ StreamError \/
      StreamErrorWake \/ UNCHANGED vars
  <2>1. UNCHANGED <<sd_iocseq, ended>>
    BY <1>2 DEF RputTest, Unwanted, bad_ioc_seq, Move, RputStore, RputWake,
        Wakes, TimerRuns, DoTmout, Rings, TmoutWake, StreamError,
        StreamErrorWake, vars, head, msgs, timer, proc
  <2> QED
    BY <1>0, <2>1 DEF Later
<1> QED
  BY <1>1, <1>2 DEF Next, Rput, Tmout

\* The messages sent are those numbered up to sent.
LEMMA UnsentKept == IInv /\ [Next]_vars => Unsent'
<1> SUFFICES ASSUME IInv, [Next]_vars PROVE Unsent'
  OBVIOUS
<1>0. TypeOK /\ Unsent /\ Come /\ HasMioc
  BY DEF IInv, Exclusive, Numbered
<1>d. /\ DOMAIN pc = Proc /\ DOMAIN mioc = Proc /\ DOMAIN err = Proc
      /\ DOMAIN at = Msg /\ DOMAIN ended = Msg /\ DOMAIN ioc_id = Msg
  BY DEF IInv, TypeOK
<1>t. /\ sd_iocseq \in Nat /\ sent \in Nat /\ MaxSend \in Nat /\ sd_iocseq <= sent
      /\ sent <= MaxSend /\ \A i : i \in Msg <=> i \in Nat /\ i >= 1 /\ i <= MaxSend
      /\ sd_iocblk \in Nat /\ NoMsg = 0 /\ \A p \in Proc : mioc[p] \in Nat
  BY IoctlAssumption DEF IInv, TypeOK, Msg, NoMsg
<1>1. ASSUME NEW p \in Proc, Process(p) PROVE Unsent'
  <2>a. Alone(p)
    BY <1>1, ProcessAlone
  <2>1. CASE SendIoctl(p)
    BY <1>0, <1>d, <1>t, <2>a, <2>1 DEF Alone, SendIoctl, Putnext, Goto, Move,
        Unsent, Come, HasMioc, head, msgs, timer, proc
  <2>2. CASE SendIocdata(p)
    BY <1>0, <1>d, <1>t, <2>a, <2>2 DEF Alone, SendIocdata, Putnext, Goto,
        Move, Unsent, Come, HasMioc, head, msgs, timer, proc
  <2>3. CASE ClearIocblk(p)
    BY <1>0, <1>d, <1>t, <2>a, <2>3 DEF Alone, ClearIocblk, IocblkCleared,
        Move, Goto, Unsent, Come, HasMioc, head, msgs, timer, proc
  <2>4. CASE CopyFailed(p) \/ WaitError(p) \/ WaitStart(p) \/ SleepOver(p) \/
          Interrupted(p) \/ TimedOut(p) \/ GotMsg(p) \/ CancelTimer(p) \/
          NoAnswer(p) \/ ReadIocblk(p) \/ Answered(p) \/ Copy(p)
    <3>1. UNCHANGED <<sent, at>>
      BY <2>4 DEF CopyFailed, Rtn, Goto, WaitError, WaitStart, SleepOver,
          DownPasses, Interrupted, Untmout, TimedOut, GotMsg, CancelTimer,
          NoAnswer, Errno, ReadIocblk, Answered, Copy, head, msgs, timer, proc
    <3> QED
      BY <1>0, <3>1 DEF Unsent, Come, HasMioc
  <2> QED
    BY <1>1, <2>1, <2>2, <2>3, <2>4 DEF Process
<1>2. ASSUME NEW n \in Msg, RputTest(n) PROVE Unsent'
  BY <1>0, <1>d, <1>t, <1>2 DEF RputTest, Unwanted, bad_ioc_seq, Move, Unsent,
      Come, HasMioc, head, msgs, timer, proc
<1>3. ASSUME NEW n \in Msg, RputStore(n) PROVE Unsent'
  BY <1>0, <1>d, <1>t, <1>3 DEF RputStore, Move, Unsent, Come, HasMioc, head,
      msgs, timer, proc
<1>4. CASE (\E n \in Msg : RputWake(n) \/ TimerRuns(n) \/ DoTmout(n) \/
      TmoutWake(n)) \/ StreamError \/ StreamErrorWake \/ UNCHANGED vars
  <2>1. UNCHANGED <<sent, at>>
    BY <1>4 DEF RputWake, Wakes, TimerRuns, DoTmout, Rings, TmoutWake,
        StreamError, StreamErrorWake, vars, head, msgs, timer, proc
  <2> QED
    BY <1>0, <2>1 DEF Unsent, Come, HasMioc
<1> QED
  BY <1>1, <1>2, <1>3, <1>4 DEF Next, Rput, Tmout

\* What has come was sent.
LEMMA ComeKept == IInv /\ [Next]_vars => Come'
<1> SUFFICES ASSUME IInv, [Next]_vars PROVE Come'
  OBVIOUS
<1>0. TypeOK /\ Come /\ Unsent
  BY DEF IInv, Exclusive, Numbered
<1>d. /\ DOMAIN pc = Proc /\ DOMAIN mioc = Proc /\ DOMAIN err = Proc
      /\ DOMAIN at = Msg /\ DOMAIN ended = Msg /\ DOMAIN ioc_id = Msg
  BY DEF IInv, TypeOK
<1>t. /\ sd_iocseq \in Nat /\ sent \in Nat /\ MaxSend \in Nat /\ sd_iocseq <= sent
      /\ sent <= MaxSend /\ \A i : i \in Msg <=> i \in Nat /\ i >= 1 /\ i <= MaxSend
      /\ sd_iocblk \in Nat /\ NoMsg = 0 /\ \A p \in Proc : mioc[p] \in Nat
  BY IoctlAssumption DEF IInv, TypeOK, Msg, NoMsg
<1>1. ASSUME NEW p \in Proc, Process(p) PROVE Come'
  <2>a. Alone(p)
    BY <1>1, ProcessAlone
  <2>1. CASE SendIoctl(p)
    BY <1>0, <1>d, <1>t, <2>a, <2>1 DEF Alone, SendIoctl, Putnext, Goto, Move,
        Come, Unsent, head, msgs, timer, proc
  <2>2. CASE SendIocdata(p)
    BY <1>0, <1>d, <1>t, <2>a, <2>2 DEF Alone, SendIocdata, Putnext, Goto,
        Move, Come, Unsent, head, msgs, timer, proc
  <2>3. CASE CopyFailed(p)
    BY <1>0, <1>d, <1>t, <2>a, <2>3 DEF Alone, CopyFailed, Rtn, Goto, Come,
        Unsent, head, msgs, timer, proc
  <2>4. CASE NoAnswer(p)
    BY <1>0, <1>d, <1>t, <2>a, <2>4 DEF Alone, NoAnswer, Rtn, Errno, Goto,
        Come, Unsent, head, msgs, timer, proc
  <2>5. CASE ReadIocblk(p)
    BY <1>0, <1>d, <1>t, <2>a, <2>5 DEF Alone, ReadIocblk, Goto, Come, Unsent,
        head, msgs, timer, proc
  <2>6. CASE ClearIocblk(p)
    BY <1>0, <1>d, <1>t, <2>a, <2>6 DEF Alone, ClearIocblk, IocblkCleared,
        Move, Goto, Come, Unsent, head, msgs, timer, proc
  <2>7. CASE Answered(p)
    BY <1>0, <1>d, <1>t, <2>a, <2>7 DEF Alone, Answered, Rtn, Goto, Come,
        Unsent, head, msgs, timer, proc
  <2>8. CASE WaitError(p) \/ WaitStart(p) \/ SleepOver(p) \/ Interrupted(p) \/
          TimedOut(p) \/ GotMsg(p) \/ CancelTimer(p) \/ Copy(p)
    <3>1. UNCHANGED <<sd_iocblk, mioc, sent>>
      BY <2>8 DEF WaitError, Goto, WaitStart, SleepOver, DownPasses,
          Interrupted, Untmout, TimedOut, GotMsg, CancelTimer, Copy, head,
          msgs, timer, proc
    <3> QED
      BY <1>0, <3>1 DEF Come, Unsent
  <2> QED
    BY <1>1, <2>1, <2>2, <2>3, <2>4, <2>5, <2>6, <2>7, <2>8 DEF Process
<1>2. ASSUME NEW n \in Msg, RputStore(n) PROVE Come'
  BY <1>0, <1>d, <1>t, <1>2 DEF RputStore, Move, Come, Unsent, head, msgs,
      timer, proc
<1>3. CASE (\E n \in Msg : RputTest(n) \/ RputWake(n) \/ TimerRuns(n) \/
      DoTmout(n) \/ TmoutWake(n)) \/ StreamError \/ StreamErrorWake \/
      UNCHANGED vars
  <2>1. UNCHANGED <<sd_iocblk, mioc, sent>>
    BY <1>3 DEF RputTest, Unwanted, bad_ioc_seq, Move, RputWake, Wakes,
        TimerRuns, DoTmout, Rings, TmoutWake, StreamError, StreamErrorWake,
        vars, head, msgs, timer, proc
  <2> QED
    BY <1>0, <2>1 DEF Come, Unsent
<1> QED
  BY <1>1, <1>2, <1>3 DEF Next, Rput, Tmout

\* What has gone wrong stays so.
LEMMA PastKept == IInv /\ [Next]_vars => GaveUp \subseteq GaveUp' /\ (rang => rang')
<1> SUFFICES ASSUME IInv, [Next]_vars
             PROVE  GaveUp \subseteq GaveUp' /\ (rang => rang')
  OBVIOUS
<1>0. TypeOK /\ Current
  BY DEF IInv, Numbered
<1>1. ASSUME NEW p \in Proc, CopyFailed(p) \/ NoAnswer(p) \/ Answered(p)
      PROVE  GaveUp \subseteq GaveUp' /\ rang' = rang
  <2>1. pc[p] # "idle" /\ \E how : ended' = [ended EXCEPT ![sd_iocseq] = how]
    BY <1>1 DEF CopyFailed, NoAnswer, Answered, Rtn
  <2>2. ended[sd_iocseq] = "no"
    BY <1>0, <2>1 DEF Current
  <2>3. GaveUp \subseteq GaveUp'
    BY <1>0, <2>1, <2>2 DEF TypeOK, GaveUp
  <2> QED
    BY <1>1, <2>3 DEF CopyFailed, NoAnswer, Answered, timer
<1>2. ASSUME NEW p \in Proc, Process(p),
             ~CopyFailed(p), ~NoAnswer(p), ~Answered(p)
      PROVE  ended' = ended /\ rang' = rang
  BY <1>2 DEF Process, SendIoctl, SendIocdata, WaitError, WaitStart, SleepOver, Interrupted,
              TimedOut, GotMsg, CancelTimer, ReadIocblk, ClearIocblk, Copy, timer
<1>3. ASSUME NEW n \in Msg, RputTest(n) \/ Rput(n) \/ Tmout(n)
      PROVE  ended' = ended /\ (rang => rang')
  <2>1. CASE DoTmout(n)
    BY <2>1 DEF DoTmout
  <2>2. CASE RputTest(n) \/ Rput(n) \/ TimerRuns(n) \/ TmoutWake(n)
    BY <2>2 DEF RputTest, Rput, RputStore, RputWake, TimerRuns, TmoutWake, timer
  <2> QED
    BY <1>3, <2>1, <2>2 DEF Tmout
<1>4. CASE StreamError \/ StreamErrorWake
  BY <1>4 DEF StreamError, StreamErrorWake, GaveUp, timer
<1>5. CASE UNCHANGED vars
  BY <1>5 DEF vars, GaveUp, timer
<1> QED
  BY <1>1, <1>2, <1>3, <1>4, <1>5 DEF Next, GaveUp

-----------------------------------------------------------------------------
(* One answer                                                              *)

\* An earlier message than the last is gone.
LEMMA OthersGoneKept == IInv /\ [Next]_vars => (GaveUp' = {} => OthersGone')
<1> SUFFICES ASSUME IInv, [Next]_vars, GaveUp' = {} PROVE OthersGone'
  OBVIOUS
<1>0. GaveUp = {} /\ OthersGone /\ HeadIsLast /\ HeadIsBlk /\ AllGone /\ Clears /\ Answers /\ Locked /\ Unsent /\ Current /\ HasMioc
  BY PastKept DEF IInv, Exclusive, Numbered, OneAnswer
<1>d. /\ DOMAIN pc = Proc /\ DOMAIN mioc = Proc /\ DOMAIN err = Proc
      /\ DOMAIN at = Msg /\ DOMAIN ended = Msg /\ DOMAIN ioc_id = Msg
  BY DEF IInv, TypeOK
<1>t. /\ sd_iocseq \in Nat /\ sent \in Nat /\ MaxSend \in Nat /\ sd_iocseq <= sent
      /\ sent <= MaxSend /\ \A i : i \in Msg <=> i \in Nat /\ i >= 1 /\ i <= MaxSend
      /\ sd_iocblk \in Nat /\ NoMsg = 0 /\ \A p \in Proc : mioc[p] \in Nat
  BY IoctlAssumption DEF IInv, TypeOK, Msg, NoMsg
<1>1. ASSUME NEW p \in Proc, Process(p) PROVE OthersGone'
  <2>a. Alone(p)
    BY <1>1, ProcessAlone
  <2>1. CASE SendIoctl(p)
    BY <1>0, <1>d, <1>t, <2>a, <2>1 DEF Alone, SendIoctl, Putnext, Goto, Move,
        OthersGone, AllGone, Answers, Idle, Locked, Unsent, head, msgs, timer,
        proc
  <2>2. CASE SendIocdata(p)
    BY <1>0, <1>d, <1>t, <2>a, <2>2 DEF Alone, SendIocdata, Putnext, Goto,
        Move, OthersGone, AllGone, Answers, Idle, Locked, Unsent, head, msgs,
        timer, proc
  <2>3. CASE ClearIocblk(p)
    BY <1>0, <1>d, <1>t, <2>a, <2>3 DEF Alone, ClearIocblk, IocblkCleared,
        Move, Goto, OthersGone, AllGone, Answers, Idle, Locked, Unsent, head,
        msgs, timer, proc
  <2>4. CASE CopyFailed(p) \/ WaitError(p) \/ WaitStart(p) \/ SleepOver(p) \/
          Interrupted(p) \/ TimedOut(p) \/ GotMsg(p) \/ CancelTimer(p) \/
          NoAnswer(p) \/ ReadIocblk(p) \/ Answered(p) \/ Copy(p)
    <3>1. UNCHANGED <<sent, at>>
      BY <2>4 DEF CopyFailed, Rtn, Goto, WaitError, WaitStart, SleepOver,
          DownPasses, Interrupted, Untmout, TimedOut, GotMsg, CancelTimer,
          NoAnswer, Errno, ReadIocblk, Answered, Copy, head, msgs, timer, proc
    <3> QED
      BY <1>0, <3>1 DEF OthersGone, AllGone, Answers, Idle, Locked, Unsent
  <2> QED
    BY <1>1, <2>1, <2>2, <2>3, <2>4 DEF Process
<1>2. ASSUME NEW n \in Msg, RputTest(n) PROVE OthersGone'
  BY <1>0, <1>d, <1>t, <1>2 DEF RputTest, Unwanted, bad_ioc_seq, Move,
      OthersGone, AllGone, Answers, Idle, Locked, Unsent, head, msgs, timer,
      proc
<1>3. ASSUME NEW n \in Msg, RputStore(n) PROVE OthersGone'
  BY <1>0, <1>d, <1>t, <1>3 DEF RputStore, Move, OthersGone, AllGone, Answers,
      Idle, Locked, Unsent, head, msgs, timer, proc
<1>4. CASE (\E n \in Msg : RputWake(n) \/ TimerRuns(n) \/ DoTmout(n) \/
      TmoutWake(n)) \/ StreamError \/ StreamErrorWake \/ UNCHANGED vars
  <2>1. UNCHANGED <<sent, at>>
    BY <1>4 DEF RputWake, Wakes, TimerRuns, DoTmout, Rings, TmoutWake,
        StreamError, StreamErrorWake, vars, head, msgs, timer, proc
  <2> QED
    BY <1>0, <2>1 DEF OthersGone, AllGone, Answers, Idle, Locked, Unsent
<1> QED
  BY <1>1, <1>2, <1>3, <1>4 DEF Next, Rput, Tmout

\* The answer in sd_iocblk is that of the last message.
LEMMA HeadIsLastKept == IInv /\ [Next]_vars => (GaveUp' = {} => HeadIsLast')
<1> SUFFICES ASSUME IInv, [Next]_vars, GaveUp' = {} PROVE HeadIsLast'
  OBVIOUS
<1>0. GaveUp = {} /\ OthersGone /\ HeadIsLast /\ HeadIsBlk /\ AllGone /\ Clears /\ Answers /\ Locked /\ Unsent /\ Current /\ HasMioc
  BY PastKept DEF IInv, Exclusive, Numbered, OneAnswer
<1>d. /\ DOMAIN pc = Proc /\ DOMAIN mioc = Proc /\ DOMAIN err = Proc
      /\ DOMAIN at = Msg /\ DOMAIN ended = Msg /\ DOMAIN ioc_id = Msg
  BY DEF IInv, TypeOK
<1>t. /\ sd_iocseq \in Nat /\ sent \in Nat /\ MaxSend \in Nat /\ sd_iocseq <= sent
      /\ sent <= MaxSend /\ \A i : i \in Msg <=> i \in Nat /\ i >= 1 /\ i <= MaxSend
      /\ sd_iocblk \in Nat /\ NoMsg = 0 /\ \A p \in Proc : mioc[p] \in Nat
  BY IoctlAssumption DEF IInv, TypeOK, Msg, NoMsg
<1>1. ASSUME NEW p \in Proc, Process(p) PROVE HeadIsLast'
  <2>a. Alone(p)
    BY <1>1, ProcessAlone
  <2>1. CASE SendIoctl(p)
    BY <1>0, <1>d, <1>t, <2>a, <2>1 DEF Alone, SendIoctl, Putnext, Goto, Move,
        HeadIsLast, AllGone, Answers, OthersGone, Idle, Locked, Unsent, head,
        msgs, timer, proc
  <2>2. CASE SendIocdata(p)
    BY <1>0, <1>d, <1>t, <2>a, <2>2 DEF Alone, SendIocdata, Putnext, Goto,
        Move, HeadIsLast, AllGone, Answers, OthersGone, Idle, Locked, Unsent,
        head, msgs, timer, proc
  <2>3. CASE ClearIocblk(p)
    BY <1>0, <1>d, <1>t, <2>a, <2>3 DEF Alone, ClearIocblk, IocblkCleared,
        Move, Goto, HeadIsLast, AllGone, Answers, OthersGone, Idle, Locked,
        Unsent, head, msgs, timer, proc
  <2>4. CASE CopyFailed(p) \/ WaitError(p) \/ WaitStart(p) \/ SleepOver(p) \/
          Interrupted(p) \/ TimedOut(p) \/ GotMsg(p) \/ CancelTimer(p) \/
          NoAnswer(p) \/ ReadIocblk(p) \/ Answered(p) \/ Copy(p)
    <3>1. UNCHANGED <<sd_iocblk, sent, at>>
      BY <2>4 DEF CopyFailed, Rtn, Goto, WaitError, WaitStart, SleepOver,
          DownPasses, Interrupted, Untmout, TimedOut, GotMsg, CancelTimer,
          NoAnswer, Errno, ReadIocblk, Answered, Copy, head, msgs, timer, proc
    <3> QED
      BY <1>0, <3>1 DEF HeadIsLast, AllGone, Answers, OthersGone, Idle,
          Locked, Unsent
  <2> QED
    BY <1>1, <2>1, <2>2, <2>3, <2>4 DEF Process
<1>2. ASSUME NEW n \in Msg, RputTest(n) PROVE HeadIsLast'
  BY <1>0, <1>d, <1>t, <1>2 DEF RputTest, Unwanted, bad_ioc_seq, Move,
      HeadIsLast, AllGone, Answers, OthersGone, Idle, Locked, Unsent, head,
      msgs, timer, proc
<1>3. ASSUME NEW n \in Msg, RputStore(n) PROVE HeadIsLast'
  BY <1>0, <1>d, <1>t, <1>3 DEF RputStore, Move, HeadIsLast, AllGone, Answers,
      OthersGone, Idle, Locked, Unsent, head, msgs, timer, proc
<1>4. CASE (\E n \in Msg : RputWake(n) \/ TimerRuns(n) \/ DoTmout(n) \/
      TmoutWake(n)) \/ StreamError \/ StreamErrorWake \/ UNCHANGED vars
  <2>1. UNCHANGED <<sd_iocblk, sent, at>>
    BY <1>4 DEF RputWake, Wakes, TimerRuns, DoTmout, Rings, TmoutWake,
        StreamError, StreamErrorWake, vars, head, msgs, timer, proc
  <2> QED
    BY <1>0, <2>1 DEF HeadIsLast, AllGone, Answers, OthersGone, Idle, Locked,
        Unsent
<1> QED
  BY <1>1, <1>2, <1>3, <1>4 DEF Next, Rput, Tmout

\* A message left at the head is the one in sd_iocblk.
LEMMA HeadIsBlkKept == IInv /\ [Next]_vars => (GaveUp' = {} => HeadIsBlk')
<1> SUFFICES ASSUME IInv, [Next]_vars, GaveUp' = {} PROVE HeadIsBlk'
  OBVIOUS
<1>0. GaveUp = {} /\ OthersGone /\ HeadIsLast /\ HeadIsBlk /\ AllGone /\ Clears /\ Answers /\ Locked /\ Unsent /\ Current /\ HasMioc
  BY PastKept DEF IInv, Exclusive, Numbered, OneAnswer
<1>d. /\ DOMAIN pc = Proc /\ DOMAIN mioc = Proc /\ DOMAIN err = Proc
      /\ DOMAIN at = Msg /\ DOMAIN ended = Msg /\ DOMAIN ioc_id = Msg
  BY DEF IInv, TypeOK
<1>t. /\ sd_iocseq \in Nat /\ sent \in Nat /\ MaxSend \in Nat /\ sd_iocseq <= sent
      /\ sent <= MaxSend /\ \A i : i \in Msg <=> i \in Nat /\ i >= 1 /\ i <= MaxSend
      /\ sd_iocblk \in Nat /\ NoMsg = 0 /\ \A p \in Proc : mioc[p] \in Nat
  BY IoctlAssumption DEF IInv, TypeOK, Msg, NoMsg
<1>1. ASSUME NEW p \in Proc, Process(p) PROVE HeadIsBlk'
  <2>a. Alone(p)
    BY <1>1, ProcessAlone
  <2>1. CASE SendIoctl(p)
    BY <1>0, <1>d, <1>t, <2>a, <2>1 DEF Alone, SendIoctl, Putnext, Goto, Move,
        HeadIsBlk, HeadIsLast, OthersGone, Clears, Unsent, head, msgs, timer,
        proc
  <2>2. CASE SendIocdata(p)
    BY <1>0, <1>d, <1>t, <2>a, <2>2 DEF Alone, SendIocdata, Putnext, Goto,
        Move, HeadIsBlk, HeadIsLast, OthersGone, Clears, Unsent, head, msgs,
        timer, proc
  <2>3. CASE ClearIocblk(p)
    BY <1>0, <1>d, <1>t, <2>a, <2>3 DEF Alone, ClearIocblk, IocblkCleared,
        Move, Goto, HeadIsBlk, HeadIsLast, OthersGone, Clears, Unsent, head,
        msgs, timer, proc
  <2>4. CASE CopyFailed(p) \/ WaitError(p) \/ WaitStart(p) \/ SleepOver(p) \/
          Interrupted(p) \/ TimedOut(p) \/ GotMsg(p) \/ CancelTimer(p) \/
          NoAnswer(p) \/ ReadIocblk(p) \/ Answered(p) \/ Copy(p)
    <3>1. UNCHANGED <<sd_iocblk, at>>
      BY <2>4 DEF CopyFailed, Rtn, Goto, WaitError, WaitStart, SleepOver,
          DownPasses, Interrupted, Untmout, TimedOut, GotMsg, CancelTimer,
          NoAnswer, Errno, ReadIocblk, Answered, Copy, head, msgs, timer, proc
    <3> QED
      BY <1>0, <3>1 DEF HeadIsBlk, HeadIsLast, OthersGone, Clears, Unsent
  <2> QED
    BY <1>1, <2>1, <2>2, <2>3, <2>4 DEF Process
<1>2. ASSUME NEW n \in Msg, RputTest(n) PROVE HeadIsBlk'
  BY <1>0, <1>d, <1>t, <1>2 DEF RputTest, Unwanted, bad_ioc_seq, Move,
      HeadIsBlk, HeadIsLast, OthersGone, Clears, Unsent, head, msgs, timer,
      proc
<1>3. ASSUME NEW n \in Msg, RputStore(n) PROVE HeadIsBlk'
  BY <1>0, <1>d, <1>t, <1>3 DEF RputStore, Move, HeadIsBlk, HeadIsLast,
      OthersGone, Clears, Unsent, head, msgs, timer, proc
<1>4. CASE (\E n \in Msg : RputWake(n) \/ TimerRuns(n) \/ DoTmout(n) \/
      TmoutWake(n)) \/ StreamError \/ StreamErrorWake \/ UNCHANGED vars
  <2>1. UNCHANGED <<sd_iocblk, at>>
    BY <1>4 DEF RputWake, Wakes, TimerRuns, DoTmout, Rings, TmoutWake,
        StreamError, StreamErrorWake, vars, head, msgs, timer, proc
  <2> QED
    BY <1>0, <2>1 DEF HeadIsBlk, HeadIsLast, OthersGone, Clears, Unsent
<1> QED
  BY <1>1, <1>2, <1>3, <1>4 DEF Next, Rput, Tmout

\* Between transactions all are gone.
LEMMA AllGoneKept == IInv /\ [Next]_vars => (GaveUp' = {} => AllGone')
<1> SUFFICES ASSUME IInv, [Next]_vars, GaveUp' = {} PROVE AllGone'
  OBVIOUS
<1>0. GaveUp = {} /\ OthersGone /\ HeadIsLast /\ HeadIsBlk /\ AllGone /\ Clears /\ Answers /\ Locked /\ Unsent /\ Current /\ HasMioc
  BY PastKept DEF IInv, Exclusive, Numbered, OneAnswer
<1>d. /\ DOMAIN pc = Proc /\ DOMAIN mioc = Proc /\ DOMAIN err = Proc
      /\ DOMAIN at = Msg /\ DOMAIN ended = Msg /\ DOMAIN ioc_id = Msg
  BY DEF IInv, TypeOK
<1>t. /\ sd_iocseq \in Nat /\ sent \in Nat /\ MaxSend \in Nat /\ sd_iocseq <= sent
      /\ sent <= MaxSend /\ \A i : i \in Msg <=> i \in Nat /\ i >= 1 /\ i <= MaxSend
      /\ sd_iocblk \in Nat /\ NoMsg = 0 /\ \A p \in Proc : mioc[p] \in Nat
  BY IoctlAssumption DEF IInv, TypeOK, Msg, NoMsg
<1>1. ASSUME NEW p \in Proc, Process(p) PROVE AllGone'
  <2>a. Alone(p)
    BY <1>1, ProcessAlone
  <2>1. CASE SendIoctl(p)
    BY <1>0, <1>d, <1>t, <2>a, <2>1 DEF Alone, SendIoctl, Putnext, Goto, Move,
        AllGone, Idle, Answers, OthersGone, Unsent, head, msgs, timer, proc
  <2>2. CASE SendIocdata(p)
    BY <1>0, <1>d, <1>t, <2>a, <2>2 DEF Alone, SendIocdata, Putnext, Goto,
        Move, AllGone, Idle, Answers, OthersGone, Unsent, head, msgs, timer,
        proc
  <2>3. CASE CopyFailed(p)
    BY <1>0, <1>d, <1>t, <2>a, <2>3 DEF Alone, CopyFailed, Rtn, Goto, AllGone,
        Idle, Answers, OthersGone, Unsent, head, msgs, timer, proc
  <2>4. CASE WaitError(p)
    BY <1>0, <1>d, <1>t, <2>a, <2>4 DEF Alone, WaitError, Goto, AllGone, Idle,
        Answers, OthersGone, Unsent, head, msgs, timer, proc
  <2>5. CASE WaitStart(p)
    BY <1>0, <1>d, <1>t, <2>a, <2>5 DEF Alone, WaitStart, Goto, AllGone, Idle,
        Answers, OthersGone, Unsent, head, msgs, timer, proc
  <2>6. CASE SleepOver(p)
    BY <1>0, <1>d, <1>t, <2>a, <2>6 DEF Alone, SleepOver, DownPasses, Goto,
        AllGone, Idle, Answers, OthersGone, Unsent, head, msgs, timer, proc
  <2>7. CASE Interrupted(p)
    BY <1>0, <1>d, <1>t, <2>a, <2>7 DEF Alone, Interrupted, DownPasses,
        Untmout, Goto, AllGone, Idle, Answers, OthersGone, Unsent, head, msgs,
        timer, proc
  <2>8. CASE TimedOut(p)
    BY <1>0, <1>d, <1>t, <2>a, <2>8 DEF Alone, TimedOut, Goto, AllGone, Idle,
        Answers, OthersGone, Unsent, head, msgs, timer, proc
  <2>9. CASE GotMsg(p)
    BY <1>0, <1>d, <1>t, <2>a, <2>9 DEF Alone, GotMsg, Goto, AllGone, Idle,
        Answers, OthersGone, Unsent, head, msgs, timer, proc
  <2>10. CASE CancelTimer(p)
    BY <1>0, <1>d, <1>t, <2>a, <2>10 DEF Alone, CancelTimer, Untmout, Goto,
        AllGone, Idle, Answers, OthersGone, Unsent, head, msgs, timer, proc
  <2>11. CASE NoAnswer(p)
    <3>1. ended' = [ended EXCEPT ![sd_iocseq] = Errno(p)] /\ pc[p] # "idle"
      BY <2>11 DEF NoAnswer, Rtn
    <3>2. sd_iocseq \in GaveUp'
      BY <1>0, <1>d, <3>1 DEF Current, GaveUp, Errno
    <3> QED
      BY <3>2
  <2>12. CASE ReadIocblk(p)
    BY <1>0, <1>d, <1>t, <2>a, <2>12 DEF Alone, ReadIocblk, Goto, AllGone,
        Idle, Answers, OthersGone, Unsent, head, msgs, timer, proc
  <2>13. CASE ClearIocblk(p)
    BY <1>0, <1>d, <1>t, <2>a, <2>13 DEF Alone, ClearIocblk, IocblkCleared,
        Move, Goto, AllGone, Idle, Answers, OthersGone, Unsent, head, msgs,
        timer, proc
  <2>14. CASE Answered(p)
    BY <1>0, <1>d, <1>t, <2>a, <2>14 DEF Alone, Answered, Rtn, Goto, AllGone,
        Idle, Answers, OthersGone, Unsent, head, msgs, timer, proc
  <2>15. CASE Copy(p)
    BY <1>0, <1>d, <1>t, <2>a, <2>15 DEF Alone, Copy, Goto, AllGone, Idle,
        Answers, OthersGone, Unsent, head, msgs, timer, proc
  <2> QED
    BY <1>1, <2>1, <2>2, <2>3, <2>4, <2>5, <2>6, <2>7, <2>8, <2>9, <2>10,
        <2>11, <2>12, <2>13, <2>14, <2>15 DEF Process
<1>2. ASSUME NEW n \in Msg, RputTest(n) PROVE AllGone'
  BY <1>0, <1>d, <1>t, <1>2 DEF RputTest, Unwanted, bad_ioc_seq, Move,
      AllGone, Idle, Answers, OthersGone, Unsent, head, msgs, timer, proc
<1>3. ASSUME NEW n \in Msg, RputStore(n) PROVE AllGone'
  BY <1>0, <1>d, <1>t, <1>3 DEF RputStore, Move, AllGone, Idle, Answers,
      OthersGone, Unsent, head, msgs, timer, proc
<1>4. CASE (\E n \in Msg : RputWake(n) \/ TimerRuns(n) \/ DoTmout(n) \/
      TmoutWake(n)) \/ StreamError \/ StreamErrorWake \/ UNCHANGED vars
  <2>1. UNCHANGED <<pc, sent, at>>
    BY <1>4 DEF RputWake, Wakes, TimerRuns, DoTmout, Rings, TmoutWake,
        StreamError, StreamErrorWake, vars, head, msgs, timer, proc
  <2> QED
    BY <1>0, <2>1 DEF AllGone, Idle, Answers, OthersGone, Unsent
<1> QED
  BY <1>1, <1>2, <1>3, <1>4 DEF Next, Rput, Tmout

\* The message to be cleared is the last, and still in sd_iocblk.
LEMMA ClearsKept == IInv /\ [Next]_vars => (GaveUp' = {} => Clears')
<1> SUFFICES ASSUME IInv, [Next]_vars, GaveUp' = {} PROVE Clears'
  OBVIOUS
<1>0. GaveUp = {} /\ OthersGone /\ HeadIsLast /\ HeadIsBlk /\ AllGone /\ Clears /\ Answers /\ Locked /\ Unsent /\ Current /\ HasMioc
  BY PastKept DEF IInv, Exclusive, Numbered, OneAnswer
<1>d. /\ DOMAIN pc = Proc /\ DOMAIN mioc = Proc /\ DOMAIN err = Proc
      /\ DOMAIN at = Msg /\ DOMAIN ended = Msg /\ DOMAIN ioc_id = Msg
  BY DEF IInv, TypeOK
<1>t. /\ sd_iocseq \in Nat /\ sent \in Nat /\ MaxSend \in Nat /\ sd_iocseq <= sent
      /\ sent <= MaxSend /\ \A i : i \in Msg <=> i \in Nat /\ i >= 1 /\ i <= MaxSend
      /\ sd_iocblk \in Nat /\ NoMsg = 0 /\ \A p \in Proc : mioc[p] \in Nat
  BY IoctlAssumption DEF IInv, TypeOK, Msg, NoMsg
<1>1. ASSUME NEW p \in Proc, Process(p) PROVE Clears'
  <2>a. Alone(p)
    BY <1>1, ProcessAlone
  <2>1. CASE SendIoctl(p)
    BY <1>0, <1>d, <1>t, <2>a, <2>1 DEF Alone, SendIoctl, Putnext, Goto, Move,
        Clears, HeadIsLast, OthersGone, Unsent, head, msgs, timer, proc
  <2>2. CASE SendIocdata(p)
    BY <1>0, <1>d, <1>t, <2>a, <2>2 DEF Alone, SendIocdata, Putnext, Goto,
        Move, Clears, HeadIsLast, OthersGone, Unsent, head, msgs, timer, proc
  <2>3. CASE CopyFailed(p)
    BY <1>0, <1>d, <1>t, <2>a, <2>3 DEF Alone, CopyFailed, Rtn, Goto, Clears,
        HeadIsLast, OthersGone, Unsent, head, msgs, timer, proc
  <2>4. CASE WaitError(p)
    BY <1>0, <1>d, <1>t, <2>a, <2>4 DEF Alone, WaitError, Goto, Clears,
        HeadIsLast, OthersGone, Unsent, head, msgs, timer, proc
  <2>5. CASE WaitStart(p)
    BY <1>0, <1>d, <1>t, <2>a, <2>5 DEF Alone, WaitStart, Goto, Clears,
        HeadIsLast, OthersGone, Unsent, head, msgs, timer, proc
  <2>6. CASE SleepOver(p)
    BY <1>0, <1>d, <1>t, <2>a, <2>6 DEF Alone, SleepOver, DownPasses, Goto,
        Clears, HeadIsLast, OthersGone, Unsent, head, msgs, timer, proc
  <2>7. CASE Interrupted(p)
    BY <1>0, <1>d, <1>t, <2>a, <2>7 DEF Alone, Interrupted, DownPasses,
        Untmout, Goto, Clears, HeadIsLast, OthersGone, Unsent, head, msgs,
        timer, proc
  <2>8. CASE TimedOut(p)
    BY <1>0, <1>d, <1>t, <2>a, <2>8 DEF Alone, TimedOut, Goto, Clears,
        HeadIsLast, OthersGone, Unsent, head, msgs, timer, proc
  <2>9. CASE GotMsg(p)
    BY <1>0, <1>d, <1>t, <2>a, <2>9 DEF Alone, GotMsg, Goto, Clears,
        HeadIsLast, OthersGone, Unsent, head, msgs, timer, proc
  <2>10. CASE CancelTimer(p)
    BY <1>0, <1>d, <1>t, <2>a, <2>10 DEF Alone, CancelTimer, Untmout, Goto,
        Clears, HeadIsLast, OthersGone, Unsent, head, msgs, timer, proc
  <2>11. CASE NoAnswer(p)
    BY <1>0, <1>d, <1>t, <2>a, <2>11 DEF Alone, NoAnswer, Rtn, Errno, Goto,
        Clears, HeadIsLast, OthersGone, Unsent, head, msgs, timer, proc
  <2>12. CASE ReadIocblk(p)
    BY <1>0, <1>d, <1>t, <2>a, <2>12 DEF Alone, ReadIocblk, Goto, Clears,
        HeadIsLast, OthersGone, Unsent, head, msgs, timer, proc
  <2>13. CASE ClearIocblk(p)
    BY <1>0, <1>d, <1>t, <2>a, <2>13 DEF Alone, ClearIocblk, IocblkCleared,
        Move, Goto, Clears, HeadIsLast, OthersGone, Unsent, head, msgs, timer,
        proc
  <2>14. CASE Answered(p)
    BY <1>0, <1>d, <1>t, <2>a, <2>14 DEF Alone, Answered, Rtn, Goto, Clears,
        HeadIsLast, OthersGone, Unsent, head, msgs, timer, proc
  <2>15. CASE Copy(p)
    BY <1>0, <1>d, <1>t, <2>a, <2>15 DEF Alone, Copy, Goto, Clears,
        HeadIsLast, OthersGone, Unsent, head, msgs, timer, proc
  <2> QED
    BY <1>1, <2>1, <2>2, <2>3, <2>4, <2>5, <2>6, <2>7, <2>8, <2>9, <2>10,
        <2>11, <2>12, <2>13, <2>14, <2>15 DEF Process
<1>2. ASSUME NEW n \in Msg, RputStore(n) PROVE Clears'
  BY <1>0, <1>d, <1>t, <1>2 DEF RputStore, Move, Clears, HeadIsLast,
      OthersGone, Unsent, head, msgs, timer, proc
<1>3. CASE (\E n \in Msg : RputTest(n) \/ RputWake(n) \/ TimerRuns(n) \/
      DoTmout(n) \/ TmoutWake(n)) \/ StreamError \/ StreamErrorWake \/
      UNCHANGED vars
  <2>1. UNCHANGED <<pc, mioc, sd_iocblk, sent>>
    BY <1>3 DEF RputTest, Unwanted, bad_ioc_seq, Move, RputWake, Wakes,
        TimerRuns, DoTmout, Rings, TmoutWake, StreamError, StreamErrorWake,
        vars, head, msgs, timer, proc
  <2> QED
    BY <1>0, <2>1 DEF Clears, HeadIsLast, OthersGone, Unsent
<1> QED
  BY <1>1, <1>2, <1>3 DEF Next, Rput, Tmout

\* The message worked on is the last, and was cleared.
LEMMA AnswersKept == IInv /\ [Next]_vars => (GaveUp' = {} => Answers')
<1> SUFFICES ASSUME IInv, [Next]_vars, GaveUp' = {} PROVE Answers'
  OBVIOUS
<1>0. GaveUp = {} /\ OthersGone /\ HeadIsLast /\ HeadIsBlk /\ AllGone /\ Clears /\ Answers /\ Locked /\ Unsent /\ Current /\ HasMioc
  BY PastKept DEF IInv, Exclusive, Numbered, OneAnswer
<1>d. /\ DOMAIN pc = Proc /\ DOMAIN mioc = Proc /\ DOMAIN err = Proc
      /\ DOMAIN at = Msg /\ DOMAIN ended = Msg /\ DOMAIN ioc_id = Msg
  BY DEF IInv, TypeOK
<1>t. /\ sd_iocseq \in Nat /\ sent \in Nat /\ MaxSend \in Nat /\ sd_iocseq <= sent
      /\ sent <= MaxSend /\ \A i : i \in Msg <=> i \in Nat /\ i >= 1 /\ i <= MaxSend
      /\ sd_iocblk \in Nat /\ NoMsg = 0 /\ \A p \in Proc : mioc[p] \in Nat
  BY IoctlAssumption DEF IInv, TypeOK, Msg, NoMsg
<1>1. ASSUME NEW p \in Proc, Process(p) PROVE Answers'
  <2>a. Alone(p)
    BY <1>1, ProcessAlone
  <2>1. CASE SendIoctl(p)
    BY <1>0, <1>d, <1>t, <2>a, <2>1 DEF Alone, SendIoctl, Putnext, Goto, Move,
        HasMioc, Answers, Clears, OthersGone, head, msgs, timer, proc
  <2>2. CASE SendIocdata(p)
    BY <1>0, <1>d, <1>t, <2>a, <2>2 DEF Alone, SendIocdata, Putnext, Goto,
        Move, HasMioc, Answers, Clears, OthersGone, head, msgs, timer, proc
  <2>3. CASE CopyFailed(p)
    BY <1>0, <1>d, <1>t, <2>a, <2>3 DEF Alone, CopyFailed, Rtn, Goto, HasMioc,
        Answers, Clears, OthersGone, head, msgs, timer, proc
  <2>4. CASE WaitError(p)
    BY <1>0, <1>d, <1>t, <2>a, <2>4 DEF Alone, WaitError, Goto, HasMioc,
        Answers, Clears, OthersGone, head, msgs, timer, proc
  <2>5. CASE WaitStart(p)
    BY <1>0, <1>d, <1>t, <2>a, <2>5 DEF Alone, WaitStart, Goto, HasMioc,
        Answers, Clears, OthersGone, head, msgs, timer, proc
  <2>6. CASE SleepOver(p)
    BY <1>0, <1>d, <1>t, <2>a, <2>6 DEF Alone, SleepOver, DownPasses, Goto,
        HasMioc, Answers, Clears, OthersGone, head, msgs, timer, proc
  <2>7. CASE Interrupted(p)
    BY <1>0, <1>d, <1>t, <2>a, <2>7 DEF Alone, Interrupted, DownPasses,
        Untmout, Goto, HasMioc, Answers, Clears, OthersGone, head, msgs,
        timer, proc
  <2>8. CASE TimedOut(p)
    BY <1>0, <1>d, <1>t, <2>a, <2>8 DEF Alone, TimedOut, Goto, HasMioc,
        Answers, Clears, OthersGone, head, msgs, timer, proc
  <2>9. CASE GotMsg(p)
    BY <1>0, <1>d, <1>t, <2>a, <2>9 DEF Alone, GotMsg, Goto, HasMioc, Answers,
        Clears, OthersGone, head, msgs, timer, proc
  <2>10. CASE CancelTimer(p)
    BY <1>0, <1>d, <1>t, <2>a, <2>10 DEF Alone, CancelTimer, Untmout, Goto,
        HasMioc, Answers, Clears, OthersGone, head, msgs, timer, proc
  <2>11. CASE NoAnswer(p)
    BY <1>0, <1>d, <1>t, <2>a, <2>11 DEF Alone, NoAnswer, Rtn, Errno, Goto,
        HasMioc, Answers, Clears, OthersGone, head, msgs, timer, proc
  <2>12. CASE ReadIocblk(p)
    BY <1>0, <1>d, <1>t, <2>a, <2>12 DEF Alone, ReadIocblk, Goto, HasMioc,
        Answers, Clears, OthersGone, head, msgs, timer, proc
  <2>13. CASE ClearIocblk(p)
    BY <1>0, <1>d, <1>t, <2>a, <2>13 DEF Alone, ClearIocblk, IocblkCleared,
        Move, Goto, HasMioc, Answers, Clears, OthersGone, head, msgs, timer,
        proc
  <2>14. CASE Answered(p)
    BY <1>0, <1>d, <1>t, <2>a, <2>14 DEF Alone, Answered, Rtn, Goto, HasMioc,
        Answers, Clears, OthersGone, head, msgs, timer, proc
  <2>15. CASE Copy(p)
    BY <1>0, <1>d, <1>t, <2>a, <2>15 DEF Alone, Copy, Goto, HasMioc, Answers,
        Clears, OthersGone, head, msgs, timer, proc
  <2> QED
    BY <1>1, <2>1, <2>2, <2>3, <2>4, <2>5, <2>6, <2>7, <2>8, <2>9, <2>10,
        <2>11, <2>12, <2>13, <2>14, <2>15 DEF Process
<1>2. ASSUME NEW n \in Msg, RputTest(n) PROVE Answers'
  BY <1>0, <1>d, <1>t, <1>2 DEF RputTest, Unwanted, bad_ioc_seq, Move,
      HasMioc, Answers, Clears, OthersGone, head, msgs, timer, proc
<1>3. ASSUME NEW n \in Msg, RputStore(n) PROVE Answers'
  BY <1>0, <1>d, <1>t, <1>3 DEF RputStore, Move, HasMioc, Answers, Clears,
      OthersGone, head, msgs, timer, proc
<1>4. CASE (\E n \in Msg : RputWake(n) \/ TimerRuns(n) \/ DoTmout(n) \/
      TmoutWake(n)) \/ StreamError \/ StreamErrorWake \/ UNCHANGED vars
  <2>1. UNCHANGED <<pc, mioc, sent, at>>
    BY <1>4 DEF RputWake, Wakes, TimerRuns, DoTmout, Rings, TmoutWake,
        StreamError, StreamErrorWake, vars, head, msgs, timer, proc
  <2> QED
    BY <1>0, <2>1 DEF HasMioc, Answers, Clears, OthersGone
<1> QED
  BY <1>1, <1>2, <1>3, <1>4 DEF Next, Rput, Tmout

-----------------------------------------------------------------------------
(* The wakeups                                                             *)

\* Without a timer that rang or an M_ERROR, the sleeper has its timer bit.
LEMMA QuietKept == IInv /\ [Next]_vars => (~rang => Quiet)'
<1> SUFFICES ASSUME IInv, [Next]_vars, ~rang' PROVE Quiet'
  OBVIOUS
<1>0. ~rang /\ Quiet
  BY PastKept DEF IInv, WakeupsMatch
<1>d. /\ DOMAIN pc = Proc /\ DOMAIN mioc = Proc /\ DOMAIN err = Proc
      /\ DOMAIN at = Msg /\ DOMAIN ended = Msg /\ DOMAIN ioc_id = Msg
  BY DEF IInv, TypeOK
<1>1. ASSUME NEW p \in Proc, Process(p) PROVE Quiet'
  <2>a. Alone(p)
    BY <1>1, ProcessAlone
  <2>1. CASE SendIoctl(p)
    BY <1>0, <1>d, <2>a, <2>1 DEF Alone, SendIoctl, Putnext, Goto, Move,
        Quiet, head, msgs, timer, proc
  <2>2. CASE SendIocdata(p)
    BY <1>0, <1>d, <2>a, <2>2 DEF Alone, SendIocdata, Putnext, Goto, Move,
        Quiet, head, msgs, timer, proc
  <2>3. CASE CopyFailed(p)
    BY <1>0, <1>d, <2>a, <2>3 DEF Alone, CopyFailed, Rtn, Goto, Quiet, head,
        msgs, timer, proc
  <2>4. CASE WaitError(p)
    BY <1>0, <1>d, <2>a, <2>4 DEF Alone, WaitError, Goto, Quiet, head, msgs,
        timer, proc
  <2>5. CASE WaitStart(p)
    BY <1>0, <1>d, <2>a, <2>5 DEF Alone, WaitStart, Goto, Quiet, head, msgs,
        timer, proc
  <2>6. CASE SleepOver(p)
    BY <1>0, <1>d, <2>a, <2>6 DEF Alone, SleepOver, DownPasses, Goto, Quiet,
        head, msgs, timer, proc
  <2>7. CASE Interrupted(p)
    BY <1>0, <1>d, <2>a, <2>7 DEF Alone, Interrupted, DownPasses, Untmout,
        Goto, Quiet, head, msgs, timer, proc
  <2>8. CASE TimedOut(p)
    BY <1>0, <1>d, <2>a, <2>8 DEF Alone, TimedOut, Goto, Quiet, head, msgs,
        timer, proc
  <2>9. CASE GotMsg(p)
    BY <1>0, <1>d, <2>a, <2>9 DEF Alone, GotMsg, Goto, Quiet, head, msgs,
        timer, proc
  <2>10. CASE CancelTimer(p)
    BY <1>0, <1>d, <2>a, <2>10 DEF Alone, CancelTimer, Untmout, Goto, Quiet,
        head, msgs, timer, proc
  <2>11. CASE NoAnswer(p)
    BY <1>0, <1>d, <2>a, <2>11 DEF Alone, NoAnswer, Rtn, Errno, Goto, Quiet,
        head, msgs, timer, proc
  <2>12. CASE ReadIocblk(p)
    BY <1>0, <1>d, <2>a, <2>12 DEF Alone, ReadIocblk, Goto, Quiet, head, msgs,
        timer, proc
  <2>13. CASE ClearIocblk(p)
    BY <1>0, <1>d, <2>a, <2>13 DEF Alone, ClearIocblk, IocblkCleared, Move,
        Goto, Quiet, head, msgs, timer, proc
  <2>14. CASE Answered(p)
    BY <1>0, <1>d, <2>a, <2>14 DEF Alone, Answered, Rtn, Goto, Quiet, head,
        msgs, timer, proc
  <2>15. CASE Copy(p)
    BY <1>0, <1>d, <2>a, <2>15 DEF Alone, Copy, Goto, Quiet, head, msgs,
        timer, proc
  <2> QED
    BY <1>1, <2>1, <2>2, <2>3, <2>4, <2>5, <2>6, <2>7, <2>8, <2>9, <2>10,
        <2>11, <2>12, <2>13, <2>14, <2>15 DEF Process
<1>2. ASSUME NEW n \in Msg, DoTmout(n) PROVE Quiet'
  BY <1>0, <1>d, <1>2 DEF DoTmout, Rings, Quiet, head, msgs, timer, proc
<1>3. ASSUME NEW n \in Msg, TmoutWake(n) PROVE Quiet'
  BY <1>0, <1>d, <1>3 DEF TmoutWake, Wakes, Quiet, head, msgs, timer, proc
<1>4. CASE StreamError
  BY <1>0, <1>d, <1>4 DEF StreamError, Quiet, head, msgs, timer, proc
<1>5. CASE StreamErrorWake
  BY <1>0, <1>d, <1>5 DEF StreamErrorWake, Wakes, Quiet, head, msgs, timer,
      proc
<1>6. CASE (\E n \in Msg : RputTest(n) \/ RputStore(n) \/ RputWake(n) \/
      TimerRuns(n)) \/ UNCHANGED vars
  <2>1. UNCHANGED <<sd_error, erring, ringing, pc, STIOCTMR, rang>>
    BY <1>6 DEF RputTest, Unwanted, bad_ioc_seq, Move, RputStore, RputWake,
        Wakes, TimerRuns, vars, head, msgs, timer, proc
  <2> QED
    BY <1>0, <2>1 DEF Quiet
<1> QED
  BY <1>1, <1>2, <1>3, <1>4, <1>5, <1>6 DEF Next, Rput, Tmout

\* No wakeup is left over between transactions.
LEMMA RestedKept == IInv /\ [Next]_vars => (~rang /\ GaveUp = {} => Rested)'
<1> SUFFICES ASSUME IInv, [Next]_vars, ~rang', GaveUp' = {} PROVE Rested'
  OBVIOUS
<1>0. ~rang /\ GaveUp = {} /\ Quiet /\ Rested /\ Asleep /\ Woken /\ Served /\ OthersGone /\ HeadIsBlk /\ AllGone /\ Answers /\ Locked /\ HasErr /\ Unsent /\ Current
  BY PastKept DEF IInv, Exclusive, Numbered, OneAnswer, WakeupsMatch
<1>d. /\ DOMAIN pc = Proc /\ DOMAIN mioc = Proc /\ DOMAIN err = Proc
      /\ DOMAIN at = Msg /\ DOMAIN ended = Msg /\ DOMAIN ioc_id = Msg
  BY DEF IInv, TypeOK
<1>t. /\ sd_iocseq \in Nat /\ sent \in Nat /\ MaxSend \in Nat /\ sd_iocseq <= sent
      /\ sent <= MaxSend /\ \A i : i \in Msg <=> i \in Nat /\ i >= 1 /\ i <= MaxSend
      /\ sd_iocblk \in Nat /\ NoMsg = 0 /\ \A p \in Proc : mioc[p] \in Nat
  BY IoctlAssumption DEF IInv, TypeOK, Msg, NoMsg
<1>1. ASSUME NEW p \in Proc, Process(p) PROVE Rested'
  <2>a. Alone(p)
    BY <1>1, ProcessAlone
  <2>1. CASE SendIoctl(p)
    BY <1>0, <1>d, <1>t, <2>a, <2>1 DEF Alone, SendIoctl, Putnext, Goto, Move,
        Rested, Served, AllGone, Asleep, Idle, NoWakeup, Quiet, Unsent, head,
        msgs, timer, proc
  <2>2. CASE SendIocdata(p)
    BY <1>0, <1>d, <1>t, <2>a, <2>2 DEF Alone, SendIocdata, Putnext, Goto,
        Move, Rested, Served, AllGone, Asleep, Idle, NoWakeup, Quiet, Unsent,
        head, msgs, timer, proc
  <2>3. CASE CopyFailed(p)
    BY <1>0, <1>d, <1>t, <2>a, <2>3 DEF Alone, CopyFailed, Rtn, Goto, Rested,
        Served, AllGone, Asleep, Idle, NoWakeup, Quiet, Unsent, head, msgs,
        timer, proc
  <2>4. CASE WaitError(p)
    BY <1>0, <1>d, <1>t, <2>a, <2>4 DEF Alone, WaitError, Goto, Rested,
        Served, AllGone, Asleep, Idle, NoWakeup, Quiet, Unsent, head, msgs,
        timer, proc
  <2>5. CASE WaitStart(p)
    BY <1>0, <1>d, <1>t, <2>a, <2>5 DEF Alone, WaitStart, Goto, Rested,
        Served, AllGone, Asleep, Idle, NoWakeup, Quiet, Unsent, head, msgs,
        timer, proc
  <2>6. CASE SleepOver(p)
    BY <1>0, <1>d, <1>t, <2>a, <2>6 DEF Alone, SleepOver, DownPasses, Goto,
        Rested, Served, AllGone, Asleep, Idle, NoWakeup, Quiet, Unsent, head,
        msgs, timer, proc
  <2>7. CASE Interrupted(p)
    BY <1>0, <1>d, <1>t, <2>a, <2>7 DEF Alone, Interrupted, DownPasses,
        Untmout, Goto, Rested, Served, AllGone, Asleep, Idle, NoWakeup, Quiet,
        Unsent, head, msgs, timer, proc
  <2>8. CASE TimedOut(p)
    BY <1>0, <1>d, <1>t, <2>a, <2>8 DEF Alone, TimedOut, Goto, Rested, Served,
        AllGone, Asleep, Idle, NoWakeup, Quiet, Unsent, head, msgs, timer,
        proc
  <2>9. CASE GotMsg(p)
    BY <1>0, <1>d, <1>t, <2>a, <2>9 DEF Alone, GotMsg, Goto, Rested, Served,
        AllGone, Asleep, Idle, NoWakeup, Quiet, Unsent, head, msgs, timer,
        proc
  <2>10. CASE CancelTimer(p)
    BY <1>0, <1>d, <1>t, <2>a, <2>10 DEF Alone, CancelTimer, Untmout, Goto,
        Rested, Served, AllGone, Asleep, Idle, NoWakeup, Quiet, Unsent, head,
        msgs, timer, proc
  <2>11. CASE NoAnswer(p)
    <3>1. ended' = [ended EXCEPT ![sd_iocseq] = Errno(p)] /\ pc[p] # "idle"
      BY <2>11 DEF NoAnswer, Rtn
    <3>2. sd_iocseq \in GaveUp'
      BY <1>0, <1>d, <3>1 DEF Current, GaveUp, Errno
    <3> QED
      BY <3>2
  <2>12. CASE ReadIocblk(p)
    BY <1>0, <1>d, <1>t, <2>a, <2>12 DEF Alone, ReadIocblk, Goto, Rested,
        Served, AllGone, Asleep, Idle, NoWakeup, Quiet, Unsent, head, msgs,
        timer, proc
  <2>13. CASE ClearIocblk(p)
    BY <1>0, <1>d, <1>t, <2>a, <2>13 DEF Alone, ClearIocblk, IocblkCleared,
        Move, Goto, Rested, Served, AllGone, Asleep, Idle, NoWakeup, Quiet,
        Unsent, head, msgs, timer, proc
  <2>14. CASE Answered(p)
    BY <1>0, <1>d, <1>t, <2>a, <2>14 DEF Alone, Answered, Rtn, Goto, Rested,
        Served, AllGone, Asleep, Idle, NoWakeup, Quiet, Unsent, head, msgs,
        timer, proc
  <2>15. CASE Copy(p)
    BY <1>0, <1>d, <1>t, <2>a, <2>15 DEF Alone, Copy, Goto, Rested, Served,
        AllGone, Asleep, Idle, NoWakeup, Quiet, Unsent, head, msgs, timer,
        proc
  <2> QED
    BY <1>1, <2>1, <2>2, <2>3, <2>4, <2>5, <2>6, <2>7, <2>8, <2>9, <2>10,
        <2>11, <2>12, <2>13, <2>14, <2>15 DEF Process
<1>2. ASSUME NEW n \in Msg, RputStore(n) PROVE Rested'
  BY <1>0, <1>d, <1>t, <1>2 DEF RputStore, Move, Rested, Served, AllGone,
      Asleep, Idle, NoWakeup, Quiet, Unsent, head, msgs, timer, proc
<1>3. ASSUME NEW n \in Msg, RputWake(n) PROVE Rested'
  BY <1>0, <1>d, <1>t, <1>3 DEF RputWake, Wakes, Rested, Served, AllGone,
      Asleep, Idle, NoWakeup, Quiet, Unsent, head, msgs, timer, proc
<1>4. ASSUME NEW n \in Msg, TmoutWake(n) PROVE Rested'
  BY <1>0, <1>d, <1>t, <1>4 DEF TmoutWake, Wakes, Rested, Served, AllGone,
      Asleep, Idle, NoWakeup, Quiet, Unsent, head, msgs, timer, proc
<1>5. CASE StreamErrorWake
  BY <1>0, <1>d, <1>t, <1>5 DEF StreamErrorWake, Wakes, Rested, Served,
      AllGone, Asleep, Idle, NoWakeup, Quiet, Unsent, head, msgs, timer, proc
<1>6. CASE (\E n \in Msg : RputTest(n) \/ TimerRuns(n) \/ DoTmout(n)) \/
      StreamError \/ UNCHANGED vars
  <2>1. UNCHANGED <<pc, waking, sd_wiocing>>
    BY <1>6 DEF RputTest, Unwanted, bad_ioc_seq, Move, TimerRuns, DoTmout,
        Rings, StreamError, vars, head, msgs, timer, proc
  <2> QED
    BY <1>0, <2>1 DEF Rested, Served, AllGone, Asleep, Idle, NoWakeup, Quiet,
        Unsent
<1> QED
  BY <1>1, <1>2, <1>3, <1>4, <1>5, <1>6 DEF Next, Rput, Tmout

\* A process that waits will be woken once, by the answer in sd_iocblk.
LEMMA AsleepKept == IInv /\ [Next]_vars => (~rang /\ GaveUp = {} => Asleep)'
<1> SUFFICES ASSUME IInv, [Next]_vars, ~rang', GaveUp' = {} PROVE Asleep'
  OBVIOUS
<1>0. ~rang /\ GaveUp = {} /\ Quiet /\ Rested /\ Asleep /\ Woken /\ Served /\ OthersGone /\ HeadIsBlk /\ AllGone /\ Answers /\ Locked /\ HasErr /\ Unsent /\ Current
  BY PastKept DEF IInv, Exclusive, Numbered, OneAnswer, WakeupsMatch
<1>d. /\ DOMAIN pc = Proc /\ DOMAIN mioc = Proc /\ DOMAIN err = Proc
      /\ DOMAIN at = Msg /\ DOMAIN ended = Msg /\ DOMAIN ioc_id = Msg
  BY DEF IInv, TypeOK
<1>t. /\ sd_iocseq \in Nat /\ sent \in Nat /\ MaxSend \in Nat /\ sd_iocseq <= sent
      /\ sent <= MaxSend /\ \A i : i \in Msg <=> i \in Nat /\ i >= 1 /\ i <= MaxSend
      /\ sd_iocblk \in Nat /\ NoMsg = 0 /\ \A p \in Proc : mioc[p] \in Nat
  BY IoctlAssumption DEF IInv, TypeOK, Msg, NoMsg
<1>1. ASSUME NEW p \in Proc, Process(p) PROVE Asleep'
  <2>a. Alone(p)
    BY <1>1, ProcessAlone
  <2>1. CASE SendIoctl(p)
    BY <1>0, <1>d, <1>t, <2>a, <2>1 DEF Alone, SendIoctl, Putnext, Goto, Move,
        Asleep, Rested, Served, Locked, Idle, NoWakeup, Quiet, OthersGone,
        Unsent, head, msgs, timer, proc
  <2>2. CASE SendIocdata(p)
    BY <1>0, <1>d, <1>t, <2>a, <2>2 DEF Alone, SendIocdata, Putnext, Goto,
        Move, Asleep, Rested, Served, Locked, Idle, NoWakeup, Quiet,
        OthersGone, Unsent, head, msgs, timer, proc
  <2>3. CASE CopyFailed(p)
    BY <1>0, <1>d, <1>t, <2>a, <2>3 DEF Alone, CopyFailed, Rtn, Goto, Asleep,
        Rested, Served, Locked, Idle, NoWakeup, Quiet, OthersGone, Unsent,
        head, msgs, timer, proc
  <2>4. CASE WaitError(p)
    BY <1>0, <1>d, <1>t, <2>a, <2>4 DEF Alone, WaitError, Goto, Asleep,
        Rested, Served, Locked, Idle, NoWakeup, Quiet, OthersGone, Unsent,
        head, msgs, timer, proc
  <2>5. CASE WaitStart(p)
    BY <1>0, <1>d, <1>t, <2>a, <2>5 DEF Alone, WaitStart, Goto, Asleep,
        Rested, Served, Locked, Idle, NoWakeup, Quiet, OthersGone, Unsent,
        head, msgs, timer, proc
  <2>6. CASE SleepOver(p)
    BY <1>0, <1>d, <1>t, <2>a, <2>6 DEF Alone, SleepOver, DownPasses, Goto,
        Asleep, Rested, Served, Locked, Idle, NoWakeup, Quiet, OthersGone,
        Unsent, head, msgs, timer, proc
  <2>7. CASE Interrupted(p)
    BY <1>0, <1>d, <1>t, <2>a, <2>7 DEF Alone, Interrupted, DownPasses,
        Untmout, Goto, Asleep, Rested, Served, Locked, Idle, NoWakeup, Quiet,
        OthersGone, Unsent, head, msgs, timer, proc
  <2>8. CASE TimedOut(p)
    BY <1>0, <1>d, <1>t, <2>a, <2>8 DEF Alone, TimedOut, Goto, Asleep, Rested,
        Served, Locked, Idle, NoWakeup, Quiet, OthersGone, Unsent, head, msgs,
        timer, proc
  <2>9. CASE GotMsg(p)
    BY <1>0, <1>d, <1>t, <2>a, <2>9 DEF Alone, GotMsg, Goto, Asleep, Rested,
        Served, Locked, Idle, NoWakeup, Quiet, OthersGone, Unsent, head, msgs,
        timer, proc
  <2>10. CASE CancelTimer(p)
    BY <1>0, <1>d, <1>t, <2>a, <2>10 DEF Alone, CancelTimer, Untmout, Goto,
        Asleep, Rested, Served, Locked, Idle, NoWakeup, Quiet, OthersGone,
        Unsent, head, msgs, timer, proc
  <2>11. CASE NoAnswer(p)
    BY <1>0, <1>d, <1>t, <2>a, <2>11 DEF Alone, NoAnswer, Rtn, Errno, Goto,
        Asleep, Rested, Served, Locked, Idle, NoWakeup, Quiet, OthersGone,
        Unsent, head, msgs, timer, proc
  <2>12. CASE ReadIocblk(p)
    BY <1>0, <1>d, <1>t, <2>a, <2>12 DEF Alone, ReadIocblk, Goto, Asleep,
        Rested, Served, Locked, Idle, NoWakeup, Quiet, OthersGone, Unsent,
        head, msgs, timer, proc
  <2>13. CASE ClearIocblk(p)
    BY <1>0, <1>d, <1>t, <2>a, <2>13 DEF Alone, ClearIocblk, IocblkCleared,
        Move, Goto, Asleep, Rested, Served, Locked, Idle, NoWakeup, Quiet,
        OthersGone, Unsent, head, msgs, timer, proc
  <2>14. CASE Answered(p)
    BY <1>0, <1>d, <1>t, <2>a, <2>14 DEF Alone, Answered, Rtn, Goto, Asleep,
        Rested, Served, Locked, Idle, NoWakeup, Quiet, OthersGone, Unsent,
        head, msgs, timer, proc
  <2>15. CASE Copy(p)
    BY <1>0, <1>d, <1>t, <2>a, <2>15 DEF Alone, Copy, Goto, Asleep, Rested,
        Served, Locked, Idle, NoWakeup, Quiet, OthersGone, Unsent, head, msgs,
        timer, proc
  <2> QED
    BY <1>1, <2>1, <2>2, <2>3, <2>4, <2>5, <2>6, <2>7, <2>8, <2>9, <2>10,
        <2>11, <2>12, <2>13, <2>14, <2>15 DEF Process
<1>2. ASSUME NEW n \in Msg, RputTest(n) PROVE Asleep'
  BY <1>0, <1>d, <1>t, <1>2 DEF RputTest, Unwanted, bad_ioc_seq, Move, Asleep,
      Rested, Served, Locked, Idle, NoWakeup, Quiet, OthersGone, Unsent, head,
      msgs, timer, proc
<1>3. ASSUME NEW n \in Msg, RputStore(n) PROVE Asleep'
  BY <1>0, <1>d, <1>t, <1>3 DEF RputStore, Move, Asleep, Rested, Served,
      Locked, Idle, NoWakeup, Quiet, OthersGone, Unsent, head, msgs, timer,
      proc
<1>4. ASSUME NEW n \in Msg, RputWake(n) PROVE Asleep'
  BY <1>0, <1>d, <1>t, <1>4 DEF RputWake, Wakes, Asleep, Rested, Served,
      Locked, Idle, NoWakeup, Quiet, OthersGone, Unsent, head, msgs, timer,
      proc
<1>5. ASSUME NEW n \in Msg, TmoutWake(n) PROVE Asleep'
  BY <1>0, <1>d, <1>t, <1>5 DEF TmoutWake, Wakes, Asleep, Rested, Served,
      Locked, Idle, NoWakeup, Quiet, OthersGone, Unsent, head, msgs, timer,
      proc
<1>6. CASE StreamErrorWake
  BY <1>0, <1>d, <1>t, <1>6 DEF StreamErrorWake, Wakes, Asleep, Rested,
      Served, Locked, Idle, NoWakeup, Quiet, OthersGone, Unsent, head, msgs,
      timer, proc
<1>7. CASE (\E n \in Msg : TimerRuns(n) \/ DoTmout(n)) \/ StreamError \/
      UNCHANGED vars
  <2>1. UNCHANGED <<pc, waking, sd_wiocing, sent, at>>
    BY <1>7 DEF TimerRuns, DoTmout, Rings, StreamError, vars, head, msgs,
        timer, proc
  <2> QED
    BY <1>0, <2>1 DEF Asleep, Rested, Served, Locked, Idle, NoWakeup, Quiet,
        OthersGone, Unsent
<1> QED
  BY <1>1, <1>2, <1>3, <1>4, <1>5, <1>6, <1>7 DEF Next, Rput, Tmout

\* A process that was woken has the answer, and no wakeup is left over.
LEMMA WokenKept == IInv /\ [Next]_vars => (~rang /\ GaveUp = {} => Woken)'
<1> SUFFICES ASSUME IInv, [Next]_vars, ~rang', GaveUp' = {} PROVE Woken'
  OBVIOUS
<1>0. ~rang /\ GaveUp = {} /\ Quiet /\ Rested /\ Asleep /\ Woken /\ Served /\ OthersGone /\ HeadIsBlk /\ AllGone /\ Answers /\ Locked /\ HasErr /\ Unsent /\ Current
  BY PastKept DEF IInv, Exclusive, Numbered, OneAnswer, WakeupsMatch
<1>d. /\ DOMAIN pc = Proc /\ DOMAIN mioc = Proc /\ DOMAIN err = Proc
      /\ DOMAIN at = Msg /\ DOMAIN ended = Msg /\ DOMAIN ioc_id = Msg
  BY DEF IInv, TypeOK
<1>t. /\ sd_iocseq \in Nat /\ sent \in Nat /\ MaxSend \in Nat /\ sd_iocseq <= sent
      /\ sent <= MaxSend /\ \A i : i \in Msg <=> i \in Nat /\ i >= 1 /\ i <= MaxSend
      /\ sd_iocblk \in Nat /\ NoMsg = 0 /\ \A p \in Proc : mioc[p] \in Nat
  BY IoctlAssumption DEF IInv, TypeOK, Msg, NoMsg
<1>1. ASSUME NEW p \in Proc, Process(p) PROVE Woken'
  <2>a. Alone(p)
    BY <1>1, ProcessAlone
  <2>1. CASE SendIoctl(p)
    BY <1>0, <1>d, <1>t, <2>a, <2>1 DEF Alone, SendIoctl, Putnext, Goto, Move,
        Woken, Asleep, NoWakeup, Quiet, OthersGone, Unsent, HasErr, head,
        msgs, timer, proc
  <2>2. CASE SendIocdata(p)
    BY <1>0, <1>d, <1>t, <2>a, <2>2 DEF Alone, SendIocdata, Putnext, Goto,
        Move, Woken, Asleep, NoWakeup, Quiet, OthersGone, Unsent, HasErr,
        head, msgs, timer, proc
  <2>3. CASE CopyFailed(p)
    BY <1>0, <1>d, <1>t, <2>a, <2>3 DEF Alone, CopyFailed, Rtn, Goto, Woken,
        Asleep, NoWakeup, Quiet, OthersGone, Unsent, HasErr, head, msgs,
        timer, proc
  <2>4. CASE WaitError(p)
    BY <1>0, <1>d, <1>t, <2>a, <2>4 DEF Alone, WaitError, Goto, Woken, Asleep,
        NoWakeup, Quiet, OthersGone, Unsent, HasErr, head, msgs, timer, proc
  <2>5. CASE WaitStart(p)
    BY <1>0, <1>d, <1>t, <2>a, <2>5 DEF Alone, WaitStart, Goto, Woken, Asleep,
        NoWakeup, Quiet, OthersGone, Unsent, HasErr, head, msgs, timer, proc
  <2>6. CASE SleepOver(p)
    BY <1>0, <1>d, <1>t, <2>a, <2>6 DEF Alone, SleepOver, DownPasses, Goto,
        Woken, Asleep, NoWakeup, Quiet, OthersGone, Unsent, HasErr, head,
        msgs, timer, proc
  <2>7. CASE Interrupted(p)
    BY <1>0, <1>d, <1>t, <2>a, <2>7 DEF Alone, Interrupted, DownPasses,
        Untmout, Goto, Woken, Asleep, NoWakeup, Quiet, OthersGone, Unsent,
        HasErr, head, msgs, timer, proc
  <2>8. CASE TimedOut(p)
    BY <1>0, <1>d, <1>t, <2>a, <2>8 DEF Alone, TimedOut, Goto, Woken, Asleep,
        NoWakeup, Quiet, OthersGone, Unsent, HasErr, head, msgs, timer, proc
  <2>9. CASE GotMsg(p)
    BY <1>0, <1>d, <1>t, <2>a, <2>9 DEF Alone, GotMsg, Goto, Woken, Asleep,
        NoWakeup, Quiet, OthersGone, Unsent, HasErr, head, msgs, timer, proc
  <2>10. CASE CancelTimer(p)
    BY <1>0, <1>d, <1>t, <2>a, <2>10 DEF Alone, CancelTimer, Untmout, Goto,
        Woken, Asleep, NoWakeup, Quiet, OthersGone, Unsent, HasErr, head,
        msgs, timer, proc
  <2>11. CASE NoAnswer(p)
    BY <1>0, <1>d, <1>t, <2>a, <2>11 DEF Alone, NoAnswer, Rtn, Errno, Goto,
        Woken, Asleep, NoWakeup, Quiet, OthersGone, Unsent, HasErr, head,
        msgs, timer, proc
  <2>12. CASE ReadIocblk(p)
    BY <1>0, <1>d, <1>t, <2>a, <2>12 DEF Alone, ReadIocblk, Goto, Woken,
        Asleep, NoWakeup, Quiet, OthersGone, Unsent, HasErr, head, msgs,
        timer, proc
  <2>13. CASE ClearIocblk(p)
    BY <1>0, <1>d, <1>t, <2>a, <2>13 DEF Alone, ClearIocblk, IocblkCleared,
        Move, Goto, Woken, Asleep, NoWakeup, Quiet, OthersGone, Unsent,
        HasErr, head, msgs, timer, proc
  <2>14. CASE Answered(p)
    BY <1>0, <1>d, <1>t, <2>a, <2>14 DEF Alone, Answered, Rtn, Goto, Woken,
        Asleep, NoWakeup, Quiet, OthersGone, Unsent, HasErr, head, msgs,
        timer, proc
  <2>15. CASE Copy(p)
    BY <1>0, <1>d, <1>t, <2>a, <2>15 DEF Alone, Copy, Goto, Woken, Asleep,
        NoWakeup, Quiet, OthersGone, Unsent, HasErr, head, msgs, timer, proc
  <2> QED
    BY <1>1, <2>1, <2>2, <2>3, <2>4, <2>5, <2>6, <2>7, <2>8, <2>9, <2>10,
        <2>11, <2>12, <2>13, <2>14, <2>15 DEF Process
<1>2. ASSUME NEW n \in Msg, RputTest(n) PROVE Woken'
  BY <1>0, <1>d, <1>t, <1>2 DEF RputTest, Unwanted, bad_ioc_seq, Move, Woken,
      Asleep, NoWakeup, Quiet, OthersGone, Unsent, HasErr, head, msgs, timer,
      proc
<1>3. ASSUME NEW n \in Msg, RputStore(n) PROVE Woken'
  BY <1>0, <1>d, <1>t, <1>3 DEF RputStore, Move, Woken, Asleep, NoWakeup,
      Quiet, OthersGone, Unsent, HasErr, head, msgs, timer, proc
<1>4. ASSUME NEW n \in Msg, RputWake(n) PROVE Woken'
  BY <1>0, <1>d, <1>t, <1>4 DEF RputWake, Wakes, Woken, Asleep, NoWakeup,
      Quiet, OthersGone, Unsent, HasErr, head, msgs, timer, proc
<1>5. ASSUME NEW n \in Msg, TmoutWake(n) PROVE Woken'
  BY <1>0, <1>d, <1>t, <1>5 DEF TmoutWake, Wakes, Woken, Asleep, NoWakeup,
      Quiet, OthersGone, Unsent, HasErr, head, msgs, timer, proc
<1>6. CASE StreamErrorWake
  BY <1>0, <1>d, <1>t, <1>6 DEF StreamErrorWake, Wakes, Woken, Asleep,
      NoWakeup, Quiet, OthersGone, Unsent, HasErr, head, msgs, timer, proc
<1>7. CASE (\E n \in Msg : TimerRuns(n) \/ DoTmout(n)) \/ StreamError \/
      UNCHANGED vars
  <2>1. UNCHANGED <<pc, err, waking, sd_wiocing, sent, at>>
    BY <1>7 DEF TimerRuns, DoTmout, Rings, StreamError, vars, head, msgs,
        timer, proc
  <2> QED
    BY <1>0, <2>1 DEF Woken, Asleep, NoWakeup, Quiet, OthersGone, Unsent,
        HasErr
<1> QED
  BY <1>1, <1>2, <1>3, <1>4, <1>5, <1>6, <1>7 DEF Next, Rput, Tmout

\* Nor while it works on the answer.
LEMMA ServedKept == IInv /\ [Next]_vars => (~rang /\ GaveUp = {} => Served)'
<1> SUFFICES ASSUME IInv, [Next]_vars, ~rang', GaveUp' = {} PROVE Served'
  OBVIOUS
<1>0. ~rang /\ GaveUp = {} /\ Quiet /\ Rested /\ Asleep /\ Woken /\ Served /\ OthersGone /\ HeadIsBlk /\ AllGone /\ Answers /\ Locked /\ HasErr /\ Unsent /\ Current
  BY PastKept DEF IInv, Exclusive, Numbered, OneAnswer, WakeupsMatch
<1>d. /\ DOMAIN pc = Proc /\ DOMAIN mioc = Proc /\ DOMAIN err = Proc
      /\ DOMAIN at = Msg /\ DOMAIN ended = Msg /\ DOMAIN ioc_id = Msg
  BY DEF IInv, TypeOK
<1>t. /\ sd_iocseq \in Nat /\ sent \in Nat /\ MaxSend \in Nat /\ sd_iocseq <= sent
      /\ sent <= MaxSend /\ \A i : i \in Msg <=> i \in Nat /\ i >= 1 /\ i <= MaxSend
      /\ sd_iocblk \in Nat /\ NoMsg = 0 /\ \A p \in Proc : mioc[p] \in Nat
  BY IoctlAssumption DEF IInv, TypeOK, Msg, NoMsg
<1>1. ASSUME NEW p \in Proc, Process(p) PROVE Served'
  <2>a. Alone(p)
    BY <1>1, ProcessAlone
  <2>1. CASE SendIoctl(p)
    BY <1>0, <1>d, <1>t, <2>a, <2>1 DEF Alone, SendIoctl, Putnext, Goto, Move,
        Served, Woken, NoWakeup, Quiet, Answers, OthersGone, Unsent, head,
        msgs, timer, proc
  <2>2. CASE SendIocdata(p)
    BY <1>0, <1>d, <1>t, <2>a, <2>2 DEF Alone, SendIocdata, Putnext, Goto,
        Move, Served, Woken, NoWakeup, Quiet, Answers, OthersGone, Unsent,
        head, msgs, timer, proc
  <2>3. CASE CopyFailed(p)
    BY <1>0, <1>d, <1>t, <2>a, <2>3 DEF Alone, CopyFailed, Rtn, Goto, Served,
        Woken, NoWakeup, Quiet, Answers, OthersGone, Unsent, head, msgs,
        timer, proc
  <2>4. CASE WaitError(p)
    BY <1>0, <1>d, <1>t, <2>a, <2>4 DEF Alone, WaitError, Goto, Served, Woken,
        NoWakeup, Quiet, Answers, OthersGone, Unsent, head, msgs, timer, proc
  <2>5. CASE WaitStart(p)
    BY <1>0, <1>d, <1>t, <2>a, <2>5 DEF Alone, WaitStart, Goto, Served, Woken,
        NoWakeup, Quiet, Answers, OthersGone, Unsent, head, msgs, timer, proc
  <2>6. CASE SleepOver(p)
    BY <1>0, <1>d, <1>t, <2>a, <2>6 DEF Alone, SleepOver, DownPasses, Goto,
        Served, Woken, NoWakeup, Quiet, Answers, OthersGone, Unsent, head,
        msgs, timer, proc
  <2>7. CASE Interrupted(p)
    BY <1>0, <1>d, <1>t, <2>a, <2>7 DEF Alone, Interrupted, DownPasses,
        Untmout, Goto, Served, Woken, NoWakeup, Quiet, Answers, OthersGone,
        Unsent, head, msgs, timer, proc
  <2>8. CASE TimedOut(p)
    BY <1>0, <1>d, <1>t, <2>a, <2>8 DEF Alone, TimedOut, Goto, Served, Woken,
        NoWakeup, Quiet, Answers, OthersGone, Unsent, head, msgs, timer, proc
  <2>9. CASE GotMsg(p)
    BY <1>0, <1>d, <1>t, <2>a, <2>9 DEF Alone, GotMsg, Goto, Served, Woken,
        NoWakeup, Quiet, Answers, OthersGone, Unsent, head, msgs, timer, proc
  <2>10. CASE CancelTimer(p)
    BY <1>0, <1>d, <1>t, <2>a, <2>10 DEF Alone, CancelTimer, Untmout, Goto,
        Served, Woken, NoWakeup, Quiet, Answers, OthersGone, Unsent, head,
        msgs, timer, proc
  <2>11. CASE NoAnswer(p)
    BY <1>0, <1>d, <1>t, <2>a, <2>11 DEF Alone, NoAnswer, Rtn, Errno, Goto,
        Served, Woken, NoWakeup, Quiet, Answers, OthersGone, Unsent, head,
        msgs, timer, proc
  <2>12. CASE ReadIocblk(p)
    BY <1>0, <1>d, <1>t, <2>a, <2>12 DEF Alone, ReadIocblk, Goto, Served,
        Woken, NoWakeup, Quiet, Answers, OthersGone, Unsent, head, msgs,
        timer, proc
  <2>13. CASE ClearIocblk(p)
    BY <1>0, <1>d, <1>t, <2>a, <2>13 DEF Alone, ClearIocblk, IocblkCleared,
        Move, Goto, Served, Woken, NoWakeup, Quiet, Answers, OthersGone,
        Unsent, head, msgs, timer, proc
  <2>14. CASE Answered(p)
    BY <1>0, <1>d, <1>t, <2>a, <2>14 DEF Alone, Answered, Rtn, Goto, Served,
        Woken, NoWakeup, Quiet, Answers, OthersGone, Unsent, head, msgs,
        timer, proc
  <2>15. CASE Copy(p)
    BY <1>0, <1>d, <1>t, <2>a, <2>15 DEF Alone, Copy, Goto, Served, Woken,
        NoWakeup, Quiet, Answers, OthersGone, Unsent, head, msgs, timer, proc
  <2> QED
    BY <1>1, <2>1, <2>2, <2>3, <2>4, <2>5, <2>6, <2>7, <2>8, <2>9, <2>10,
        <2>11, <2>12, <2>13, <2>14, <2>15 DEF Process
<1>2. ASSUME NEW n \in Msg, RputStore(n) PROVE Served'
  BY <1>0, <1>d, <1>t, <1>2 DEF RputStore, Move, Served, Woken, NoWakeup,
      Quiet, Answers, OthersGone, Unsent, head, msgs, timer, proc
<1>3. ASSUME NEW n \in Msg, RputWake(n) PROVE Served'
  BY <1>0, <1>d, <1>t, <1>3 DEF RputWake, Wakes, Served, Woken, NoWakeup,
      Quiet, Answers, OthersGone, Unsent, head, msgs, timer, proc
<1>4. ASSUME NEW n \in Msg, TmoutWake(n) PROVE Served'
  BY <1>0, <1>d, <1>t, <1>4 DEF TmoutWake, Wakes, Served, Woken, NoWakeup,
      Quiet, Answers, OthersGone, Unsent, head, msgs, timer, proc
<1>5. CASE StreamErrorWake
  BY <1>0, <1>d, <1>t, <1>5 DEF StreamErrorWake, Wakes, Served, Woken,
      NoWakeup, Quiet, Answers, OthersGone, Unsent, head, msgs, timer, proc
<1>6. CASE (\E n \in Msg : RputTest(n) \/ TimerRuns(n) \/ DoTmout(n)) \/
      StreamError \/ UNCHANGED vars
  <2>1. UNCHANGED <<pc, waking, sd_wiocing>>
    BY <1>6 DEF RputTest, Unwanted, bad_ioc_seq, Move, TimerRuns, DoTmout,
        Rings, StreamError, vars, head, msgs, timer, proc
  <2> QED
    BY <1>0, <2>1 DEF Served, Woken, NoWakeup, Quiet, Answers, OthersGone,
        Unsent
<1> QED
  BY <1>1, <1>2, <1>3, <1>4, <1>5, <1>6 DEF Next, Rput, Tmout

-----------------------------------------------------------------------------
(* Nothing is returned for nothing                                         *)

\* An ioctl that returns nothing had a wakeup meant for another.
LEMMA NothingKept == IInv /\ [Next]_vars => NothingFromNothing'
<1> SUFFICES ASSUME IInv, [Next]_vars PROVE NothingFromNothing'
  OBVIOUS
<1>0. NothingFromNothing /\ Current /\ Later /\ OneAnswer /\ WakeupsMatch /\ GaveUp \subseteq GaveUp' /\ (rang => rang')
  BY PastKept DEF IInv, Numbered
<1>d. /\ DOMAIN pc = Proc /\ DOMAIN mioc = Proc /\ DOMAIN err = Proc
      /\ DOMAIN at = Msg /\ DOMAIN ended = Msg /\ DOMAIN ioc_id = Msg
  BY DEF IInv, TypeOK
<1>t. /\ sd_iocseq \in Nat /\ sent \in Nat /\ MaxSend \in Nat /\ sd_iocseq <= sent
      /\ sent <= MaxSend /\ \A i : i \in Msg <=> i \in Nat /\ i >= 1 /\ i <= MaxSend
      /\ sd_iocblk \in Nat /\ NoMsg = 0 /\ \A p \in Proc : mioc[p] \in Nat
  BY IoctlAssumption DEF IInv, TypeOK, Msg, NoMsg
<1>1. ASSUME NEW p \in Proc, Process(p) PROVE NothingFromNothing'
  <2>a. Alone(p)
    BY <1>1, ProcessAlone
  <2>1. CASE CopyFailed(p)
    BY <1>0, <1>d, <1>t, <2>a, <2>1 DEF Alone, CopyFailed, Rtn, Goto,
        NothingFromNothing, GaveUp, head, msgs, timer, proc
  <2>2. CASE NoAnswer(p)
    <3> SUFFICES ASSUME NEW i \in Msg, ended'[i] = "nothing", ~rang',
                        ~\E j \in GaveUp' : j < i
                 PROVE  FALSE
      BY DEF NothingFromNothing
    <3>1. rang' = rang /\ ended' = [ended EXCEPT ![sd_iocseq] = Errno(p)]
          /\ pc[p] = "waited" /\ (err[p] \/ sd_iocblk = NoMsg)
      BY <2>2 DEF NoAnswer, Rtn, timer
    <3>2. i = sd_iocseq
      BY <1>0, <1>d, <3>1 DEF NothingFromNothing
    <3>3. Errno(p) = "nothing"
      BY <1>0, <1>d, <3>1, <3>2
    <3>4. ~err[p] /\ sd_iocblk = NoMsg
      BY <3>1, <3>3 DEF Errno
    <3>5. sd_iocseq \in Msg /\ ended[sd_iocseq] = "no"
      BY <1>0, <3>1 DEF Current
    <3>6. GaveUp = {}
      <4> SUFFICES ASSUME NEW j \in GaveUp PROVE FALSE
        OBVIOUS
      <4>1. j \in GaveUp' /\ j \in Msg /\ ended[j] # "no"
        BY <1>0 DEF GaveUp
      <4>2. ~(j < i)
        BY <4>1
      <4>3. j # sd_iocseq /\ ~(j > sd_iocseq)
        BY <1>0, <3>5, <4>1 DEF Later
      <4> QED
        BY <1>t, <3>2, <4>1, <4>2, <4>3
    <3>7. at[sent] = "head" /\ HeadIsBlk
      BY <1>0, <3>1, <3>4, <3>6 DEF WakeupsMatch, Woken, OneAnswer
    <3>8. sent \in Msg /\ sent # NoMsg
      BY <1>t, <3>5
    <3> QED
      BY <3>4, <3>7, <3>8 DEF HeadIsBlk
  <2>3. CASE Answered(p)
    BY <1>0, <1>d, <1>t, <2>a, <2>3 DEF Alone, Answered, Rtn, Goto,
        NothingFromNothing, GaveUp, head, msgs, timer, proc
  <2>4. CASE SendIoctl(p) \/ SendIocdata(p) \/ WaitError(p) \/ WaitStart(p) \/
          SleepOver(p) \/ Interrupted(p) \/ TimedOut(p) \/ GotMsg(p) \/
          CancelTimer(p) \/ ReadIocblk(p) \/ ClearIocblk(p) \/ Copy(p)
    <3>1. UNCHANGED <<ended, rang>>
      BY <2>4 DEF SendIoctl, Putnext, Goto, Move, SendIocdata, WaitError,
          WaitStart, SleepOver, DownPasses, Interrupted, Untmout, TimedOut,
          GotMsg, CancelTimer, ReadIocblk, ClearIocblk, IocblkCleared, Copy,
          head, msgs, timer, proc
    <3> QED
      BY <1>0, <3>1 DEF NothingFromNothing, GaveUp
  <2> QED
    BY <1>1, <2>1, <2>2, <2>3, <2>4 DEF Process
<1>2. ASSUME NEW n \in Msg, DoTmout(n) PROVE NothingFromNothing'
  BY <1>0, <1>d, <1>t, <1>2 DEF DoTmout, Rings, NothingFromNothing, GaveUp,
      head, msgs, timer, proc
<1>3. CASE StreamError
  BY <1>0, <1>d, <1>t, <1>3 DEF StreamError, NothingFromNothing, GaveUp, head,
      msgs, timer, proc
<1>4. CASE (\E n \in Msg : RputTest(n) \/ RputStore(n) \/ RputWake(n) \/
      TimerRuns(n) \/ TmoutWake(n)) \/ StreamErrorWake \/ UNCHANGED vars
  <2>1. UNCHANGED <<ended, rang>>
    BY <1>4 DEF RputTest, Unwanted, bad_ioc_seq, Move, RputStore, RputWake,
        Wakes, TimerRuns, TmoutWake, StreamErrorWake, vars, head, msgs, timer,
        proc
  <2> QED
    BY <1>0, <2>1 DEF NothingFromNothing, GaveUp
<1> QED
  BY <1>1, <1>2, <1>3, <1>4 DEF Next, Rput, Tmout

-----------------------------------------------------------------------------
(* The theorems                                                            *)

\* The invariant holds at first, ...
LEMMA InitHolds == Init => IInv
<1> SUFFICES ASSUME Init PROVE IInv
  OBVIOUS
<1>1. TypeOK
  <2>1. 0 \in 0 .. MaxSend /\ 0 \in 0 .. MaxTrouble /\ 0 \in 0 .. 0
    BY IoctlAssumption
  <2>2. ioc_id \in [Msg -> 0 .. MaxSend]
    BY <2>1 DEF Init
  <2> QED
    BY <2>1, <2>2 DEF Init, TypeOK, NoMsg
<1>2. Exclusive
  BY DEF Init, Exclusive, Locked, Idle, OnlyOne, HasMioc, HasErr, SomeWait, NoMsg
<1>3. Numbered
  BY IoctlAssumption
     DEF Init, Numbered, Current, Later, Unsent, Come, Msg, NoMsg
<1>4. OneAnswer
  BY IoctlAssumption
     DEF Init, OneAnswer, OthersGone, HeadIsLast, HeadIsBlk, AllGone, Clears, Answers,
         Msg, NoMsg
<1>5. NothingFromNothing
  BY DEF Init, NothingFromNothing
<1>6. WakeupsMatch
  BY DEF Init, WakeupsMatch, Quiet, Rested, Asleep, Woken, Served, NoWakeup
<1> QED
  BY <1>1, <1>2, <1>3, <1>4, <1>5, <1>6 DEF IInv

\* ... and every step keeps it.
LEMMA IInvKept == IInv /\ [Next]_vars => IInv'
<1> SUFFICES ASSUME IInv, [Next]_vars PROVE IInv'
  OBVIOUS
<1>1. TypeOK'
  BY TypeKept
<1>2. Exclusive'
  BY LockedKept, OnlyOneKept, HasMiocKept, HasErrKept, SomeWaitKept DEF Exclusive
<1>3. Numbered'
  BY CurrentKept, LaterKept, UnsentKept, ComeKept DEF Numbered
<1>4. OneAnswer'
  BY OthersGoneKept, HeadIsLastKept, HeadIsBlkKept, AllGoneKept, ClearsKept, AnswersKept
     DEF OneAnswer
<1>5. NothingFromNothing'
  BY NothingKept
<1>6. WakeupsMatch'
  BY QuietKept, RestedKept, AsleepKept, WokenKept, ServedKept DEF WakeupsMatch
<1> QED
  BY <1>1, <1>2, <1>3, <1>4, <1>5, <1>6 DEF IInv

\* The invariant of the transaction holds in every state.
LEMMA IInvAlways == Spec => []IInv
<1> QED
  BY InitHolds, IInvKept, PTL DEF Spec

\* An ioctl returns the answer of the last message of its own dialogue, as long
\* as no ioctl has given up; and it returns 0 without an answer only through a
\* wakeup that was meant for another.
THEOREM AnswersAreOwn == Spec => []AnswersMatch
<1>1. IInv => AnswersMatch
  BY DEF IInv, AnswersMatch, OwnAnswer, OneAnswer, Answers
<1> QED
  BY <1>1, IInvAlways, PTL

\* An answer that is on its way when its ioctl returns is freed by lis_strrput
\* when it comes, whatever went wrong before.
THEOREM LateAnswersFreed == Spec => LateFreed
<1> DEFINE Freed == \A n \in 1 .. sent :
              at[n] = "down" /\ ended[ioc_id[n]] # "no" => at'[n] \in {"down", "gone"}
<1>1. IInv /\ [Next]_vars => Freed
  <2> SUFFICES ASSUME IInv, [Next]_vars, NEW n \in 1 .. sent,
                      at[n] = "down", ended[ioc_id[n]] # "no"
               PROVE  at'[n] \in {"down", "gone"}
    OBVIOUS
  <2>0. TypeOK /\ SomeWait /\ Current /\ Unsent /\ HasMioc
    BY DEF IInv, Exclusive, Numbered
  <2>1. n \in Msg /\ n # sent + 1 /\ DOMAIN at = Msg
    BY <2>0, IoctlAssumption DEF TypeOK, Msg
  <2>2. ASSUME NEW p \in Proc, Process(p) PROVE at'[n] \in {"down", "gone"}
    <3>1. CASE SendIoctl(p) \/ SendIocdata(p)
      BY <2>1, <3>1 DEF SendIoctl, SendIocdata, Putnext, Move
    <3>2. CASE ClearIocblk(p)
      BY <2>1, <3>2 DEF ClearIocblk, Move
    <3> QED
      BY <2>2, <3>1, <3>2
         DEF Process, CopyFailed, WaitError, WaitStart, SleepOver, Interrupted, TimedOut,
             GotMsg, CancelTimer, NoAnswer, ReadIocblk, Answered, Copy, msgs
  <2>3. ASSUME NEW m \in Msg, RputTest(m) PROVE at'[n] \in {"down", "gone"}
    <3>1. IOCWAIT => bad_ioc_seq(n)
      BY <2>0 DEF SomeWait, Waiting, Current, bad_ioc_seq
    <3>2. Unwanted(n)
      BY <3>1 DEF Unwanted
    <3> QED
      BY <2>1, <2>3, <3>2 DEF RputTest, Move
  <2>4. ASSUME NEW m \in Msg, RputStore(m) PROVE at'[n] \in {"down", "gone"}
    BY <2>1, <2>4 DEF RputStore, Move
  <2>5. ASSUME NEW m \in Msg, RputWake(m) \/ Tmout(m) PROVE at'[n] \in {"down", "gone"}
    BY <2>5 DEF RputWake, Tmout, TimerRuns, DoTmout, TmoutWake, msgs
  <2>6. CASE StreamError \/ StreamErrorWake \/ UNCHANGED vars
    BY <2>6 DEF StreamError, StreamErrorWake, vars, msgs
  <2> QED
    BY <2>2, <2>3, <2>4, <2>5, <2>6 DEF Next, Rput
<1> QED
  BY <1>1, IInvAlways, PTL DEF Spec, LateFreed
=============================================================================
