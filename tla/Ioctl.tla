-------------------------------- MODULE Ioctl --------------------------------
(***************************************************************************)
(* The ioctl transaction of a stream head (head/head.c): lis_strdoioctl    *)
(* sends an M_IOCTL downstream and sleeps on sd_wiocing until the answer   *)
(* is left in sd_iocblk by lis_strrput, the timer runs, an M_ERROR comes   *)
(* or a signal arrives; an M_COPYIN or M_COPYOUT is answered with an       *)
(* M_IOCDATA and waited for in turn.                                       *)
(*                                                                         *)
(* The driver is external: its answer to a request arrives at any time or  *)
(* never.  Messages are numbered in the order they are sent; message n is  *)
(* a request until the driver turns it round, and the type it is given     *)
(* then is chosen when lis_strdoioctl looks at it.                         *)
(***************************************************************************)
EXTENDS Integers, FiniteSets

CONSTANTS
    Proc,              \* processes that issue ioctls on the stream
    Timed,             \* those of them whose ic_timout is not INFTIM
    MaxSend,           \* how many requests are sent downstream,
    MaxTrouble         \* how many M_ERRORs and signals arrive

ASSUME IoctlAssumption ==
    /\ Timed \subseteq Proc
    /\ MaxSend \in Nat /\ MaxTrouble \in Nat

Msg   == 1 .. MaxSend
NoMsg == 0

VARIABLES
    sd_wioc,           \* the lock of the ioctl transaction is free
    sd_wiocing,        \* the count of the semaphore slept on
    IOCWAIT, STIOCTMR, \* bits of sd_flag
    sd_error,          \* STRDERR and STWRERR
    sd_iocblk, sd_iocseq,
    sent, at, ioc_id, \* the messages: how many, where, their fields
    armed, due, ringing,       \* timers that run; lis_do_tmouts at their start,
                               \* and past the test of STIOCTMR; a timer is
                               \* named by the message whose answer it times
    waking,            \* messages whose lis_strrput is about to wake
    erring,            \* lis_stream_error has set the flags, not yet woken
    trouble,           \* how many M_ERRORs and signals have come
    pc, mioc, err,     \* per process: where it is, the message it holds,
                       \* err < 0
    ended,             \* how each ioctl ended
    rang               \* a timer has run out or an M_ERROR come, which wake
                       \* the sleeper too

head  == <<sd_iocblk, sd_iocseq, sd_error>>
msgs  == <<sent, at, ioc_id, waking>>
timer == <<armed, due, ringing, rang>>
proc  == <<pc, mioc, err>>
vars  == <<sd_wioc, sd_wiocing, IOCWAIT, STIOCTMR, head, msgs, timer, erring,
           trouble, proc, ended>>

Init ==
    /\ sd_wioc = TRUE /\ sd_wiocing = 0
    /\ IOCWAIT = FALSE /\ STIOCTMR = FALSE /\ sd_error = FALSE
    /\ sd_iocblk = NoMsg /\ sd_iocseq = 0
    /\ sent = 0 /\ at = [n \in Msg |-> "unsent"]
    /\ ioc_id = [n \in Msg |-> 0]
    /\ armed = {} /\ due = {} /\ ringing = {} /\ rang = FALSE
    /\ waking = {} /\ erring = FALSE /\ trouble = 0
    /\ pc = [p \in Proc |-> "idle"] /\ mioc = [p \in Proc |-> NoMsg]
    /\ err = [p \in Proc |-> FALSE]
    /\ ended = [i \in Msg |-> "no"]

Goto(p, l) == pc' = [pc EXCEPT ![p] = l]
Move(n, l) == at' = [at EXCEPT ![n] = l]

-----------------------------------------------------------------------------
(* The process                                                             *)

\* A message of the current transaction goes downstream.
Putnext(id) ==
    /\ sent < MaxSend /\ sent' = sent + 1
    /\ Move(sent + 1, "down")
    /\ ioc_id' = [ioc_id EXCEPT ![sent + 1] = id]
    /\ IOCWAIT' = TRUE

\* lis_strioctl takes the lock of the transaction and builds the M_IOCTL; a
\* request that cannot be built leaves no trace.
SendIoctl(p) ==
    /\ pc[p] = "idle" /\ sd_wioc
    /\ sd_wioc' = FALSE
    /\ sd_iocseq' = sd_iocseq + 1
    /\ Putnext(sd_iocseq + 1)
    /\ Goto(p, "wait")
    /\ UNCHANGED <<sd_wiocing, STIOCTMR, sd_error, sd_iocblk, waking, timer,
                   erring, trouble, mioc, err, ended>>

\* label again: the M_COPYIN or M_COPYOUT in hand goes back as an M_IOCDATA.
SendIocdata(p) ==
    /\ pc[p] = "again" /\ ~err[p]
    /\ Putnext(ioc_id[mioc[p]])
    /\ mioc' = [mioc EXCEPT ![p] = NoMsg]
    /\ Goto(p, "wait")
    /\ UNCHANGED <<sd_wioc, sd_wiocing, STIOCTMR, head, waking, timer,
                   erring, trouble, err, ended>>

\* The ioctl numbered sd_iocseq returns, and lis_strioctl unlocks.
Rtn(p, how) ==
    /\ ended' = [ended EXCEPT ![sd_iocseq] = how]
    /\ mioc' = [mioc EXCEPT ![p] = NoMsg]
    /\ err' = [err EXCEPT ![p] = FALSE]
    /\ sd_wioc' = TRUE
    /\ Goto(p, "idle")

\* A failed copy ends the ioctl; the driver gets no M_IOCDATA.
CopyFailed(p) ==
    /\ pc[p] = "again" /\ err[p]
    /\ Rtn(p, "answered")
    /\ UNCHANGED <<sd_wiocing, IOCWAIT, STIOCTMR, head, msgs, timer,
                   erring, trouble>>

-----------------------------------------------------------------------------
(* lis_wait_for_wiocing                                                    *)

\* ignore_errors is set for the link and unlink commands.  What is returned is
\* -sd_rerror, which is 0 when only STWRERR is set.
WaitError(p) ==
    /\ pc[p] = "wait" /\ sd_error
    /\ \E e \in BOOLEAN : err' = [err EXCEPT ![p] = e]
    /\ Goto(p, "waited")
    /\ UNCHANGED <<sd_wioc, sd_wiocing, IOCWAIT, STIOCTMR, head, msgs, timer,
                   erring, trouble, mioc, ended>>

WaitStart(p) ==
    /\ pc[p] = "wait"
    /\ STIOCTMR' = TRUE
    /\ armed' = IF p \in Timed THEN armed \cup {sent} ELSE armed
    /\ Goto(p, "sleep")
    /\ UNCHANGED <<sd_wioc, sd_wiocing, IOCWAIT, head, msgs, due, ringing, rang,
                   erring, trouble, mioc, err, ended>>

DownAlways == TRUE
DownPasses == sd_wiocing > 0

SleepOver(p) ==
    /\ pc[p] = "sleep" /\ DownPasses
    /\ sd_wiocing' = sd_wiocing - 1
    /\ Goto(p, "woken")
    /\ UNCHANGED <<sd_wioc, IOCWAIT, STIOCTMR, head, msgs, timer, erring, trouble,
                   mioc, err, ended>>

\* lis_untmout: a timer that has not run is taken back.
Untmout == armed' = armed \ {sent}

Interrupted(p) ==
    /\ pc[p] = "sleep" /\ ~DownPasses /\ trouble < MaxTrouble
    /\ trouble' = trouble + 1
    /\ Untmout /\ STIOCTMR' = FALSE
    /\ err' = [err EXCEPT ![p] = TRUE]
    /\ Goto(p, "waited")
    /\ UNCHANGED <<sd_wioc, sd_wiocing, IOCWAIT, head, msgs, due, ringing, rang,
                   erring, mioc, ended>>

TimedOut(p) ==
    /\ pc[p] = "woken" /\ ~STIOCTMR
    /\ err' = [err EXCEPT ![p] = TRUE]
    /\ Goto(p, "waited")
    /\ UNCHANGED <<sd_wioc, sd_wiocing, IOCWAIT, STIOCTMR, head, msgs, timer,
                   erring, trouble, mioc, ended>>

GotMsg(p) ==
    /\ pc[p] = "woken" /\ STIOCTMR
    /\ Goto(p, "cancel")
    /\ UNCHANGED <<sd_wioc, sd_wiocing, IOCWAIT, STIOCTMR, head, msgs, timer,
                   erring, trouble, mioc, err, ended>>

CancelTimer(p) ==
    /\ pc[p] = "cancel"
    /\ Untmout /\ STIOCTMR' = FALSE
    /\ Goto(p, "waited")
    /\ UNCHANGED <<sd_wioc, sd_wiocing, IOCWAIT, head, msgs, due, ringing, rang,
                   erring, trouble, mioc, err, ended>>

-----------------------------------------------------------------------------
(* lis_strdoioctl, after the wait                                          *)

\* No answer: the error of the stream is returned if it has one, else that of
\* the wait, which may be 0.
Errno(p) == IF sd_error \/ err[p] THEN "gave_up" ELSE "nothing"

NoAnswer(p) ==
    /\ pc[p] = "waited" /\ (err[p] \/ sd_iocblk = NoMsg)
    /\ IOCWAIT' = FALSE
    /\ Rtn(p, Errno(p))
    /\ UNCHANGED <<sd_wiocing, STIOCTMR, head, msgs, timer, erring,
                   trouble>>

ReadIocblk(p) ==
    /\ pc[p] = "waited" /\ ~err[p] /\ sd_iocblk # NoMsg
    /\ IOCWAIT' = FALSE
    /\ mioc' = [mioc EXCEPT ![p] = sd_iocblk]
    /\ Goto(p, "clear")
    /\ UNCHANGED <<sd_wioc, sd_wiocing, STIOCTMR, head, msgs, timer, erring,
                   trouble, err, ended>>

IocblkKept    == sd_iocblk
IocblkCleared == NoMsg

ClearIocblk(p) ==
    /\ pc[p] = "clear"
    /\ sd_iocblk' = IocblkCleared
    /\ Move(mioc[p], "gone")
    /\ Goto(p, "answer")
    /\ UNCHANGED <<sd_wioc, sd_wiocing, IOCWAIT, STIOCTMR, sd_iocseq, sd_error,
                   sent, ioc_id, waking, timer, erring, trouble, mioc, err, ended>>

\* What the answer is shows here: an M_IOCACK or M_IOCNAK ends the ioctl, ...
Answered(p) ==
    /\ pc[p] = "answer"
    /\ Rtn(p, "answered")
    /\ UNCHANGED <<sd_wiocing, IOCWAIT, STIOCTMR, head, msgs, timer,
                   erring, trouble>>

\* ... an M_COPYIN or M_COPYOUT calls for a copy, which may fail; that the
\* allocation for it failed is told to the driver.
Copy(p) ==
    /\ pc[p] = "answer"
    /\ \E e \in BOOLEAN : err' = [err EXCEPT ![p] = e]
    /\ Goto(p, "again")
    /\ UNCHANGED <<sd_wioc, sd_wiocing, IOCWAIT, STIOCTMR, head, msgs, timer,
                   erring, trouble, mioc, ended>>

-----------------------------------------------------------------------------
(* The driver, and lis_strrput                                             *)

NoBadSeq(n)    == FALSE
bad_ioc_seq(n) == ioc_id[n] # sd_iocseq

Unwanted(n) == ~IOCWAIT \/ sd_iocblk # NoMsg \/ bad_ioc_seq(n)

\* The answer of the driver arrives; it is tested under the isr lock of the
\* queue ...
RputTest(n) ==
    /\ at[n] = "down"
    /\ Move(n, IF Unwanted(n) THEN "gone" ELSE "wanted")
    /\ UNCHANGED <<sd_wioc, sd_wiocing, IOCWAIT, STIOCTMR, head, sent, ioc_id, waking, timer, erring, trouble, proc, ended>>

\* ... and left after it; an answer that was there is lost.
RputStore(n) ==
    /\ at[n] = "wanted"
    /\ sd_iocblk' = n
    /\ Move(n, "head") /\ waking' = waking \cup {n}
    /\ UNCHANGED <<sd_wioc, sd_wiocing, IOCWAIT, STIOCTMR, sd_iocseq, sd_error,
                   sent, ioc_id, timer, erring, trouble, proc, ended>>

WakesNobody(count) == count
Wakes(count)       == count + 1

\* lis_wake_up_wiocing.
RputWake(n) ==
    /\ n \in waking
    /\ waking' = waking \ {n}
    /\ sd_wiocing' = Wakes(sd_wiocing)
    /\ UNCHANGED <<sd_wioc, IOCWAIT, STIOCTMR, head, sent, at, ioc_id,
                   timer, erring, trouble, proc, ended>>

-----------------------------------------------------------------------------
(* lis_do_tmout, and lis_stream_error                                      *)

TimerRuns(n) ==
    /\ n \in armed
    /\ armed' = armed \ {n} /\ due' = due \cup {n}
    /\ UNCHANGED <<sd_wioc, sd_wiocing, IOCWAIT, STIOCTMR, head, msgs, ringing,
                   rang, erring, trouble, proc, ended>>

Rings      == STIOCTMR

DoTmout(n) ==
    /\ n \in due
    /\ due' = due \ {n}
    /\ ringing' = IF Rings THEN ringing \cup {n} ELSE ringing
    /\ rang' = (rang \/ Rings)
    /\ STIOCTMR' = FALSE
    /\ UNCHANGED <<sd_wioc, sd_wiocing, IOCWAIT, head, msgs, armed, erring, trouble,
                   proc, ended>>

TmoutWake(n) ==
    /\ n \in ringing
    /\ ringing' = ringing \ {n}
    /\ sd_wiocing' = IF IOCWAIT THEN Wakes(sd_wiocing) ELSE sd_wiocing
    /\ UNCHANGED <<sd_wioc, IOCWAIT, STIOCTMR, head, msgs, armed, due, rang,
                   erring, trouble, proc, ended>>

\* An M_ERROR sets or resets the errors of the stream ...
StreamError ==
    /\ ~erring /\ trouble < MaxTrouble
    /\ trouble' = trouble + 1
    /\ erring' = TRUE /\ rang' = TRUE
    /\ sd_error' \in BOOLEAN
    /\ UNCHANGED <<sd_wioc, sd_wiocing, IOCWAIT, STIOCTMR, sd_iocblk, sd_iocseq,
                   msgs, armed, due, ringing, proc, ended>>

\* ... and wakes the sleeper in either case.
StreamErrorWake ==
    /\ erring
    /\ erring' = FALSE
    /\ sd_wiocing' = IF IOCWAIT THEN Wakes(sd_wiocing) ELSE sd_wiocing
    /\ UNCHANGED <<sd_wioc, IOCWAIT, STIOCTMR, head, msgs, timer, trouble,
                   proc, ended>>

-----------------------------------------------------------------------------
Process(p) ==
    \/ SendIoctl(p) \/ SendIocdata(p) \/ CopyFailed(p)
    \/ WaitError(p) \/ WaitStart(p) \/ SleepOver(p) \/ Interrupted(p)
    \/ TimedOut(p) \/ GotMsg(p) \/ CancelTimer(p)
    \/ NoAnswer(p) \/ ReadIocblk(p) \/ ClearIocblk(p)
    \/ Answered(p) \/ Copy(p)

Rput(n)  == RputStore(n) \/ RputWake(n)
Tmout(n) == TimerRuns(n) \/ DoTmout(n) \/ TmoutWake(n)

Next ==
    \/ \E p \in Proc : Process(p)
    \/ \E n \in Msg  : RputTest(n) \/ Rput(n) \/ Tmout(n)
    \/ StreamError \/ StreamErrorWake

Spec == Init /\ [][Next]_vars

\* A process that can go on does, a put procedure and a timer run on; the
\* driver need not answer, and no M_ERROR or signal need come.
Fairness ==
    /\ \A p \in Proc : WF_vars(Process(p) /\ pc[p] # "idle")
    /\ \A n \in Msg  : WF_vars(Rput(n)) /\ WF_vars(Tmout(n))
    /\ WF_vars(StreamErrorWake)

FairSpec == Spec /\ Fairness

-----------------------------------------------------------------------------
(* Properties                                                              *)

\* The types.  sd_wiocing is a semaphore: it is never below 0.
TypeOK ==
    /\ sd_wioc \in BOOLEAN /\ IOCWAIT \in BOOLEAN /\ STIOCTMR \in BOOLEAN
    /\ sd_error \in BOOLEAN /\ erring \in BOOLEAN /\ rang \in BOOLEAN
    /\ sd_wiocing \in Nat
    /\ sd_iocblk \in Msg \cup {NoMsg} /\ sd_iocseq \in 0 .. sent
    /\ sent \in 0 .. MaxSend
    /\ at \in [Msg -> {"unsent", "down", "wanted", "head", "gone"}]
    /\ ioc_id \in [Msg -> 0 .. MaxSend]
    /\ armed \subseteq Msg /\ due \subseteq Msg /\ ringing \subseteq Msg
    /\ waking \subseteq Msg
    /\ trouble \in 0 .. MaxTrouble
    /\ pc \in [Proc -> {"idle", "wait", "sleep", "woken", "cancel",
                        "waited", "clear", "answer", "again"}]
    /\ mioc \in [Proc -> Msg \cup {NoMsg}]
    /\ err \in [Proc -> BOOLEAN]
    /\ ended \in [Msg -> {"no", "answered", "gave_up", "nothing"}]

\* The ioctls that ended without an answer.
GaveUp == {i \in Msg : ended[i] \in {"gave_up", "nothing"}}

\* lis_strdoioctl takes the answer to what it sent last, however late the
\* answers to failed dialogues come, as long as no ioctl has given up: after
\* that an answer may lie in sd_iocblk, or be on its way there past the test
\* of bad_ioc_seq, which is made only when an answer comes in, and each ioctl
\* takes the answer of the one before it.
OwnAnswer ==
    \A p \in Proc : pc[p] = "answer" => mioc[p] = sent \/ GaveUp # {}

\* An answer that reaches lis_strrput after its ioctl has returned is freed
\* there, whoever is waiting then and whatever has gone wrong before.
LateFreed ==
    [][\A n \in 1 .. sent :
          at[n] = "down" /\ ended[ioc_id[n]] # "no" => at'[n] \in {"down", "gone"}]_vars

\* An ioctl returns 0 with no answer only through a wakeup that was meant for
\* an earlier one: a timer must have rung late, an M_ERROR come, or an ioctl
\* have given up.  No other order of the answer, its wakeup and the next
\* request leaves a wakeup over.
NothingFromNothing ==
    \A i \in Msg : ended[i] = "nothing" =>
        rang \/ \E j \in GaveUp : j < i

\* An ioctl gets an answer, and its own.
AnswersMatch == TypeOK /\ OwnAnswer /\ NothingFromNothing

\* A process in lis_wait_for_wiocing whose timer was started is woken, whether
\* or not the driver ever answers and however late an earlier timer runs.
TimedReturns ==
    \A p \in Timed : pc[p] = "sleep" ~> pc[p] # "sleep"

\* A process that waits without a timer is woken once the driver has answered,
\* unless an ioctl before it gave up: an answer left behind in sd_iocblk makes
\* lis_strrput free every later one.
AnswerWakes ==
    \A p \in Proc \ Timed :
        (pc[p] = "sleep" /\ at[sent] # "down")
            ~> (pc[p] # "sleep" \/ GaveUp # {})

\* Whoever waits for an answer, with a timer or without, is woken.
SleepersWake == TimedReturns /\ AnswerWakes
=============================================================================
