------------------------------ MODULE StreamRead ------------------------------
(***************************************************************************)
(* Reading at the stream head: lis_strread and lis_strgetpmsg, the read put *)
(* and service procedures lis_strrput, lis_strrsrv and lis_process_rput     *)
(* (head/head.c), and the semaphores of head/wait.c they meet at.           *)
(*                                                                         *)
(* A message is its type and the units of data it carries, numbered in the  *)
(* order in which the driver sends them.  A step lies between two accesses  *)
(* to state that others share; each use of an isr lock is one step.  So is  *)
(* lis_strrput: lis_putnext takes the lock of sd_rq for it, unless an       *)
(* interrupt of the very task that holds the lock calls it (lis_lockq       *)
(* nests), so that messages may arrive at any time but while the isr lock   *)
(* is held.  RPROTDIS alone, M_SIG, M_READ, M_PASSFP and M_ERROR messages,  *)
(* I_PEEK, bands and signals sent to users are left out.                    *)
(***************************************************************************)
EXTENDS Integers, FiniteSets, SequencesExt

CONSTANTS
  Reader,      \* processes that read
  NoTask,
  Types,       \* the messages that may arrive: "DATA", "PROTO", "PCPROTO", "FLUSH", "HANGUP"
  Kinds,       \* Kinds[r]: of "read", "getmsg" and "gethipri", what the reader calls
  ReadOptions, \* values of sd_rdopt: [mode |-> .., proto |-> ..]
  Faults,      \* may lis_copyout fail?
  PeerCloses,  \* is the stream one end of a pipe whose other end closes?
  MaxMsgs,     \* bound on messages, and a close of the other end
  MaxCalls, MaxSignals  \* bounds on the calls of each reader, on signals

ASSUME ReaderAssumption == IsFiniteSet(Reader)
ASSUME KindsAssumption == Kinds \in [Reader -> SUBSET {"read", "getmsg", "gethipri"}]

VARIABLES
  sd_rdopt,
  q,             \* the messages on sd_rq
  rput,          \* the list sd_rput_hd
  QREADING, STRPRI, STRHUP,
  lockq,         \* who holds the lock of sd_rq
  qenab,         \* sd_rq is enabled
  sd_rdcnt, sd_wread, sd_rdsemcnt, sd_read_sem,
  rd,            \* rd[r]: where a reader is, and its local variables
  calls,         \* calls[r]
  signals,
  srv,           \* does lis_strrsrv run?
  wk,            \* wk[t]: where the wakeups of "srv" and "peer" are
  msgs, units,   \* how many messages and units have arrived
  got,           \* the units that calls have returned
  gone,          \* those flushed or thrown away, and those of calls that failed
  normal,        \* history: the units that did not arrive in an M_PCPROTO
  woken,         \* history: lis_wake_up_all_read_sem has let somebody in
  broken,        \* history: lis_down was interrupted
  falseEnd       \* history: a read returned 0 on a stream that is not hung up

queue == <<q, rput, QREADING, STRPRI, STRHUP, lockq, qenab>>
sems == <<sd_rdcnt, sd_wread, sd_rdsemcnt, sd_read_sem>>
count == <<calls, signals>>
arrivals == <<msgs, units, normal>>
history == <<got, gone, woken, broken, falseEnd>>
vars == <<sd_rdopt, queue, sems, rd, count, srv, wk, arrivals, history>>

Waker == {"srv", "peer"}
NoMsg == [t |-> "none", u |-> <<>>]
Idle == [pc |-> "idle", kind |-> "read", ulen |-> 1, buf |-> <<>>,
         msgs_read |-> 0, mp |-> NoMsg, then |-> "return"]

Init ==
  /\ sd_rdopt \in ReadOptions
  /\ q = <<>> /\ rput = <<>>
  /\ QREADING = FALSE /\ STRPRI = FALSE /\ STRHUP = FALSE
  /\ lockq = NoTask /\ qenab = FALSE
  /\ sd_rdcnt = 0 /\ sd_wread = 0 /\ sd_rdsemcnt = 0 /\ sd_read_sem = 1
  /\ rd = [r \in Reader |-> Idle] /\ calls = [r \in Reader |-> 0] /\ signals = 0
  /\ srv = FALSE /\ wk = [t \in Waker |-> "none"]
  /\ msgs = 0 /\ units = 0 /\ normal = {}
  /\ got = <<>> /\ gone = {}
  /\ woken = FALSE /\ broken = FALSE /\ falseEnd = FALSE

At(r, l) == rd[r].pc = l
Goto(r, l) == rd' = [rd EXCEPT ![r].pc = l]
UnitsOf(s) == UNION {ToSet(s[i].u) : i \in DOMAIN s}

\* putq and putbq: high priority before the others, and the last or the first of its kind.
IsPri(m) == m.t = "PCPROTO"
AfterPri(s) == Cardinality({i \in DOMAIN s : IsPri(s[i])}) + 1
PutQ(s, m)  == IF IsPri(m) THEN InsertAt(s, AfterPri(s), m) ELSE Append(s, m)
PutBehind(s, m) == PutQ(s, m)                             \* mutant
PutBq(s, m) == InsertAt(s, IF IsPri(m) THEN 1 ELSE AfterPri(s), m)

---------------------------------------------------------------------------
(* The semaphores *)

Begin(r) ==
  /\ At(r, "idle") /\ calls[r] < MaxCalls
  /\ calls' = [calls EXCEPT ![r] = @ + 1]
  /\ \E k \in Kinds[r], n \in 1..2 :
       /\ k # "read" => n = 1     \* a message of one unit fits, and one of two does not
       /\ rd' = [rd EXCEPT ![r] = [Idle EXCEPT !.pc = "down", !.kind = k, !.ulen = n]]
  /\ sd_rdsemcnt' = sd_rdsemcnt + 1
  /\ UNCHANGED <<sd_rdopt, queue, sd_rdcnt, sd_wread, sd_read_sem, signals, srv, wk, arrivals,
                 history>>

DownAlways == TRUE                                        \* mutant
DownPasses == sd_read_sem > 0

GetReadSem(r) ==
  /\ At(r, "down") /\ DownPasses
  /\ sd_read_sem' = sd_read_sem - 1
  /\ Goto(r, "lock")
  /\ UNCHANGED <<sd_rdopt, queue, sd_rdcnt, sd_wread, sd_rdsemcnt, count, srv, wk, arrivals, history>>

\* lis_sleep_on_read_sem takes the interrupted reader from the other counter.
ReadSemInterrupted(r) ==
  /\ signals < MaxSignals /\ At(r, "down")
  /\ sd_rdcnt' = sd_rdcnt - 1
  /\ rd' = [rd EXCEPT ![r] = Idle]
  /\ broken' = TRUE /\ signals' = signals + 1
  /\ UNCHANGED <<sd_rdopt, queue, sd_wread, sd_rdsemcnt, sd_read_sem, calls, srv, wk, arrivals,
                 got, gone, woken, falseEnd>>

LockQ(r) ==
  /\ At(r, "lock") /\ lockq = NoTask
  /\ lockq' = r
  /\ QREADING' = (rd[r].kind = "read")
  /\ Goto(r, "look")
  /\ UNCHANGED <<sd_rdopt, q, rput, STRPRI, STRHUP, qenab, sems, count, srv, wk, arrivals, history>>

\* RTN(err) or RTN(count): what the call had put into the user's buffer is lost if it fails.
Rtn(r, failed, buf) ==
  /\ rd' = [rd EXCEPT ![r] = [Idle EXCEPT !.pc = "wake"]]
  /\ got' = IF failed THEN got ELSE got \o buf
  /\ lockq' = IF lockq = r THEN NoTask ELSE lockq

NothingToRead(r) == q = <<>> /\ rd[r].msgs_read = 0

HungUp(r) ==
  /\ At(r, "look") /\ NothingToRead(r) /\ STRHUP
  /\ Rtn(r, FALSE, <<>>) /\ QREADING' = FALSE
  /\ UNCHANGED <<sd_rdopt, q, rput, STRPRI, STRHUP, qenab, sems, count, srv, wk, arrivals,
                 gone, woken, broken, falseEnd>>

\* O_NONBLOCK may be set or not.
WouldBlock(r) ==
  /\ At(r, "look") /\ NothingToRead(r) /\ ~STRHUP
  /\ Rtn(r, TRUE, <<>>) /\ QREADING' = FALSE
  /\ UNCHANGED <<sd_rdopt, q, rput, STRPRI, STRHUP, qenab, sems, count, srv, wk, arrivals,
                 gone, woken, broken, falseEnd>>

WillSleep(r) ==
  /\ At(r, "look") /\ NothingToRead(r) /\ ~STRHUP
  /\ QREADING' = FALSE
  /\ Goto(r, "sleep")
  /\ UNCHANGED <<sd_rdopt, q, rput, STRPRI, STRHUP, lockq, qenab, sems, count, srv, wk, arrivals, history>>

\* AINC(sd_rdcnt), then lis_unlockq: lis_sleep_on_wread
CountAndUnlock(r) == sd_rdcnt' = sd_rdcnt + 1 /\ lockq' = NoTask

SleepOnWread(r) ==
  /\ At(r, "sleep")
  /\ CountAndUnlock(r)
  /\ Goto(r, "asleep")
  /\ UNCHANGED <<sd_rdopt, q, rput, QREADING, STRPRI, STRHUP, qenab, sd_wread, sd_rdsemcnt, sd_read_sem,
                 count, srv, wk, arrivals, history>>

WokenUp(r) ==
  /\ At(r, "asleep") /\ sd_wread > 0
  /\ sd_wread' = sd_wread - 1
  /\ Goto(r, "lock")
  /\ UNCHANGED <<sd_rdopt, queue, sd_rdcnt, sd_rdsemcnt, sd_read_sem, count, srv, wk, arrivals, history>>

WreadInterrupted(r) ==
  /\ signals < MaxSignals /\ At(r, "asleep")
  /\ sd_rdcnt' = sd_rdcnt - 1
  /\ Rtn(r, TRUE, <<>>)
  /\ broken' = TRUE /\ signals' = signals + 1
  /\ UNCHANGED <<sd_rdopt, q, rput, QREADING, STRPRI, STRHUP, qenab, sd_wread, sd_rdsemcnt, sd_read_sem,
                 calls, srv, wk, arrivals, gone, woken, falseEnd>>

SomebodyReads == sd_rdsemcnt > 0

\* lis_wake_up_read_sem: the test, and the two steps after it
WakeTest(r) ==
  /\ At(r, "wake")
  /\ IF SomebodyReads THEN Goto(r, "up") ELSE rd' = [rd EXCEPT ![r] = Idle]
  /\ UNCHANGED <<sd_rdopt, queue, sems, count, srv, wk, arrivals, history>>

WakeUp(r) ==
  /\ At(r, "up")
  /\ sd_rdsemcnt' = sd_rdsemcnt - 1 /\ sd_read_sem' = sd_read_sem + 1
  /\ rd' = [rd EXCEPT ![r] = Idle]
  /\ UNCHANGED <<sd_rdopt, queue, sd_rdcnt, sd_wread, count, srv, wk, arrivals, history>>

---------------------------------------------------------------------------
(* lis_strread *)

ReadReady(r) ==
  /\ At(r, "look") /\ rd[r].kind = "read" /\ ~NothingToRead(r)
  /\ QREADING' = FALSE
  /\ Goto(r, "take")
  /\ UNCHANGED <<sd_rdopt, q, rput, STRPRI, STRHUP, lockq, qenab, sems, count, srv, wk, arrivals, history>>

\* A flush may have come since ReadReady: the call then returns what it has, maybe nothing.
TakeNothing(r) ==
  /\ At(r, "take") /\ rd[r].kind = "read" /\ q = <<>>
  /\ Rtn(r, FALSE, rd[r].buf)
  /\ falseEnd' = (falseEnd \/ (rd[r].buf = <<>> /\ ~STRHUP))
  /\ UNCHANGED <<sd_rdopt, q, rput, QREADING, STRPRI, STRHUP, qenab, sems, count, srv, wk, arrivals,
                 gone, woken, broken>>

TakeForRead(r) ==
  /\ At(r, "take") /\ rd[r].kind = "read" /\ q # <<>>
  /\ q' = Tail(q) /\ lockq' = NoTask
  /\ rd' = [rd EXCEPT ![r].pc = "copy", ![r].mp = Head(q)]
  /\ UNCHANGED <<sd_rdopt, rput, QREADING, STRPRI, STRHUP, qenab, sems, count, srv, wk, arrivals, history>>

\* n units of the message have been copied: as much of it as there is room for, unless
\* lis_copyout fails.
CopiedTo(r, n) ==
  LET u == rd[r].mp.u
  IN  [rd[r] EXCEPT !.buf = @ \o SubSeq(u, 1, n), !.mp.u = SubSeq(u, n + 1, Len(u)),
                    !.msgs_read = @ + 1]
Room(r) == rd[r].ulen - Len(rd[r].buf)
Copied(r) == CopiedTo(r, IF Room(r) < Len(rd[r].mp.u) THEN Room(r) ELSE Len(rd[r].mp.u))

ToUser(r) == At(r, "copy") /\ rd[r].kind = "read" /\ rd[r].mp.t = "DATA"
Short(c) == Len(c.buf) < c.ulen /\ sd_rdopt.mode = "RNORM"   \* go around for more

ReadMore(r) ==
  /\ ToUser(r) /\ Copied(r).mp.u = <<>> /\ Short(Copied(r))
  /\ rd' = [rd EXCEPT ![r] = [Copied(r) EXCEPT !.pc = "lock", !.mp = NoMsg]]
  /\ UNCHANGED <<sd_rdopt, queue, sems, count, srv, wk, arrivals, history>>

ReadDone(r) ==
  /\ ToUser(r) /\ ~Short(Copied(r))
  /\ Copied(r).mp.u = <<>> \/ sd_rdopt.mode = "RMSGD"
  /\ Rtn(r, FALSE, Copied(r).buf)
  /\ gone' = gone \cup ToSet(Copied(r).mp.u)
  /\ UNCHANGED <<sd_rdopt, q, rput, QREADING, STRPRI, STRHUP, qenab, sems, count, srv, wk, arrivals,
                 woken, broken, falseEnd>>

ReadPart(r) ==
  /\ ToUser(r) /\ Copied(r).mp.u # <<>> /\ sd_rdopt.mode # "RMSGD"
  /\ rd' = [rd EXCEPT ![r] = [Copied(r) EXCEPT !.pc = "putback"]]
  /\ UNCHANGED <<sd_rdopt, queue, sems, count, srv, wk, arrivals, history>>

\* lis_copyout fails after n units, in whatever blocks they came, and the block it failed
\* on goes back with the rest, also in RMSGD.  The call returns the count, except in RNORM
\* when blocks of this very message had been copied (msg_lgth > 0): these are freed by then.
ReadFault(r) ==
  /\ Faults /\ ToUser(r)
  /\ \E n \in 0..1 :
       /\ n < Room(r) /\ n < Len(rd[r].mp.u)
       /\ rd' = [rd EXCEPT ![r] =
                   [CopiedTo(r, n) EXCEPT !.pc = "putback",
                      !.then = IF n > 0 /\ sd_rdopt.mode = "RNORM" THEN "fail" ELSE "return"]]
       /\ falseEnd' = (falseEnd \/ (CopiedTo(r, n).buf = <<>> /\ ~STRHUP))
  /\ UNCHANGED <<sd_rdopt, queue, sems, count, srv, wk, arrivals, got, gone, woken, broken>>

PriStays(r) == STRPRI                                     \* mutant
PriCleared(r) == STRPRI /\ ~IsPri(rd[r].mp)

\* Read options for M_PROTO and M_PCPROTO: back to the queue, to be read with getmsg; turned
\* into M_DATA and back to the queue, to be read now; or thrown away.
ReadProto(r) ==
  /\ At(r, "copy") /\ rd[r].kind = "read" /\ rd[r].mp.t \in {"PROTO", "PCPROTO"}
  /\ STRPRI' = PriCleared(r)
  /\ \/ /\ sd_rdopt.proto = "RPROTNORM"
        /\ rd' = [rd EXCEPT ![r].pc = "putback", ![r].then = "fail"]
        /\ UNCHANGED <<lockq, got, gone>>
     \/ /\ sd_rdopt.proto = "RPROTDAT"
        /\ rd' = [rd EXCEPT ![r].pc = "putback", ![r].mp.t = "DATA", ![r].msgs_read = @ + 1,
                             ![r].then = "again"]
        /\ UNCHANGED <<lockq, got, gone>>
     \/ /\ sd_rdopt.proto = "both"
        /\ Rtn(r, TRUE, rd[r].buf)
        /\ gone' = gone \cup ToSet(rd[r].mp.u) \cup ToSet(rd[r].buf)
  /\ UNCHANGED <<sd_rdopt, q, rput, QREADING, STRHUP, qenab, sems, count, srv, wk, arrivals,
                 woken, broken, falseEnd>>

---------------------------------------------------------------------------
(* lis_requeue, and what follows it *)

AfterPutBack(r) ==
  \/ /\ rd[r].then = "again"
     /\ rd' = [rd EXCEPT ![r].pc = "lock", ![r].mp = NoMsg, ![r].then = "return"]
     /\ UNCHANGED <<lockq, got, gone>>
  \/ /\ rd[r].then # "again"
     /\ Rtn(r, rd[r].then = "fail", rd[r].buf)
     /\ gone' = gone \cup (IF rd[r].then = "fail" THEN ToSet(rd[r].buf) ELSE {})

PutBack(r) ==
  /\ At(r, "putback") /\ ~IsPri(rd[r].mp)
  /\ q' = PutBq(q, rd[r].mp)
  /\ AfterPutBack(r)
  /\ UNCHANGED <<sd_rdopt, rput, QREADING, STRPRI, STRHUP, qenab, sems, count, srv, wk, arrivals,
                 woken, broken, falseEnd>>

PutBackPri(r) ==
  /\ At(r, "putback") /\ IsPri(rd[r].mp)
  /\ STRPRI' = TRUE /\ QREADING' = TRUE
  /\ Goto(r, "putbackpri")
  /\ UNCHANGED <<sd_rdopt, q, rput, STRHUP, lockq, qenab, sems, count, srv, wk, arrivals, history>>

\* A high priority message that has taken its place is deleted.
Displaced == IF q # <<>> /\ IsPri(Head(q)) THEN ToSet(Head(q).u) ELSE {}
PutBackPriEnds(r) ==
  /\ At(r, "putbackpri")
  /\ q' = PutBq(IF q # <<>> /\ IsPri(Head(q)) THEN Tail(q) ELSE q, rd[r].mp)
  /\ QREADING' = FALSE
  /\ Rtn(r, rd[r].then = "fail", rd[r].buf)
  /\ gone' = gone \cup Displaced \cup (IF rd[r].then = "fail" THEN ToSet(rd[r].buf) ELSE {})
  /\ UNCHANGED <<sd_rdopt, rput, STRPRI, STRHUP, qenab, sems, count, srv, wk, arrivals,
                 woken, broken, falseEnd>>

---------------------------------------------------------------------------
(* lis_strgetpmsg *)

\* QREADING keeps flushes away until the message is off the queue.
MsgReady(r) ==
  /\ At(r, "look") /\ rd[r].kind # "read" /\ q # <<>>
  /\ QREADING' = TRUE
  /\ Goto(r, "take")
  /\ UNCHANGED <<sd_rdopt, q, rput, STRPRI, STRHUP, lockq, qenab, sems, count, srv, wk, arrivals, history>>

\* MSG_HIPRI, and the first message is an ordinary one, or none is left
NotTheMsg(r) ==
  /\ At(r, "take") /\ rd[r].kind # "read"
  /\ q = <<>> \/ (rd[r].kind = "gethipri" /\ ~IsPri(Head(q)))
  /\ lockq' = NoTask
  /\ Goto(r, "nomsg")
  /\ UNCHANGED <<sd_rdopt, q, rput, QREADING, STRPRI, STRHUP, qenab, sems, count, srv, wk,
                 arrivals, history>>

\* Flushes are let in again when the lock has been given up.
NoMsgEnds(r) ==
  /\ At(r, "nomsg")
  /\ Rtn(r, TRUE, <<>>) /\ QREADING' = FALSE
  /\ UNCHANGED <<sd_rdopt, q, rput, STRPRI, STRHUP, qenab, sems, count, srv, wk, arrivals,
                 gone, woken, broken, falseEnd>>

TakeMsg(r) ==
  /\ At(r, "take") /\ rd[r].kind # "read" /\ q # <<>>
  /\ rd[r].kind = "gethipri" => IsPri(Head(q))
  /\ STRPRI' = (STRPRI /\ ~IsPri(Head(q)))
  /\ q' = Tail(q) /\ QREADING' = FALSE
  /\ rd' = [rd EXCEPT ![r].pc = "copy", ![r].mp = Head(q)]
  /\ UNCHANGED <<sd_rdopt, rput, STRHUP, lockq, qenab, sems, count, srv, wk, arrivals, history>>

\* copyout_msg: the rest goes back, and the call returns MOREDATA.
CopyMsg(r) ==
  /\ At(r, "copy") /\ rd[r].kind # "read"
  /\ IF Copied(r).mp.u = <<>> THEN Rtn(r, FALSE, Copied(r).buf)
     ELSE rd' = [rd EXCEPT ![r] = [Copied(r) EXCEPT !.pc = "putback"]] /\ UNCHANGED <<lockq, got>>
  /\ UNCHANGED <<sd_rdopt, q, rput, QREADING, STRPRI, STRHUP, qenab, sems, count, srv, wk, arrivals,
                 gone, woken, broken, falseEnd>>

CopyMsgFault(r) ==
  /\ Faults /\ At(r, "copy") /\ rd[r].kind # "read"
  /\ Rtn(r, TRUE, <<>>)
  /\ gone' = gone \cup ToSet(rd[r].mp.u)
  /\ UNCHANGED <<sd_rdopt, q, rput, QREADING, STRPRI, STRHUP, qenab, sems, count, srv, wk, arrivals,
                 woken, broken, falseEnd>>

---------------------------------------------------------------------------
(* lis_strrput *)

\* lis_strread holds the isr lock while it finds out whether there is anything to read.
IsrLocked == \E r \in Reader : At(r, "look") /\ rd[r].kind = "read"

New(n) == [i \in 1..n |-> units + i]

\* lis_put_rput_q enables the queue when the list was empty.
PutRput(m) == rput' = Append(rput, m) /\ qenab' = (qenab \/ rput = <<>>)

Discards(m) == IsPri(m) /\ STRPRI

DataArrives ==
  /\ msgs < MaxMsgs /\ ~IsrLocked
  /\ \E t \in Types \cap {"DATA", "PROTO", "PCPROTO"}, n \in 1..2 :
       LET m == [t |-> t, u |-> New(n)] IN
       /\ IF Discards(m) THEN gone' = gone \cup ToSet(m.u) /\ UNCHANGED <<rput, qenab, STRPRI>>
          ELSE PutRput(m) /\ STRPRI' = (STRPRI \/ IsPri(m)) /\ UNCHANGED gone
       /\ units' = units + n /\ msgs' = msgs + 1
       /\ normal' = IF IsPri(m) THEN normal ELSE normal \cup ToSet(m.u)
  /\ UNCHANGED <<sd_rdopt, q, QREADING, STRHUP, lockq, sems, rd, count, srv, wk, got,
                 woken, broken, falseEnd>>

HangupArrives ==
  /\ "HANGUP" \in Types /\ msgs < MaxMsgs /\ ~IsrLocked
  /\ PutRput([t |-> "HANGUP", u |-> <<>>])
  /\ msgs' = msgs + 1
  /\ UNCHANGED <<sd_rdopt, q, QREADING, STRPRI, STRHUP, lockq, sems, rd, count, srv, wk,
                 units, normal, history>>

PriAfterFlush == FALSE                                    \* nothing is left at the head of q

\* lis_head_flush: deferred while a reader looks at the queue
FlushArrives ==
  /\ "FLUSH" \in Types /\ msgs < MaxMsgs /\ ~IsrLocked
  /\ msgs' = msgs + 1
  /\ IF QREADING
       THEN PutRput([t |-> "FLUSH", u |-> <<>>]) /\ UNCHANGED <<q, STRPRI, gone>>
       ELSE /\ q' = <<>> /\ rput' = <<>> /\ STRPRI' = PriAfterFlush
            /\ gone' = gone \cup UnitsOf(q) \cup UnitsOf(rput)
            /\ UNCHANGED qenab
  /\ UNCHANGED <<sd_rdopt, QREADING, STRHUP, lockq, sems, rd, count, srv, wk, units, normal,
                 got, woken, broken, falseEnd>>

---------------------------------------------------------------------------
(* lis_strrsrv and lis_process_rput: the scheduler holds the lock of the queue *)

SrvStart ==
  /\ qenab /\ ~srv /\ lockq = NoTask
  /\ qenab' = FALSE /\ srv' = TRUE /\ lockq' = "srv"
  /\ UNCHANGED <<sd_rdopt, q, rput, QREADING, STRPRI, STRHUP, sems, rd, count, wk, arrivals, history>>

Process(m) == srv /\ wk["srv"] = "none" /\ rput # <<>> /\ Head(rput) = m /\ rput' = Tail(rput)

ProcessData ==
  \E m \in ToSet(rput) :
    /\ Process(m) /\ m.t \in {"DATA", "PROTO", "PCPROTO"}
    /\ q' = PutQ(q, m)
    /\ wk' = [wk EXCEPT !["srv"] = "one"]
    /\ UNCHANGED <<sd_rdopt, QREADING, STRPRI, STRHUP, lockq, qenab, sems, rd, count, srv, arrivals, history>>

ProcessHangup ==
  \E m \in ToSet(rput) :
    /\ Process(m) /\ m.t = "HANGUP"
    /\ STRHUP' = TRUE
    /\ wk' = [wk EXCEPT !["srv"] = "all"]
    /\ UNCHANGED <<sd_rdopt, q, QREADING, STRPRI, lockq, qenab, sems, rd, count, srv, arrivals, history>>

\* A flush that was deferred, deferred again: "then it is a bug", and the flush is dropped.
ProcessFlush ==
  \E m \in ToSet(rput) :
    /\ Process(m) /\ m.t = "FLUSH"
    /\ IF QREADING THEN UNCHANGED <<q, STRPRI, gone>>
       ELSE q' = <<>> /\ STRPRI' = PriAfterFlush /\ gone' = gone \cup UnitsOf(q)
    /\ UNCHANGED <<sd_rdopt, QREADING, STRHUP, lockq, qenab, sems, rd, count, srv, wk, arrivals,
                   got, woken, broken, falseEnd>>

SrvEnd ==
  /\ srv /\ wk["srv"] = "none" /\ rput = <<>>
  /\ srv' = FALSE /\ lockq' = NoTask
  /\ UNCHANGED <<sd_rdopt, q, rput, QREADING, STRPRI, STRHUP, qenab, sems, rd, count, wk, arrivals, history>>

\* close_action of the other end of a pipe: STRHUP, then lis_stream_error(peer, 0, 0)
PeerClose ==
  /\ PeerCloses /\ ~STRHUP /\ wk["peer"] = "none" /\ msgs < MaxMsgs
  /\ STRHUP' = TRUE
  /\ wk' = [wk EXCEPT !["peer"] = "all"]
  /\ msgs' = msgs + 1
  /\ UNCHANGED <<sd_rdopt, q, rput, QREADING, STRPRI, lockq, qenab, sems, rd, count, srv,
                 units, normal, history>>

---------------------------------------------------------------------------
(* lis_wake_up_wread ("one"), lis_wake_up_all_wread ("all"), lis_wake_up_all_read_sem ("sem") *)

Then(t, l) == wk' = [wk EXCEPT ![t] = l]
NobodySleeps == FALSE                                     \* mutant
SomebodySleeps == sd_rdcnt > 0

WakeStep(t) ==
  \/ /\ wk[t] = "one" /\ Then(t, IF SomebodySleeps THEN "oneup" ELSE "none")
     /\ UNCHANGED <<sems, woken>>
  \/ /\ wk[t] = "all" /\ Then(t, IF SomebodySleeps THEN "allup" ELSE "sem")
     /\ UNCHANGED <<sems, woken>>
  \/ /\ wk[t] \in {"oneup", "allup"} /\ Then(t, IF wk[t] = "oneup" THEN "none" ELSE "all")
     /\ sd_rdcnt' = sd_rdcnt - 1 /\ sd_wread' = sd_wread + 1
     /\ UNCHANGED <<sd_rdsemcnt, sd_read_sem, woken>>
  \/ /\ wk[t] = "sem" /\ Then(t, IF SomebodyReads THEN "semup" ELSE "none")
     /\ UNCHANGED <<sems, woken>>
  \/ /\ wk[t] = "semup" /\ Then(t, "sem")
     /\ sd_rdsemcnt' = sd_rdsemcnt - 1 /\ sd_read_sem' = sd_read_sem + 1
     /\ woken' = TRUE
     /\ UNCHANGED <<sd_rdcnt, sd_wread>>
WakeUps(t) ==
  WakeStep(t) /\ UNCHANGED <<sd_rdopt, queue, rd, count, srv, arrivals, got, gone, broken, falseEnd>>

---------------------------------------------------------------------------
Interrupt(r) == ReadSemInterrupted(r) \/ WreadInterrupted(r)
StrRead(r) ==
  \/ ReadReady(r) \/ TakeNothing(r) \/ TakeForRead(r) \/ ReadMore(r) \/ ReadDone(r)
  \/ ReadPart(r) \/ ReadFault(r) \/ ReadProto(r)
StrGetmsg(r) ==
  MsgReady(r) \/ NotTheMsg(r) \/ NoMsgEnds(r) \/ TakeMsg(r) \/ CopyMsg(r) \/ CopyMsgFault(r)
Goes(r) ==
  \/ GetReadSem(r) \/ LockQ(r) \/ HungUp(r) \/ WouldBlock(r) \/ WillSleep(r) \/ SleepOnWread(r)
  \/ WokenUp(r) \/ WakeTest(r) \/ WakeUp(r) \/ StrRead(r) \/ StrGetmsg(r)
  \/ PutBack(r) \/ PutBackPri(r) \/ PutBackPriEnds(r)
Arrives == DataArrives \/ HangupArrives \/ FlushArrives
Service == SrvStart \/ ProcessData \/ ProcessHangup \/ ProcessFlush \/ SrvEnd

Next ==
  \/ \E r \in Reader : Begin(r) \/ Goes(r) \/ Interrupt(r)
  \/ Arrives \/ Service \/ PeerClose
  \/ \E t \in Waker : WakeUps(t)

\* Queue runners run, processes that can run do, and so do those who wake others up.
Fairness ==
  /\ WF_vars(Service)
  /\ \A t \in Waker : WF_vars(WakeUps(t))
  /\ \A r \in Reader : WF_vars(Goes(r))

Spec == Init /\ [][Next]_vars /\ Fairness

---------------------------------------------------------------------------
Inside(r) == rd[r].pc \notin {"idle", "down"}

\* sd_read_sem lets one reader in at a time, until a hangup or an error has "woken" those who
\* wait for it.
OneReader == ~woken => Cardinality({r \in Reader : Inside(r)}) <= 1

Hand(r) == rd[r].buf \o rd[r].mp.u
Where(s, x) == {i \in DOMAIN s : s[i] = x}
Among(msgSeq, x) == UNION {{<<i, k>> : k \in Where(msgSeq[i].u, x)} : i \in DOMAIN msgSeq}

\* All the places that a unit has.
Spots(x) ==
  {<<"got", i>> : i \in Where(got, x)} \cup {<<"gone", y>> : y \in gone \cap {x}}
  \cup {<<"q", w>> : w \in Among(q, x)} \cup {<<"rput", w>> : w \in Among(rput, x)}
  \cup (UNION {{<<"reader", r, k>> : k \in Where(Hand(r), x)} : r \in Reader})

\* Whatever the driver has sent is in one place: on its way to the readers, with one of
\* them, or counted as flushed or thrown away.  A reader puts a message back with the lock
\* of the queue given up, and loses nothing by it.
UnitsKept ==
  /\ \A x \in 1..units : Cardinality(Spots(x)) = 1
  /\ ToSet(got) \cup gone \cup UnitsOf(q) \cup UnitsOf(rput)
       \cup (UNION {ToSet(Hand(r)) : r \in Reader}) = 1..units

\* Ordinary data reaches the readers in the order in which the driver has sent it, also
\* when a message is read in parts, while there is one reader at a time.
InOrder ==
  ~woken => \A i, j \in DOMAIN got :
              i < j /\ {got[i], got[j]} \subseteq normal => got[i] < got[j]

\* STRPRI makes lis_strrput throw M_PCPROTO messages away: while it is set there is such a
\* message, or it would never be cleared.
PriNotStuck ==
  STRPRI => \/ \E m \in ToSet(q \o rput) : IsPri(m)
            \/ \E r \in Reader : IsPri(rd[r].mp)

\* What is sent is read once, and in order.
ReadOnce == UnitsKept /\ InOrder

\* A reader does not sleep on while there is something to read, unless a signal has
\* interrupted a reader: lis_sleep_on_read_sem then corrects the wrong counter.
SleeperIsServed ==
  \A r \in Reader : (At(r, "asleep") /\ q # <<>>) ~> (~At(r, "asleep") \/ q = <<>> \/ broken)

\* head/head.c: "mp = lis_getq(hd_rq); while q still isr-locked"
NoFalseEnd == ~falseEnd

\* head/head.c: "wake up syscalls"
HangupIsSeen == \A r \in Reader : (At(r, "asleep") /\ STRHUP) ~> ~At(r, "asleep")
=============================================================================
