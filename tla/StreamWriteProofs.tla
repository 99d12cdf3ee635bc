--------------------------- MODULE StreamWriteProofs ---------------------------
(***************************************************************************)
(* Writing at the stream head, for any number of writers: who sleeps is    *)
(* counted, and what has been written is sent once, in order, and not held *)
(* for ever.                                                               *)
(*                                                                         *)
(* The argument: unless lis_down was interrupted, sd_write_sem lets one    *)
(* writer at a time to sd_wmsg (OneWorks).  Unless the scan list came to   *)
(* it meanwhile, the block that the writer fills is the one in sd_wmsg     *)
(* (HeldIsTheirs), so that a unit copied in is the next to be sent.  A     *)
(* block left in sd_wmsg has the timer running, or is on the scan list,    *)
(* from the moment the writer that created it is gone (Timed).             *)
(*                                                                         *)
(* Behind that, those who wait to be called back, for the composition      *)
(* MCWaits: the nodes of the timers and of the bufcalls.  Each is on the   *)
(* list of its handle or id, once, or free (TimersListed, Listed), and     *)
(* what was called has no entry left that could be called again            *)
(* (TimersCalled, CalledBack), which holds because one thread at a time is *)
(* at work on the bufcalls (Alone).                                        *)
(***************************************************************************)
EXTENDS MCWaits, FiniteSetTheorems, SequenceTheorems, WellFoundedInduction, TLAPS

Labels == {"idle", "check", "lock", "sleep", "asleep", "relock", "down", "fill", "copy", "send",
           "clear", "put"}
Record == [pc : Labels, kind : {"write", "putmsg", "hipri"}, left : Int, written : Int,
           held : Nat, newmsg : BOOLEAN]

Locals == wr \in [Writer -> Record]
Numbers ==
  /\ STRHOLD \in BOOLEAN
  /\ sd_wrcnt \in Int /\ sd_wwrite \in Int /\ sd_write_sem \in Int
  /\ scan \in {"idle", "lock", "put", "clear"}
  /\ sd_scantimer \in BOOLEAN /\ QSCAN \in BOOLEAN
  /\ clash \in BOOLEAN /\ broken \in BOOLEAN /\ stale \in BOOLEAN
Blocks ==
  /\ blocks \in Seq(Seq(Writer \X Nat))
  /\ sd_wmsg \in Nat /\ sd_wmsg <= Len(blocks)
  /\ sent \in Seq(Writer \X Nat) /\ taken \in [Writer -> Nat]
  /\ \A w \in Writer : At(w, "copy") => wr[w].held # 0 /\ wr[w].held <= Len(blocks)
Types == Locals /\ Numbers /\ Blocks

\* sd_write_sem lets one in.
OneWorks == ~broken =>
  /\ \A v, w \in Writer : AtWork(v) /\ AtWork(w) => v = w
  /\ sd_write_sem <= 1
  /\ \A w \in Writer : AtWork(w) => sd_write_sem <= 0

\* What the writer fills is what is sent.
HeldIsTheirs == ~broken /\ ~clash => \A w \in Writer :
  /\ At(w, "copy") => sd_wmsg = wr[w].held
  /\ wr[w].pc \in {"copy", "send", "clear"} => scan # "clear"

\* Somebody will see to the block in sd_wmsg.
SeenTo == sd_scantimer \/ QSCAN \/ scan # "idle"
Timed == ~broken /\ ~clash /\ ~stale =>
  /\ sd_wmsg # 0 /\ ~(\E w \in Writer : AtWork(w)) => SeenTo
  /\ \A w \in Writer : /\ At(w, "fill") /\ sd_wmsg # 0 => SeenTo
                       /\ At(w, "copy") /\ ~wr[w].newmsg => SeenTo

IInv == Types /\ SleepersCounted /\ OneWorks /\ HeldIsTheirs /\ Timed /\ WrittenOnce

Wakes == \E t \in Waker : WakeUpAllWwrite(t)

\* A step of writer w, or of another.
Acts(w) ==
  \/ w \in Writer /\ (Begin(w) \/ CheckErrors(w) \/ Room(w) \/ WouldBlock(w) \/
                       WillSleep(w) \/ SleepOnWwrite(w) \/ WokenUp(w) \/ Relock(w) \/
                       DownWriteSem(w) \/ Fill(w) \/ CopyIn(w) \/ BlockIsFull(w) \/
                       CopyFails(w) \/ Send(w) \/ Clear(w) \/ Put(w) \/
                       Interrupted(w) \/ DownInterrupted(w))
  \/ AddToScanl \/ ScanStart \/ ScanLock \/ ScanPut \/ ScanClear \/ Drain \/
     SrvStart \/ SrvEnd \/ StreamError \/ Freeze \/ Unfreeze \/ Wakes

\* The others keep their local variables.
Others(w) == \A v \in Writer : v # w => wr'[v] = wr[v]
\* What the local variables are defined for.
Domains == DOMAIN wr = Writer /\ \A v \in Writer : wr[v] \in Record

-----------------------------------------------------------------------------
(* What a step leaves alone                                                *)

\* What Types says of the local variables.
LEMMA DomainsKnown == IInv => Domains
  BY DEF IInv, Types, Locals, Domains

\* A writer changes only its own local variables.
LEMMA OthersKept ==
    ASSUME IInv, NEW w, Acts(w)
    PROVE  Others(w)
<1>d. Domains
  BY DomainsKnown
<1>1. CASE w \in Writer /\ (Begin(w) \/ CheckErrors(w) \/ Room(w) \/
     WouldBlock(w) \/ WillSleep(w) \/ SleepOnWwrite(w))
  BY <1>d, <1>1 DEF Begin, CheckErrors, Rtn, Goto, Room, WouldBlock, WillSleep,
     SleepOnWwrite, Others, Domains, At, flags, sleepers, hold, next, tasks,
     history
<1>2. CASE w \in Writer /\ (WokenUp(w) \/ Relock(w) \/ DownWriteSem(w) \/
     Fill(w) \/ CopyIn(w) \/ BlockIsFull(w))
  BY <1>d, <1>2 DEF WokenUp, Goto, Relock, DownWriteSem, DownPasses, Fill,
     CopyIn, HasRoom, Hold, StartsTimer, Rtn, BlockIsFull, Others, Domains, At,
     flags, sleepers, hold, next, tasks, history
<1>3. CASE w \in Writer /\ (CopyFails(w) \/ Send(w) \/ Clear(w) \/ Put(w) \/
     Interrupted(w) \/ DownInterrupted(w))
  BY <1>d, <1>3 DEF CopyFails, Rtn, HasRoom, Send, PutWmsg, Goto, Clear,
     Forgotten, Put, Interrupted, BackOut, DownInterrupted, Others, Domains, At,
     flags, sleepers, hold, next, tasks, history
<1>4. CASE AddToScanl \/ ScanStart \/ ScanLock \/ ScanPut \/ ScanClear \/ Drain
  BY <1>d, <1>4 DEF AddToScanl, ScanStart, ScanLock, ScanPut, PutWmsg,
     ScanClear, Forgotten, Drain, Others, Domains, At, flags, sleepers, hold,
     next, tasks, history
<1>5. CASE SrvStart \/ SrvEnd \/ StreamError \/ Freeze \/ Unfreeze \/ Wakes
  BY <1>d, <1>5 DEF SrvStart, SrvEnd, StreamError, Freeze, Unfreeze, Wakes,
     WakeUpAllWwrite, Others, Domains, At, flags, sleepers, hold, next, tasks,
     history
<1> QED
  BY <1>1, <1>2, <1>3, <1>4, <1>5 DEF Acts

\* Some fields of a record change.
LEMMA RecordKept ==
    ASSUME NEW x \in Record
    PROVE  /\ \A l \in Labels : [x EXCEPT !.pc = l] \in Record
           /\ \A l \in Labels, h \in Nat, b \in BOOLEAN :
                 [x EXCEPT !.pc = l, !.held = h, !.newmsg = b] \in Record
           /\ \A l \in Labels, m, n \in Int :
                 [x EXCEPT !.pc = l, !.left = m, !.written = n] \in Record
           /\ \A l \in Labels, k \in {"write", "putmsg", "hipri"}, n \in Int :
                 [x EXCEPT !.pc = l, !.kind = k, !.left = n] \in Record
  BY DEF Record

\* At the start of a call all are set.
LEMMA IdleKept ==
    /\ Idle \in Record
    /\ \A k \in {"write", "putmsg", "hipri"}, n \in Int :
          [Idle EXCEPT !.pc = "check", !.kind = k, !.left = n] \in Record
<1>1. Idle \in Record
  BY DEF Record, Idle, Labels
<1> QED
  BY <1>1, RecordKept DEF Labels

\* Every step keeps the types of the local variables,
LEMMA LocalsKept ==
    ASSUME IInv, NEW w, Acts(w)
    PROVE  Locals'
<1>0. Locals /\ Numbers /\ Blocks
  BY DEF IInv, Types
<1>o. Others(w)
  BY OthersKept
<1>d. Domains
  BY DomainsKnown
<1>1. CASE w \in Writer /\ Begin(w)
  <2>1. PICK k \in Kinds[STRHOLD], n \in 1 .. 2 :
           wr' = [wr EXCEPT ![w] = [Idle EXCEPT !.pc = "check", !.kind = k, !.left = n]]
    BY <1>1 DEF Begin
  <2>2. k \in {"write", "putmsg", "hipri"}
    BY <1>0, KindsAssumption DEF Numbers
  <2>3. [Idle EXCEPT !.pc = "check", !.kind = k, !.left = n] \in Record
    <3>1. n \in Int
      OBVIOUS
    <3> QED
      BY <2>2, <3>1, IdleKept
  <2> QED
    BY <1>0, <2>1, <2>3 DEF Locals
<1>2. CASE w \in Writer /\ CheckErrors(w)
  <2>1. wr[w] \in Record
    BY <1>0, <1>2 DEF Locals
  <2>2. PICK x \in Record : wr' = [wr EXCEPT ![w] = x]
    BY <1>0, <2>1, RecordKept, IdleKept, <1>2 DEF Labels, CheckErrors, Rtn, Goto
  <2> QED
    BY <1>0, <2>2 DEF Locals
<1>3. CASE w \in Writer /\ Room(w)
  <2>1. wr[w] \in Record
    BY <1>0, <1>3 DEF Locals
  <2>2. PICK x \in Record : wr' = [wr EXCEPT ![w] = x]
    BY <1>0, <2>1, RecordKept, IdleKept, <1>3 DEF Labels, Room, Goto
  <2> QED
    BY <1>0, <2>2 DEF Locals
<1>4. CASE w \in Writer /\ WouldBlock(w)
  <2>1. wr[w] \in Record
    BY <1>0, <1>4 DEF Locals
  <2>2. PICK x \in Record : wr' = [wr EXCEPT ![w] = x]
    BY <1>0, <2>1, RecordKept, IdleKept, <1>4 DEF Labels, WouldBlock, Rtn
  <2> QED
    BY <1>0, <2>2 DEF Locals
<1>5. CASE w \in Writer /\ WillSleep(w)
  <2>1. wr[w] \in Record
    BY <1>0, <1>5 DEF Locals
  <2>2. PICK x \in Record : wr' = [wr EXCEPT ![w] = x]
    BY <1>0, <2>1, RecordKept, IdleKept, <1>5 DEF Labels, WillSleep, Goto
  <2> QED
    BY <1>0, <2>2 DEF Locals
<1>6. CASE w \in Writer /\ SleepOnWwrite(w)
  <2>1. wr[w] \in Record
    BY <1>0, <1>6 DEF Locals
  <2>2. PICK x \in Record : wr' = [wr EXCEPT ![w] = x]
    BY <1>0, <2>1, RecordKept, IdleKept, <1>6 DEF Labels, SleepOnWwrite, Goto
  <2> QED
    BY <1>0, <2>2 DEF Locals
<1>7. CASE w \in Writer /\ WokenUp(w)
  <2>1. wr[w] \in Record
    BY <1>0, <1>7 DEF Locals
  <2>2. PICK x \in Record : wr' = [wr EXCEPT ![w] = x]
    BY <1>0, <2>1, RecordKept, IdleKept, <1>7 DEF Labels, WokenUp, Goto
  <2> QED
    BY <1>0, <2>2 DEF Locals
<1>8. CASE w \in Writer /\ Relock(w)
  <2>1. wr[w] \in Record
    BY <1>0, <1>8 DEF Locals
  <2>2. PICK x \in Record : wr' = [wr EXCEPT ![w] = x]
    BY <1>0, <2>1, RecordKept, IdleKept, <1>8 DEF Labels, Relock, Goto
  <2> QED
    BY <1>0, <2>2 DEF Locals
<1>9. CASE w \in Writer /\ DownWriteSem(w)
  <2>1. wr[w] \in Record
    BY <1>0, <1>9 DEF Locals
  <2>2. PICK x \in Record : wr' = [wr EXCEPT ![w] = x]
    BY <1>0, <2>1, RecordKept, IdleKept, <1>9 DEF Labels, DownWriteSem, DownPasses, Goto
  <2> QED
    BY <1>0, <2>2 DEF Locals
<1>10. CASE w \in Writer /\ Fill(w)
  <2>1. wr[w] \in Record /\ "copy" \in Labels /\ sd_wmsg \in Nat
    BY <1>0, <1>10 DEF Locals, Blocks, Labels
  <2>2. CASE sd_wmsg # 0
    <3>1. wr' = [wr EXCEPT ![w] = [wr[w] EXCEPT !.pc = "copy", !.held = sd_wmsg, !.newmsg = FALSE]]
      BY <1>0, <2>2, <1>10 DEF Fill, Locals
    <3> QED
      BY <1>0, <2>1, <3>1, RecordKept DEF Locals
  <2>3. CASE sd_wmsg = 0
    <3>1. wr' = [wr EXCEPT ![w] = [wr[w] EXCEPT !.pc = "copy", !.held = sd_wmsg', !.newmsg = TRUE]]
      BY <1>0, <2>3, <1>10 DEF Fill, Locals
    <3>2. sd_wmsg' \in Nat
      BY <1>0, <2>3, <1>10 DEF Fill, Blocks
    <3> QED
      BY <1>0, <2>1, <3>1, <3>2, RecordKept DEF Locals
  <2> QED
    BY <2>2, <2>3
<1>11. CASE w \in Writer /\ CopyIn(w)
  <2>1. wr[w] \in Record /\ "send" \in Labels
    BY <1>0, <1>11 DEF Locals, Labels
  <2>2. CASE Hold(w)
    BY <1>0, <2>2, IdleKept, <1>11 DEF CopyIn, Rtn, Locals
  <2>3. CASE ~Hold(w)
    <3>1. wr' = [wr EXCEPT ![w] = [wr[w] EXCEPT !.pc = "send", !.left = wr[w].left - 1,
                                                !.written = wr[w].written + 1]]
      BY <1>0, <2>3, <1>11 DEF CopyIn, Locals
    <3>2. wr[w].left - 1 \in Int /\ wr[w].written + 1 \in Int
      BY <2>1 DEF Record
    <3> QED
      BY <1>0, <2>1, <3>1, <3>2, RecordKept DEF Locals
  <2> QED
    BY <2>2, <2>3
<1>12. CASE w \in Writer /\ BlockIsFull(w)
  <2>1. wr[w] \in Record
    BY <1>0, <1>12 DEF Locals
  <2>2. PICK x \in Record : wr' = [wr EXCEPT ![w] = x]
    BY <1>0, <2>1, RecordKept, IdleKept, <1>12 DEF Labels, BlockIsFull, Goto, HasRoom
  <2> QED
    BY <1>0, <2>2 DEF Locals
<1>13. CASE w \in Writer /\ CopyFails(w)
  <2>1. wr[w] \in Record
    BY <1>0, <1>13 DEF Locals
  <2>2. PICK x \in Record : wr' = [wr EXCEPT ![w] = x]
    BY <1>0, <2>1, RecordKept, IdleKept, <1>13 DEF Labels, CopyFails, Rtn, HasRoom
  <2> QED
    BY <1>0, <2>2 DEF Locals
<1>14. CASE w \in Writer /\ Send(w)
  <2>1. wr[w] \in Record
    BY <1>0, <1>14 DEF Locals
  <2>2. PICK x \in Record : wr' = [wr EXCEPT ![w] = x]
    BY <1>0, <2>1, RecordKept, IdleKept, <1>14 DEF Labels, Send, PutWmsg, Goto
  <2> QED
    BY <1>0, <2>2 DEF Locals
<1>15. CASE w \in Writer /\ Clear(w)
  <2>1. wr[w] \in Record
    BY <1>0, <1>15 DEF Locals
  <2>2. PICK x \in Record : wr' = [wr EXCEPT ![w] = x]
    BY <1>0, <2>1, RecordKept, IdleKept, <1>15 DEF Labels, Clear, Forgotten, Goto, Rtn
  <2> QED
    BY <1>0, <2>2 DEF Locals
<1>16. CASE w \in Writer /\ Put(w)
  <2>1. wr[w] \in Record
    BY <1>0, <1>16 DEF Locals
  <2>2. PICK x \in Record : wr' = [wr EXCEPT ![w] = x]
    BY <1>0, <2>1, RecordKept, IdleKept, <1>16 DEF Labels, Put, Rtn
  <2> QED
    BY <1>0, <2>2 DEF Locals
<1>17. CASE w \in Writer /\ Interrupted(w)
  <2>1. wr[w] \in Record
    BY <1>0, <1>17 DEF Locals
  <2>2. PICK x \in Record : wr' = [wr EXCEPT ![w] = x]
    BY <1>0, <2>1, RecordKept, IdleKept, <1>17 DEF Labels, Interrupted, BackOut, Rtn
  <2> QED
    BY <1>0, <2>2 DEF Locals
<1>18. CASE w \in Writer /\ DownInterrupted(w)
  <2>1. wr[w] \in Record
    BY <1>0, <1>18 DEF Locals
  <2>2. PICK x \in Record : wr' = [wr EXCEPT ![w] = x]
    BY <1>0, <2>1, RecordKept, IdleKept, <1>18 DEF Labels, DownInterrupted, Goto
  <2> QED
    BY <1>0, <2>2 DEF Locals
<1>19. CASE AddToScanl \/ ScanStart \/ ScanLock \/ ScanPut \/ ScanClear \/ Drain
     \/ SrvStart \/ SrvEnd \/ StreamError \/ Freeze \/ Unfreeze \/ Wakes
  <2>1. UNCHANGED <<wr>>
    BY <1>19 DEF AddToScanl, ScanStart, ScanLock, ScanPut, PutWmsg, ScanClear,
       Forgotten, Drain, SrvStart, SrvEnd, StreamError, Freeze, Unfreeze, Wakes,
       WakeUpAllWwrite, At, flags, sleepers, hold, next, tasks, history
  <2> QED
    BY <1>0, <2>1 DEF Locals
<1> QED
  BY <1>1, <1>2, <1>3, <1>4, <1>5, <1>6, <1>7, <1>8, <1>9, <1>10, <1>11, <1>12,
     <1>13, <1>14, <1>15, <1>16, <1>17, <1>18, <1>19 DEF Acts

\* of the counters and flags,
LEMMA NumbersKept ==
    ASSUME IInv, NEW w, Acts(w)
    PROVE  Numbers'
<1>0. Numbers /\ Locals
  BY DEF IInv, Types
<1>d. Domains
  BY DomainsKnown
<1>1. CASE w \in Writer /\ (SleepOnWwrite(w) \/ WokenUp(w) \/ DownWriteSem(w))
  BY <1>0, <1>d, <1>1 DEF SleepOnWwrite, Goto, WokenUp, DownWriteSem,
     DownPasses, Numbers, Record, Others, Domains, At, flags, sleepers, hold,
     next, tasks, history
<1>2. CASE w \in Writer /\ Fill(w)
  BY <1>0, <1>d, <1>2 DEF Fill, Numbers, Record, Others, Domains, At, flags,
     sleepers, hold, next, tasks, history
<1>3. CASE w \in Writer /\ CopyIn(w)
  BY <1>0, <1>d, <1>3 DEF CopyIn, HasRoom, Hold, StartsTimer, Rtn, Numbers,
     Record, Others, Domains, At, flags, sleepers, hold, next, tasks, history
<1>4. CASE w \in Writer /\ CopyFails(w)
  BY <1>0, <1>d, <1>4 DEF CopyFails, Rtn, HasRoom, Numbers, Record, Others,
     Domains, At, flags, sleepers, hold, next, tasks, history
<1>5. CASE w \in Writer /\ Send(w)
  BY <1>0, <1>d, <1>5 DEF Send, PutWmsg, Goto, Numbers, Record, Others, Domains,
     At, flags, sleepers, hold, next, tasks, history
<1>6. CASE w \in Writer /\ Clear(w)
  BY <1>0, <1>d, <1>6 DEF Clear, Forgotten, Goto, Rtn, Numbers, Record, Others,
     Domains, At, flags, sleepers, hold, next, tasks, history
<1>7. CASE w \in Writer /\ Interrupted(w)
  BY <1>0, <1>d, <1>7 DEF Interrupted, BackOut, Rtn, Numbers, Record, Others,
     Domains, At, flags, sleepers, hold, next, tasks, history
<1>8. CASE (w \in Writer /\ DownInterrupted(w)) \/ AddToScanl \/ ScanStart
  BY <1>0, <1>d, <1>8 DEF DownInterrupted, Goto, AddToScanl, ScanStart, Numbers,
     Record, Others, Domains, At, flags, sleepers, hold, next, tasks, history
<1>9. CASE ScanLock \/ ScanPut
  BY <1>0, <1>d, <1>9 DEF ScanLock, ScanPut, PutWmsg, Numbers, Record, Others,
     Domains, At, flags, sleepers, hold, next, tasks, history
<1>10. CASE ScanClear \/ Wakes
  BY <1>0, <1>d, <1>10 DEF ScanClear, Forgotten, Wakes, WakeUpAllWwrite,
     Numbers, Record, Others, Domains, At, flags, sleepers, hold, next, tasks,
     history
<1>11. CASE (w \in Writer /\ (Begin(w) \/ CheckErrors(w) \/ Room(w) \/
     WouldBlock(w) \/ WillSleep(w) \/ Relock(w) \/ BlockIsFull(w) \/ Put(w))) \/
     Drain \/ SrvStart \/ SrvEnd \/ StreamError \/ Freeze \/ Unfreeze
  <2>1. UNCHANGED <<STRHOLD, sd_wrcnt, sd_wwrite, sd_write_sem, scan,
           sd_scantimer, QSCAN, clash, broken, stale>>
    BY <1>11 DEF Begin, CheckErrors, Rtn, Goto, Room, WouldBlock, WillSleep,
       Relock, BlockIsFull, HasRoom, Put, Drain, SrvStart, SrvEnd, StreamError,
       Freeze, Unfreeze, At, flags, sleepers, hold, next, tasks, history
  <2> QED
    BY <1>0, <2>1 DEF Numbers, Record
<1> QED
  BY <1>1, <1>2, <1>3, <1>4, <1>5, <1>6, <1>7, <1>8, <1>9, <1>10, <1>11 DEF Acts

\* and of the data.
LEMMA BlocksKept ==
    ASSUME IInv, NEW w, Acts(w)
    PROVE  Blocks'
<1>0. Locals /\ Blocks
  BY DEF IInv, Types
<1>o. Others(w)
  BY OthersKept
<1>d. Domains
  BY DomainsKnown
<1>1. CASE w \in Writer /\ CheckErrors(w)
  <2>1. w \in Writer /\ wr'[w].pc # "copy"
    <3>1. wr'[w].pc \in {"idle", "put", "lock", "check"}
      BY <1>d, <1>1 DEF Domains, Record, CheckErrors, Rtn, Goto, Idle
    <3> QED
      BY <3>1, <1>1
  <2>2. UNCHANGED <<blocks, sent, taken>> /\ sd_wmsg' \in {0, sd_wmsg}
    BY <1>1 DEF CheckErrors, Rtn, Goto, Idle, hold, history
  <2>3. \A v \in Writer : At(v, "copy")' => At(v, "copy") /\ wr'[v].held = wr[v].held
    BY <1>o, <2>1 DEF Others, At
  <2>4. sd_wmsg' \in Nat /\ sd_wmsg' <= Len(blocks')
    BY <1>0, <2>2 DEF Blocks
  <2> QED
    BY <1>0, <2>2, <2>3, <2>4 DEF Blocks
<1>2. CASE w \in Writer /\ Fill(w)
  <2>0. w \in Writer /\ Len(blocks) \in Nat /\ \A v \in Writer : wr[v].held \in Nat
    BY <1>0, <1>d, <1>2 DEF Fill, Blocks, Domains, Record
  <2>1. CASE sd_wmsg # 0
    <3>1. /\ wr'[w].held = sd_wmsg /\ blocks' = blocks /\ sd_wmsg' = sd_wmsg
          /\ sent' = sent /\ taken' = taken
      BY <1>d, <2>0, <2>1, <1>2 DEF Fill, Domains, Record, next, history
    <3> QED
      BY <1>0, <1>o, <2>0, <2>1, <3>1 DEF Blocks, Others, At
  <2>2. CASE sd_wmsg = 0
    <3>0. blocks' = Append(blocks, <<>>) /\ sd_wmsg' = Len(blocks') /\ sent' = sent /\ taken' = taken
      BY <2>2, <1>2 DEF Fill, history
    <3>1. /\ blocks' \in Seq(Seq(Writer \X Nat)) /\ Len(blocks') = Len(blocks) + 1
      <4>1. <<>> \in Seq(Writer \X Nat)
        OBVIOUS
      <4>2. blocks \in Seq(Seq(Writer \X Nat))
        BY <1>0 DEF Blocks
      <4> HIDE DEF Blocks
      <4> QED
        BY <3>0, <4>1, <4>2, AppendProperties
    <3>2. wr'[w].held = Len(blocks) + 1
      BY <1>d, <2>0, <2>2, <3>0, <3>1, <1>2 DEF Fill, Domains, Record
    <3>3. ASSUME NEW v \in Writer, At(v, "copy")'
          PROVE  wr'[v].held # 0 /\ wr'[v].held <= Len(blocks')
      <4>1. CASE v = w
        BY <2>0, <3>1, <3>2, <4>1
      <4>2. CASE v # w
        <5>1. wr'[v] = wr[v] /\ At(v, "copy")
          BY <1>o, <3>3, <4>2 DEF Others, At
        <5>2. wr[v].held # 0 /\ wr[v].held <= Len(blocks)
          BY <1>0, <5>1 DEF Blocks
        <5> QED
          BY <2>0, <3>1, <5>1, <5>2
      <4> QED
        BY <4>1, <4>2
    <3> QED
      BY <1>0, <2>0, <3>0, <3>1, <3>3 DEF Blocks, At
  <2> QED
    BY <2>1, <2>2
<1>3. CASE w \in Writer /\ CopyIn(w)
  <2>0. w \in Writer /\ At(w, "copy")
    BY <1>3 DEF CopyIn
  <2>1. wr[w].held \in 1 .. Len(blocks) /\ taken[w] + 1 \in Nat /\ Len(blocks) \in Nat
    BY <1>0, <1>d, <2>0 DEF Blocks, Domains, Record
  <2>2. blocks[wr[w].held] \in Seq(Writer \X Nat)
    BY <1>0, <2>1 DEF Blocks
  <2>3. Append(blocks[wr[w].held], <<w, taken[w] + 1>>) \in Seq(Writer \X Nat)
    BY <2>0, <2>1, <2>2
  <2>4. blocks' \in Seq(Seq(Writer \X Nat)) /\ Len(blocks') = Len(blocks)
    BY <1>0, <2>1, <2>3, <1>3 DEF CopyIn, Blocks
  <2>5. wr'[w].pc # "copy" /\ taken' \in [Writer -> Nat]
    BY <1>0, <1>d, <2>1, <1>3 DEF CopyIn, Rtn, Idle, Domains, Record, Blocks
  <2> QED
    BY <1>0, <1>o, <2>4, <2>5, <1>3 DEF Blocks, CopyIn, Others, At, history
<1>4. CASE w \in Writer /\ Send(w)
  <2>1. sent' \in Seq(Writer \X Nat)
    <3>1. CASE sd_wmsg = 0
      BY <1>0, <3>1, <1>4 DEF Blocks, PutWmsg, Send
    <3>2. CASE sd_wmsg # 0
      <4>1. sd_wmsg \in 1 .. Len(blocks)
        BY <1>0, <3>2 DEF Blocks
      <4>2. blocks[sd_wmsg] \in Seq(Writer \X Nat)
        BY <1>0, <4>1, ElementOfSeq DEF Blocks
      <4>3. sent' = sent \o blocks[sd_wmsg] /\ sent \in Seq(Writer \X Nat)
        BY <1>0, <3>2, <1>4 DEF PutWmsg, Send, Blocks
      <4> QED
        BY <4>2, <4>3, ConcatProperties
    <3> QED
      BY <3>1, <3>2
  <2>2. wr'[w].pc # "copy"
    BY <1>d, <1>4 DEF Domains, Record, Send, Goto
  <2> QED
    BY <1>0, <1>o, <2>1, <2>2, <1>4 DEF Blocks, Send, Others, At
<1>5. CASE w \in Writer /\ Clear(w)
  <2>1. w \in Writer /\ wr'[w].pc # "copy"
    <3>1. wr'[w].pc \in {"idle", "put", "lock", "check"}
      BY <1>d, <1>5 DEF Domains, Record, Clear, Forgotten, Goto, Rtn, Idle
    <3> QED
      BY <3>1, <1>5
  <2>2. UNCHANGED <<blocks, sent, taken>> /\ sd_wmsg' \in {0, sd_wmsg}
    BY <1>5 DEF Clear, Forgotten, Goto, Rtn, Idle, hold, history
  <2>3. \A v \in Writer : At(v, "copy")' => At(v, "copy") /\ wr'[v].held = wr[v].held
    BY <1>o, <2>1 DEF Others, At
  <2>4. sd_wmsg' \in Nat /\ sd_wmsg' <= Len(blocks')
    BY <1>0, <2>2 DEF Blocks
  <2> QED
    BY <1>0, <2>2, <2>3, <2>4 DEF Blocks
<1>6. CASE ScanPut
  <2>1. sent' \in Seq(Writer \X Nat)
    <3>1. CASE sd_wmsg = 0
      BY <1>0, <3>1, <1>6 DEF Blocks, PutWmsg, ScanPut
    <3>2. CASE sd_wmsg # 0
      <4>1. sd_wmsg \in 1 .. Len(blocks)
        BY <1>0, <3>2 DEF Blocks
      <4>2. blocks[sd_wmsg] \in Seq(Writer \X Nat)
        BY <1>0, <4>1, ElementOfSeq DEF Blocks
      <4>3. sent' = sent \o blocks[sd_wmsg] /\ sent \in Seq(Writer \X Nat)
        BY <1>0, <3>2, <1>6 DEF PutWmsg, ScanPut, Blocks
      <4> QED
        BY <4>2, <4>3, ConcatProperties
    <3> QED
      BY <3>1, <3>2
  <2> QED
    BY <1>0, <2>1, <1>6 DEF Blocks, ScanPut, At
<1>7. CASE w \in Writer /\ Begin(w)
  BY <1>0, <1>o, <1>d, <1>7 DEF Begin, Blocks, Record, Idle, Others, Domains,
     At, flags, sleepers, hold, next, tasks, history
<1>8. CASE w \in Writer /\ Room(w)
  BY <1>0, <1>o, <1>d, <1>8 DEF Room, Goto, Blocks, Record, Idle, Others,
     Domains, At, flags, sleepers, hold, next, tasks, history
<1>9. CASE w \in Writer /\ WouldBlock(w)
  BY <1>0, <1>o, <1>d, <1>9 DEF WouldBlock, Rtn, Blocks, Record, Idle, Others,
     Domains, At, flags, sleepers, hold, next, tasks, history
<1>10. CASE w \in Writer /\ WillSleep(w)
  BY <1>0, <1>o, <1>d, <1>10 DEF WillSleep, Goto, Blocks, Record, Idle, Others,
     Domains, At, flags, sleepers, hold, next, tasks, history
<1>11. CASE w \in Writer /\ SleepOnWwrite(w)
  BY <1>0, <1>o, <1>d, <1>11 DEF SleepOnWwrite, Goto, Blocks, Record, Idle,
     Others, Domains, At, flags, sleepers, hold, next, tasks, history
<1>12. CASE w \in Writer /\ WokenUp(w)
  BY <1>0, <1>o, <1>d, <1>12 DEF WokenUp, Goto, Blocks, Record, Idle, Others,
     Domains, At, flags, sleepers, hold, next, tasks, history
<1>13. CASE w \in Writer /\ Relock(w)
  BY <1>0, <1>o, <1>d, <1>13 DEF Relock, Goto, Blocks, Record, Idle, Others,
     Domains, At, flags, sleepers, hold, next, tasks, history
<1>14. CASE w \in Writer /\ DownWriteSem(w)
  BY <1>0, <1>o, <1>d, <1>14 DEF DownWriteSem, DownPasses, Goto, Blocks, Record,
     Idle, Others, Domains, At, flags, sleepers, hold, next, tasks, history
<1>15. CASE w \in Writer /\ BlockIsFull(w)
  BY <1>0, <1>o, <1>d, <1>15 DEF BlockIsFull, Goto, HasRoom, Blocks, Record,
     Idle, Others, Domains, At, flags, sleepers, hold, next, tasks, history
<1>16. CASE w \in Writer /\ CopyFails(w)
  BY <1>0, <1>o, <1>d, <1>16 DEF CopyFails, Rtn, HasRoom, Blocks, Record, Idle,
     Others, Domains, At, flags, sleepers, hold, next, tasks, history
<1>17. CASE w \in Writer /\ Put(w)
  BY <1>0, <1>o, <1>d, <1>17 DEF Put, Rtn, Blocks, Record, Idle, Others,
     Domains, At, flags, sleepers, hold, next, tasks, history
<1>18. CASE w \in Writer /\ Interrupted(w)
  BY <1>0, <1>o, <1>d, <1>18 DEF Interrupted, BackOut, Rtn, Blocks, Record,
     Idle, Others, Domains, At, flags, sleepers, hold, next, tasks, history
<1>19. CASE w \in Writer /\ DownInterrupted(w)
  BY <1>0, <1>o, <1>d, <1>19 DEF DownInterrupted, Goto, Blocks, Record, Idle,
     Others, Domains, At, flags, sleepers, hold, next, tasks, history
<1>20. CASE ScanClear
  BY <1>0, <1>o, <1>d, <1>20 DEF ScanClear, Forgotten, Blocks, Record, Idle,
     Others, Domains, At, flags, sleepers, hold, next, tasks, history
<1>21. CASE AddToScanl \/ ScanStart \/ ScanLock \/ Drain \/ SrvStart \/ SrvEnd
     \/ StreamError \/ Freeze \/ Unfreeze \/ Wakes
  <2>1. UNCHANGED <<wr, blocks, sd_wmsg, sent, taken>>
    BY <1>21 DEF AddToScanl, ScanStart, ScanLock, Drain, SrvStart, SrvEnd,
       StreamError, Freeze, Unfreeze, Wakes, WakeUpAllWwrite, At, flags,
       sleepers, hold, next, tasks, history
  <2> QED
    BY <1>0, <2>1 DEF Blocks, Record, Idle, At
<1> QED
  BY <1>1, <1>2, <1>3, <1>4, <1>5, <1>6, <1>7, <1>8, <1>9, <1>10, <1>11, <1>12,
     <1>13, <1>14, <1>15, <1>16, <1>17, <1>18, <1>19, <1>20, <1>21 DEF Acts

\* What has happened stays so.
LEMMA HistoryKept ==
    ASSUME IInv, NEW w, Acts(w)
    PROVE  (clash => clash') /\ (broken => broken') /\ (stale => stale')
<1>0. TRUE
  BY DEF IInv, Types
<1>d. Domains
  BY DomainsKnown
<1>1. CASE w \in Writer /\ Fill(w)
  BY <1>0, <1>d, <1>1 DEF Fill, Others, Domains, At, flags, sleepers, hold,
     next, tasks, history
<1>2. CASE w \in Writer /\ CopyFails(w)
  BY <1>0, <1>d, <1>2 DEF CopyFails, Rtn, HasRoom, Others, Domains, At, flags,
     sleepers, hold, next, tasks, history
<1>3. CASE w \in Writer /\ DownInterrupted(w)
  BY <1>0, <1>d, <1>3 DEF DownInterrupted, Goto, Others, Domains, At, flags,
     sleepers, hold, next, tasks, history
<1>4. CASE ScanPut
  BY <1>0, <1>d, <1>4 DEF ScanPut, PutWmsg, Others, Domains, At, flags,
     sleepers, hold, next, tasks, history
<1>5. CASE (w \in Writer /\ (Begin(w) \/ CheckErrors(w) \/ Room(w) \/
     WouldBlock(w) \/ WillSleep(w) \/ SleepOnWwrite(w) \/ WokenUp(w) \/
     Relock(w) \/ DownWriteSem(w) \/ CopyIn(w) \/ BlockIsFull(w) \/ Send(w) \/
     Clear(w) \/ Put(w) \/ Interrupted(w))) \/ AddToScanl \/ ScanStart \/
     ScanLock \/ ScanClear \/ Drain \/ SrvStart \/ SrvEnd \/ StreamError \/
     Freeze \/ Unfreeze \/ Wakes
  <2>1. UNCHANGED <<clash, broken, stale>>
    BY <1>5 DEF Begin, CheckErrors, Rtn, Goto, Room, WouldBlock, WillSleep,
       SleepOnWwrite, WokenUp, Relock, DownWriteSem, DownPasses, CopyIn,
       HasRoom, Hold, StartsTimer, BlockIsFull, Send, PutWmsg, Clear, Forgotten,
       Put, Interrupted, BackOut, AddToScanl, ScanStart, ScanLock, ScanClear,
       Drain, SrvStart, SrvEnd, StreamError, Freeze, Unfreeze, Wakes,
       WakeUpAllWwrite, At, flags, sleepers, hold, next, tasks, history
  <2> QED
    BY <1>0, <2>1
<1> QED
  BY <1>1, <1>2, <1>3, <1>4, <1>5 DEF Acts

-----------------------------------------------------------------------------
(* The writers that sleep                                                  *)

Sleepers == {v \in Writer : At(v, "asleep")}

\* Three actions have to do with who sleeps.
LEMMA SleepersStay ==
    ASSUME IInv, NEW w, Acts(w)
    PROVE  \/ w \in Writer /\ (SleepOnWwrite(w) \/ WokenUp(w) \/ Interrupted(w))
           \/ /\ \A v \in Writer : At(v, "asleep")' <=> At(v, "asleep")
              /\ sd_wrcnt' + sd_wwrite' = sd_wrcnt + sd_wwrite
<1>0. Numbers
  BY DEF IInv, Types
<1>o. Others(w)
  BY OthersKept
<1>d. Domains
  BY DomainsKnown
<1>1. CASE w \in Writer /\ SleepOnWwrite(w)
  BY <1>1
<1>2. CASE w \in Writer /\ WokenUp(w)
  BY <1>2
<1>3. CASE w \in Writer /\ Interrupted(w)
  BY <1>3
<1>4. CASE w \in Writer /\ Begin(w)
  BY <1>0, <1>o, <1>d, <1>4 DEF Begin, Numbers, Record, Idle, Others, Domains,
     At, flags, sleepers, hold, next, tasks, history
<1>5. CASE w \in Writer /\ CheckErrors(w)
  BY <1>0, <1>o, <1>d, <1>5 DEF CheckErrors, Rtn, Goto, Numbers, Record, Idle,
     Others, Domains, At, flags, sleepers, hold, next, tasks, history
<1>6. CASE w \in Writer /\ Room(w)
  BY <1>0, <1>o, <1>d, <1>6 DEF Room, Goto, Numbers, Record, Idle, Others,
     Domains, At, flags, sleepers, hold, next, tasks, history
<1>7. CASE w \in Writer /\ (WouldBlock(w) \/ WillSleep(w) \/ Relock(w))
  BY <1>0, <1>o, <1>d, <1>7 DEF WouldBlock, Rtn, WillSleep, Goto, Relock,
     Numbers, Record, Idle, Others, Domains, At, flags, sleepers, hold, next,
     tasks, history
<1>8. CASE w \in Writer /\ (DownWriteSem(w) \/ Fill(w))
  BY <1>0, <1>o, <1>d, <1>8 DEF DownWriteSem, DownPasses, Goto, Fill, Numbers,
     Record, Idle, Others, Domains, At, flags, sleepers, hold, next, tasks,
     history
<1>9. CASE w \in Writer /\ CopyIn(w)
  BY <1>0, <1>o, <1>d, <1>9 DEF CopyIn, HasRoom, Hold, StartsTimer, Rtn,
     Numbers, Record, Idle, Others, Domains, At, flags, sleepers, hold, next,
     tasks, history
<1>10. CASE w \in Writer /\ (BlockIsFull(w) \/ CopyFails(w) \/ Send(w))
  BY <1>0, <1>o, <1>d, <1>10 DEF BlockIsFull, Goto, HasRoom, CopyFails, Rtn,
     Send, PutWmsg, Numbers, Record, Idle, Others, Domains, At, flags, sleepers,
     hold, next, tasks, history
<1>11. CASE (w \in Writer /\ (Clear(w) \/ Put(w) \/ DownInterrupted(w))) \/
     Wakes
  BY <1>0, <1>o, <1>d, <1>11 DEF Clear, Forgotten, Goto, Rtn, Put,
     DownInterrupted, Wakes, WakeUpAllWwrite, Numbers, Record, Idle, Others,
     Domains, At, flags, sleepers, hold, next, tasks, history
<1>12. CASE AddToScanl \/ ScanStart \/ ScanLock \/ ScanPut \/ ScanClear \/ Drain
     \/ SrvStart \/ SrvEnd \/ StreamError \/ Freeze \/ Unfreeze
  <2>1. UNCHANGED <<wr, sd_wrcnt, sd_wwrite>>
    BY <1>12 DEF AddToScanl, ScanStart, ScanLock, ScanPut, PutWmsg, ScanClear,
       Forgotten, Drain, SrvStart, SrvEnd, StreamError, Freeze, Unfreeze, At,
       flags, sleepers, hold, next, tasks, history
  <2> QED
    BY <1>0, <2>1 DEF Numbers, Record, Idle, At
<1> QED
  BY <1>1, <1>2, <1>3, <1>4, <1>5, <1>6, <1>7, <1>8, <1>9, <1>10, <1>11, <1>12
     DEF Acts

\* The writers that sleep are counted.
LEMMA CountKept ==
    ASSUME IInv, NEW w, Acts(w)
    PROVE  SleepersCounted'
<1>0. Numbers /\ SleepersCounted
  BY DEF IInv, Types
<1>o. Others(w)
  BY OthersKept
<1>d. Domains
  BY DomainsKnown
<1>f. IsFiniteSet(Sleepers) /\ Cardinality(Sleepers) \in Int
  <2>1. IsFiniteSet(Sleepers)
    BY WriterAssumption, FS_Subset DEF Sleepers
  <2>2. Cardinality(Sleepers) \in Nat
    BY <2>1, FS_CardinalityType
  <2> QED
    BY <2>1, <2>2
<1>1. CASE w \in Writer /\ SleepOnWwrite(w)
  <2>1. \A v \in Writer : At(v, "asleep")' <=> v = w \/ At(v, "asleep")
    BY <1>d, <1>o, <1>1 DEF SleepOnWwrite, Goto, Others, Domains, Record, Idle, At
  <2>2. Sleepers' = Sleepers \union {w}
    BY <2>1, <1>1 DEF Sleepers
  <2>3. w \notin Sleepers
    BY <1>1 DEF SleepOnWwrite, Sleepers, At
  <2>4. Cardinality(Sleepers') = Cardinality(Sleepers) + 1
    BY <1>f, <2>2, <2>3, FS_AddElement
  <2>5. sd_wrcnt' + sd_wwrite' = sd_wrcnt + sd_wwrite + 1
    BY <1>0, <1>1 DEF SleepOnWwrite, Goto, sleepers, Numbers
  <2> QED
    BY <1>0, <1>f, <2>4, <2>5 DEF SleepersCounted, Sleepers, Numbers
<1>2. CASE w \in Writer /\ WokenUp(w)
  <2>1. \A v \in Writer : At(v, "asleep")' <=> v # w /\ At(v, "asleep")
    BY <1>d, <1>o, <1>2 DEF WokenUp, Goto, Others, Domains, Record, Idle, At
  <2>2. Sleepers' = Sleepers \ {w}
    BY <2>1, <1>2 DEF Sleepers
  <2>3. w \in Sleepers
    BY <1>2 DEF WokenUp, Sleepers, At
  <2>4. Cardinality(Sleepers') = Cardinality(Sleepers) - 1
    BY <1>f, <2>2, <2>3, FS_RemoveElement
  <2>5. sd_wrcnt' + sd_wwrite' = sd_wrcnt + sd_wwrite - 1
    BY <1>0, <1>2 DEF WokenUp, Goto, sleepers, Numbers
  <2> QED
    BY <1>0, <1>f, <2>4, <2>5 DEF SleepersCounted, Sleepers, Numbers
<1>3. CASE w \in Writer /\ Interrupted(w)
  <2>1. \A v \in Writer : At(v, "asleep")' <=> v # w /\ At(v, "asleep")
    BY <1>d, <1>o, <1>3 DEF Interrupted, Rtn, BackOut, Others, Domains, Record, Idle, At
  <2>2. Sleepers' = Sleepers \ {w}
    BY <2>1, <1>3 DEF Sleepers
  <2>3. w \in Sleepers
    BY <1>3 DEF Interrupted, Sleepers, At
  <2>4. Cardinality(Sleepers') = Cardinality(Sleepers) - 1
    BY <1>f, <2>2, <2>3, FS_RemoveElement
  <2>5. sd_wrcnt' + sd_wwrite' = sd_wrcnt + sd_wwrite - 1
    BY <1>0, <1>3 DEF Interrupted, Rtn, BackOut, sleepers, Numbers
  <2> QED
    BY <1>0, <1>f, <2>4, <2>5 DEF SleepersCounted, Sleepers, Numbers
<1>4. CASE /\ \A v \in Writer : At(v, "asleep")' <=> At(v, "asleep")
           /\ sd_wrcnt' + sd_wwrite' = sd_wrcnt + sd_wwrite
  <2>1. Sleepers' = Sleepers
    BY <1>4 DEF Sleepers
  <2> QED
    BY <1>0, <1>4, <2>1 DEF SleepersCounted, Sleepers
<1> QED
  BY <1>1, <1>2, <1>3, <1>4, SleepersStay

-----------------------------------------------------------------------------
(* The block in sd_wmsg                                                    *)

\* sd_write_sem lets one in.
LEMMA OneWorksKept ==
    ASSUME IInv, NEW w, Acts(w)
    PROVE  OneWorks'
<1>0. Numbers /\ OneWorks
  BY DEF IInv, Types
<1>o. Others(w)
  BY OthersKept
<1>d. Domains
  BY DomainsKnown
<1>h. (clash => clash') /\ (broken => broken') /\ (stale => stale')
  BY HistoryKept
<1>1. CASE w \in Writer /\ Fill(w)
  <2>1. w \in Writer /\ At(w, "fill") /\ wr'[w].pc = "copy"
    BY <1>d, <1>1 DEF Fill, Domains, Record
  <2>2. \A v \in Writer : AtWork(v)' <=> AtWork(v)
    BY <1>o, <2>1 DEF Others, AtWork, At
  <2>3. UNCHANGED <<sd_write_sem, broken>>
    BY <1>1 DEF Fill, history
  <2> QED
    BY <1>0, <2>2, <2>3 DEF OneWorks
<1>2. CASE w \in Writer /\ CopyIn(w)
  <2>1. /\ w \in Writer /\ At(w, "copy") /\ AtWork(w)
        /\ broken' = broken /\ clash' = clash /\ stale' = stale
        /\ UNCHANGED <<sd_wmsg, scan, QSCAN>>
    BY <1>2 DEF CopyIn, AtWork, At, history
  <2>2. \/ /\ wr'[w].pc = "idle" /\ sd_write_sem' = sd_write_sem + 1
           /\ sd_scantimer' = (sd_scantimer \/ wr[w].newmsg)
        \/ /\ wr'[w].pc = "send" /\ sd_write_sem' = sd_write_sem
           /\ sd_scantimer' = sd_scantimer
    BY <1>d, <1>2 DEF CopyIn, StartsTimer, Rtn, Idle, Domains, Record
  <2>3. ASSUME ~broken'
        PROVE  /\ \A v \in Writer : AtWork(v) => v = w
               /\ sd_write_sem <= 0
    BY <1>0, <2>1, <2>3 DEF OneWorks
  <2>4. \A v \in Writer : v # w => (AtWork(v)' <=> AtWork(v))
    BY <1>o DEF Others, AtWork
  <2>5. CASE wr'[w].pc = "idle" /\ sd_write_sem' = sd_write_sem + 1
    <3>1. ~AtWork(w)'
      BY <2>5 DEF AtWork
    <3> QED
      BY <1>0, <2>3, <2>4, <2>5, <3>1 DEF OneWorks, Numbers
  <2>6. CASE wr'[w].pc = "send" /\ sd_write_sem' = sd_write_sem
    BY <1>0, <2>3, <2>4, <2>6 DEF OneWorks, Numbers
  <2> QED
    BY <2>2, <2>5, <2>6
<1>3. CASE w \in Writer /\ Begin(w)
  BY <1>0, <1>o, <1>d, <1>h, <1>3 DEF Begin, OneWorks, AtWork, Numbers, Record,
     Idle, Others, Domains, At, flags, sleepers, hold, next, tasks, history
<1>4. CASE w \in Writer /\ CheckErrors(w)
  BY <1>0, <1>o, <1>d, <1>h, <1>4 DEF CheckErrors, Rtn, Goto, OneWorks, AtWork,
     Numbers, Record, Idle, Others, Domains, At, flags, sleepers, hold, next,
     tasks, history
<1>5. CASE w \in Writer /\ Room(w)
  BY <1>0, <1>o, <1>d, <1>h, <1>5 DEF Room, Goto, OneWorks, AtWork, Numbers,
     Record, Idle, Others, Domains, At, flags, sleepers, hold, next, tasks,
     history
<1>6. CASE w \in Writer /\ (WouldBlock(w) \/ WillSleep(w) \/ SleepOnWwrite(w))
  BY <1>0, <1>o, <1>d, <1>h, <1>6 DEF WouldBlock, Rtn, WillSleep, Goto,
     SleepOnWwrite, OneWorks, AtWork, Numbers, Record, Idle, Others, Domains,
     At, flags, sleepers, hold, next, tasks, history
<1>7. CASE w \in Writer /\ (WokenUp(w) \/ Relock(w) \/ DownWriteSem(w))
  BY <1>0, <1>o, <1>d, <1>h, <1>7 DEF WokenUp, Goto, Relock, DownWriteSem,
     DownPasses, OneWorks, AtWork, Numbers, Record, Idle, Others, Domains, At,
     flags, sleepers, hold, next, tasks, history
<1>8. CASE w \in Writer /\ BlockIsFull(w)
  BY <1>0, <1>o, <1>d, <1>h, <1>8 DEF BlockIsFull, Goto, HasRoom, OneWorks,
     AtWork, Numbers, Record, Idle, Others, Domains, At, flags, sleepers, hold,
     next, tasks, history
<1>9. CASE w \in Writer /\ CopyFails(w)
  BY <1>0, <1>o, <1>d, <1>h, <1>9 DEF CopyFails, Rtn, HasRoom, OneWorks, AtWork,
     Numbers, Record, Idle, Others, Domains, At, flags, sleepers, hold, next,
     tasks, history
<1>10. CASE w \in Writer /\ Send(w)
  BY <1>0, <1>o, <1>d, <1>h, <1>10 DEF Send, PutWmsg, Goto, OneWorks, AtWork,
     Numbers, Record, Idle, Others, Domains, At, flags, sleepers, hold, next,
     tasks, history
<1>11. CASE w \in Writer /\ (Clear(w) \/ Put(w) \/ Interrupted(w) \/
     DownInterrupted(w))
  BY <1>0, <1>o, <1>d, <1>h, <1>11 DEF Clear, Forgotten, Goto, Rtn, Put,
     Interrupted, BackOut, DownInterrupted, OneWorks, AtWork, Numbers, Record,
     Idle, Others, Domains, At, flags, sleepers, hold, next, tasks, history
<1>12. CASE AddToScanl \/ ScanStart \/ ScanLock \/ ScanPut \/ ScanClear \/ Drain
     \/ SrvStart \/ SrvEnd \/ StreamError \/ Freeze \/ Unfreeze \/ Wakes
  <2>1. UNCHANGED <<wr, sd_write_sem, broken>>
    BY <1>12 DEF AddToScanl, ScanStart, ScanLock, ScanPut, PutWmsg, ScanClear,
       Forgotten, Drain, SrvStart, SrvEnd, StreamError, Freeze, Unfreeze, Wakes,
       WakeUpAllWwrite, At, flags, sleepers, hold, next, tasks, history
  <2> QED
    BY <1>0, <2>1, <1>h DEF OneWorks, AtWork, Numbers, Record, Idle, At
<1> QED
  BY <1>1, <1>2, <1>3, <1>4, <1>5, <1>6, <1>7, <1>8, <1>9, <1>10, <1>11, <1>12
     DEF Acts

\* What the writer fills is what is sent.
LEMMA HeldIsTheirsKept ==
    ASSUME IInv, NEW w, Acts(w)
    PROVE  HeldIsTheirs'
<1>0. Numbers /\ Blocks /\ OneWorks /\ HeldIsTheirs
  BY DEF IInv, Types
<1>o. Others(w)
  BY OthersKept
<1>d. Domains
  BY DomainsKnown
<1>h. (clash => clash') /\ (broken => broken') /\ (stale => stale')
  BY HistoryKept
<1>1. CASE w \in Writer /\ Fill(w)
  <2>1. /\ w \in Writer /\ AtWork(w) /\ clash' = (clash \/ scan = "clear") /\ scan' = scan
        /\ broken' = broken
    BY <1>1 DEF Fill, AtWork, At, history
  <2>2. wr'[w].pc = "copy" /\ wr'[w].held = sd_wmsg'
    BY <1>d, <1>1 DEF Fill, Domains, Record
  <2>3. ASSUME ~broken', ~clash', NEW v \in Writer, wr'[v].pc \in {"copy", "send", "clear"}
        PROVE  v = w
    BY <1>0, <1>o, <2>1, <2>3 DEF OneWorks, AtWork, Others
  <2> QED
    BY <2>1, <2>2, <2>3 DEF HeldIsTheirs, At
<1>2. CASE w \in Writer /\ Begin(w)
  BY <1>0, <1>o, <1>d, <1>h, <1>2 DEF Begin, OneWorks, HeldIsTheirs, AtWork,
     Record, Idle, Others, Domains, At, flags, sleepers, hold, next, tasks,
     history
<1>3. CASE w \in Writer /\ CheckErrors(w)
  BY <1>0, <1>o, <1>d, <1>h, <1>3 DEF CheckErrors, Rtn, Goto, OneWorks,
     HeldIsTheirs, AtWork, Record, Idle, Others, Domains, At, flags, sleepers,
     hold, next, tasks, history
<1>4. CASE w \in Writer /\ Room(w)
  BY <1>0, <1>o, <1>d, <1>h, <1>4 DEF Room, Goto, OneWorks, HeldIsTheirs,
     AtWork, Record, Idle, Others, Domains, At, flags, sleepers, hold, next,
     tasks, history
<1>5. CASE w \in Writer /\ (WouldBlock(w) \/ WillSleep(w) \/ SleepOnWwrite(w))
  BY <1>0, <1>o, <1>d, <1>h, <1>5 DEF WouldBlock, Rtn, WillSleep, Goto,
     SleepOnWwrite, OneWorks, HeldIsTheirs, AtWork, Record, Idle, Others,
     Domains, At, flags, sleepers, hold, next, tasks, history
<1>6. CASE w \in Writer /\ (WokenUp(w) \/ Relock(w) \/ DownWriteSem(w))
  BY <1>0, <1>o, <1>d, <1>h, <1>6 DEF WokenUp, Goto, Relock, DownWriteSem,
     DownPasses, OneWorks, HeldIsTheirs, AtWork, Record, Idle, Others, Domains,
     At, flags, sleepers, hold, next, tasks, history
<1>7. CASE w \in Writer /\ (CopyIn(w) \/ BlockIsFull(w) \/ CopyFails(w))
  BY <1>0, <1>o, <1>d, <1>h, <1>7 DEF CopyIn, HasRoom, Hold, StartsTimer, Rtn,
     BlockIsFull, Goto, CopyFails, OneWorks, HeldIsTheirs, AtWork, Record, Idle,
     Others, Domains, At, flags, sleepers, hold, next, tasks, history
<1>8. CASE (w \in Writer /\ (Send(w) \/ Clear(w) \/ Put(w) \/ Interrupted(w) \/
     DownInterrupted(w))) \/ ScanStart
  BY <1>0, <1>o, <1>d, <1>h, <1>8 DEF Send, PutWmsg, Goto, Clear, Forgotten,
     Rtn, Put, Interrupted, BackOut, DownInterrupted, ScanStart, OneWorks,
     HeldIsTheirs, AtWork, Record, Idle, Others, Domains, At, flags, sleepers,
     hold, next, tasks, history
<1>9. CASE ScanLock
  BY <1>0, <1>o, <1>d, <1>h, <1>9 DEF ScanLock, OneWorks, HeldIsTheirs, AtWork,
     Record, Idle, Others, Domains, At, flags, sleepers, hold, next, tasks,
     history
<1>10. CASE ScanPut
  BY <1>0, <1>o, <1>d, <1>h, <1>10 DEF ScanPut, PutWmsg, OneWorks, HeldIsTheirs,
     AtWork, Record, Idle, Others, Domains, At, flags, sleepers, hold, next,
     tasks, history
<1>11. CASE ScanClear
  BY <1>0, <1>o, <1>d, <1>h, <1>11 DEF ScanClear, Forgotten, OneWorks,
     HeldIsTheirs, AtWork, Record, Idle, Others, Domains, At, flags, sleepers,
     hold, next, tasks, history
<1>12. CASE AddToScanl \/ Drain \/ SrvStart \/ SrvEnd \/ StreamError \/ Freeze
     \/ Unfreeze \/ Wakes
  <2>1. UNCHANGED <<wr, sd_wmsg, scan, clash, broken>>
    BY <1>12 DEF AddToScanl, Drain, SrvStart, SrvEnd, StreamError, Freeze,
       Unfreeze, Wakes, WakeUpAllWwrite, At, flags, sleepers, hold, next, tasks,
       history
  <2> QED
    BY <1>0, <2>1, <1>h DEF OneWorks, HeldIsTheirs, AtWork, Record, Idle, At
<1> QED
  BY <1>1, <1>2, <1>3, <1>4, <1>5, <1>6, <1>7, <1>8, <1>9, <1>10, <1>11, <1>12
     DEF Acts

\* Somebody will see to the block in sd_wmsg.
LEMMA TimedKept ==
    ASSUME IInv, NEW w, Acts(w)
    PROVE  Timed'
<1>0. Numbers /\ Blocks /\ OneWorks /\ HeldIsTheirs /\ Timed
  BY DEF IInv, Types
<1>o. Others(w)
  BY OthersKept
<1>d. Domains
  BY DomainsKnown
<1>h. (clash => clash') /\ (broken => broken') /\ (stale => stale')
  BY HistoryKept
<1>1. CASE w \in Writer /\ DownWriteSem(w)
  <2>1. /\ w \in Writer /\ sd_write_sem > 0 /\ At(w, "down") /\ wr'[w].pc = "fill"
        /\ UNCHANGED <<sd_wmsg, scan, clash, broken, sd_scantimer, QSCAN, stale>>
    BY <1>d, <1>1 DEF DownWriteSem, DownPasses, Goto, Domains, Record, At, history
  <2>2. ASSUME ~broken
        PROVE  \A v \in Writer : ~AtWork(v) /\ (v # w => ~AtWork(v)')
    BY <1>0, <1>o, <2>1, <2>2 DEF OneWorks, Numbers, AtWork, Others
  <2>3. SeenTo' <=> SeenTo
    BY <2>1 DEF SeenTo
  <2>4. AtWork(w)'
    BY <2>1 DEF AtWork
  <2>5. ASSUME ~broken, NEW v \in Writer, At(v, "fill")' \/ At(v, "copy")'
        PROVE  v = w
    BY <2>2, <2>5 DEF AtWork, At
  <2> QED
    BY <1>0, <2>1, <2>2, <2>3, <2>4, <2>5 DEF Timed, At
<1>2. CASE w \in Writer /\ CopyIn(w)
  <2>1. /\ w \in Writer /\ At(w, "copy") /\ AtWork(w)
        /\ broken' = broken /\ clash' = clash /\ stale' = stale
        /\ UNCHANGED <<sd_wmsg, scan, QSCAN>>
    BY <1>2 DEF CopyIn, AtWork, At, history
  <2>2. \/ /\ wr'[w].pc = "idle" /\ sd_write_sem' = sd_write_sem + 1
           /\ sd_scantimer' = (sd_scantimer \/ wr[w].newmsg)
        \/ /\ wr'[w].pc = "send" /\ sd_write_sem' = sd_write_sem
           /\ sd_scantimer' = sd_scantimer
    BY <1>d, <1>2 DEF CopyIn, StartsTimer, Rtn, Idle, Domains, Record
  <2>3. ASSUME ~broken'
        PROVE  \A v \in Writer : v # w => ~AtWork(v)'
    BY <1>0, <1>o, <2>1, <2>3 DEF OneWorks, Others, AtWork
  <2>4. ASSUME ~broken', NEW v \in Writer
        PROVE  ~At(v, "fill")' /\ ~At(v, "copy")'
    BY <2>2, <2>3, <2>4 DEF AtWork, At
  <2>5. CASE wr'[w].pc = "idle" /\ sd_scantimer' = (sd_scantimer \/ wr[w].newmsg)
    <3>1. ASSUME ~broken', ~clash', ~stale'
          PROVE  SeenTo'
      <4>1. wr[w].newmsg \/ SeenTo
        BY <1>0, <2>1, <3>1 DEF Timed
      <4> QED
        BY <2>1, <2>5, <4>1 DEF SeenTo
    <3> QED
      BY <2>4, <3>1 DEF Timed
  <2>6. CASE wr'[w].pc = "send"
    <3>1. AtWork(w)'
      BY <2>6 DEF AtWork
    <3> QED
      BY <2>1, <2>4, <3>1 DEF Timed
  <2> QED
    BY <2>2, <2>5, <2>6
<1>3. CASE ScanLock
  <2>1. /\ UNCHANGED <<wr, sd_wmsg, clash, broken, sd_scantimer, QSCAN, stale>>
        /\ IF sd_wmsg = 0 THEN scan' = "idle" ELSE scan' = "put"
    BY <1>3 DEF ScanLock, history
  <2>2. CASE sd_wmsg # 0
    <3>1. SeenTo'
      BY <2>1, <2>2 DEF SeenTo
    <3> QED
      BY <3>1 DEF Timed
  <2>3. CASE sd_wmsg = 0
    <3>1. ASSUME ~broken, ~clash, NEW v \in Writer
          PROVE  ~At(v, "copy")
      BY <1>0, <2>3, <3>1 DEF HeldIsTheirs, Blocks
    <3> QED
      BY <2>1, <2>3, <3>1 DEF Timed, At
  <2> QED
    BY <2>2, <2>3
<1>4. CASE w \in Writer /\ Begin(w)
  BY <1>0, <1>o, <1>d, <1>h, <1>4 DEF Begin, OneWorks, HeldIsTheirs, Timed,
     SeenTo, AtWork, Record, Idle, Others, Domains, At, flags, sleepers, hold,
     next, tasks, history
<1>5. CASE w \in Writer /\ CheckErrors(w)
  BY <1>0, <1>o, <1>d, <1>h, <1>5 DEF CheckErrors, Rtn, Goto, OneWorks,
     HeldIsTheirs, Timed, SeenTo, AtWork, Record, Idle, Others, Domains, At,
     flags, sleepers, hold, next, tasks, history
<1>6. CASE w \in Writer /\ Room(w)
  BY <1>0, <1>o, <1>d, <1>h, <1>6 DEF Room, Goto, OneWorks, HeldIsTheirs, Timed,
     SeenTo, AtWork, Record, Idle, Others, Domains, At, flags, sleepers, hold,
     next, tasks, history
<1>7. CASE w \in Writer /\ (WouldBlock(w) \/ WillSleep(w) \/ SleepOnWwrite(w))
  BY <1>0, <1>o, <1>d, <1>h, <1>7 DEF WouldBlock, Rtn, WillSleep, Goto,
     SleepOnWwrite, OneWorks, HeldIsTheirs, Timed, SeenTo, AtWork, Record, Idle,
     Others, Domains, At, flags, sleepers, hold, next, tasks, history
<1>8. CASE w \in Writer /\ (WokenUp(w) \/ Relock(w) \/ Fill(w))
  BY <1>0, <1>o, <1>d, <1>h, <1>8 DEF WokenUp, Goto, Relock, Fill, OneWorks,
     HeldIsTheirs, Timed, SeenTo, AtWork, Record, Idle, Others, Domains, At,
     flags, sleepers, hold, next, tasks, history
<1>9. CASE w \in Writer /\ (BlockIsFull(w) \/ CopyFails(w) \/ Send(w))
  BY <1>0, <1>o, <1>d, <1>h, <1>9 DEF BlockIsFull, Goto, HasRoom, CopyFails,
     Rtn, Send, PutWmsg, OneWorks, HeldIsTheirs, Timed, SeenTo, AtWork, Record,
     Idle, Others, Domains, At, flags, sleepers, hold, next, tasks, history
<1>10. CASE (w \in Writer /\ (Clear(w) \/ Put(w) \/ Interrupted(w) \/
     DownInterrupted(w))) \/ AddToScanl \/ ScanStart
  BY <1>0, <1>o, <1>d, <1>h, <1>10 DEF Clear, Forgotten, Goto, Rtn, Put,
     Interrupted, BackOut, DownInterrupted, AddToScanl, ScanStart, OneWorks,
     HeldIsTheirs, Timed, SeenTo, AtWork, Record, Idle, Others, Domains, At,
     flags, sleepers, hold, next, tasks, history
<1>11. CASE ScanPut \/ ScanClear
  BY <1>0, <1>o, <1>d, <1>h, <1>11 DEF ScanPut, PutWmsg, ScanClear, Forgotten,
     OneWorks, HeldIsTheirs, Timed, SeenTo, AtWork, Record, Idle, Others,
     Domains, At, flags, sleepers, hold, next, tasks, history
<1>12. CASE Drain \/ SrvStart \/ SrvEnd \/ StreamError \/ Freeze \/ Unfreeze \/
     Wakes
  <2>1. UNCHANGED <<wr, sd_wmsg, scan, clash, broken, sd_scantimer, QSCAN,
           stale>>
    BY <1>12 DEF Drain, SrvStart, SrvEnd, StreamError, Freeze, Unfreeze, Wakes,
       WakeUpAllWwrite, At, flags, sleepers, hold, next, tasks, history
  <2> QED
    BY <1>0, <2>1, <1>h DEF OneWorks, HeldIsTheirs, Timed, SeenTo, AtWork,
       Record, Idle, At
<1> QED
  BY <1>1, <1>2, <1>3, <1>4, <1>5, <1>6, <1>7, <1>8, <1>9, <1>10, <1>11, <1>12
     DEF Acts

-----------------------------------------------------------------------------
(* What has been written                                                   *)

\* Only a copy adds something to what is on its way; sending takes nothing away.
LEMMA OnItsWayKept ==
    ASSUME IInv, NEW w, Acts(w)
    PROVE  ~clash' /\ ~broken' => \/ w \in Writer /\ CopyIn(w)
                                  \/ OnItsWay' = OnItsWay /\ taken' = taken
<1>0. Blocks /\ OneWorks /\ HeldIsTheirs
  BY DEF IInv, Types
<1>o. Others(w)
  BY OthersKept
<1>d. Domains
  BY DomainsKnown
<1>1. CASE w \in Writer /\ Fill(w)
  <2>1. /\ w \in Writer /\ At(w, "fill") /\ wr'[w].pc = "copy"
        /\ UNCHANGED <<sent, taken, scan>>
    BY <1>d, <1>1 DEF Fill, Domains, Record, history
  <2>2. InSend' <=> InSend
    BY <1>o, <2>1 DEF InSend, Others, At
  <2>3. Stored' = Stored
    <3>1. CASE sd_wmsg # 0
      BY <3>1, <1>1 DEF Fill, Stored
    <3>2. CASE sd_wmsg = 0
      <4>1. blocks' = Append(blocks, <<>>) /\ sd_wmsg' = Len(blocks')
        BY <3>2, <1>1 DEF Fill
      <4>2. <<>> \in Seq(Writer \X Nat) /\ blocks \in Seq(Seq(Writer \X Nat))
        BY <1>0 DEF Blocks
      <4>3. blocks'[sd_wmsg'] = <<>> /\ sd_wmsg' # 0
        BY <4>1, <4>2, AppendProperties
      <4> QED
        BY <3>2, <4>3 DEF Stored
    <3> QED
      BY <3>1, <3>2
  <2> QED
    BY <2>1, <2>2, <2>3 DEF OnItsWay
<1>2. CASE w \in Writer /\ CopyIn(w)
  BY <1>2
<1>3. CASE w \in Writer /\ Send(w)
  <2>1. /\ w \in Writer /\ At(w, "send") /\ wr'[w].pc = "clear" /\ AtWork(w)
        /\ UNCHANGED <<taken, clash, broken>>
    BY <1>d, <1>3 DEF Send, Goto, Domains, Record, At, AtWork
  <2>2. InSend'
    BY <2>1 DEF InSend
  <2>3. sent' = sent \o Stored
    <3>1. CASE sd_wmsg = 0
      BY <1>0, <3>1, <1>3 DEF Send, PutWmsg, Stored, Blocks
    <3>2. CASE sd_wmsg # 0
      BY <3>2, <1>3 DEF Send, PutWmsg, Stored
    <3> QED
      BY <3>1, <3>2
  <2>4. ASSUME ~clash', ~broken'
        PROVE  ~InSend /\ scan # "clear"
    BY <1>0, <2>1, <2>4 DEF InSend, OneWorks, HeldIsTheirs, AtWork, At
  <2> QED
    BY <2>1, <2>2, <2>3, <2>4 DEF OnItsWay
<1>4. CASE w \in Writer /\ Clear(w)
  <2>1. UNCHANGED <<sent, taken>> /\ sd_wmsg' = 0
    BY <1>4 DEF Clear, Forgotten, next, history
  <2>2. InSend
    BY <1>4 DEF Clear, InSend, At
  <2>3. Stored' = <<>> /\ sent \o <<>> = sent
    BY <1>0, <2>1 DEF Stored, Blocks
  <2> QED
    BY <2>1, <2>2, <2>3 DEF OnItsWay
<1>5. CASE ScanPut
  <2>1. /\ UNCHANGED <<taken, wr, broken>> /\ scan = "put" /\ scan' = "clear"
        /\ clash' = (clash \/ \E v \in Writer : AtWork(v))
    BY <1>5 DEF ScanPut
  <2>3. sent' = sent \o Stored
    <3>1. CASE sd_wmsg = 0
      BY <1>0, <3>1, <1>5 DEF ScanPut, PutWmsg, Stored, Blocks
    <3>2. CASE sd_wmsg # 0
      BY <3>2, <1>5 DEF ScanPut, PutWmsg, Stored
    <3> QED
      BY <3>1, <3>2
  <2>4. ASSUME ~clash'
        PROVE  ~InSend
    BY <2>1, <2>4 DEF InSend, AtWork
  <2> QED
    BY <2>1, <2>3, <2>4 DEF OnItsWay
<1>6. CASE ScanClear
  <2>1. UNCHANGED <<sent, taken>> /\ sd_wmsg' = 0
    BY <1>6 DEF ScanClear, Forgotten, next, history
  <2>2. scan = "clear"
    BY <1>6 DEF ScanClear
  <2>3. Stored' = <<>> /\ sent \o <<>> = sent
    BY <1>0, <2>1 DEF Stored, Blocks
  <2> QED
    BY <2>1, <2>2, <2>3 DEF OnItsWay
<1>7. CASE w \in Writer /\ Begin(w)
  BY <1>0, <1>o, <1>d, <1>7 DEF Begin, InSend, Stored, OnItsWay, Record, Idle,
     Others, Domains, At, flags, sleepers, hold, next, tasks, history
<1>8. CASE w \in Writer /\ CheckErrors(w)
  BY <1>0, <1>o, <1>d, <1>8 DEF CheckErrors, Rtn, Goto, InSend, Stored,
     OnItsWay, Record, Idle, Others, Domains, At, flags, sleepers, hold, next,
     tasks, history
<1>9. CASE w \in Writer /\ Room(w)
  BY <1>0, <1>o, <1>d, <1>9 DEF Room, Goto, InSend, Stored, OnItsWay, Record,
     Idle, Others, Domains, At, flags, sleepers, hold, next, tasks, history
<1>10. CASE w \in Writer /\ (WouldBlock(w) \/ WillSleep(w) \/ SleepOnWwrite(w))
  BY <1>0, <1>o, <1>d, <1>10 DEF WouldBlock, Rtn, WillSleep, Goto,
     SleepOnWwrite, InSend, Stored, OnItsWay, Record, Idle, Others, Domains, At,
     flags, sleepers, hold, next, tasks, history
<1>11. CASE w \in Writer /\ (WokenUp(w) \/ Relock(w) \/ DownWriteSem(w))
  BY <1>0, <1>o, <1>d, <1>11 DEF WokenUp, Goto, Relock, DownWriteSem,
     DownPasses, InSend, Stored, OnItsWay, Record, Idle, Others, Domains, At,
     flags, sleepers, hold, next, tasks, history
<1>12. CASE w \in Writer /\ (BlockIsFull(w) \/ CopyFails(w) \/ Put(w))
  BY <1>0, <1>o, <1>d, <1>12 DEF BlockIsFull, Goto, HasRoom, CopyFails, Rtn,
     Put, InSend, Stored, OnItsWay, Record, Idle, Others, Domains, At, flags,
     sleepers, hold, next, tasks, history
<1>13. CASE w \in Writer /\ Interrupted(w)
  BY <1>0, <1>o, <1>d, <1>13 DEF Interrupted, BackOut, Rtn, InSend, Stored,
     OnItsWay, Record, Idle, Others, Domains, At, flags, sleepers, hold, next,
     tasks, history
<1>14. CASE w \in Writer /\ DownInterrupted(w)
  BY <1>0, <1>o, <1>d, <1>14 DEF DownInterrupted, Goto, InSend, Stored,
     OnItsWay, Record, Idle, Others, Domains, At, flags, sleepers, hold, next,
     tasks, history
<1>15. CASE ScanStart \/ ScanLock
  BY <1>0, <1>o, <1>d, <1>15 DEF ScanStart, ScanLock, InSend, Stored, OnItsWay,
     Record, Idle, Others, Domains, At, flags, sleepers, hold, next, tasks,
     history
<1>16. CASE AddToScanl \/ Drain \/ SrvStart \/ SrvEnd \/ StreamError \/ Freeze
     \/ Unfreeze \/ Wakes
  <2>1. UNCHANGED <<wr, sd_wmsg, scan, blocks, sent, taken>>
    BY <1>16 DEF AddToScanl, Drain, SrvStart, SrvEnd, StreamError, Freeze,
       Unfreeze, Wakes, WakeUpAllWwrite, At, flags, sleepers, hold, next, tasks,
       history
  <2> QED
    BY <1>0, <2>1 DEF InSend, Stored, OnItsWay, Record, Idle, At
<1> QED
  BY <1>1, <1>2, <1>3, <1>4, <1>5, <1>6, <1>7, <1>8, <1>9, <1>10, <1>11, <1>12,
     <1>13, <1>14, <1>15, <1>16 DEF Acts

\* One more unit of w keeps the order, when it has the next number.
LEMMA AppendInOrder ==
    ASSUME NEW s \in Seq(Writer \X Nat), NEW w \in Writer, NEW n \in Nat, InOrder(s),
           \A i \in DOMAIN s : s[i][1] = w => s[i][2] <= n
    PROVE  InOrder(Append(s, <<w, n + 1>>))
<1> DEFINE t == Append(s, <<w, n + 1>>)
<1>1. /\ DOMAIN t = 1 .. (Len(s) + 1) /\ DOMAIN s = 1 .. Len(s) /\ Len(s) \in Nat
      /\ \A i \in 1 .. Len(s) : t[i] = s[i]
      /\ t[Len(s) + 1] = <<w, n + 1>>
  BY AppendProperties, LenProperties
<1>2. \A i \in 1 .. Len(s) : s[i][1] \in Writer /\ s[i][2] \in Nat
  BY ElementOfSeq
<1>3. ASSUME NEW i \in DOMAIN t, NEW j \in DOMAIN t, i < j, t[i][1] = t[j][1]
      PROVE  t[i][2] < t[j][2]
  <2>1. i \in 1 .. Len(s) /\ t[i] = s[i]
    BY <1>1, <1>3
  <2>2. CASE j \in 1 .. Len(s)
    BY <1>1, <1>3, <2>1, <2>2 DEF InOrder
  <2>3. CASE j = Len(s) + 1
    <3>1. t[j][1] = w /\ t[j][2] = n + 1
      BY <1>1, <2>3
    <3>2. s[i][2] <= n
      BY <1>1, <1>3, <2>1, <3>1
    <3> QED
      BY <1>2, <2>1, <3>1, <3>2
  <2> QED
    BY <1>1, <2>2, <2>3
<1> QED
  BY <1>3 DEF InOrder

\* What is appended is in the sequence, with what was there.
LEMMA AppendIsIn ==
    ASSUME NEW S, NEW s \in Seq(S), NEW x \in S
    PROVE  ToSet(Append(s, x)) = ToSet(s) \union {x}
<1> DEFINE t == Append(s, x)
<1>1. /\ DOMAIN t = 1 .. (Len(s) + 1) /\ DOMAIN s = 1 .. Len(s) /\ Len(s) \in Nat
      /\ \A i \in 1 .. Len(s) : t[i] = s[i]
      /\ t[Len(s) + 1] = x
  BY AppendProperties, LenProperties
<1> HIDE DEF t
<1>2. ASSUME NEW y
      PROVE  y \in ToSet(t) <=> y \in ToSet(s) \/ y = x
  <2>1. y \in ToSet(t) <=> \E i \in 1 .. (Len(s) + 1) : y = t[i]
    BY <1>1 DEF ToSet
  <2>2. y \in ToSet(s) <=> \E i \in 1 .. Len(s) : y = s[i]
    BY <1>1 DEF ToSet
  <2>3. \A i : i \in 1 .. (Len(s) + 1) <=> i \in 1 .. Len(s) \/ i = Len(s) + 1
    BY <1>1
  <2> QED
    BY <1>1, <2>1, <2>2, <2>3
<1>3. ToSet(t) = ToSet(s) \union {x}
  BY <1>2
<1> QED
  BY <1>3 DEF t

\* A copy appends the next unit of its writer to what is on its way,
LEMMA CopyAppends ==
    ASSUME IInv, NEW w \in Writer, CopyIn(w), ~clash', ~broken'
    PROVE  /\ OnItsWay' = Append(OnItsWay, <<w, taken[w] + 1>>)
           /\ taken' = [taken EXCEPT ![w] = @ + 1]
           /\ clash' = clash /\ broken' = broken
<1>0. Locals /\ Blocks /\ OneWorks /\ HeldIsTheirs
  BY DEF IInv, Types
<1>o. Others(w)
  BY OthersKept DEF Acts
<1>d. Domains
  BY DomainsKnown
<1>1. /\ At(w, "copy") /\ AtWork(w) /\ UNCHANGED <<sent, sd_wmsg, scan, clash, broken>>
      /\ taken' = [taken EXCEPT ![w] = @ + 1]
      /\ blocks' = [blocks EXCEPT ![wr[w].held] = Append(@, <<w, taken[w] + 1>>)]
  BY DEF CopyIn, AtWork, At, history
<1>2. wr'[w].pc \in {"idle", "send"}
  BY <1>d DEF CopyIn, Rtn, Idle, Domains, Record
<1>3. ~InSend /\ ~InSend' /\ scan # "clear"
  <2>1. \A v \in Writer : AtWork(v) => v = w
    BY <1>0, <1>1 DEF OneWorks
  <2>2. scan # "clear"
    BY <1>0, <1>1 DEF HeldIsTheirs, At
  <2>3. ~InSend
    BY <1>1, <2>1 DEF InSend, AtWork, At
  <2> QED
    BY <1>o, <1>2, <2>2, <2>3 DEF InSend, Others
<1>4. sd_wmsg = wr[w].held /\ sd_wmsg \in 1 .. Len(blocks) /\ blocks[sd_wmsg] \in Seq(Writer \X Nat)
  <2>1. sd_wmsg = wr[w].held
    BY <1>0, <1>1 DEF HeldIsTheirs
  <2>2. sd_wmsg \in 1 .. Len(blocks)
    BY <1>0, <1>1, <2>1 DEF Blocks
  <2> QED
    BY <1>0, <2>1, <2>2, ElementOfSeq DEF Blocks
<1>5. Stored = blocks[sd_wmsg] /\ Stored' = Append(Stored, <<w, taken[w] + 1>>)
  <2>1. Stored = blocks[sd_wmsg]
    BY <1>4 DEF Stored
  <2>2. Stored' = blocks'[sd_wmsg]
    BY <1>1, <1>4 DEF Stored
  <2>3. DOMAIN blocks = 1 .. Len(blocks)
    BY <1>0 DEF Blocks
  <2> QED
    BY <1>1, <1>4, <2>1, <2>2, <2>3
<1>6. OnItsWay = sent \o Stored /\ OnItsWay' = sent \o Stored'
  BY <1>1, <1>3 DEF OnItsWay
<1>7. sent \o Append(Stored, <<w, taken[w] + 1>>) = Append(sent \o Stored, <<w, taken[w] + 1>>)
  <2>1. sent \in Seq(Writer \X Nat) /\ Stored \in Seq(Writer \X Nat) /\ <<w, taken[w] + 1>> \in Writer \X Nat
    BY <1>0, <1>4, <1>5 DEF Blocks
  <2> HIDE DEF Stored
  <2> QED
    BY <2>1
<1> QED
  BY <1>1, <1>5, <1>6, <1>7

\* and everything that has been written is on its way, once and in order.
LEMMA WrittenOnceKept ==
    ASSUME IInv, NEW w, Acts(w)
    PROVE  WrittenOnce'
<1>0. Blocks /\ WrittenOnce
  BY DEF IInv, Types
<1>h. (clash => clash') /\ (broken => broken')
  BY HistoryKept
<1> SUFFICES ASSUME ~clash', ~broken'
             PROVE  AllThereInOrder'
  BY DEF WrittenOnce
<1>a. AllThereInOrder
  BY <1>0, <1>h DEF WrittenOnce
<1>1. CASE OnItsWay' = OnItsWay /\ taken' = taken
  BY <1>1, <1>a DEF AllThereInOrder
<1>2. CASE w \in Writer /\ CopyIn(w)
  <2> DEFINE s == OnItsWay
             x == <<w, taken[w] + 1>>
  <2>1. /\ OnItsWay' = Append(s, x) /\ taken' = [taken EXCEPT ![w] = @ + 1]
    BY <1>2, CopyAppends
  <2>2. s \in Seq(Writer \X Nat)
    BY <1>0, ElementOfSeq, ConcatProperties DEF OnItsWay, Stored, Blocks
  <2>3. x \in Writer \X Nat /\ taken[w] \in Nat /\ taken \in [Writer -> Nat]
    BY <1>0, <1>2 DEF Blocks
  <2>4. \A y : y \in ToSet(Append(s, x)) <=> y = x \/ y \in ToSet(s)
    <3> HIDE DEF s, x
    <3>1. ToSet(Append(s, x)) = ToSet(s) \union {x}
      BY <2>2, <2>3, AppendIsIn
    <3> QED
      BY <3>1
  <2>5. ToSet(s) \subseteq Writer \X Nat
    BY <2>2, ElementOfSeq, LenProperties DEF ToSet
  <2>6. \A v \in Writer : \A i \in 1 .. taken[v] : <<v, i>> \in ToSet(s)
    BY <1>a DEF AllThereInOrder
  <2>7. \A y \in ToSet(s) : y[2] \in 1 .. taken[y[1]]
    BY <1>a DEF AllThereInOrder
  <2>8. InOrder(s)
    BY <1>a DEF AllThereInOrder
  <2> HIDE DEF s
  <2>9. \A v \in Writer : \A i \in 1 .. taken'[v] : <<v, i>> \in ToSet(Append(s, x))
    <3>1. ASSUME NEW v \in Writer, NEW i \in 1 .. taken'[v]
          PROVE  <<v, i>> \in ToSet(s) \/ <<v, i>> = x
      BY <1>2, <2>1, <2>3, <2>6
    <3> QED
      BY <2>4, <3>1
  <2>10. \A y \in ToSet(Append(s, x)) : y[2] \in 1 .. taken'[y[1]]
    <3>1. x[2] \in 1 .. taken'[x[1]]
      BY <1>2, <2>1, <2>3
    <3>2. ASSUME NEW y \in ToSet(s)
          PROVE  y[2] \in 1 .. taken'[y[1]]
      <4>1. y[1] \in Writer /\ y[2] \in 1 .. taken[y[1]]
        BY <2>5, <2>7
      <4> QED
        BY <1>2, <2>1, <2>3, <4>1
    <3> QED
      BY <2>4, <3>1, <3>2
  <2>11. InOrder(Append(s, x))
    <3>1. \A i \in DOMAIN s : s[i][1] = w => s[i][2] <= taken[w]
      <4>1. ASSUME NEW i \in DOMAIN s, s[i][1] = w
            PROVE  s[i][2] <= taken[w]
        <5>1. s[i] \in ToSet(s)
          BY <2>2, LenProperties DEF ToSet
        <5>2. s[i][2] \in 1 .. taken[w]
          BY <2>7, <4>1, <5>1
        <5> QED
          BY <2>3, <5>2
      <4> QED
        BY <4>1
    <3> QED
      BY <1>2, <2>2, <2>3, <2>8, <3>1, AppendInOrder
  <2> QED
    BY <2>1, <2>9, <2>10, <2>11 DEF AllThereInOrder
<1> QED
  BY <1>1, <1>2, OnItsWayKept

-----------------------------------------------------------------------------
(* The theorems                                                            *)

\* The invariant holds at the start,
LEMMA AtFirst == Init => IInv
<1> SUFFICES ASSUME Init
             PROVE  IInv
  OBVIOUS
<1>1. \A w \in Writer : wr[w] = Idle
  BY DEF Init
<1>2. Types
  <2>1. Locals
    BY IdleKept DEF Init, Locals
  <2>2. Numbers
    <3>1. /\ STRHOLD \in BOOLEAN /\ sd_wrcnt = 0 /\ sd_wwrite = 0 /\ sd_write_sem = 1
          /\ scan = "idle" /\ ~sd_scantimer /\ ~QSCAN /\ ~clash /\ ~broken /\ ~stale
          /\ sd_scantimer \in BOOLEAN /\ QSCAN \in BOOLEAN
          /\ clash \in BOOLEAN /\ broken \in BOOLEAN /\ stale \in BOOLEAN
      BY DEF Init
    <3> QED
      BY <3>1 DEF Numbers
  <2>3. Blocks
    BY <1>1 DEF Init, Blocks, At, Idle
  <2> QED
    BY <2>1, <2>2, <2>3 DEF Types
<1>3. \A w \in Writer : wr[w].pc = "idle"
  BY <1>1 DEF Idle
<1>4. SleepersCounted
  <2>1. {w \in Writer : At(w, "asleep")} = {}
    BY <1>3 DEF At
  <2>2. sd_wrcnt = 0 /\ sd_wwrite = 0
    BY DEF Init
  <2> QED
    BY <2>1, <2>2, FS_EmptySet DEF SleepersCounted
<1>5. \A w \in Writer : /\ ~AtWork(w) /\ ~At(w, "copy") /\ ~At(w, "fill")
                         /\ wr[w].pc # "clear" /\ wr[w].pc # "send"
  BY <1>3 DEF AtWork, At
<1>6. OneWorks /\ HeldIsTheirs /\ Timed
  BY <1>5 DEF Init, OneWorks, HeldIsTheirs, Timed
<1>7. WrittenOnce
  <2>1. OnItsWay = <<>>
    BY <1>5 DEF Init, OnItsWay, Stored, InSend
  <2>2. ToSet(OnItsWay) = {} /\ InOrder(OnItsWay)
    BY <2>1 DEF ToSet, InOrder
  <2>3. \A w \in Writer : taken[w] = 0
    BY DEF Init
  <2>4. \A w \in Writer : \A i \in 1 .. taken[w] : <<w, i>> \in ToSet(OnItsWay)
    BY <2>3
  <2>5. \A x \in ToSet(OnItsWay) : x[2] \in 1 .. taken[x[1]]
    BY <2>2
  <2> HIDE DEF OnItsWay
  <2>6. AllThereInOrder
    BY <2>2, <2>4, <2>5 DEF AllThereInOrder
  <2> QED
    BY <2>6 DEF WrittenOnce
<1> QED
  BY <1>2, <1>4, <1>6, <1>7 DEF IInv

\* a step of nobody leaves it alone,
LEMMA Stutter == IInv /\ UNCHANGED vars => IInv'
<1> SUFFICES ASSUME IInv, UNCHANGED vars
             PROVE  IInv'
  OBVIOUS
<1>1. UNCHANGED <<STRHOLD, sd_wrcnt, sd_wwrite, sd_write_sem, sd_wmsg, blocks, sd_scantimer, QSCAN,
                  scan, wr, taken, sent, clash, broken, stale>>
  BY DEF vars, flags, sleepers, hold, history
<1>2. Types'
  BY <1>1 DEF IInv, Types, Locals, Numbers, Blocks, At
<1>3. SleepersCounted'
  BY <1>1 DEF IInv, SleepersCounted, At
<1>4. OneWorks' /\ HeldIsTheirs' /\ Timed'
  BY <1>1 DEF IInv, OneWorks, HeldIsTheirs, Timed, SeenTo, AtWork, At
<1>5. OnItsWay' = OnItsWay
  BY <1>1 DEF OnItsWay, Stored, InSend
<1>6. WrittenOnce'
  BY <1>1, <1>5 DEF IInv, WrittenOnce, AllThereInOrder
<1> QED
  BY <1>2, <1>3, <1>4, <1>6 DEF IInv

\* and every step keeps it.
LEMMA IInvKept == IInv /\ [Next]_vars => IInv'
<1> SUFFICES ASSUME IInv, [Next]_vars
             PROVE  IInv'
  OBVIOUS
<1>1. ASSUME NEW w, Acts(w)
      PROVE  IInv'
  BY <1>1, LocalsKept, NumbersKept, BlocksKept, CountKept, OneWorksKept, HeldIsTheirsKept,
     TimedKept, WrittenOnceKept DEF IInv, Types
<1>2. CASE UNCHANGED vars
  BY <1>2, Stutter
<1>3. CASE Next
  <2>1. CASE \E w \in Writer : Begin(w) \/ Writes(w) \/ Interrupts(w)
    BY <1>1, <2>1 DEF Acts, Writes, Interrupts
  <2>2. CASE \/ AddToScanl \/ Scan \/ Drain \/ Service \/ StreamError \/ Freeze \/ Unfreeze
             \/ \E t \in Waker : WakeUpAllWwrite(t)
    BY <1>1, <2>2 DEF Acts, Scan, Service, Wakes
  <2> QED
    BY <1>3, <2>1, <2>2 DEF Next
<1> QED
  BY <1>2, <1>3

\* A message is not held for ever.
LEMMA TimedMeans == IInv => HeldIsTimed
  BY DEF IInv, Timed, HeldIsTimed, SeenTo, Stored

\* The counter of sleeping writers and the semaphore they sleep on agree with who sleeps
\* (lis_sleep_on_wwrite, lis_wake_up_all_wwrite), for any number of writers, wakeups,
\* interrupts and errors.
THEOREM WritersAreCounted == Spec => []SleepersCounted
<1>1. IInv => SleepersCounted
  BY DEF IInv
<1> QED
  BY <1>1, AtFirst, IInvKept, PTL DEF Spec

\* What lis_strwrite has copied in goes downstream once, in the order of each writer, and
\* is not held for ever, unless the scan list or a signal comes between.
THEOREM WritesAreSent == Spec => []WrittenAndSent
<1>1. IInv => WrittenAndSent
  BY TimedMeans DEF IInv, WrittenAndSent
<1> QED
  BY <1>1, AtFirst, IInvKept, PTL DEF Spec

-----------------------------------------------------------------------------
(* The tables of those who are called back: a timeout's node               *)

TimerTypes ==
  /\ lis_tlist_heads \in [T!List -> Seq(Tlist)] /\ lis_tlist_handle \in Int
  /\ handle \in [Tlist -> 0 .. HMAX - 1] /\ timers \subseteq Tlist
  /\ timeouts \in 0 .. MaxTimeout /\ fcn \in [Tlist -> 0 .. timeouts]
  /\ calling \subseteq 1 .. timeouts /\ timedout \in [T!T -> Nat]
  /\ of \in [T!T -> 0 .. HMAX - 1]

\* A node that was allocated is on the list that its handle hashes to, once; free nodes
\* have the handle 0, and no two timeouts have the same.
TimersListed ==
  /\ \A l \in T!List : IsInjective(lis_tlist_heads[l])
  /\ \A n \in Tlist, l \in T!List :
       n \in Range(lis_tlist_heads[l]) <=> n \notin timers /\ l = handle[n] % THASH
  /\ \A n \in Tlist : n \in timers => handle[n] = 0
  /\ \A n \in Tlist : handle[n] # 0 => handle[n] % THASH # 0
  /\ \A m, n \in Tlist : handle[m] = handle[n] /\ handle[m] # 0 => m = n

\* A timeout that is on a list has not been called, and each has one node.
TimersCalled ==
  /\ \A n \in Tlist : handle[n] # 0 => /\ fcn[n] # 0 /\ fcn[n] \notin calling
                                       /\ timedout[fcn[n]] = 0
  /\ \A m, n \in Tlist : handle[m] # 0 /\ handle[n] # 0 /\ fcn[m] = fcn[n] => m = n
  /\ \A t \in calling : timedout[t] = 0
  /\ \A t \in T!T : timedout[t] <= 1 /\ (timedout[t] # 0 => t <= timeouts)

TInv == TimerTypes /\ TimersListed /\ TimersCalled

-----------------------------------------------------------------------------
(* A bufcall's node                                                        *)

NodeTypes ==
  /\ lis_bchash \in [B!Bucket -> Seq(Node)] /\ n_elts \in [B!Bucket -> Int]
  /\ lis_bcfreel \in Seq(Node) /\ fresh \in SUBSET Node
  /\ id_num \in 0 .. MaxId /\ id \in [Node -> 0 .. id_num] /\ usr_f \in [Node -> BOOLEAN]
  /\ state \in [Node -> {"unused", "active", "callout"}]
ThreadTypes ==
  /\ lis_strbcflag \in BOOLEAN /\ lis_strbctimer \in BOOLEAN /\ armed \in BOOLEAN
  /\ pc \in [B!Ctx -> {"idle", "alloc", "alloc_in_callout", "spin", "unlink", "loop", "callout"}]
  /\ hand \in [B!Ctx -> Node \cup {NoNode}] /\ new_id \in [B!Ctx -> 0 .. MaxId]
  /\ list_i \in [B!Ctx -> B!Bucket]
  /\ called \in [1 .. MaxId -> Nat] /\ cancelled \in SUBSET (1 .. MaxId)

\* A node is on the list of its id, on the free list or unallocated, and counted.
Linked == {n \in Node : id[n] # 0}
Listed ==
  /\ IsInjective(lis_bcfreel) /\ \A h \in B!Bucket : IsInjective(lis_bchash[h])
  /\ \A n \in Node :
       /\ id[n] = 0 <=> n \in fresh \cup Range(lis_bcfreel)
       /\ n \in fresh => n \notin Range(lis_bcfreel)
       /\ \A h \in B!Bucket : n \in Range(lis_bchash[h]) <=> id[n] # 0 /\ id[n] % N_BCHASH = h
  /\ \A h \in B!Bucket : n_elts[h] = Len(lis_bchash[h])
  /\ lis_bc_cnt = Cardinality(Linked)

Takes(x)  == pc[x] \in {"alloc", "alloc_in_callout"}
Busy(c)   == pc[c] \in {"spin", "unlink"}
Calling(r) == pc[r] \in {"callout", "alloc_in_callout"}

\* An id is given once: to a node, or to a context that allocates one.
Numbered ==
  /\ \A m, n \in Node : id[m] = id[n] /\ id[m] # 0 => m = n
  /\ \A x \in B!Ctx : Takes(x) =>
       /\ new_id[x] \in 1 .. id_num /\ called[new_id[x]] = 0
       /\ \A n \in Node : id[n] # new_id[x]
       /\ \A y \in B!Ctx : Takes(y) /\ new_id[y] = new_id[x] => x = y
  /\ \A c \in Caller : Busy(c) => new_id[c] # 0

\* One thread is in lis_dobufcall or in unbufcall at a time, and its node is linked.
Alone ==
  /\ \A c \in Caller : pc[c] \in {"idle", "alloc", "spin", "unlink"}
  /\ \A r \in Runner : pc[r] \in {"idle", "loop", "callout", "alloc_in_callout"}
  /\ \A r, s \in Runner : pc[r] # "idle" /\ pc[s] # "idle" => r = s
  /\ \A c, d \in Caller : Busy(c) /\ Busy(d) => c = d
  /\ \A c \in Caller, r \in Runner : Busy(c) => pc[r] = "idle"
  /\ \A r \in Runner : Calling(r) => hand[r] \in Node /\ id[hand[r]] # 0
  /\ \A c \in Caller : Busy(c) => hand[c] \in Node /\ id[hand[c]] # 0

\* The entry of a bufcall that was called is only still there while the callback runs.
CalledBack ==
  /\ \A b \in 1 .. MaxId : called[b] <= 1 /\ (called[b] # 0 => b <= id_num)
  /\ \A n \in Node : id[n] # 0 /\ called[id[n]] # 0 => \E r \in Runner : Calling(r) /\ hand[r] = n

\* lis_strbctimer says that the timer is set, or has rung, or the callbacks are being made.
BufTimed ==
  /\ lis_strbctimer <=> armed \/ lis_strbcflag \/ \E r \in Runner : pc[r] # "idle"
  /\ ~(armed /\ lis_strbcflag)
  /\ armed \/ lis_strbcflag => \A r \in Runner : pc[r] = "idle"
  /\ lis_bc_cnt > 0 => lis_strbctimer

BInv == NodeTypes /\ ThreadTypes /\ Listed /\ Numbered /\ Alone /\ CalledBack /\ BufTimed
TablesInv == TInv /\ BInv

-----------------------------------------------------------------------------
(* What the lists contain after an entry was added or taken out            *)

LEMMA TakenOut ==
    ASSUME NEW S, NEW s \in Seq(S), NEW n, n \in Range(s), IsInjective(s)
    PROVE  /\ RemoveFirst(s, n) \in Seq(S) /\ IsInjective(RemoveFirst(s, n))
           /\ Range(RemoveFirst(s, n)) = Range(s) \ {n} /\ Len(RemoveFirst(s, n)) = Len(s) - 1
<1>1. PICK k \in 1 .. Len(s) : s[k] = n
  BY DEF Range
<1>2. \A i \in 1 .. Len(s) : s[i] = n <=> i = k
  BY <1>1 DEF IsInjective
<1>3. {i \in 1 .. Len(s) : s[i] = n} = {k}
  BY <1>2
<1>4. Min({k}) = k
  BY <1>1 DEF Min
<1>5. SelectInSeq(s, LAMBDA v : v = n) = k
  BY <1>3, <1>4 DEF SelectInSeq
<1>6. RemoveFirst(s, n) = RemoveAt(s, k)
  BY <1>1, <1>5 DEF RemoveFirst
<1> DEFINE a == SubSeq(s, 1, k - 1)
           b == SubSeq(s, k + 1, Len(s))
           r == a \o b
<1>7. /\ a \in Seq(S) /\ Len(a) = k - 1 /\ \A i \in 1 .. k - 1 : a[i] = s[i]
  BY <1>1, SubSeqProperties
<1>8. /\ b \in Seq(S) /\ Len(b) = Len(s) - k /\ \A i \in 1 .. Len(s) - k : b[i] = s[k + i]
  BY <1>1
<1>9. /\ r \in Seq(S) /\ Len(r) = Len(s) - 1
      /\ \A i \in 1 .. Len(s) - 1 : r[i] = IF i < k THEN s[i] ELSE s[i + 1]
  <2> HIDE DEF a, b
  <2>1. /\ r \in Seq(S) /\ Len(r) = Len(a) + Len(b)
        /\ \A i \in 1 .. Len(a) + Len(b) : r[i] = IF i <= Len(a) THEN a[i] ELSE b[i - Len(a)]
    BY <1>7, <1>8, ConcatProperties
  <2>2. Len(r) = Len(s) - 1
    BY <1>1, <1>7, <1>8, <2>1
  <2>3. ASSUME NEW i \in 1 .. Len(s) - 1 PROVE r[i] = IF i < k THEN s[i] ELSE s[i + 1]
    <3>1. r[i] = IF i <= Len(a) THEN a[i] ELSE b[i - Len(a)]
      BY <2>1, <2>2
    <3>2. CASE i < k
      BY <1>1, <1>7, <3>1, <3>2
    <3>3. CASE ~(i < k)
      <4> DEFINE j == i - (k - 1)
      <4>1. j \in 1 .. Len(s) - k /\ k + j = i + 1
        BY <1>1, <3>3
      <4>2. r[i] = b[j]
        BY <1>1, <1>7, <3>1, <3>3
      <4> HIDE DEF b, r, j
      <4>3. b[j] = s[k + j]
        BY <1>8, <4>1
      <4> QED
        BY <3>3, <4>1, <4>2, <4>3
    <3> QED
      BY <3>2, <3>3
  <2> QED
    BY <2>1, <2>2, <2>3
<1>10. RemoveFirst(s, n) = r
  BY <1>6 DEF RemoveAt
<1> HIDE DEF a, b, r
<1>11. DOMAIN r = 1 .. Len(s) - 1 /\ DOMAIN s = 1 .. Len(s) /\ Len(s) \in Nat
  BY <1>9
<1>12. IsInjective(r)
  <2> SUFFICES ASSUME NEW i \in 1 .. Len(s) - 1, NEW j \in 1 .. Len(s) - 1, r[i] = r[j]
               PROVE  i = j
    BY <1>11 DEF IsInjective
  <2> DEFINE u == IF i < k THEN i ELSE i + 1
             v == IF j < k THEN j ELSE j + 1
  <2>1. s[u] = s[v] /\ u \in 1 .. Len(s) /\ v \in 1 .. Len(s)
    BY <1>9, <1>11
  <2>2. u = v
    BY <2>1, <1>11 DEF IsInjective
  <2> QED
    BY <2>2, <1>1
<1>13. Range(r) = Range(s) \ {n}
  <2>1. ASSUME NEW x \in Range(r) PROVE x \in Range(s) \ {n}
    <3>1. PICK i \in 1 .. Len(s) - 1 : r[i] = x
      BY <1>11 DEF Range
    <3> DEFINE u == IF i < k THEN i ELSE i + 1
    <3>2. x = s[u] /\ u \in 1 .. Len(s) /\ u # k
      BY <1>1, <1>9, <1>11, <3>1
    <3> QED
      BY <3>2, <1>2, <1>11 DEF Range
  <2>2. ASSUME NEW x \in Range(s) \ {n} PROVE x \in Range(r)
    <3>1. PICK i \in 1 .. Len(s) : s[i] = x /\ i # k
      BY <1>1, <1>11 DEF Range
    <3> DEFINE u == IF i < k THEN i ELSE i - 1
    <3>2. u \in 1 .. Len(s) - 1 /\ i = (IF u < k THEN u ELSE u + 1)
      BY <1>1, <1>11, <3>1
    <3>3. r[u] = x
      BY <1>9, <3>1, <3>2
    <3> QED
      BY <1>11, <3>2, <3>3 DEF Range
  <2> QED
    BY <2>1, <2>2
<1> QED
  BY <1>9, <1>10, <1>12, <1>13

LEMMA PutFirst ==
    ASSUME NEW S, NEW s \in Seq(S), NEW n \in S
    PROVE  /\ <<n>> \o s \in Seq(S) /\ Len(<<n>> \o s) = Len(s) + 1
           /\ Range(<<n>> \o s) = Range(s) \cup {n}
           /\ IsInjective(s) /\ n \notin Range(s) => IsInjective(<<n>> \o s)
<1> DEFINE r == <<n>> \o s
<1>1. /\ r \in Seq(S) /\ Len(r) = Len(s) + 1 /\ DOMAIN r = 1 .. Len(s) + 1
      /\ DOMAIN s = 1 .. Len(s) /\ Len(s) \in Nat
      /\ \A i \in 1 .. Len(s) + 1 : r[i] = IF i = 1 THEN n ELSE s[i - 1]
  OBVIOUS
<1> HIDE DEF r
<1>2. Range(r) = Range(s) \cup {n}
  <2>1. ASSUME NEW x \in Range(r) PROVE x \in Range(s) \cup {n}
    <3>1. PICK i \in 1 .. Len(s) + 1 : r[i] = x
      BY <1>1 DEF Range
    <3>2. CASE i = 1
      BY <1>1, <3>1, <3>2
    <3>3. CASE i # 1
      <4>1. i - 1 \in 1 .. Len(s) /\ s[i - 1] = x
        BY <1>1, <3>1, <3>3
      <4> QED
        BY <4>1, <1>1 DEF Range
    <3> QED
      BY <3>2, <3>3
  <2>2. ASSUME NEW x \in Range(s) PROVE x \in Range(r)
    <3>1. PICK i \in 1 .. Len(s) : s[i] = x
      BY <1>1 DEF Range
    <3>2. i + 1 \in 1 .. Len(s) + 1 /\ r[i + 1] = x
      BY <1>1, <3>1
    <3> QED
      BY <3>2, <1>1 DEF Range
  <2>3. n \in Range(r)
    <3>1. 1 \in 1 .. Len(s) + 1 /\ r[1] = n
      BY <1>1
    <3> QED
      BY <3>1, <1>1 DEF Range
  <2> QED
    BY <2>1, <2>2, <2>3
<1>3. ASSUME IsInjective(s), n \notin Range(s) PROVE IsInjective(r)
  <2>1. \A i \in 1 .. Len(s) : s[i] # n
    BY <1>1, <1>3 DEF Range
  <2> SUFFICES ASSUME NEW i \in 1 .. Len(s) + 1, NEW j \in 1 .. Len(s) + 1, r[i] = r[j]
               PROVE  i = j
    BY <1>1 DEF IsInjective
  <2>2. CASE i = 1 \/ j = 1
    <3>1. \A k \in 1 .. Len(s) + 1 : k # 1 => k - 1 \in 1 .. Len(s)
      BY <1>1
    <3> QED
      BY <1>1, <2>1, <2>2, <3>1
  <2>3. CASE i # 1 /\ j # 1
    <3>1. i - 1 \in 1 .. Len(s) /\ j - 1 \in 1 .. Len(s) /\ s[i - 1] = s[j - 1]
      BY <1>1, <2>3
    <3>2. i - 1 = j - 1
      BY <3>1, <1>1, <1>3 DEF IsInjective
    <3> QED
      BY <3>2
  <2> QED
    BY <2>2, <2>3
<1> QED
  BY <1>1, <1>2, <1>3 DEF r

LEMMA PutLast ==
    ASSUME NEW S, NEW s \in Seq(S), NEW n \in S
    PROVE  /\ Append(s, n) \in Seq(S) /\ Len(Append(s, n)) = Len(s) + 1
           /\ Range(Append(s, n)) = Range(s) \cup {n}
           /\ IsInjective(s) /\ n \notin Range(s) => IsInjective(Append(s, n))
<1> DEFINE r == Append(s, n)
<1>1. /\ r \in Seq(S) /\ Len(r) = Len(s) + 1 /\ DOMAIN r = 1 .. Len(s) + 1
      /\ DOMAIN s = 1 .. Len(s) /\ Len(s) \in Nat
      /\ \A i \in 1 .. Len(s) + 1 : r[i] = IF i = Len(s) + 1 THEN n ELSE s[i]
  OBVIOUS
<1> HIDE DEF r
<1>2. Range(r) = Range(s) \cup {n}
  <2>1. ASSUME NEW x \in Range(r) PROVE x \in Range(s) \cup {n}
    <3>1. PICK i \in 1 .. Len(s) + 1 : r[i] = x
      BY <1>1 DEF Range
    <3>2. i # Len(s) + 1 => i \in 1 .. Len(s)
      BY <1>1
    <3> QED
      BY <1>1, <3>1, <3>2 DEF Range
  <2>2. ASSUME NEW x \in Range(s) PROVE x \in Range(r)
    <3>1. PICK i \in 1 .. Len(s) : s[i] = x
      BY <1>1 DEF Range
    <3>2. i \in 1 .. Len(s) + 1 /\ r[i] = x
      BY <1>1, <3>1
    <3> QED
      BY <3>2, <1>1 DEF Range
  <2>3. n \in Range(r)
    <3>1. Len(s) + 1 \in 1 .. Len(s) + 1 /\ r[Len(s) + 1] = n
      BY <1>1
    <3> QED
      BY <3>1, <1>1 DEF Range
  <2> QED
    BY <2>1, <2>2, <2>3
<1>3. ASSUME IsInjective(s), n \notin Range(s) PROVE IsInjective(r)
  <2>1. \A i \in 1 .. Len(s) : s[i] # n
    BY <1>1, <1>3 DEF Range
  <2> SUFFICES ASSUME NEW i \in 1 .. Len(s) + 1, NEW j \in 1 .. Len(s) + 1, r[i] = r[j]
               PROVE  i = j
    BY <1>1 DEF IsInjective
  <2>2. \A k \in 1 .. Len(s) + 1 : k # Len(s) + 1 => k \in 1 .. Len(s)
    BY <1>1
  <2> QED
    BY <1>1, <1>3, <2>1, <2>2 DEF IsInjective
<1> QED
  BY <1>1, <1>2, <1>3 DEF r

LEMMA TakenFirst ==
    ASSUME NEW S, NEW s \in Seq(S), s # <<>>, IsInjective(s)
    PROVE  /\ Tail(s) \in Seq(S) /\ IsInjective(Tail(s)) /\ Head(s) \in S /\ Head(s) \in Range(s)
           /\ Range(Tail(s)) = Range(s) \ {Head(s)}
<1> DEFINE r == Tail(s)
           h == Head(s)
<1>1. /\ r \in Seq(S) /\ DOMAIN r = 1 .. Len(s) - 1 /\ DOMAIN s = 1 .. Len(s)
      /\ Len(s) \in Nat /\ Len(s) >= 1 /\ h = s[1] /\ h \in S
      /\ \A i \in 1 .. Len(s) - 1 : r[i] = s[i + 1]
  OBVIOUS
<1> HIDE DEF r, h
<1>2. h \in Range(s)
  BY <1>1 DEF Range
<1>3. IsInjective(r)
  <2> SUFFICES ASSUME NEW i \in 1 .. Len(s) - 1, NEW j \in 1 .. Len(s) - 1, r[i] = r[j]
               PROVE  i = j
    BY <1>1 DEF IsInjective
  <2>1. i + 1 \in 1 .. Len(s) /\ j + 1 \in 1 .. Len(s) /\ s[i + 1] = s[j + 1]
    BY <1>1
  <2>2. i + 1 = j + 1
    BY <2>1, <1>1 DEF IsInjective
  <2> QED
    BY <2>2
<1>4. Range(r) = Range(s) \ {h}
  <2>1. ASSUME NEW x \in Range(r) PROVE x \in Range(s) \ {h}
    <3>1. PICK i \in 1 .. Len(s) - 1 : r[i] = x
      BY <1>1 DEF Range
    <3>2. i + 1 \in 1 .. Len(s) /\ s[i + 1] = x /\ i + 1 # 1 /\ 1 \in 1 .. Len(s)
      BY <1>1, <3>1
    <3> QED
      BY <3>2, <1>1 DEF Range, IsInjective
  <2>2. ASSUME NEW x \in Range(s) \ {h} PROVE x \in Range(r)
    <3>1. PICK i \in 1 .. Len(s) : s[i] = x /\ i # 1
      BY <1>1 DEF Range
    <3>2. i - 1 \in 1 .. Len(s) - 1 /\ r[i - 1] = x
      BY <1>1, <3>1
    <3> QED
      BY <3>2, <1>1 DEF Range
  <2> QED
    BY <2>1, <2>2
<1> QED
  BY <1>1, <1>2, <1>3, <1>4 DEF r, h

\* The operators of the library are the same ones in both instances.
LEMMA SameInBufCall ==
    /\ \A s : B!Range(s) = Range(s) /\ (B!IsInjective(s) <=> IsInjective(s))
    /\ \A s, n : B!RemoveFirst(s, n) = RemoveFirst(s, n)
    /\ \A S : B!Cardinality(S) = Cardinality(S)
BY DEF B!Range, Range, B!IsInjective, IsInjective, B!RemoveFirst, RemoveFirst, B!RemoveAt, RemoveAt,
       B!SelectInSeq, SelectInSeq, B!Min, Min, B!Cardinality, Cardinality

LEMMA SameInTimers ==
    /\ \A s : T!Range(s) = Range(s) /\ (T!IsInjective(s) <=> IsInjective(s))
    /\ \A s, n : T!RemoveFirst(s, n) = RemoveFirst(s, n)
    /\ \A S : T!Cardinality(S) = Cardinality(S)
BY DEF T!Range, Range, T!IsInjective, IsInjective, T!RemoveFirst, RemoveFirst, T!RemoveAt, RemoveAt,
       T!SelectInSeq, SelectInSeq, T!Min, Min, T!Cardinality, Cardinality

LEMMA ModIs == ASSUME NEW a \in Int, NEW w \in Nat \ {0}
               PROVE \E k \in Int, r \in 0 .. w - 1 : a = w * k + r /\ r = a % w
<1> DEFINE k == a \div w
           r == a % w
           p == w * k
<1>1. r = a - p
  OBVIOUS
<1>2. k \in Int /\ r \in 0 .. w - 1
  OBVIOUS
<1>3. p \in Int
  BY <1>2
<1> HIDE DEF k, r, p
<1>4. a = p + r
  BY <1>1, <1>2, <1>3
<1>5. a = w * k + r
  BY <1>4 DEF p
<1> QED
  BY <1>2, <1>5 DEF r

LEMMA ModOf == ASSUME NEW a \in Int, NEW w \in Nat \ {0}, NEW k \in Int,
                      NEW r \in 0 .. w - 1, a = w * k + r
               PROVE  a % w = r
OBVIOUS

\* Whatever the last handle was, each handle comes once in HMAX steps.
LEMMA Reached ==
    ASSUME NEW a \in Int, NEW w \in Nat \ {0}, NEW u \in 0 .. w - 1
    PROVE  \E k \in 1 .. w : (a + k) % w = u
<1>0. u - a \in Int
  OBVIOUS
<1>1. PICK j \in Int, r \in 0 .. w - 1 : u - a = w * j + r /\ r = (u - a) % w
  <2> DEFINE d == u - a
  <2> HIDE DEF d
  <2>1. d \in Int
    BY <1>0 DEF d
  <2>2. \E j \in Int, r \in 0 .. w - 1 : d = w * j + r /\ r = d % w
    BY <2>1, ModIs
  <2> QED
    BY <2>2 DEF d
<1>2. w * j \in Int /\ w * (-j) = -(w * j) /\ w * (1 - j) = w - w * j
  OBVIOUS
<1> DEFINE p == w * j
           q == w * (-j)
           s == w * (1 - j)
<1>3. CASE r = 0
  <2>1. p \in Int /\ s = w - p /\ u - a = p + r
    BY <1>1, <1>2
  <2> HIDE DEF p, s
  <2>2. a + w = s + u
    BY <1>3, <2>1
  <2>3. a + w = w * (1 - j) + u /\ a + w \in Int /\ 1 - j \in Int
    BY <2>2 DEF s
  <2>4. (a + w) % w = u
    BY <2>3, ModOf
  <2> QED
    BY <2>4
<1>4. CASE r # 0
  <2>1. p \in Int /\ q = -p /\ u - a = p + r
    BY <1>1, <1>2
  <2> HIDE DEF p, q
  <2>2. a + r = q + u /\ r \in 1 .. w
    BY <1>4, <2>1
  <2>3. a + r = w * (-j) + u /\ a + r \in Int /\ -j \in Int
    BY <2>2 DEF q
  <2>4. (a + r) % w = u
    BY <2>3, ModOf
  <2> QED
    BY <2>2, <2>4
<1> QED
  BY <1>3, <1>4

LEMMA LeastNat ==
    ASSUME NEW S \in SUBSET Nat, S # {}
    PROVE  \E n \in S : \A k \in S : n <= k
<1> DEFINE R == OpToRel(<, Nat)
<1>1. IsWellFoundedOn(R, Nat)
  BY NatLessThanWellFounded, Zenon
<1>2. \A x, y \in Nat : x < y => <<x, y>> \in R
  BY Zenon DEF OpToRel
<1> HIDE DEF R
<1>3. \E x \in S : \A y \in S : <<y, x>> \notin R
  BY <1>1, WFMin
<1>4. PICK x \in S : \A y \in S : <<y, x>> \notin R
  BY <1>3
<1>5. ASSUME NEW k \in S PROVE x <= k
  <2>1. x \in Nat /\ k \in Nat /\ <<k, x>> \notin R
    BY <1>4
  <2>2. ~(k < x)
    BY <1>2, <2>1
  <2> QED
    BY <2>1, <2>2
<1> QED
  BY <1>5

-----------------------------------------------------------------------------
(* Timers                                                                  *)

LEMMA TimersAre ==
    /\ THASH \in Nat \ {0} /\ HMAX \in Nat \ {0} /\ MaxTimeout \in Nat
    /\ IsFiniteSet(Tlist) /\ Cardinality({h \in 0 .. HMAX - 1 : h % THASH # 0}) > Cardinality(Tlist)
    /\ 0 \in T!List /\ 0 % THASH = 0 /\ \A h \in Int : h % THASH \in T!List
<1>1. /\ THASH \in Nat \ {0} /\ HMAX \in Nat \ {0} /\ MaxTimeout \in Nat
      /\ IsFiniteSet(Tlist) /\ T!Cardinality({h \in 0 .. HMAX - 1 : h % THASH # 0}) > T!Cardinality(Tlist)
  BY Assumptions DEF T!TimerAssumption, IsFiniteSet, T!IsFiniteSet
<1>2. Cardinality({h \in 0 .. HMAX - 1 : h % THASH # 0}) > Cardinality(Tlist)
  BY <1>1, SameInTimers
<1>3. \A h \in Int : h % THASH \in T!List
  BY <1>1, ModIs DEF T!List
<1>4. 0 \in T!List
  BY <1>1 DEF T!List
<1>5. 0 % THASH = 0
  BY <1>1
<1> QED
  BY <1>1, <1>2, <1>3, <1>4, <1>5

\* alloc_handle finds a handle that no timer has.
LEMMA AllocHandle ==
    ASSUME TimerTypes
    PROVE  /\ T!alloc_handle \in 0 .. HMAX - 1 /\ T!alloc_handle % THASH # 0
           /\ \A n \in Range(lis_tlist_heads[T!alloc_handle % THASH]) : handle[n] # T!alloc_handle
<1> DEFINE Used == {handle[n] : n \in Tlist}
           Some == {h \in 0 .. HMAX - 1 : h % THASH # 0}
<1>1. IsFiniteSet(Used) /\ Cardinality(Used) <= Cardinality(Tlist)
  <2>1. handle \in Surjection(Tlist, Used)
    BY DEF TimerTypes, Surjection
  <2> QED
    BY <2>1, TimersAre, FS_Surjection
<1>2. PICK u \in Some : u \notin Used
  <2>1. CASE Some \subseteq Used
    <3>1. Some \in SUBSET Used
      BY <2>1
    <3>2. Cardinality(Some) <= Cardinality(Used)
      BY <1>1, <3>1, FS_Subset
    <3>3. Cardinality(Some) \in Nat /\ Cardinality(Used) \in Nat /\ Cardinality(Tlist) \in Nat
      BY <1>1, <3>1, TimersAre, FS_Subset, FS_CardinalityType
    <3> QED
      BY <1>1, <3>2, <3>3, TimersAre
  <2> QED
    BY <2>1
<1>3. T!Usable(u)
  <2>1. u % THASH # 0 /\ u % THASH \in T!List /\ \A n \in Tlist : handle[n] # u
    BY <1>2, TimersAre
  <2>2. \A n \in Range(lis_tlist_heads[u % THASH]) : n \in Tlist
    BY <2>1 DEF TimerTypes, Range
  <2>3. {n \in T!Range(lis_tlist_heads[u % THASH]) : handle[n] = u} = {}
    BY <2>1, <2>2, SameInTimers
  <2> QED
    BY <2>1, <2>3 DEF T!Usable, T!find_timer_by_handle, T!Hash
<1> DEFINE K == {k \in 1 .. HMAX : T!Usable(T!After(lis_tlist_handle, k))}
<1>4. K # {}
  <2>1. u \in 0 .. HMAX - 1 /\ lis_tlist_handle \in Int /\ HMAX \in Nat \ {0}
    BY <1>2, TimersAre DEF TimerTypes
  <2>2. PICK k \in 1 .. HMAX : (lis_tlist_handle + k) % HMAX = u
    BY <2>1, Reached
  <2> QED
    BY <1>3, <2>2 DEF T!After
<1>5. PICK k \in K : \A j \in K : k <= j
  <2>1. K \in SUBSET Nat
    BY TimersAre
  <2> QED
    BY <1>4, <2>1, LeastNat
<1>6. \A j \in 1 .. k - 1 : ~T!Usable(T!After(lis_tlist_handle, j))
  <2>1. ASSUME NEW j \in 1 .. k - 1 PROVE j \in 1 .. HMAX /\ ~(k <= j)
    BY TimersAre
  <2> QED
    BY <1>5, <2>1
<1> DEFINE P(i) == /\ T!Usable(T!After(lis_tlist_handle, i))
                   /\ \A j \in 1 .. i - 1 : ~T!Usable(T!After(lis_tlist_handle, j))
           c == CHOOSE i \in 1 .. HMAX : P(i)
<1>7. c \in 1 .. HMAX /\ T!Usable(T!After(lis_tlist_handle, c))
  BY <1>5, <1>6
<1>8. T!alloc_handle = T!After(lis_tlist_handle, c)
  BY DEF T!alloc_handle
<1> HIDE DEF c
<1>9. T!alloc_handle \in 0 .. HMAX - 1
  <2>1. lis_tlist_handle + c \in Int
    BY <1>7, TimersAre DEF TimerTypes
  <2> QED
    BY <1>8, <2>1, TimersAre, ModIs DEF T!After
<1>10. T!Usable(T!alloc_handle)
  BY <1>7, <1>8
<1> QED
  BY <1>9, <1>10, SameInTimers DEF T!Usable, T!find_timer_by_handle, T!Hash

\* A structure goes from its list to the free list, and its handle is forgotten.
LEMMA FreedIsListed ==
    ASSUME TimerTypes, TimersListed, NEW n \in Tlist, n \notin timers,
           T!ToFreeList(n, handle[n] % THASH), handle' = [handle EXCEPT ![n] = 0], timers' = timers
    PROVE  lis_tlist_heads' \in [T!List -> Seq(Tlist)] /\ TimersListed'
<1> DEFINE l == handle[n] % THASH
           s == RemoveFirst(lis_tlist_heads[l], n)
           g == IF l = 0 THEN s ELSE lis_tlist_heads[0]
           f == <<n>> \o g
<1>1. /\ l \in T!List /\ 0 \in T!List /\ 0 % THASH = 0
      /\ \A k \in T!List : lis_tlist_heads[k] \in Seq(Tlist) /\ IsInjective(lis_tlist_heads[k])
  BY TimersAre DEF TimerTypes, TimersListed
<1>2. \A k \in T!List : n \in Range(lis_tlist_heads[k]) <=> k = l
  BY DEF TimersListed
<1>3. /\ s \in Seq(Tlist) /\ IsInjective(s) /\ Range(s) = Range(lis_tlist_heads[l]) \ {n}
  BY <1>1, <1>2, TakenOut
<1>4. /\ g \in Seq(Tlist) /\ IsInjective(g) /\ Range(g) = Range(lis_tlist_heads[0]) \ {n}
  BY <1>1, <1>2, <1>3
<1>5. lis_tlist_heads' = [[lis_tlist_heads EXCEPT ![l] = s] EXCEPT ![0] = f]
  BY <1>1, SameInTimers DEF T!ToFreeList, TimerTypes
<1> HIDE DEF s, g, l
<1>6. /\ f \in Seq(Tlist) /\ IsInjective(f) /\ Range(f) = Range(lis_tlist_heads[0]) \cup {n}
  BY <1>4, PutFirst
<1> HIDE DEF f
<1>7. \A k \in T!List : lis_tlist_heads'[k] = IF k = 0 THEN f ELSE IF k = l THEN s ELSE lis_tlist_heads[k]
  BY <1>1, <1>5 DEF TimerTypes
<1>8. lis_tlist_heads' \in [T!List -> Seq(Tlist)]
  BY <1>1, <1>3, <1>5, <1>6 DEF TimerTypes
<1>9. \A k \in T!List : IsInjective(lis_tlist_heads'[k])
  BY <1>1, <1>3, <1>6, <1>7
<1>10. \A k \in T!List : Range(lis_tlist_heads'[k])
         = IF k = 0 THEN Range(lis_tlist_heads[0]) \cup {n} ELSE Range(lis_tlist_heads[k]) \ {n}
  BY <1>1, <1>2, <1>3, <1>6, <1>7
<1>11. \A m \in Tlist, k \in T!List :
         m \in Range(lis_tlist_heads'[k]) <=> m \notin timers' /\ k = handle'[m] % THASH
  <2> SUFFICES ASSUME NEW m \in Tlist, NEW k \in T!List
               PROVE  m \in Range(lis_tlist_heads'[k]) <=> m \notin timers' /\ k = handle'[m] % THASH
    OBVIOUS
  <2>1. CASE m = n
    <3>1. handle'[m] % THASH = 0
      BY <1>1, <2>1 DEF TimerTypes
    <3> QED
      BY <1>1, <1>10, <2>1, <3>1
  <2>2. CASE m # n
    <3>1. handle'[m] = handle[m]
      BY <2>2 DEF TimerTypes
    <3>2. m \in Range(lis_tlist_heads[k]) <=> m \notin timers /\ k = handle[m] % THASH
      BY DEF TimersListed
    <3> QED
      BY <1>1, <1>10, <2>2, <3>1, <3>2
  <2> QED
    BY <2>1, <2>2
<1>12. \A m \in Tlist : handle'[m] = IF m = n THEN 0 ELSE handle[m]
  BY DEF TimerTypes
<1> QED
  BY <1>8, <1>9, <1>11, <1>12 DEF TimersListed

LEMMA TimerBounds == /\ MaxTimeout \in Nat /\ 0 \in 0 .. HMAX - 1
                     /\ TimerTypes => \A x \in 0 .. timeouts : x # 0 => x \in T!T
<1>1. MaxTimeout \in Nat /\ HMAX \in Nat \ {0}
  BY TimersAre
<1>2. ASSUME TimerTypes, NEW x \in 0 .. timeouts, x # 0 PROVE x \in T!T
  BY <1>1, <1>2 DEF TimerTypes, T!T
<1> QED
  BY <1>1, <1>2

LEMMA TimersStill ==
    ASSUME TInv, UNCHANGED <<lis_tlist_heads, lis_tlist_handle, handle, fcn, timers, timeouts,
                             of, calling, timedout>>
    PROVE  TInv'
BY DEF TInv, TimerTypes, TimersListed, TimersCalled

LEMMA AfterTimeout == ASSUME TInv, NEW d \in Driver, T!Timeout(d) PROVE TInv'
<1> USE DEF TInv
<1> DEFINE h == T!alloc_handle
           l == h % THASH
           b == timeouts + 1
<1>1. PICK n \in IF lis_tlist_heads[0] # <<>> THEN {Head(lis_tlist_heads[0])} ELSE timers :
        LET unfreed == IF n \in timers THEN lis_tlist_heads
                       ELSE [lis_tlist_heads EXCEPT ![0] = Tail(@)]
        IN  /\ lis_tlist_handle' = h
            /\ lis_tlist_heads' = [unfreed EXCEPT ![l] = <<n>> \o @]
            /\ handle' = [handle EXCEPT ![n] = h]
            /\ fcn' = [fcn EXCEPT ![n] = b]
            /\ timers' = timers \ {n}
            /\ of' = [of EXCEPT ![b] = h]
  BY DEF T!Timeout, T!Hash
<1>2. timeouts' = b /\ b \in 1 .. MaxTimeout /\ UNCHANGED <<calling, timedout>>
  BY TimersAre DEF T!Timeout, TimerTypes
<1>3. /\ h \in 0 .. HMAX - 1 /\ l # 0 /\ l \in T!List /\ 0 \in T!List
      /\ \A m \in Range(lis_tlist_heads[l]) : handle[m] # h
  BY AllocHandle, TimersAre
<1> HIDE DEF h
<1>4. \A k \in T!List : lis_tlist_heads[k] \in Seq(Tlist) /\ IsInjective(lis_tlist_heads[k])
  BY DEF TimerTypes, TimersListed
<1>5. /\ n \in Tlist /\ handle[n] = 0
      /\ n \in timers \/ (lis_tlist_heads[0] # <<>> /\ n = Head(lis_tlist_heads[0]) /\ n \notin timers)
  <2>1. CASE lis_tlist_heads[0] # <<>>
    <3>1. n = Head(lis_tlist_heads[0]) /\ n \in Tlist /\ n \in Range(lis_tlist_heads[0])
      BY <1>1, <1>3, <1>4, <2>1, TakenFirst
    <3>2. n \notin timers /\ 0 = handle[n] % THASH
      BY <1>3, <3>1 DEF TimersListed
    <3> QED
      BY <2>1, <3>1, <3>2 DEF TimersListed
  <2>2. CASE ~(lis_tlist_heads[0] # <<>>)
    BY <1>1, <2>2 DEF TimerTypes, TimersListed
  <2> QED
    BY <2>1, <2>2
<1> DEFINE z == IF n \in timers THEN lis_tlist_heads[0] ELSE Tail(lis_tlist_heads[0])
           f == <<n>> \o lis_tlist_heads[l]
<1>6. z \in Seq(Tlist) /\ IsInjective(z) /\ Range(z) = Range(lis_tlist_heads[0]) \ {n}
  <2>1. CASE n \in timers
    <3>1. n \notin Range(lis_tlist_heads[0])
      BY <1>3, <1>5, <2>1 DEF TimersListed
    <3> QED
      BY <1>3, <1>4, <2>1, <3>1
  <2>2. CASE n \notin timers
    BY <1>3, <1>4, <1>5, <2>2, TakenFirst
  <2> QED
    BY <2>1, <2>2
<1>7. lis_tlist_heads' = [[lis_tlist_heads EXCEPT ![0] = z] EXCEPT ![l] = f]
  <2>1. CASE n \in timers
    <3>1. lis_tlist_heads' = [lis_tlist_heads EXCEPT ![l] = f]
      BY <1>1, <2>1
    <3>2. [lis_tlist_heads EXCEPT ![0] = z] = lis_tlist_heads
      BY <1>3, <2>1 DEF TimerTypes
    <3> QED
      BY <3>1, <3>2
  <2>2. CASE n \notin timers
    <3>1. lis_tlist_heads' = [[lis_tlist_heads EXCEPT ![0] = z] EXCEPT ![l] = <<n>> \o @]
      BY <1>1, <2>2
    <3>2. [lis_tlist_heads EXCEPT ![0] = z][l] = lis_tlist_heads[l]
      BY <1>3 DEF TimerTypes
    <3> QED
      BY <1>3, <3>1, <3>2 DEF TimerTypes
  <2> QED
    BY <2>1, <2>2
<1> HIDE DEF z, l
<1>8. n \notin Range(lis_tlist_heads[l])
  <2>1. handle[n] % THASH = 0
    BY <1>5, TimersAre
  <2> QED
    BY <1>3, <1>5, <2>1 DEF TimersListed
<1>9. f \in Seq(Tlist) /\ IsInjective(f) /\ Range(f) = Range(lis_tlist_heads[l]) \cup {n}
  BY <1>3, <1>4, <1>5, <1>8, PutFirst
<1> HIDE DEF f
<1>10. \A k \in T!List : lis_tlist_heads'[k] = IF k = l THEN f ELSE IF k = 0 THEN z ELSE lis_tlist_heads[k]
  BY <1>3, <1>7 DEF TimerTypes
<1>11. /\ \A m \in Tlist : handle'[m] = IF m = n THEN h ELSE handle[m]
       /\ \A m \in Tlist : fcn'[m] = IF m = n THEN b ELSE fcn[m]
       /\ timers' = timers \ {n}
  BY <1>1, <1>5 DEF TimerTypes
<1>12. TimerTypes'
  <2>1. lis_tlist_heads' \in [T!List -> Seq(Tlist)]
    BY <1>3, <1>6, <1>7, <1>9 DEF TimerTypes
  <2>2. handle' \in [Tlist -> 0 .. HMAX - 1] /\ lis_tlist_handle' \in Int
    BY <1>1, <1>3, <1>5 DEF TimerTypes
  <2>3. fcn' \in [Tlist -> 0 .. timeouts']
    <3>1. \A x \in 0 .. timeouts : x \in 0 .. b
      BY <1>2 DEF TimerTypes
    <3>2. b \in 0 .. b
      BY <1>2
    <3>3. fcn \in [Tlist -> 0 .. b]
      BY <3>1 DEF TimerTypes
    <3> HIDE DEF b
    <3> QED
      BY <1>1, <1>2, <1>5, <3>2, <3>3
  <2>4. of' \in [T!T -> 0 .. HMAX - 1]
    <3> HIDE DEF b
    <3> QED
      BY <1>1, <1>2, <1>3 DEF TimerTypes
  <2>5. /\ timers' \subseteq Tlist /\ timeouts' \in 0 .. MaxTimeout
        /\ calling' \subseteq 1 .. timeouts' /\ timedout' \in [T!T -> Nat]
    BY <1>2, <1>11 DEF TimerTypes
  <2> QED
    BY <2>1, <2>2, <2>3, <2>4, <2>5 DEF TimerTypes
<1>13. \A m \in Tlist : handle[m] # 0 /\ m \notin timers => handle[m] # h
  <2> SUFFICES ASSUME NEW m \in Tlist, m \notin timers, handle[m] = h PROVE FALSE
    OBVIOUS
  <2>1. m \in Range(lis_tlist_heads[l])
    BY <1>3 DEF TimersListed, l
  <2> QED
    BY <1>3, <2>1
<1>14. TimersListed'
  <2>1. \A k \in T!List : IsInjective(lis_tlist_heads'[k])
    BY <1>4, <1>6, <1>9, <1>10
  <2>2. \A m \in Tlist, k \in T!List :
          m \in Range(lis_tlist_heads'[k]) <=> m \notin timers' /\ k = handle'[m] % THASH
    <3> SUFFICES ASSUME NEW m \in Tlist, NEW k \in T!List
                 PROVE  m \in Range(lis_tlist_heads'[k]) <=> m \notin timers' /\ k = handle'[m] % THASH
      OBVIOUS
    <3>1. CASE m = n
      <4>1. m \in Range(lis_tlist_heads[k]) => k = 0
        BY <1>5, <3>1, TimersAre DEF TimersListed
      <4> QED
        BY <1>3, <1>6, <1>9, <1>10, <1>11, <3>1, <4>1 DEF l
    <3>2. CASE m # n
      BY <1>3, <1>6, <1>9, <1>10, <1>11, <3>2 DEF TimersListed
    <3> QED
      BY <3>1, <3>2
  <2>3. \A m \in Tlist : m \in timers' => handle'[m] = 0
    BY <1>11 DEF TimersListed
  <2>4. \A m \in Tlist : handle'[m] # 0 => handle'[m] % THASH # 0
    BY <1>3, <1>11 DEF TimersListed, l
  <2>5. \A m \in Tlist : handle[m] # 0 => m \notin timers
    BY DEF TimersListed
  <2>6. \A m, o \in Tlist : handle'[m] = handle'[o] /\ handle'[m] # 0 => m = o
    BY <1>11, <1>13, <2>5 DEF TimersListed
  <2> QED
    BY <2>1, <2>2, <2>3, <2>4, <2>6 DEF TimersListed
<1>15. TimersCalled'
  <2>1. b \notin calling /\ timedout[b] = 0 /\ b # 0 /\ \A m \in Tlist : fcn[m] # b
    BY <1>2 DEF TimerTypes, TimersCalled, T!T
  <2>2. \A t \in T!T : t <= timeouts => t <= b
    BY <1>2 DEF TimerTypes, T!T
  <2> HIDE DEF b
  <2>3. \A m \in Tlist : handle'[m] # 0 => /\ fcn'[m] # 0 /\ fcn'[m] \notin calling
                                           /\ timedout[fcn'[m]] = 0
    BY <1>11, <2>1 DEF TimersCalled
  <2>4. \A m, o \in Tlist : handle'[m] # 0 /\ handle'[o] # 0 /\ fcn'[m] = fcn'[o] => m = o
    BY <1>11, <2>1 DEF TimersCalled
  <2>5. \A t \in T!T : timedout[t] <= 1 /\ (timedout[t] # 0 => t <= b)
    BY <2>2 DEF TimersCalled
  <2> QED
    BY <1>2, <2>3, <2>4, <2>5 DEF TimersCalled
<1> QED
  BY <1>12, <1>14, <1>15

LEMMA AfterUntimeout ==
    ASSUME TInv, NEW d \in Driver, NEW t \in T!T, T!Untimeout(d, t) PROVE TInv'
<1> USE DEF TInv
<1> DEFINE found == T!find_timer_by_handle(of[t])
<1>1. /\ UNCHANGED <<lis_tlist_handle, fcn, timers, timeouts, of, calling, timedout>>
      /\ IF found = {} THEN UNCHANGED <<lis_tlist_heads, handle>>
         ELSE LET n == CHOOSE n \in found : TRUE IN
              T!ToFreeList(n, of[t] % THASH) /\ handle' = [handle EXCEPT ![n] = 0]
  BY DEF T!Untimeout, T!table, T!ghost, T!Hash, T!Available
<1>2. CASE found = {}
  BY <1>1, <1>2, TimersStill
<1>3. CASE found # {}
  <2>1. PICK n \in found : T!ToFreeList(n, of[t] % THASH) /\ handle' = [handle EXCEPT ![n] = 0]
    BY <1>1, <1>3
  <2>2. n \in Range(lis_tlist_heads[of[t] % THASH]) /\ handle[n] = of[t]
    BY <2>1, SameInTimers DEF T!find_timer_by_handle, T!Hash
  <2>3. of[t] % THASH \in T!List /\ n \in Tlist
    <3>1. of[t] % THASH \in T!List
      BY TimersAre DEF TimerTypes
    <3> QED
      BY <2>2, <3>1 DEF TimerTypes, Range
  <2>4. n \in Tlist /\ n \notin timers
    BY <2>2, <2>3 DEF TimersListed
  <2>5. lis_tlist_heads' \in [T!List -> Seq(Tlist)] /\ TimersListed'
    BY <1>1, <2>1, <2>2, <2>4, FreedIsListed
  <2>6. \A m \in Tlist : handle'[m] = IF m = n THEN 0 ELSE handle[m]
    BY <2>1, <2>4 DEF TimerTypes
  <2>7. handle' \in [Tlist -> 0 .. HMAX - 1]
    BY <2>1, TimerBounds DEF TimerTypes
  <2>9. TimerTypes'
    BY <1>1, <2>5, <2>7 DEF TimerTypes
  <2>8. TimersCalled'
    BY <1>1, <2>6 DEF TimersCalled
  <2> QED
    BY <2>5, <2>8, <2>9
<1> QED
  BY <1>2, <1>3

LEMMA AfterSysTimeout == ASSUME TInv, NEW n \in Tlist, T!SysTimeoutFcn(n) PROVE TInv'
<1> USE DEF TInv
<1>1. /\ UNCHANGED <<lis_tlist_handle, timers, timeouts, of, timedout>>
      /\ IF n \notin Range(lis_tlist_heads[handle[n] % THASH])
         THEN UNCHANGED <<lis_tlist_heads, handle, fcn, calling>>
         ELSE /\ calling' = IF handle[n] # 0 /\ fcn[n] # 0 THEN calling \cup {fcn[n]} ELSE calling
              /\ T!ToFreeList(n, handle[n] % THASH)
              /\ handle' = [handle EXCEPT ![n] = 0] /\ fcn' = [fcn EXCEPT ![n] = 0]
  BY SameInTimers DEF T!SysTimeoutFcn, T!table, T!ghost, T!Hash, T!Available, T!OnList, T!Callable, T!None
<1>2. CASE n \notin Range(lis_tlist_heads[handle[n] % THASH])
  BY <1>1, <1>2, TimersStill
<1>3. CASE n \in Range(lis_tlist_heads[handle[n] % THASH])
  <2>1. n \notin timers
    BY <1>3, TimersAre DEF TimersListed, TimerTypes
  <2>2. lis_tlist_heads' \in [T!List -> Seq(Tlist)] /\ TimersListed'
    BY <1>1, <1>3, <2>1, FreedIsListed
  <2>3. \A m \in Tlist : /\ handle'[m] = IF m = n THEN 0 ELSE handle[m]
                         /\ fcn'[m] = IF m = n THEN 0 ELSE fcn[m]
    BY <1>1, <1>3 DEF TimerTypes
  <2>6. handle' \in [Tlist -> 0 .. HMAX - 1] /\ fcn' \in [Tlist -> 0 .. timeouts]
    BY <1>1, <1>3, TimerBounds DEF TimerTypes
  <2>7. calling' \subseteq 1 .. timeouts
    <3>1. fcn[n] # 0 => fcn[n] \in 1 .. timeouts
      BY DEF TimerTypes
    <3> QED
      BY <1>1, <1>3, <3>1 DEF TimerTypes
  <2>4. TimerTypes'
    BY <1>1, <2>2, <2>6, <2>7 DEF TimerTypes
  <2>8. \A m \in Tlist : handle'[m] # 0 => m # n /\ handle[m] # 0 /\ fcn'[m] = fcn[m]
    BY <2>3
  <2>9. \A t \in calling' : t \in calling \/ (handle[n] # 0 /\ t = fcn[n])
    BY <1>1, <1>3
  <2>5. TimersCalled'
    <3>1. \A m \in Tlist : handle'[m] # 0 => /\ fcn'[m] # 0 /\ fcn'[m] \notin calling'
                                             /\ timedout'[fcn'[m]] = 0
      BY <1>1, <2>8, <2>9 DEF TimersCalled
    <3>2. \A m, o \in Tlist : handle'[m] # 0 /\ handle'[o] # 0 /\ fcn'[m] = fcn'[o] => m = o
      BY <2>8 DEF TimersCalled
    <3>3. \A t \in calling' : timedout'[t] = 0
      BY <1>1, <2>9 DEF TimersCalled
    <3> QED
      BY <1>1, <3>1, <3>2, <3>3 DEF TimersCalled
  <2> QED
    BY <2>2, <2>4, <2>5
<1> QED
  BY <1>2, <1>3

LEMMA AfterCallFcn == ASSUME TInv, NEW t \in T!T, T!CallFcn(t) PROVE TInv'
<1> USE DEF TInv
<1>1. /\ UNCHANGED <<lis_tlist_heads, lis_tlist_handle, handle, fcn, timers, timeouts, of>>
      /\ t \in calling /\ calling' = calling \ {t}
      /\ timedout' = [timedout EXCEPT ![t] = @ + 1]
  BY DEF T!CallFcn, T!table, T!ghost
<1>2. timedout[t] = 0 /\ t <= timeouts /\ t \in 1 .. timeouts
  BY <1>1 DEF TimersCalled, TimerTypes
<1>3. timedout' \in [T!T -> Nat] /\ \A u \in T!T : timedout'[u] = IF u = t THEN 1 ELSE timedout[u]
  BY <1>1, <1>2 DEF TimerTypes
<1>4. TimerTypes' /\ TimersListed'
  BY <1>1, <1>3 DEF TimerTypes, TimersListed
<1>5. \A n \in Tlist : fcn[n] # 0 => fcn[n] \in T!T
  BY TimerBounds DEF TimerTypes
<1>6. \A u \in calling : u \in T!T
  <2>1. \A u \in 1 .. timeouts : u \in 0 .. timeouts /\ u # 0
    OBVIOUS
  <2> QED
    BY <2>1, TimerBounds DEF TimerTypes
<1>7. TimersCalled'
  BY <1>1, <1>2, <1>3, <1>5, <1>6 DEF TimersCalled
<1> QED
  BY <1>4, <1>7

LEMMA TimersKept == TInv /\ (T!Next \/ UNCHANGED T!vars) => TInv'
<1> SUFFICES ASSUME TInv, T!Next \/ UNCHANGED T!vars PROVE TInv'
  OBVIOUS
<1>1. CASE UNCHANGED T!vars
  BY <1>1, TimersStill DEF T!vars, T!table, T!ghost
<1>2. ASSUME NEW d \in Driver, T!StartTimer(d) PROVE TInv'
  BY <1>2, TimersStill DEF T!StartTimer, T!table, T!ghost
<1>3. ASSUME NEW n \in Tlist, T!Expire(n) PROVE TInv'
  BY <1>3, TimersStill DEF T!Expire, T!table, T!ghost
<1> QED
  BY <1>1, <1>2, <1>3, AfterTimeout, AfterUntimeout, AfterSysTimeout, AfterCallFcn DEF T!Next

LEMMA TimersInit == T!Init => TInv
<1> SUFFICES ASSUME T!Init PROVE TInv
  OBVIOUS
<1>1. Range(<<>>) = {} /\ IsInjective(<<>>) /\ <<>> \in Seq(Tlist)
  BY DEF Range, IsInjective
<1>2. TimerTypes
  BY <1>1, TimersAre DEF T!Init, TimerTypes, T!None, T!T
<1>3. TimersListed
  BY <1>1, TimersAre DEF T!Init, TimersListed
<1>4. TimersCalled
  BY DEF T!Init, TimersCalled
<1> QED
  BY <1>2, <1>3, <1>4 DEF TInv

LEMMA TimersOnce == TInv => T!EachIsOnce
<1> SUFFICES ASSUME TInv PROVE T!EachIsOnce
  OBVIOUS
<1>1. ASSUME NEW t \in T!T PROVE timedout[t] + T!Cardinality(calling \cap {t}) <= 1
  <2>1. CASE t \in calling
    <3>1. calling \cap {t} = {t}
      BY <2>1
    <3>2. T!Cardinality(calling \cap {t}) = 1
      BY <3>1, SameInTimers, FS_Singleton
    <3> QED
      BY <2>1, <3>2 DEF TInv, TimersCalled
  <2>2. CASE t \notin calling
    <3>1. calling \cap {t} = {}
      BY <2>2
    <3>2. T!Cardinality(calling \cap {t}) = 0
      BY <3>1, SameInTimers, FS_EmptySet
    <3> QED
      BY <3>2 DEF TInv, TimersCalled, TimerTypes
  <2> QED
    BY <2>1, <2>2
<1> QED
  BY <1>1, SameInTimers DEF T!EachIsOnce, TInv, TimersListed, T!OnList, T!Hash

-----------------------------------------------------------------------------
(* Bufcalls                                                                *)

LEMMA BufcallsAre ==
    /\ N_BCHASH \in Nat \ {0} /\ MaxId \in Nat /\ IsFiniteSet(Node) /\ NoNode \notin Node
    /\ \A x \in Caller : x \notin Runner
    /\ \A b \in Int : b % N_BCHASH \in B!Bucket
<1>1. /\ N_BCHASH \in Nat \ {0} /\ MaxId \in Nat /\ IsFiniteSet(Node) /\ NoNode \notin Node
      /\ \A x \in Caller : x \notin Runner
  BY Assumptions DEF B!BufCallAssumption, IsFiniteSet, B!IsFiniteSet
<1>2. \A b \in Int : b % N_BCHASH \in B!Bucket
  BY <1>1, ModIs DEF B!Bucket
<1> QED
  BY <1>1, <1>2

LEMMA LinkedFinite == IsFiniteSet(Linked)
<1>1. Linked \in SUBSET Node
  BY DEF Linked
<1> QED
  BY <1>1, BufcallsAre, FS_Subset

\* Node n, which has no entry, gets one for bufcall b.
LEMMA LinkIs ==
    ASSUME NodeTypes, Listed, NEW n \in Node, id[n] = 0, NEW b \in 1 .. MaxId, B!Link(n, b),
           id_num' \in 0 .. MaxId, id_num <= id_num', b <= id_num',
           \/ n \in fresh /\ fresh' = fresh \ {n} /\ lis_bcfreel' = lis_bcfreel
           \/ /\ lis_bcfreel # <<>> /\ n = Head(lis_bcfreel)
              /\ lis_bcfreel' = Tail(lis_bcfreel) /\ fresh' = fresh
    PROVE  /\ NodeTypes' /\ Listed' /\ \A m \in Node : id'[m] = IF m = n THEN b ELSE id[m]
<1> DEFINE h == b % N_BCHASH
           f == Append(lis_bchash[h], n)
<1>1. /\ id' = [id EXCEPT ![n] = b]
      /\ state' = [state EXCEPT ![n] = "active"]
      /\ usr_f' = [usr_f EXCEPT ![n] = TRUE]
      /\ lis_bchash' = [lis_bchash EXCEPT ![h] = f]
      /\ n_elts' = [n_elts EXCEPT ![h] = @ + 1]
      /\ lis_bc_cnt' = lis_bc_cnt + 1
  BY DEF B!Link, B!Counted
<1>2. h \in B!Bucket /\ b # 0 /\ b \in 0 .. id_num'
  BY BufcallsAre
<1>3. \A k \in B!Bucket : n \notin Range(lis_bchash[k])
  BY DEF Listed
<1>4. \A k \in B!Bucket : lis_bchash[k] \in Seq(Node) /\ IsInjective(lis_bchash[k])
  BY DEF NodeTypes, Listed
<1>5. f \in Seq(Node) /\ IsInjective(f) /\ Range(f) = Range(lis_bchash[h]) \cup {n}
      /\ Len(f) = Len(lis_bchash[h]) + 1
  BY <1>2, <1>3, <1>4, PutLast
<1> HIDE DEF f
<1>6. /\ \A k \in B!Bucket : lis_bchash'[k] = IF k = h THEN f ELSE lis_bchash[k]
      /\ \A k \in B!Bucket : n_elts'[k] = IF k = h THEN n_elts[k] + 1 ELSE n_elts[k]
      /\ \A m \in Node : id'[m] = IF m = n THEN b ELSE id[m]
  BY <1>1, <1>2 DEF NodeTypes
<1>7. lis_bcfreel \in Seq(Node) /\ IsInjective(lis_bcfreel)
  BY DEF NodeTypes, Listed
<1>8. /\ lis_bcfreel' \in Seq(Node) /\ IsInjective(lis_bcfreel')
      /\ fresh' \cup Range(lis_bcfreel') = (fresh \cup Range(lis_bcfreel)) \ {n}
      /\ fresh' \subseteq fresh /\ Range(lis_bcfreel') \subseteq Range(lis_bcfreel)
  <2>1. CASE n \in fresh /\ fresh' = fresh \ {n} /\ lis_bcfreel' = lis_bcfreel
    <3>1. n \notin Range(lis_bcfreel)
      BY <2>1 DEF Listed
    <3> QED
      BY <1>7, <2>1, <3>1
  <2>2. CASE /\ lis_bcfreel # <<>> /\ n = Head(lis_bcfreel)
             /\ lis_bcfreel' = Tail(lis_bcfreel) /\ fresh' = fresh
    <3>1. /\ lis_bcfreel' \in Seq(Node) /\ IsInjective(lis_bcfreel') /\ n \in Range(lis_bcfreel)
          /\ Range(lis_bcfreel') = Range(lis_bcfreel) \ {n}
      BY <1>7, <2>2, TakenFirst
    <3>2. n \notin fresh
      BY <3>1 DEF Listed
    <3> QED
      BY <2>2, <3>1, <3>2
  <2> QED
    BY <2>1, <2>2
<1>9. NodeTypes'
  <2>1. lis_bchash' \in [B!Bucket -> Seq(Node)] /\ n_elts' \in [B!Bucket -> Int]
    BY <1>1, <1>2, <1>5 DEF NodeTypes
  <2>2. id \in [Node -> 0 .. id_num']
    <3>1. \A x \in 0 .. id_num : x \in 0 .. id_num'
      BY DEF NodeTypes
    <3> QED
      BY <3>1 DEF NodeTypes
  <2>3. id' \in [Node -> 0 .. id_num']
    BY <1>1, <1>2, <2>2
  <2>4. usr_f' \in [Node -> BOOLEAN] /\ state' \in [Node -> {"unused", "active", "callout"}]
    BY <1>1 DEF NodeTypes
  <2> QED
    BY <1>8, <2>1, <2>3, <2>4 DEF NodeTypes
<1>10. lis_bc_cnt' = Cardinality(Linked')
  <2>1. Linked' = Linked \cup {n} /\ n \notin Linked
    BY <1>2, <1>6 DEF Linked
  <2>2. Cardinality(Linked \cup {n}) = Cardinality(Linked) + 1
    BY <2>1, LinkedFinite, FS_AddElement
  <2> QED
    BY <1>1, <2>1, <2>2 DEF Listed
<1>11. \A k \in B!Bucket : IsInjective(lis_bchash'[k]) /\ n_elts'[k] = Len(lis_bchash'[k])
  BY <1>2, <1>4, <1>5, <1>6 DEF Listed
<1>12. \A m \in Node :
         /\ id'[m] = 0 <=> m \in fresh' \cup Range(lis_bcfreel')
         /\ m \in fresh' => m \notin Range(lis_bcfreel')
  BY <1>2, <1>6, <1>8 DEF Listed
<1>13. \A m \in Node, k \in B!Bucket :
         m \in Range(lis_bchash'[k]) <=> id'[m] # 0 /\ id'[m] % N_BCHASH = k
  <2>1. \A m \in Node, k \in B!Bucket : m \in Range(lis_bchash[k]) <=> id[m] # 0 /\ id[m] % N_BCHASH = k
    BY DEF Listed
  <2> QED
    BY <1>2, <1>3, <1>5, <1>6, <2>1
<1> QED
  BY <1>6, <1>8, <1>9, <1>10, <1>11, <1>12, <1>13 DEF Listed

\* Node n, which has an entry, loses it.
LEMMA UlinkIs ==
    ASSUME NodeTypes, Listed, NEW n \in Node, id[n] # 0, B!bc_ulink(n), UNCHANGED <<fresh, id_num>>
    PROVE  /\ NodeTypes' /\ Listed' /\ \A m \in Node : id'[m] = IF m = n THEN 0 ELSE id[m]
<1> DEFINE h == id[n] % N_BCHASH
           f == RemoveFirst(lis_bchash[h], n)
           g == <<n>> \o lis_bcfreel
<1>1. /\ id' = [id EXCEPT ![n] = 0]
      /\ state' = [state EXCEPT ![n] = "unused"]
      /\ usr_f' = [usr_f EXCEPT ![n] = FALSE]
      /\ lis_bchash' = [lis_bchash EXCEPT ![h] = f]
      /\ n_elts' = [n_elts EXCEPT ![h] = @ - 1]
      /\ lis_bc_cnt' = lis_bc_cnt - 1 /\ lis_bcfreel' = g
  BY SameInBufCall DEF B!bc_ulink, B!LinkAround, B!Uncounted
<1>2. h \in B!Bucket /\ n \in Range(lis_bchash[h]) /\ n \notin fresh \cup Range(lis_bcfreel)
  <2>1. id[n] \in Int
    BY DEF NodeTypes
  <2>2. h \in B!Bucket
    BY <2>1, BufcallsAre
  <2> QED
    BY <2>2 DEF Listed
<1>3. \A k \in B!Bucket : lis_bchash[k] \in Seq(Node) /\ IsInjective(lis_bchash[k])
  BY DEF NodeTypes, Listed
<1>4. \A m \in Node, k \in B!Bucket : m \in Range(lis_bchash[k]) <=> id[m] # 0 /\ id[m] % N_BCHASH = k
  BY DEF Listed
<1>5. f \in Seq(Node) /\ IsInjective(f) /\ Range(f) = Range(lis_bchash[h]) \ {n}
      /\ Len(f) = Len(lis_bchash[h]) - 1
  BY <1>2, <1>3, TakenOut
<1>6. g \in Seq(Node) /\ IsInjective(g) /\ Range(g) = Range(lis_bcfreel) \cup {n}
  <2>1. lis_bcfreel \in Seq(Node) /\ IsInjective(lis_bcfreel)
    BY DEF NodeTypes, Listed
  <2> QED
    BY <1>2, <2>1, PutFirst
<1> HIDE DEF f, g
<1>7. /\ \A k \in B!Bucket : lis_bchash'[k] = IF k = h THEN f ELSE lis_bchash[k]
      /\ \A k \in B!Bucket : n_elts'[k] = IF k = h THEN n_elts[k] - 1 ELSE n_elts[k]
      /\ \A m \in Node : id'[m] = IF m = n THEN 0 ELSE id[m]
  BY <1>1, <1>2 DEF NodeTypes
<1>8. NodeTypes'
  <2>1. lis_bchash' \in [B!Bucket -> Seq(Node)] /\ n_elts' \in [B!Bucket -> Int]
    BY <1>1, <1>2, <1>5 DEF NodeTypes
  <2>2. id' \in [Node -> 0 .. id_num']
    <3>1. 0 \in 0 .. id_num
      BY DEF NodeTypes
    <3> QED
      BY <1>1, <3>1 DEF NodeTypes
  <2>3. usr_f' \in [Node -> BOOLEAN] /\ state' \in [Node -> {"unused", "active", "callout"}]
    BY <1>1 DEF NodeTypes
  <2> QED
    BY <1>1, <1>6, <2>1, <2>2, <2>3 DEF NodeTypes
<1>9. lis_bc_cnt' = Cardinality(Linked')
  <2>1. Linked' = Linked \ {n} /\ n \in Linked
    BY <1>7 DEF Linked
  <2>2. Cardinality(Linked \ {n}) = Cardinality(Linked) - 1
    BY <2>1, LinkedFinite, FS_RemoveElement
  <2> QED
    BY <1>1, <2>1, <2>2 DEF Listed
<1>10. \A k \in B!Bucket : IsInjective(lis_bchash'[k]) /\ n_elts'[k] = Len(lis_bchash'[k])
  BY <1>2, <1>3, <1>5, <1>7 DEF Listed
<1>11. \A m \in Node :
         /\ id'[m] = 0 <=> m \in fresh' \cup Range(lis_bcfreel')
         /\ m \in fresh' => m \notin Range(lis_bcfreel')
  BY <1>1, <1>2, <1>6, <1>7 DEF Listed
<1>12. \A m \in Node, k \in B!Bucket :
         m \in Range(lis_bchash'[k]) <=> id'[m] # 0 /\ id'[m] % N_BCHASH = k
  BY <1>2, <1>4, <1>5, <1>7
<1> QED
  BY <1>1, <1>6, <1>7, <1>8, <1>9, <1>10, <1>11, <1>12 DEF Listed

\* Nothing moves between the lists.
LEMMA NodesRest ==
    ASSUME NodeTypes, Listed, UNCHANGED <<lis_bchash, n_elts, lis_bc_cnt, lis_bcfreel, fresh, id>>,
           usr_f' \in [Node -> BOOLEAN], state' \in [Node -> {"unused", "active", "callout"}],
           id_num' \in 0 .. MaxId, id_num <= id_num'
    PROVE  NodeTypes' /\ Listed'
<1>1. \A x \in 0 .. id_num : x \in 0 .. id_num'
  BY DEF NodeTypes
<1>2. NodeTypes'
  BY <1>1 DEF NodeTypes
<1>3. Linked' = Linked
  BY DEF Linked
<1> QED
  BY <1>2, <1>3 DEF Listed

LEMMA CountIsNat == ASSUME Listed PROVE lis_bc_cnt \in Nat
BY LinkedFinite, FS_CardinalityType DEF Listed

LEMMA CtxIs == /\ \A x \in Caller : x \in B!Ctx
               /\ \A r \in Runner : r \in B!Ctx
               /\ \A x \in B!Ctx : x \in Caller \/ x \in Runner
               /\ \A x \in Caller : x \notin Runner
BY BufcallsAre DEF B!Ctx

\* bc_link starts the timer if it does not run.
LEMMA TimedByLink ==
    ASSUME ThreadTypes, BufTimed, NEW n, NEW b, B!Link(n, b),
           \A r \in Runner : pc'[r] = "idle" <=> pc[r] = "idle"
    PROVE  /\ BufTimed' /\ lis_strbcflag' \in BOOLEAN /\ lis_strbctimer' \in BOOLEAN /\ armed' \in BOOLEAN
<1>1. /\ lis_strbctimer' = (lis_strbctimer \/ ~lis_strbctimer)
      /\ armed' = (armed \/ ~lis_strbctimer) /\ lis_strbcflag' = lis_strbcflag
  BY DEF B!Link, B!StartsTimer
<1>2. lis_strbctimer' = TRUE
  BY <1>1
<1>3. CASE lis_strbctimer
  BY <1>1, <1>2, <1>3 DEF BufTimed, ThreadTypes
<1>4. CASE ~lis_strbctimer
  BY <1>1, <1>2, <1>4 DEF BufTimed, ThreadTypes
<1> QED
  BY <1>3, <1>4 DEF ThreadTypes

LEMMA AfterReuse == ASSUME BInv, NEW x \in B!Ctx, B!BufcallReuse(x) PROVE BInv'
<1> USE DEF BInv
<1> DEFINE b == id_num + 1
           n == Head(lis_bcfreel)
<1>1. /\ lis_bcfreel # <<>> /\ id_num < MaxId
      /\ lis_bcfreel' = Tail(lis_bcfreel) /\ id_num' = b /\ B!Link(n, b)
      /\ UNCHANGED <<fresh, pc, hand, new_id, list_i, called, cancelled>>
  BY DEF B!BufcallReuse, B!MayCall, B!thread
<1>2. n \in Node /\ n \in Range(lis_bcfreel)
  BY <1>1, TakenFirst DEF NodeTypes, Listed
<1>3. id[n] = 0
  BY <1>2 DEF Listed
<1>4. b \in 1 .. MaxId /\ id_num' \in 0 .. MaxId /\ id_num <= id_num' /\ b <= id_num'
  BY <1>1, BufcallsAre DEF NodeTypes
<1>5. NodeTypes' /\ Listed' /\ \A m \in Node : id'[m] = IF m = n THEN b ELSE id[m]
  BY <1>1, <1>2, <1>3, <1>4, LinkIs
<1>6. BufTimed' /\ ThreadTypes'
  BY <1>1, TimedByLink DEF ThreadTypes
<1>7. /\ b # 0 /\ \A m \in Node : id[m] # b
      /\ \A y \in B!Ctx : Takes(y) => new_id[y] # b /\ new_id[y] \in 1 .. id_num'
      /\ called[b] = 0
  BY <1>1, <1>4 DEF NodeTypes, Numbered, CalledBack, ThreadTypes
<1> HIDE DEF b, n
<1>8. Numbered'
  BY <1>1, <1>5, <1>7 DEF Numbered, Takes, Busy
<1>9. Alone'
  BY <1>1, <1>5, <1>7 DEF Alone, Busy, Calling
<1>10. CalledBack'
  <2>1. \A a \in 1 .. MaxId : a <= id_num => a <= id_num'
    BY <1>4 DEF NodeTypes
  <2> QED
    BY <1>1, <1>5, <1>7, <2>1 DEF CalledBack, Calling
<1> QED
  BY <1>5, <1>6, <1>8, <1>9, <1>10

LEMMA AfterAlloc == ASSUME BInv, NEW x \in B!Ctx, B!BufcallAlloc(x) PROVE BInv'
<1> USE DEF BInv
<1> DEFINE b == id_num + 1
           l == IF x \in Caller THEN "alloc" ELSE "alloc_in_callout"
<1>1. /\ id_num < MaxId /\ pc[x] = (IF x \in Caller THEN "idle" ELSE "callout")
      /\ id_num' = b /\ new_id' = [new_id EXCEPT ![x] = b] /\ pc' = [pc EXCEPT ![x] = l]
      /\ UNCHANGED <<lis_bchash, n_elts, lis_bc_cnt, lis_bcfreel, fresh, id, state, usr_f>>
      /\ UNCHANGED <<lis_strbcflag, lis_strbctimer, armed, hand, list_i, called, cancelled>>
  BY DEF B!BufcallAlloc, B!MayCall, B!nodes, B!timer, B!Goto
<1>2. b \in 1 .. MaxId /\ id_num' \in 0 .. MaxId /\ id_num <= id_num'
  BY <1>1, BufcallsAre DEF NodeTypes
<1>3. NodeTypes' /\ Listed'
  BY <1>1, <1>2, NodesRest DEF NodeTypes
<1>4. /\ \A y \in B!Ctx : pc'[y] = IF y = x THEN l ELSE pc[y]
      /\ \A y \in B!Ctx : new_id'[y] = IF y = x THEN b ELSE new_id[y]
  BY <1>1 DEF ThreadTypes
<1>5. /\ b # 0 /\ \A m \in Node : id[m] # b
      /\ \A y \in B!Ctx : Takes(y) => new_id[y] # b /\ new_id[y] \in 1 .. id_num'
      /\ called[b] = 0 /\ b \in 1 .. id_num'
  BY <1>1, <1>2 DEF NodeTypes, Numbered, CalledBack, ThreadTypes
<1>6. ThreadTypes'
  <2>1. b \in 0 .. MaxId
    BY <1>2
  <2> HIDE DEF b
  <2> QED
    BY <1>1, <2>1 DEF ThreadTypes
<1> HIDE DEF b
<1>7. Numbered'
  <2>1. \A y \in B!Ctx : Takes(y)' => y = x \/ Takes(y)
    BY <1>4 DEF Takes
  <2>2. \A c \in Caller : Busy(c)' => Busy(c) /\ new_id'[c] = new_id[c]
    BY <1>4, CtxIs DEF Busy
  <2> QED
    BY <1>1, <1>4, <1>5, <2>1, <2>2 DEF Numbered
<1>8. Alone'
  BY <1>1, <1>4, CtxIs DEF Alone, Busy, Calling
<1>9. CalledBack'
  <2>1. \A a \in 1 .. MaxId : a <= id_num => a <= id_num'
    BY <1>2 DEF NodeTypes
  <2>2. \A r \in Runner : Calling(r) => Calling(r)'
    BY <1>4, CtxIs DEF Calling
  <2> QED
    BY <1>1, <2>1, <2>2 DEF CalledBack
<1>10. BufTimed'
  <2>1. \A r \in Runner : pc'[r] = "idle" <=> pc[r] = "idle"
    BY <1>1, <1>4, CtxIs
  <2> QED
    BY <1>1, <2>1 DEF BufTimed
<1> QED
  BY <1>3, <1>6, <1>7, <1>8, <1>9, <1>10

\* A context leaves bufcall again.
LEMMA Leaves ==
    ASSUME ThreadTypes, Alone, NEW x \in B!Ctx, B!Allocating(x), B!Allocated(x)
    PROVE  /\ new_id' \in [B!Ctx -> 0 .. MaxId]
           /\ pc' \in [B!Ctx -> {"idle", "alloc", "alloc_in_callout", "spin", "unlink", "loop", "callout"}]
           /\ \A y \in B!Ctx : Takes(y)' => y # x /\ Takes(y) /\ new_id'[y] = new_id[y]
           /\ Takes(x)
           /\ \A c \in Caller : pc'[c] = pc[c] \/ (pc[c] = "alloc" /\ pc'[c] = "idle")
           /\ \A r \in Runner : pc'[r] = pc[r] \/ (pc[r] = "alloc_in_callout" /\ pc'[r] = "callout")
           /\ \A c \in Caller : Busy(c)' => Busy(c) /\ new_id'[c] = new_id[c]
<1> DEFINE l == IF x \in Caller THEN "idle" ELSE "callout"
<1>1. /\ new_id' = [new_id EXCEPT ![x] = 0] /\ pc' = [pc EXCEPT ![x] = l]
      /\ pc[x] \in {"alloc", "alloc_in_callout"}
  BY DEF B!Allocated, B!Allocating, B!Goto
<1>2. /\ \A y \in B!Ctx : pc'[y] = IF y = x THEN l ELSE pc[y]
      /\ \A y \in B!Ctx : new_id'[y] = IF y = x THEN 0 ELSE new_id[y]
  BY <1>1 DEF ThreadTypes
<1>3. 0 \in 0 .. MaxId
  BY BufcallsAre
<1> QED
  BY <1>1, <1>2, <1>3, CtxIs DEF ThreadTypes, Takes, Alone, Busy

\* ... which is no matter to who is alone.
LEMMA LeavesAlone ==
    ASSUME Alone, UNCHANGED hand, \A n \in Node : id[n] # 0 => id'[n] # 0,
           \A c \in Caller : pc'[c] = pc[c] \/ (pc[c] = "alloc" /\ pc'[c] = "idle"),
           \A r \in Runner : pc'[r] = pc[r] \/ (pc[r] = "alloc_in_callout" /\ pc'[r] = "callout")
    PROVE  /\ Alone' /\ \A r \in Runner : pc'[r] = "idle" <=> pc[r] = "idle"
           /\ \A r \in Runner : Calling(r)' <=> Calling(r)
BY DEF Alone, Busy, Calling

\* An id that was given is one of those that exist.
LEMMA IdFits ==
    ASSUME NEW k \in 0 .. MaxId, NEW b \in 1 .. k PROVE b \in 1 .. MaxId /\ b <= k /\ b # 0 /\ k <= k
<1>1. MaxId \in Nat
  BY BufcallsAre
<1> QED
  BY <1>1

LEMMA AfterLink == ASSUME BInv, NEW x \in B!Ctx, B!BufcallLink(x) PROVE BInv'
<1> USE DEF BInv
<1> DEFINE b == new_id[x]
<1>1. PICK n \in fresh : fresh' = fresh \ {n} /\ B!Link(n, b)
  BY DEF B!BufcallLink
<1>2. /\ B!Allocating(x) /\ B!Allocated(x)
      /\ UNCHANGED <<lis_bcfreel, id_num, hand, list_i, called, cancelled>>
  BY DEF B!BufcallLink
<1>3. n \in Node /\ id[n] = 0
  BY DEF NodeTypes, Listed
<1>4. /\ new_id' \in [B!Ctx -> 0 .. MaxId]
      /\ pc' \in [B!Ctx -> {"idle", "alloc", "alloc_in_callout", "spin", "unlink", "loop", "callout"}]
      /\ \A y \in B!Ctx : Takes(y)' => y # x /\ Takes(y) /\ new_id'[y] = new_id[y]
      /\ Takes(x)
      /\ \A c \in Caller : pc'[c] = pc[c] \/ (pc[c] = "alloc" /\ pc'[c] = "idle")
      /\ \A r \in Runner : pc'[r] = pc[r] \/ (pc[r] = "alloc_in_callout" /\ pc'[r] = "callout")
      /\ \A c \in Caller : Busy(c)' => Busy(c) /\ new_id'[c] = new_id[c]
  BY <1>2, Leaves
<1>5. /\ b \in 1 .. id_num /\ called[b] = 0 /\ \A m \in Node : id[m] # b
      /\ \A y \in B!Ctx : Takes(y) /\ new_id[y] = b => x = y
  BY <1>4 DEF Numbered
<1>6. b \in 1 .. MaxId /\ id_num' \in 0 .. MaxId /\ id_num <= id_num' /\ b <= id_num' /\ b # 0
  <2> HIDE DEF b
  <2>1. id_num' = id_num /\ id_num \in 0 .. MaxId /\ b \in 1 .. id_num
    BY <1>2, <1>5 DEF NodeTypes
  <2> QED
    BY <2>1, IdFits
<1> HIDE DEF b
<1>7. NodeTypes' /\ Listed' /\ \A m \in Node : id'[m] = IF m = n THEN b ELSE id[m]
  BY <1>1, <1>2, <1>3, <1>6, LinkIs
<1>8. /\ Alone' /\ \A r \in Runner : pc'[r] = "idle" <=> pc[r] = "idle"
      /\ \A r \in Runner : Calling(r)' <=> Calling(r)
  BY <1>2, <1>4, <1>6, <1>7, LeavesAlone
<1>9. BufTimed' /\ ThreadTypes'
  BY <1>1, <1>2, <1>4, <1>8, TimedByLink DEF ThreadTypes
<1>10. Numbered'
  <2>1. \A k, m \in Node : id'[k] = id'[m] /\ id'[k] # 0 => k = m
    BY <1>5, <1>7 DEF Numbered
  <2>2. \A y \in B!Ctx : Takes(y)' =>
          /\ new_id'[y] \in 1 .. id_num' /\ called'[new_id'[y]] = 0
          /\ \A m \in Node : id'[m] # new_id'[y]
          /\ \A z \in B!Ctx : Takes(z)' /\ new_id'[z] = new_id'[y] => y = z
    BY <1>2, <1>4, <1>5, <1>7 DEF Numbered
  <2>3. \A c \in Caller : Busy(c)' => new_id'[c] # 0
    BY <1>4 DEF Numbered
  <2> QED
    BY <2>1, <2>2, <2>3 DEF Numbered
<1>11. CalledBack'
  BY <1>2, <1>5, <1>7, <1>8 DEF CalledBack
<1> QED
  BY <1>7, <1>8, <1>9, <1>10, <1>11

LEMMA AfterFails == ASSUME BInv, NEW x \in B!Ctx, B!BufcallFails(x) PROVE BInv'
<1> USE DEF BInv
<1>1. /\ B!Allocating(x) /\ B!Allocated(x) /\ cancelled' = cancelled \cup {new_id[x]}
      /\ UNCHANGED <<lis_bchash, n_elts, lis_bc_cnt, lis_bcfreel, fresh, id, state, usr_f, id_num>>
      /\ UNCHANGED <<lis_strbcflag, lis_strbctimer, armed, hand, list_i, called>>
  BY DEF B!BufcallFails, B!nodes, B!timer
<1>2. /\ new_id' \in [B!Ctx -> 0 .. MaxId]
      /\ pc' \in [B!Ctx -> {"idle", "alloc", "alloc_in_callout", "spin", "unlink", "loop", "callout"}]
      /\ \A y \in B!Ctx : Takes(y)' => y # x /\ Takes(y) /\ new_id'[y] = new_id[y]
      /\ Takes(x)
      /\ \A c \in Caller : pc'[c] = pc[c] \/ (pc[c] = "alloc" /\ pc'[c] = "idle")
      /\ \A r \in Runner : pc'[r] = pc[r] \/ (pc[r] = "alloc_in_callout" /\ pc'[r] = "callout")
      /\ \A c \in Caller : Busy(c)' => Busy(c) /\ new_id'[c] = new_id[c]
  BY <1>1, Leaves
<1>3. NodeTypes' /\ Listed'
  BY <1>1, NodesRest DEF NodeTypes
<1>4. /\ Alone' /\ \A r \in Runner : pc'[r] = "idle" <=> pc[r] = "idle"
      /\ \A r \in Runner : Calling(r)' <=> Calling(r)
  BY <1>1, <1>2, LeavesAlone
<1>5. new_id[x] \in 1 .. MaxId
  <2>1. id_num \in 0 .. MaxId /\ new_id[x] \in 1 .. id_num
    BY <1>2 DEF Numbered, NodeTypes
  <2> QED
    BY <2>1, IdFits
<1>6. ThreadTypes'
  BY <1>1, <1>2, <1>5 DEF ThreadTypes
<1>7. Numbered' /\ CalledBack' /\ BufTimed'
  BY <1>1, <1>2, <1>4 DEF Numbered, CalledBack, BufTimed
<1> QED
  BY <1>3, <1>4, <1>6, <1>7

LEMMA ThreadsRest ==
    ASSUME Numbered, Alone, CalledBack, UNCHANGED <<id, id_num, pc, hand, new_id, called>>
    PROVE  Numbered' /\ Alone' /\ CalledBack'
<1>1. Numbered'
  BY DEF Numbered, Takes, Busy
<1>2. Alone'
  BY DEF Alone, Busy, Calling
<1>3. CalledBack'
  BY DEF CalledBack, Calling
<1> QED
  BY <1>1, <1>2, <1>3

LEMMA AfterFind ==
    ASSUME BInv, ~Racing, NEW c \in Caller, NEW b \in 1 .. MaxId, B!UnbufcallFind(c, b) PROVE BInv'
<1> USE DEF BInv
<1> DEFINE found == B!Found(b)
<1>1. /\ pc[c] = "idle" /\ b \in 1 .. id_num
      /\ \A r \in Runner : pc[r] = "idle"
      /\ \A d \in Caller \ {c} : pc[d] \notin {"spin", "unlink"}
      /\ UNCHANGED <<lis_bchash, n_elts, lis_bc_cnt, lis_bcfreel, fresh, id, state, usr_f, id_num>>
      /\ UNCHANGED <<lis_strbcflag, lis_strbctimer, armed, list_i, called>>
      /\ IF found = {} THEN cancelled' = cancelled \cup {b} /\ UNCHANGED <<pc, hand, new_id>>
         ELSE /\ hand' = [hand EXCEPT ![c] = CHOOSE n \in found : TRUE]
              /\ new_id' = [new_id EXCEPT ![c] = b] /\ pc' = [pc EXCEPT ![c] = "spin"]
              /\ UNCHANGED cancelled
  BY DEF B!UnbufcallFind, B!Alone, B!nodes, B!timer, B!thread, B!Goto
<1>2. NodeTypes' /\ Listed'
  BY <1>1, NodesRest DEF NodeTypes
<1>3. CASE found = {}
  <2>1. Numbered' /\ Alone' /\ CalledBack'
    BY <1>1, <1>3, ThreadsRest
  <2>2. ThreadTypes' /\ BufTimed'
    BY <1>1, <1>3 DEF ThreadTypes, BufTimed
  <2> QED
    BY <1>2, <2>1, <2>2
<1>4. CASE found # {}
  <2>1. PICK n \in found : hand' = [hand EXCEPT ![c] = n]
    BY <1>1, <1>4
  <2>2. n \in Node /\ id[n] = b /\ b # 0
    <3>1. b % N_BCHASH \in B!Bucket
      BY BufcallsAre
    <3>2. n \in Range(lis_bchash[b % N_BCHASH]) /\ id[n] = b
      BY <2>1, SameInBufCall DEF B!Found
    <3> QED
      BY <3>1, <3>2 DEF NodeTypes, Range
  <2>3. /\ \A y \in B!Ctx : pc'[y] = IF y = c THEN "spin" ELSE pc[y]
        /\ \A y \in B!Ctx : new_id'[y] = IF y = c THEN b ELSE new_id[y]
        /\ \A y \in B!Ctx : hand'[y] = IF y = c THEN n ELSE hand[y]
    BY <1>1, <1>4, <2>1 DEF ThreadTypes
  <2>4. ThreadTypes'
    <3>1. b \in 0 .. MaxId
      OBVIOUS
    <3>2. /\ hand' \in [B!Ctx -> Node \cup {NoNode}] /\ new_id' \in [B!Ctx -> 0 .. MaxId]
          /\ pc' \in [B!Ctx -> {"idle", "alloc", "alloc_in_callout", "spin", "unlink", "loop", "callout"}]
      BY <1>1, <1>4, <2>1, <2>2, <3>1 DEF ThreadTypes
    <3> QED
      BY <1>1, <1>4, <3>2 DEF ThreadTypes
  <2>5. Numbered'
    <3>1. \A y \in B!Ctx : Takes(y)' => y # c /\ Takes(y) /\ new_id'[y] = new_id[y]
      BY <2>3 DEF Takes
    <3>2. \A d \in Caller : Busy(d)' => new_id'[d] # 0
      BY <2>2, <2>3, CtxIs DEF Numbered, Busy
    <3> QED
      BY <1>1, <3>1, <3>2 DEF Numbered
  <2>6. Alone'
    BY <1>1, <2>2, <2>3, CtxIs DEF Alone, Busy, Calling
  <2>7. \A r \in Runner : pc'[r] = pc[r] /\ hand'[r] = hand[r]
    BY <2>3, CtxIs
  <2>8. CalledBack' /\ BufTimed'
    BY <1>1, <2>7 DEF CalledBack, Calling, BufTimed
  <2> QED
    BY <1>2, <2>4, <2>5, <2>6, <2>8
<1> QED
  BY <1>3, <1>4

LEMMA AfterSpin == ASSUME BInv, NEW c \in Caller, B!UnbufcallSpin(c) PROVE BInv'
<1> USE DEF BInv
<1>1. /\ pc[c] = "spin" /\ pc' = [pc EXCEPT ![c] = "unlink"]
      /\ UNCHANGED <<lis_bchash, n_elts, lis_bc_cnt, lis_bcfreel, fresh, id, state, usr_f, id_num>>
      /\ UNCHANGED <<lis_strbcflag, lis_strbctimer, armed, hand, new_id, list_i, called, cancelled>>
  BY DEF B!UnbufcallSpin, B!nodes, B!timer, B!Goto
<1>2. NodeTypes' /\ Listed'
  BY <1>1, NodesRest DEF NodeTypes
<1>3. \A y \in B!Ctx : pc'[y] = IF y = c THEN "unlink" ELSE pc[y]
  BY <1>1 DEF ThreadTypes
<1>4. ThreadTypes'
  BY <1>1 DEF ThreadTypes
<1>5. /\ \A y \in B!Ctx : Takes(y)' => Takes(y)
      /\ \A d \in Caller : Busy(d)' => Busy(d)
      /\ \A r \in Runner : pc'[r] = pc[r]
  BY <1>1, <1>3, CtxIs DEF Takes, Busy
<1>6. Numbered'
  BY <1>1, <1>5 DEF Numbered
<1>7. Alone'
  BY <1>1, <1>3, <1>5, CtxIs DEF Alone, Calling
<1>8. CalledBack' /\ BufTimed'
  BY <1>1, <1>5 DEF CalledBack, Calling, BufTimed
<1> QED
  BY <1>2, <1>4, <1>6, <1>7, <1>8

LEMMA AfterUnlink == ASSUME BInv, NEW c \in Caller, B!UnbufcallUnlink(c) PROVE BInv'
<1> USE DEF BInv
<1> DEFINE n == hand[c]
<1>1. /\ pc[c] = "unlink" /\ B!bc_ulink(n) /\ cancelled' = cancelled \cup {new_id[c]}
      /\ hand' = [hand EXCEPT ![c] = NoNode] /\ new_id' = [new_id EXCEPT ![c] = 0]
      /\ pc' = [pc EXCEPT ![c] = "idle"]
      /\ UNCHANGED <<fresh, id_num, lis_strbcflag, lis_strbctimer, armed, list_i, called>>
  BY DEF B!UnbufcallUnlink, B!timer, B!Goto
<1>2. Busy(c) /\ n \in Node /\ id[n] # 0 /\ \A r \in Runner : pc[r] = "idle"
  BY <1>1 DEF Alone, Busy
<1>3. NodeTypes' /\ Listed' /\ \A m \in Node : id'[m] = IF m = n THEN 0 ELSE id[m]
  BY <1>1, <1>2, UlinkIs
<1>4. /\ \A y \in B!Ctx : pc'[y] = IF y = c THEN "idle" ELSE pc[y]
      /\ \A y \in B!Ctx : new_id'[y] = IF y = c THEN 0 ELSE new_id[y]
      /\ \A y \in B!Ctx : hand'[y] = IF y = c THEN NoNode ELSE hand[y]
  BY <1>1 DEF ThreadTypes
<1>5. ThreadTypes'
  <2>1. new_id[c] \in 1 .. MaxId /\ 0 \in 0 .. MaxId
    <3>1. new_id[c] # 0 /\ new_id[c] \in 0 .. MaxId
      BY <1>2, CtxIs DEF Numbered, ThreadTypes
    <3>2. MaxId \in Nat
      BY BufcallsAre
    <3> QED
      BY <3>1, <3>2
  <2>2. cancelled' \in SUBSET (1 .. MaxId)
    BY <1>1, <2>1 DEF ThreadTypes
  <2> QED
    BY <1>1, <2>1, <2>2 DEF ThreadTypes
<1> HIDE DEF n
<1>6. /\ \A y \in B!Ctx : Takes(y)' => y # c /\ Takes(y) /\ new_id'[y] = new_id[y]
      /\ \A d \in Caller : ~Busy(d)'
      /\ \A r \in Runner : pc'[r] = "idle"
  BY <1>2, <1>4, CtxIs DEF Takes, Busy, Alone
<1>7. Numbered'
  BY <1>1, <1>3, <1>6 DEF Numbered
<1>8. Alone'
  BY <1>4, <1>6, CtxIs DEF Alone, Calling
<1>9. CalledBack'
  BY <1>1, <1>2, <1>3 DEF CalledBack, Calling
<1>10. BufTimed'
  <2>1. lis_bc_cnt' = lis_bc_cnt - 1 /\ lis_bc_cnt \in Nat
    BY <1>1, CountIsNat DEF B!bc_ulink
  <2> QED
    BY <1>1, <1>2, <1>6, <2>1 DEF BufTimed
<1> QED
  BY <1>3, <1>5, <1>7, <1>8, <1>9, <1>10

LEMMA AfterBcTimeout == ASSUME BInv, B!BcTimeout PROVE BInv'
<1> USE DEF BInv
<1>1. /\ armed /\ armed' = FALSE /\ lis_strbcflag' = TRUE
      /\ UNCHANGED <<lis_bchash, n_elts, lis_bc_cnt, lis_bcfreel, fresh, id, state, usr_f, id_num>>
      /\ UNCHANGED <<lis_strbctimer, pc, hand, new_id, list_i, called, cancelled>>
  BY DEF B!BcTimeout, B!nodes, B!thread
<1>2. NodeTypes' /\ Listed'
  BY <1>1, NodesRest DEF NodeTypes
<1>3. Numbered' /\ Alone' /\ CalledBack'
  BY <1>1, ThreadsRest
<1>4. ThreadTypes' /\ BufTimed'
  BY <1>1 DEF ThreadTypes, BufTimed
<1> QED
  BY <1>2, <1>3, <1>4

LEMMA AfterDoBufcall == ASSUME BInv, ~Racing, NEW r \in Runner, B!DoBufcall(r) PROVE BInv'
<1> USE DEF BInv
<1>1. /\ pc[r] = "idle" /\ lis_strbcflag /\ \A c \in Caller : ~Busy(c)
      /\ lis_strbcflag' = FALSE /\ list_i' = [list_i EXCEPT ![r] = 0]
      /\ pc' = [pc EXCEPT ![r] = "loop"]
      /\ UNCHANGED <<lis_bchash, n_elts, lis_bc_cnt, lis_bcfreel, fresh, id, state, usr_f, id_num>>
      /\ UNCHANGED <<lis_strbctimer, armed, hand, new_id, called, cancelled>>
  BY DEF B!DoBufcall, B!nodes, B!Goto, B!Cleared, Busy
<1>2. NodeTypes' /\ Listed'
  BY <1>1, NodesRest DEF NodeTypes
<1>3. \A y \in B!Ctx : pc'[y] = IF y = r THEN "loop" ELSE pc[y]
  BY <1>1 DEF ThreadTypes
<1>4. \A s \in Runner : pc[s] = "idle" /\ (pc'[s] # "idle" => s = r) /\ ~Calling(s)'
  BY <1>1, <1>3, CtxIs DEF BufTimed, Calling
<1>5. ThreadTypes'
  <2>1. 0 \in B!Bucket
    BY BufcallsAre DEF B!Bucket
  <2> QED
    BY <1>1, <2>1 DEF ThreadTypes
<1>6. /\ \A y \in B!Ctx : Takes(y)' => Takes(y)
      /\ \A c \in Caller : ~Busy(c)' /\ pc'[c] = pc[c]
  BY <1>1, <1>3, CtxIs DEF Takes, Busy
<1>7. Numbered'
  BY <1>1, <1>6 DEF Numbered
<1>8. Alone'
  BY <1>3, <1>4, <1>6, CtxIs DEF Alone
<1>9. CalledBack'
  BY <1>1, <1>4 DEF CalledBack, Calling
<1>10. BufTimed'
  <2>1. armed = FALSE /\ lis_strbctimer = TRUE
    BY <1>1 DEF BufTimed, ThreadTypes
  <2>2. pc'[r] # "idle"
    BY <1>3, CtxIs
  <2> QED
    BY <1>1, <2>1, <2>2 DEF BufTimed
<1> QED
  BY <1>2, <1>5, <1>7, <1>8, <1>9, <1>10

LEMMA AfterCallout == ASSUME BInv, NEW r \in Runner, B!Callout(r) PROVE BInv'
<1> USE DEF BInv
<1>0. PICK f \in B!Ahead(r) : \A g \in B!Ahead(r) : f <= g
  <2>1. list_i[r] \in 0 .. N_BCHASH - 1 /\ N_BCHASH \in Nat
    BY CtxIs, BufcallsAre DEF ThreadTypes, B!Bucket
  <2>2. B!Ahead(r) \in SUBSET Nat /\ B!Ahead(r) # {}
    <3>1. B!Ahead(r) \in SUBSET Nat
      BY <2>1 DEF B!Ahead
    <3>2. B!Ahead(r) # {}
      BY DEF B!Callout
    <3> QED
      BY <3>1, <3>2
  <2> QED
    BY <2>2, LeastNat
<1>1. PICK h \in B!Ahead(r) :
        LET n == Head(lis_bchash[h]) IN
        /\ list_i' = [list_i EXCEPT ![r] = h]
        /\ hand' = [hand EXCEPT ![r] = n]
        /\ state' = [state EXCEPT ![n] = "callout"]
        /\ called' = IF usr_f[n] THEN [called EXCEPT ![id[n]] = @ + 1] ELSE called
  <2> DEFINE least == CHOOSE k \in B!Ahead(r) : \A g \in B!Ahead(r) : k <= g
  <2>1. least \in B!Ahead(r)
    BY <1>0
  <2> QED
    BY <2>1 DEF B!Callout
<1> DEFINE n == Head(lis_bchash[h])
<1>2. /\ pc[r] = "loop" /\ pc' = [pc EXCEPT ![r] = "callout"]
      /\ UNCHANGED <<lis_bchash, n_elts, lis_bc_cnt, lis_bcfreel, id, usr_f, fresh, id_num>>
      /\ UNCHANGED <<lis_strbcflag, lis_strbctimer, armed, new_id, cancelled>>
  BY DEF B!Callout, B!Goto, B!timer
<1>3. h \in B!Bucket /\ lis_bchash[h] # <<>>
  <2>1. h \in list_i[r] .. N_BCHASH - 1 /\ lis_bchash[h] # <<>>
    BY <1>1 DEF B!Ahead, B!Waits
  <2>2. list_i[r] \in 0 .. N_BCHASH - 1
    BY CtxIs DEF ThreadTypes, B!Bucket
  <2>3. N_BCHASH \in Nat
    BY BufcallsAre
  <2>4. h \in 0 .. N_BCHASH - 1
    BY <2>1, <2>2, <2>3
  <2> QED
    BY <2>1, <2>4 DEF B!Bucket
<1>4. n \in Node /\ id[n] # 0
  <2>1. lis_bchash[h] \in Seq(Node) /\ IsInjective(lis_bchash[h])
    BY <1>3 DEF NodeTypes, Listed
  <2>2. n \in Node /\ n \in Range(lis_bchash[h])
    BY <1>3, <2>1, TakenFirst
  <2> QED
    BY <1>3, <2>2 DEF Listed
<1>5. id[n] \in 1 .. MaxId /\ id[n] <= id_num
  <2>1. id_num \in 0 .. MaxId /\ id[n] \in 1 .. id_num
    BY <1>4 DEF NodeTypes
  <2> QED
    BY <2>1, IdFits
<1>6. \A s \in Runner : ~Calling(s) /\ (s # r => pc[s] = "idle")
  BY <1>2 DEF Alone, Calling
<1>7. \A m \in Node : id[m] # 0 => called[id[m]] = 0
  <2>1. \A m \in Node : id[m] # 0 => id[m] \in 1 .. MaxId
    <3>1. id_num \in 0 .. MaxId /\ \A m \in Node : id[m] # 0 => id[m] \in 1 .. id_num
      BY DEF NodeTypes
    <3> QED
      BY <3>1, IdFits
  <2> QED
    BY <1>6, <2>1 DEF CalledBack, ThreadTypes
<1>8. /\ hand' = [hand EXCEPT ![r] = n] /\ list_i' = [list_i EXCEPT ![r] = h]
      /\ state' = [state EXCEPT ![n] = "callout"]
      /\ called' = IF usr_f[n] THEN [called EXCEPT ![id[n]] = @ + 1] ELSE called
  BY <1>1
<1> HIDE DEF n
<1>9. NodeTypes' /\ Listed'
  <2>1. usr_f' \in [Node -> BOOLEAN] /\ state' \in [Node -> {"unused", "active", "callout"}]
    BY <1>2, <1>8 DEF NodeTypes
  <2>2. id_num' \in 0 .. MaxId /\ id_num <= id_num'
    BY <1>2 DEF NodeTypes
  <2> QED
    BY <1>2, <2>1, <2>2, NodesRest
<1>10. /\ called' \in [1 .. MaxId -> Nat]
       /\ \A b \in 1 .. MaxId : IF b = id[n] THEN called'[b] <= 1 ELSE called'[b] = called[b]
  <2>1. called[id[n]] = 0
    BY <1>4, <1>7
  <2>2. CASE usr_f[n]
    BY <1>5, <1>8, <2>1, <2>2 DEF ThreadTypes
  <2>3. CASE ~usr_f[n]
    BY <1>5, <1>8, <2>1, <2>3 DEF ThreadTypes
  <2> QED
    BY <2>2, <2>3
<1>11. /\ \A y \in B!Ctx : pc'[y] = IF y = r THEN "callout" ELSE pc[y]
       /\ \A y \in B!Ctx : hand'[y] = IF y = r THEN n ELSE hand[y]
  BY <1>2, <1>8 DEF ThreadTypes
<1>12. ThreadTypes'
  BY <1>2, <1>3, <1>4, <1>8, <1>10 DEF ThreadTypes
<1>13. /\ \A y \in B!Ctx : Takes(y)' => Takes(y)
       /\ \A c \in Caller : pc'[c] = pc[c] /\ hand'[c] = hand[c] /\ ~Busy(c)'
       /\ \A s \in Runner : s # r => pc'[s] = "idle"
       /\ pc'[r] = "callout" /\ hand'[r] = n /\ Calling(r)'
  BY <1>2, <1>6, <1>11, CtxIs DEF Takes, Busy, Calling, Alone
<1>14. Numbered'
  <2>1. \A y \in B!Ctx : Takes(y) => called'[new_id[y]] = 0
    <3>1. \A y \in B!Ctx : Takes(y) => new_id[y] # id[n] /\ new_id[y] \in 1 .. MaxId /\ called[new_id[y]] = 0
      <4>1. /\ id_num \in 0 .. MaxId
            /\ \A y \in B!Ctx : Takes(y) => new_id[y] \in 1 .. id_num
        BY DEF Numbered, NodeTypes
      <4>2. \A y \in B!Ctx : Takes(y) => new_id[y] \in 1 .. MaxId
        BY <4>1, IdFits
      <4> QED
        BY <1>4, <4>2 DEF Numbered
    <3> QED
      BY <1>10, <3>1
  <2> QED
    BY <1>2, <1>13, <2>1 DEF Numbered
<1>15. Alone'
  BY <1>2, <1>4, <1>13 DEF Alone, Calling
<1>16. CalledBack'
  <2>1. \A b \in 1 .. MaxId : called'[b] <= 1 /\ (called'[b] # 0 => b <= id_num')
    BY <1>2, <1>5, <1>10 DEF CalledBack
  <2>2. ASSUME NEW m \in Node, id'[m] # 0, called'[id'[m]] # 0 PROVE m = n
    <3>1. id[m] \in 1 .. MaxId /\ called[id[m]] = 0
      <4>1. id_num \in 0 .. MaxId /\ id[m] \in 1 .. id_num
        BY <1>2, <2>2 DEF NodeTypes
      <4> QED
        BY <1>2, <1>7, <2>2, <4>1, IdFits
    <3>2. id[m] = id[n]
      BY <1>2, <1>10, <2>2, <3>1
    <3> QED
      BY <1>2, <1>4, <2>2, <3>2 DEF Numbered
  <2> QED
    BY <1>13, <2>1, <2>2 DEF CalledBack
<1>17. BufTimed'
  <2>1. \A s \in Runner : pc'[s] = "idle" <=> pc[s] = "idle"
    BY <1>2, <1>6, <1>13
  <2> QED
    BY <1>2, <2>1 DEF BufTimed
<1> QED
  BY <1>9, <1>12, <1>14, <1>15, <1>16, <1>17

LEMMA AfterCalloutReturn == ASSUME BInv, NEW r \in Runner, B!CalloutReturn(r) PROVE BInv'
<1> USE DEF BInv
<1> DEFINE n == hand[r]
<1>1. /\ pc[r] = "callout" /\ B!bc_ulink(n) /\ hand' = [hand EXCEPT ![r] = NoNode]
      /\ pc' = [pc EXCEPT ![r] = "loop"]
      /\ UNCHANGED <<fresh, id_num, lis_strbcflag, lis_strbctimer, armed, new_id, list_i, called, cancelled>>
  BY DEF B!CalloutReturn, B!timer, B!Goto
<1>2. Calling(r) /\ n \in Node /\ id[n] # 0 /\ \A s \in Runner : s # r => pc[s] = "idle"
  BY <1>1 DEF Alone, Calling
<1>3. NodeTypes' /\ Listed' /\ \A m \in Node : id'[m] = IF m = n THEN 0 ELSE id[m]
  BY <1>1, <1>2, UlinkIs
<1>4. /\ \A y \in B!Ctx : pc'[y] = IF y = r THEN "loop" ELSE pc[y]
      /\ \A y \in B!Ctx : hand'[y] = IF y = r THEN NoNode ELSE hand[y]
  BY <1>1 DEF ThreadTypes
<1>5. ThreadTypes'
  BY <1>1 DEF ThreadTypes
<1>6. /\ \A y \in B!Ctx : Takes(y)' => Takes(y)
      /\ \A c \in Caller : pc'[c] = pc[c] /\ ~Busy(c)'
      /\ \A s \in Runner : s # r => pc'[s] = "idle"
      /\ pc'[r] = "loop" /\ \A s \in Runner : ~Calling(s)'
  BY <1>1, <1>2, <1>4, CtxIs DEF Takes, Busy, Alone, Calling
<1>7. \A m \in Node : id[m] # 0 /\ called[id[m]] # 0 => m = n
  BY <1>2 DEF CalledBack, Calling
<1> HIDE DEF n
<1>8. Numbered'
  BY <1>1, <1>3, <1>6 DEF Numbered
<1>9. Alone'
  BY <1>6 DEF Alone
<1>10. CalledBack'
  BY <1>1, <1>3, <1>7 DEF CalledBack
<1>11. BufTimed'
  <2>1. lis_bc_cnt' = lis_bc_cnt - 1 /\ lis_bc_cnt \in Nat
    BY <1>1, CountIsNat DEF B!bc_ulink
  <2>2. \A s \in Runner : pc'[s] = "idle" <=> pc[s] = "idle"
    BY <1>1, <1>2, <1>6
  <2> QED
    BY <1>1, <2>1, <2>2 DEF BufTimed
<1> QED
  BY <1>3, <1>5, <1>8, <1>9, <1>10, <1>11

LEMMA AfterEnd == ASSUME BInv, NEW r \in Runner, B!DoBufcallEnd(r) PROVE BInv'
<1> USE DEF BInv
<1>1. /\ pc[r] = "loop" /\ lis_strbctimer' = (lis_bc_cnt # 0) /\ armed' = (armed \/ lis_bc_cnt # 0)
      /\ pc' = [pc EXCEPT ![r] = "idle"]
      /\ UNCHANGED <<lis_bchash, n_elts, lis_bc_cnt, lis_bcfreel, fresh, id, state, usr_f, id_num>>
      /\ UNCHANGED <<lis_strbcflag, hand, new_id, list_i, called, cancelled>>
  BY DEF B!DoBufcallEnd, B!Restarts, B!nodes, B!Goto
<1>2. NodeTypes' /\ Listed'
  BY <1>1, NodesRest DEF NodeTypes
<1>3. \A y \in B!Ctx : pc'[y] = IF y = r THEN "idle" ELSE pc[y]
  BY <1>1 DEF ThreadTypes
<1>4. ThreadTypes'
  BY <1>1 DEF ThreadTypes
<1>5. /\ \A y \in B!Ctx : Takes(y)' => Takes(y)
      /\ \A c \in Caller : pc'[c] = pc[c] /\ ~Busy(c)'
      /\ \A s \in Runner : pc'[s] = "idle" /\ ~Calling(s)
  BY <1>1, <1>3, CtxIs DEF Takes, Busy, Alone, Calling
<1>6. Numbered'
  BY <1>1, <1>5 DEF Numbered
<1>7. Alone'
  BY <1>5 DEF Alone, Calling
<1>8. CalledBack'
  BY <1>1, <1>5 DEF CalledBack
<1>9. BufTimed'
  <2>1. armed = FALSE /\ lis_strbcflag = FALSE
    BY <1>1 DEF BufTimed, ThreadTypes
  <2>2. lis_bc_cnt \in Nat
    BY CountIsNat
  <2>3. /\ armed' = (lis_bc_cnt # 0) /\ lis_strbctimer' = (lis_bc_cnt # 0)
        /\ lis_strbcflag' = FALSE /\ lis_bc_cnt' = lis_bc_cnt
    BY <1>1, <2>1
  <2>4. CASE lis_bc_cnt = 0
    BY <1>5, <2>3, <2>4 DEF BufTimed
  <2>5. CASE lis_bc_cnt # 0
    BY <1>5, <2>2, <2>3, <2>5 DEF BufTimed
  <2> QED
    BY <2>4, <2>5
<1> QED
  BY <1>2, <1>4, <1>6, <1>7, <1>8, <1>9

LEMMA BufcallsKept == ASSUME ~Racing PROVE BInv /\ (B!Next \/ UNCHANGED bvars) => BInv'
<1> SUFFICES ASSUME BInv, B!Next \/ UNCHANGED bvars PROVE BInv'
  OBVIOUS
<1>1. CASE UNCHANGED bvars
  <2>1. NodeTypes' /\ Listed'
    BY <1>1, NodesRest DEF bvars, BInv, NodeTypes
  <2>2. Numbered' /\ Alone' /\ CalledBack'
    BY <1>1, ThreadsRest DEF bvars, BInv
  <2>3. ThreadTypes' /\ BufTimed'
    BY <1>1 DEF bvars, BInv, ThreadTypes, BufTimed
  <2> QED
    BY <2>1, <2>2, <2>3 DEF BInv
<1>2. ASSUME NEW x \in B!Ctx, B!BufcallReuse(x) \/ B!BufcallAlloc(x) \/ B!CallStep(x) PROVE BInv'
  BY <1>2, AfterReuse, AfterAlloc, AfterLink, AfterFails DEF B!CallStep
<1>3. ASSUME NEW c \in Caller, B!UnlinkStep(c) PROVE BInv'
  BY <1>3, AfterSpin, AfterUnlink DEF B!UnlinkStep
<1>4. ASSUME NEW c \in Caller, NEW b \in 1 .. MaxId, B!UnbufcallFind(c, b) PROVE BInv'
  BY <1>4, AfterFind
<1>5. ASSUME NEW r \in Runner, B!RunStep(r) PROVE BInv'
  BY <1>5, AfterDoBufcall, AfterCallout, AfterCalloutReturn, AfterEnd DEF B!RunStep
<1> QED
  BY <1>1, <1>2, <1>3, <1>4, <1>5, AfterBcTimeout DEF B!Next

LEMMA BufcallsInit == B!Init => BInv
<1> SUFFICES ASSUME B!Init PROVE BInv
  OBVIOUS
<1>1. Range(<<>>) = {} /\ IsInjective(<<>>) /\ <<>> \in Seq(Node) /\ Len(<<>>) = 0
  BY DEF Range, IsInjective
<1>2. 0 \in 0 .. MaxId /\ 0 \in B!Bucket /\ 0 \in 0 .. 0
  BY BufcallsAre DEF B!Bucket
<1>3. NodeTypes /\ ThreadTypes
  <2>1. NodeTypes
    BY <1>1, <1>2 DEF B!Init, NodeTypes
  <2>2. ThreadTypes
    BY <1>2 DEF B!Init, ThreadTypes
  <2> QED
    BY <2>1, <2>2
<1>4. Listed
  <2>1. Linked = {}
    BY DEF B!Init, Linked
  <2>2. Cardinality(Linked) = 0
    BY <2>1, FS_EmptySet
  <2> QED
    BY <1>1, <2>2 DEF B!Init, Listed
<1>5. Numbered /\ Alone /\ CalledBack
  BY CtxIs DEF B!Init, Numbered, Takes, Busy, Alone, Calling, CalledBack
<1>6. BufTimed
  BY CtxIs DEF B!Init, BufTimed
<1> QED
  BY <1>3, <1>4, <1>5, <1>6 DEF BInv

LEMMA BufcallsSound == BInv => B!TableSound
<1> SUFFICES ASSUME BInv PROVE B!TableSound
  OBVIOUS
<1> USE DEF BInv
<1>1. lis_bc_cnt \in Nat
  BY CountIsNat
<1>2. B!TypeOK
  <2>1. n_elts \in [B!Bucket -> Nat]
    <3>1. \A h \in B!Bucket : n_elts[h] \in Nat
      BY DEF NodeTypes, Listed
    <3> QED
      BY <3>1 DEF NodeTypes
  <2>2. id \in [Node -> 0 .. MaxId]
    <3>1. id_num \in 0 .. MaxId /\ MaxId \in Nat
      BY BufcallsAre DEF NodeTypes
    <3>2. \A b \in 0 .. id_num : b \in 0 .. MaxId
      BY <3>1
    <3> QED
      BY <3>2 DEF NodeTypes
  <2> QED
    BY <1>1, <2>1, <2>2 DEF B!TypeOK, NodeTypes, ThreadTypes
<1>3. B!ListIntegrity
  <2>1. lis_bc_cnt = B!Cardinality({n \in Node : id[n] # 0})
    BY SameInBufCall DEF Listed, Linked
  <2>2. \A r \in Runner : pc[r] = "callout" => id[hand[r]] # 0
    BY DEF Alone, Calling
  <2> QED
    BY <2>1, <2>2, SameInBufCall DEF B!ListIntegrity, Listed
<1>4. B!CalledOnce
  BY DEF B!CalledOnce, CalledBack
<1>5. B!TimerCovers
  <2> DEFINE on == {r \in Runner : pc[r] # "idle"}
  <2>1. B!Cardinality(on) <= 1
    <3>1. CASE on = {}
      <4>1. B!Cardinality(on) = 0
        BY <3>1, SameInBufCall, FS_EmptySet
      <4> QED
        BY <4>1
    <3>2. CASE on # {}
      <4>1. PICK r \in on : TRUE
        BY <3>2
      <4>2. on = {r}
        BY <4>1 DEF Alone
      <4>3. B!Cardinality(on) = 1
        BY <4>2, SameInBufCall, FS_Singleton
      <4> QED
        BY <4>3
    <3> QED
      BY <3>1, <3>2
  <2>2. lis_bc_cnt > 0 => armed \/ lis_strbcflag \/ \E r \in Runner : pc[r] # "idle"
    BY DEF BufTimed
  <2> QED
    BY <2>1, <2>2 DEF B!TimerCovers
<1> QED
  BY <1>2, <1>3, <1>4, <1>5 DEF B!TableSound

\* The table of lis_bufcall and the lists of the DKI timers hold together, for any number of
\* nodes, callers, runners and timeouts: a node is in one place, the counts are right, nobody
\* is called twice, and as long as a bufcall waits the timer or lis_dobufcall sees to it.
\* unbufcall must not overtake another unbufcall or lis_dobufcall (Racing).
THEOREM TablesAreSound == ~Racing => (MCSpec => []TablesSound)
<1> SUFFICES ASSUME ~Racing PROVE MCSpec => []TablesSound
  OBVIOUS
<1>1. MCInit => TablesInv
  BY TimersInit, BufcallsInit DEF MCInit, TablesInv
<1>2. TablesInv /\ [MCNext]_<<part, vars, bvars, tvars>> => TablesInv'
  <2> SUFFICES ASSUME TablesInv, [MCNext]_<<part, vars, bvars, tvars>> PROVE TablesInv'
    OBVIOUS
  <2>1. (T!Next \/ UNCHANGED tvars) /\ (B!Next \/ UNCHANGED bvars)
    BY DEF MCNext
  <2>2. UNCHANGED tvars => UNCHANGED T!vars
    BY DEF tvars, T!vars, T!table, T!ghost
  <2> QED
    BY <2>1, <2>2, TimersKept, BufcallsKept DEF TablesInv
<1>3. TablesInv => TablesSound
  BY TimersOnce, BufcallsSound DEF TablesInv, TablesSound
<1> QED
  BY <1>1, <1>2, <1>3, PTL DEF MCSpec
=============================================================================
