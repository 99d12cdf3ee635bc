--------------------------- MODULE StreamReadProofs ---------------------------
(***************************************************************************)
(* Reading at the stream head, for any number of readers and messages: one *)
(* reader at a time is inside, STRPRI is never stuck, and what is sent is  *)
(* read once and in order.                                                 *)
(*                                                                         *)
(* The argument: until a hangup or an error wakes all, sd_read_sem and the *)
(* readers inside add up to one at most (OneEnters).  And STRPRI stands    *)
(* for one high priority message in a place from which every way clears    *)
(* STRPRI or leaves the message: on the queue, on the list of lis_strrput, *)
(* just taken by a read(), or about to be put back (PriIsFound).  In the   *)
(* hands of a getmsg() it counts for nothing: TakeMsg has cleared STRPRI.  *)
(*                                                                         *)
(* A unit goes from the list to the queue, from there into a reader's hand *)
(* and maybe back, and from the hand to the user.  Chain says of a         *)
(* relation between units that it holds from each unit to those that come  *)
(* behind it on that way.  With "differs" as the relation nothing is there *)
(* twice (Once); with "is less" between units that are not of high         *)
(* priority, and one reader inside, nothing overtakes (Sound).  A message  *)
(* that is put back goes behind messages of high priority alone, since     *)
(* these stay in front (PriFirst, Overtakers).                             *)
(***************************************************************************)
EXTENDS StreamRead, FiniteSetTheorems, SequenceTheorems, WellFoundedInduction, TLAPS

Labels == {"idle", "down", "lock", "look", "sleep", "asleep", "wake", "up", "take", "copy",
           "putback", "putbackpri", "nomsg"}
Msg == [t : {"none", "DATA", "PROTO", "PCPROTO", "FLUSH", "HANGUP"}, u : Seq(Nat)]
Fields == [pc : Labels, kind : {"read", "getmsg", "gethipri"}, ulen : {1, 2}, buf : Seq(Nat),
           msgs_read : Nat, mp : Msg, then : {"return", "fail", "again"}]
Record == {x \in Fields : Len(x.buf) <= x.ulen}   \* what has been read fits

Locals == rd \in [Reader -> Record]
Queues == q \in Seq(Msg) /\ rput \in Seq(Msg) /\ units \in Nat
Numbers == sd_read_sem \in Int /\ woken \in BOOLEAN /\ STRPRI \in BOOLEAN

\* sd_read_sem lets one in.
OneEnters == ~woken => sd_read_sem + Cardinality({r \in Reader : Inside(r)}) <= 1
SemIsPositive == sd_read_sem >= 0

HasPri(s) == \E m \in ToSet(s) : IsPri(m)
Held(r) == IsPri(rd[r].mp) /\ (At(r, "putbackpri") \/ (At(r, "copy") /\ rd[r].kind = "read"))

\* STRPRI stands for a message.
PriIsFound ==
  /\ STRPRI => HasPri(q) \/ HasPri(rput) \/ \E r \in Reader : Held(r)
  /\ \A r \in Reader : At(r, "putbackpri") => IsPri(rd[r].mp)

IInv == Locals /\ Queues /\ Numbers /\ SemIsPositive /\ OneEnters /\ PriIsFound

Wakes == \E t \in Waker : WakeUps(t)

\* A step of reader r, or of another.
Acts(r) ==
  \/ r \in Reader /\ (Begin(r) \/ GetReadSem(r) \/ LockQ(r) \/ HungUp(r) \/
                       WouldBlock(r) \/ WillSleep(r) \/ SleepOnWread(r) \/ WokenUp(r)
                       \/ WakeTest(r) \/ WakeUp(r) \/ ReadReady(r) \/ TakeNothing(r)
                       \/ TakeForRead(r) \/ ReadMore(r) \/ ReadDone(r) \/ ReadPart(r)
                       \/ ReadFault(r) \/ ReadProto(r) \/ MsgReady(r) \/ NotTheMsg(r)
                       \/ NoMsgEnds(r) \/ TakeMsg(r) \/ CopyMsg(r) \/ CopyMsgFault(r) \/ PutBack(r)
                       \/ PutBackPri(r) \/ PutBackPriEnds(r) \/ ReadSemInterrupted(r)
                       \/ WreadInterrupted(r))
  \/ DataArrives \/ HangupArrives \/ FlushArrives \/ SrvStart \/ ProcessData \/
     ProcessHangup \/ ProcessFlush \/ SrvEnd \/ PeerClose \/ Wakes

\* The others keep their local variables.
Others(r) == \A v \in Reader : v # r => rd'[v] = rd[v]
\* What the local variables are defined for.
Domains == DOMAIN rd = Reader /\ \A v \in Reader : rd[v] \in Record

-----------------------------------------------------------------------------
(* What a step leaves alone                                                *)

\* What Locals says of the local variables.
LEMMA DomainsKnown == IInv => Domains
  BY DEF IInv, Locals, Domains

\* A writer changes only its own local variables.
LEMMA OthersKept ==
    ASSUME IInv, NEW r, Acts(r)
    PROVE  Others(r)
<1>d. Domains
  BY DomainsKnown
<1>1. CASE r \in Reader /\ (Begin(r) \/ GetReadSem(r) \/ LockQ(r) \/ HungUp(r)
     \/ WouldBlock(r) \/ WillSleep(r))
  BY <1>d, <1>1 DEF Begin, GetReadSem, DownPasses, Goto, LockQ, HungUp, Rtn,
     WouldBlock, WillSleep, Others, Domains, At, queue, sems, count, arrivals,
     history
<1>2. CASE r \in Reader /\ (SleepOnWread(r) \/ WokenUp(r) \/ WakeTest(r) \/
     WakeUp(r) \/ ReadReady(r) \/ TakeNothing(r))
  BY <1>d, <1>2 DEF SleepOnWread, Goto, WokenUp, WakeTest, WakeUp, ReadReady,
     TakeNothing, Rtn, Others, Domains, At, queue, sems, count, arrivals,
     history
<1>3. CASE r \in Reader /\ (TakeForRead(r) \/ ReadMore(r) \/ ReadDone(r) \/
     ReadPart(r) \/ ReadFault(r) \/ ReadProto(r))
  BY <1>d, <1>3 DEF TakeForRead, ReadMore, ReadDone, Rtn, ReadPart, ReadFault,
     ReadProto, PriCleared, Others, Domains, At, queue, sems, count, arrivals,
     history
<1>4. CASE r \in Reader /\ (MsgReady(r) \/ NotTheMsg(r) \/ NoMsgEnds(r) \/ TakeMsg(r) \/
     CopyMsg(r) \/ CopyMsgFault(r) \/ PutBack(r))
  BY <1>d, <1>4 DEF MsgReady, Goto, NotTheMsg, NoMsgEnds, Rtn, TakeMsg, CopyMsg,
     CopyMsgFault, PutBack, AfterPutBack, Others, Domains, At, queue, sems,
     count, arrivals, history
<1>5. CASE (r \in Reader /\ (PutBackPri(r) \/ PutBackPriEnds(r) \/
     ReadSemInterrupted(r) \/ WreadInterrupted(r))) \/ DataArrives \/
     HangupArrives
  BY <1>d, <1>5 DEF PutBackPri, Goto, PutBackPriEnds, Rtn, ReadSemInterrupted,
     WreadInterrupted, DataArrives, PutRput, Discards, HangupArrives, Others,
     Domains, At, queue, sems, count, arrivals, history
<1>6. CASE FlushArrives \/ SrvStart \/ ProcessData \/ ProcessHangup \/
     ProcessFlush \/ SrvEnd
  BY <1>d, <1>6 DEF FlushArrives, PutRput, PriAfterFlush, SrvStart, ProcessData,
     Process, ProcessHangup, ProcessFlush, SrvEnd, Others, Domains, At, queue,
     sems, count, arrivals, history
<1>7. CASE PeerClose \/ Wakes
  BY <1>d, <1>7 DEF PeerClose, Wakes, WakeUps, WakeStep, Others, Domains, At,
     queue, sems, count, arrivals, history
<1> QED
  BY <1>1, <1>2, <1>3, <1>4, <1>5, <1>6, <1>7 DEF Acts

-----------------------------------------------------------------------------
(* Types                                                                   *)

\* No message is one of them.
LEMMA NoMsgIsOne == NoMsg \in Msg
  BY DEF NoMsg, Msg

\* Some fields of a record change.
LEMMA FieldsKept ==
    ASSUME NEW x \in Record
    PROVE  /\ \A l \in Labels : [x EXCEPT !.pc = l] \in Record
           /\ \A l \in Labels, m \in Msg : [x EXCEPT !.pc = l, !.mp = m] \in Record
           /\ \A l \in Labels, t \in {"return", "fail", "again"} :
                 [x EXCEPT !.pc = l, !.then = t] \in Record
           /\ \A l \in Labels, m \in Msg, t \in {"return", "fail", "again"} :
                 [x EXCEPT !.pc = l, !.mp = m, !.then = t] \in Record
<1> SUFFICES ASSUME NEW l \in Labels, NEW m \in Msg, NEW t \in {"return", "fail", "again"}
             PROVE  /\ [x EXCEPT !.pc = l] \in Record
                    /\ [x EXCEPT !.pc = l, !.mp = m] \in Record
                    /\ [x EXCEPT !.pc = l, !.then = t] \in Record
                    /\ [x EXCEPT !.pc = l, !.mp = m, !.then = t] \in Record
  <2>1. "idle" \in Labels
    BY DEF Labels
  <2> QED
    BY <2>1, NoMsgIsOne
<1>1. x \in Fields /\ Len(x.buf) <= x.ulen
  BY DEF Record
<1>2. /\ [x EXCEPT !.pc = l] \in Fields
      /\ [x EXCEPT !.pc = l, !.mp = m] \in Fields
      /\ [x EXCEPT !.pc = l, !.then = t] \in Fields
      /\ [x EXCEPT !.pc = l, !.mp = m, !.then = t] \in Fields
  BY <1>1 DEF Fields
<1> QED
  BY <1>1, <1>2 DEF Fields, Record

\* At the start and at the end of a call all are set.
LEMMA IdleKept ==
    /\ Idle \in Record
    /\ [Idle EXCEPT !.pc = "wake"] \in Record
    /\ \A k \in {"read", "getmsg", "gethipri"}, n \in {1, 2} :
          [Idle EXCEPT !.pc = "down", !.kind = k, !.ulen = n] \in Record
<1>1. NoMsg \in Msg
  BY NoMsgIsOne
<1>2. Idle \in Fields /\ Len(Idle.buf) = 0
  BY <1>1 DEF Fields, Idle, Labels
<1>3. \A x \in Fields : x.ulen >= 0
  BY DEF Fields
<1>4. Idle \in Record
  BY <1>2, <1>3 DEF Record
<1>5. [Idle EXCEPT !.pc = "wake"] \in Record
  BY <1>4, FieldsKept DEF Labels
<1>6. ASSUME NEW k \in {"read", "getmsg", "gethipri"}, NEW n \in {1, 2}
      PROVE  [Idle EXCEPT !.pc = "down", !.kind = k, !.ulen = n] \in Record
  <2>1. [Idle EXCEPT !.pc = "down", !.kind = k, !.ulen = n] \in Fields
    BY <1>2 DEF Fields, Labels
  <2>2. [Idle EXCEPT !.pc = "down", !.kind = k, !.ulen = n].buf = Idle.buf
    BY <1>2 DEF Fields
  <2> QED
    BY <1>2, <1>3, <2>1, <2>2 DEF Record
<1> QED
  BY <1>4, <1>5, <1>6

\* A reader goes on,
LEMMA GotoKept ==
    ASSUME Locals, NEW r \in Reader, NEW l \in Labels, Goto(r, l)
    PROVE  Locals'
<1>1. rd[r] \in Record
  BY DEF Locals
<1>2. rd' = [rd EXCEPT ![r] = [rd[r] EXCEPT !.pc = l]]
  BY DEF Locals, Goto
<1>3. [rd[r] EXCEPT !.pc = l] \in Record
  BY <1>1, FieldsKept
<1> QED
  BY <1>2, <1>3 DEF Locals

\* or returns.
LEMMA RtnKept ==
    ASSUME Locals, NEW r \in Reader, NEW f, NEW b, Rtn(r, f, b)
    PROVE  Locals'
  BY IdleKept DEF Locals, Rtn

\* What is copied to the user fits, and the rest stays.
LEMMA CopiedToKept ==
    ASSUME NEW r, rd[r] \in Record, NEW n \in Nat, n <= Len(rd[r].mp.u), n <= Room(r)
    PROVE  /\ CopiedTo(r, n) \in Record
           /\ CopiedTo(r, n).pc = rd[r].pc /\ CopiedTo(r, n).kind = rd[r].kind
           /\ CopiedTo(r, n).mp.t = rd[r].mp.t
<1> DEFINE u == rd[r].mp.u
           b == rd[r].buf
<1>1. /\ u \in Seq(Nat) /\ b \in Seq(Nat) /\ rd[r].ulen \in {1, 2} /\ Len(b) <= rd[r].ulen
      /\ rd[r].msgs_read \in Nat /\ rd[r].mp \in Msg /\ rd[r] \in Fields
  BY DEF Record, Fields, Msg
<1>l. Len(u) \in Nat /\ Len(b) \in Nat
  BY <1>1, LenProperties
<1>2. n \in Nat /\ n <= Len(u) /\ n <= rd[r].ulen - Len(b)
  BY DEF Room
<1>3. /\ SubSeq(u, 1, n) \in Seq(Nat) /\ Len(SubSeq(u, 1, n)) = n
      /\ SubSeq(u, n + 1, Len(u)) \in Seq(Nat)
  <2> HIDE DEF u
  <2>1. 1 \in 1 .. Len(u) + 1 /\ n \in 1 - 1 .. Len(u)
    BY <1>2, <1>l
  <2>2. n + 1 \in 1 .. Len(u) + 1 /\ Len(u) \in (n + 1) - 1 .. Len(u)
    BY <1>2, <1>l
  <2>3. SubSeq(u, 1, n) \in Seq(Nat) /\ Len(SubSeq(u, 1, n)) = n
    BY <1>1, <1>2, <1>l, <2>1, SubSeqProperties
  <2> QED
    BY <1>1, <1>2, <1>l, <2>2, <2>3, SubSeqProperties
<1>4. b \o SubSeq(u, 1, n) \in Seq(Nat) /\ Len(b \o SubSeq(u, 1, n)) = Len(b) + n
  <2> DEFINE z == SubSeq(u, 1, n)
  <2>1. b \in Seq(Nat) /\ z \in Seq(Nat) /\ Len(z) = n
    BY <1>1, <1>3
  <2> HIDE DEF b, z
  <2>2. b \o z \in Seq(Nat) /\ Len(b \o z) = Len(b) + n
    BY <2>1, ConcatProperties
  <2> QED
    BY <2>2 DEF z
<1> DEFINE c == b \o SubSeq(u, 1, n)
           v == SubSeq(u, n + 1, Len(u))
<1>5. CopiedTo(r, n) = [rd[r] EXCEPT !.buf = c, !.mp = [rd[r].mp EXCEPT !.u = v],
                                !.msgs_read = rd[r].msgs_read + 1]
  BY <1>1 DEF CopiedTo, Fields
<1>6. c \in Seq(Nat) /\ Len(c) <= rd[r].ulen /\ v \in Seq(Nat)
  <2>1. Len(c) = Len(b) + n /\ Len(b) \in Nat
    BY <1>4, <1>l
  <2>2. Len(c) <= rd[r].ulen
    <3> HIDE DEF b, c
    <3> QED
      BY <1>1, <1>2, <2>1
  <2> QED
    BY <1>3, <1>4, <2>2
<1> HIDE DEF c, v
<1>7. [rd[r].mp EXCEPT !.u = v] \in Msg /\ [rd[r].mp EXCEPT !.u = v].t = rd[r].mp.t
  BY <1>1, <1>6 DEF Msg
<1> DEFINE w == [rd[r].mp EXCEPT !.u = v]
           k == rd[r].msgs_read + 1
<1>8. w \in Msg /\ w.t = rd[r].mp.t /\ k \in Nat
  BY <1>1, <1>7
<1> HIDE DEF w, k
<1>9. [rd[r] EXCEPT !.buf = c, !.mp = w, !.msgs_read = k] \in Fields
  BY <1>1, <1>6, <1>8 DEF Fields
<1>10. /\ CopiedTo(r, n) \in Fields /\ CopiedTo(r, n).buf = c /\ CopiedTo(r, n).ulen = rd[r].ulen
       /\ CopiedTo(r, n).pc = rd[r].pc /\ CopiedTo(r, n).kind = rd[r].kind /\ CopiedTo(r, n).mp = w
  BY <1>1, <1>5, <1>9 DEF Fields, w, k
<1> QED
  BY <1>6, <1>8, <1>10 DEF Record

LEMMA Regrouped ==
    ASSUME NEW b \in Seq(Nat), NEW c \in Seq(Nat), NEW d \in Seq(Nat)
    PROVE  (b \o c) \o d = b \o (c \o d) /\ b \o c \in Seq(Nat)
BY ConcatAssociative, ConcatProperties

\* What is copied is no longer in the message.
LEMMA CopiedToHand ==
    ASSUME NEW r, rd[r] \in Record, NEW n \in Nat, n <= Len(rd[r].mp.u), n <= Room(r)
    PROVE  /\ CopiedTo(r, n).buf \in Seq(Nat) /\ CopiedTo(r, n).mp.u \in Seq(Nat)
           /\ CopiedTo(r, n).buf \o CopiedTo(r, n).mp.u = Hand(r)
           /\ CopiedTo(r, n).msgs_read > 0 /\ CopiedTo(r, n).then = rd[r].then
<1> DEFINE u == rd[r].mp.u
           b == rd[r].buf
<1>1. /\ u \in Seq(Nat) /\ b \in Seq(Nat)
      /\ rd[r].msgs_read \in Nat /\ rd[r].mp \in Msg /\ rd[r] \in Fields
  BY DEF Record, Fields, Msg
<1>2. Len(u) \in Nat /\ Len(b) \in Nat
  BY <1>1, LenProperties
<1>3. n \in Nat /\ n <= Len(u)
  OBVIOUS
<1>4. CopiedTo(r, n) = [rd[r] EXCEPT !.buf = b \o SubSeq(u, 1, n),
                                !.mp = [rd[r].mp EXCEPT !.u = SubSeq(u, n + 1, Len(u))],
                                !.msgs_read = rd[r].msgs_read + 1]
  BY <1>1 DEF CopiedTo, Fields
<1> DEFINE c == SubSeq(u, 1, n)
           d == SubSeq(u, n + 1, Len(u))
           m == [rd[r].mp EXCEPT !.u = d]
           e == b \o c
           k == rd[r].msgs_read + 1
<1>5. CopiedTo(r, n).buf = e /\ CopiedTo(r, n).mp.u = d /\ CopiedTo(r, n).msgs_read = k
      /\ CopiedTo(r, n).then = rd[r].then
  <2>1. m.u = d
    <3> HIDE DEF d
    <3> QED
      BY <1>1 DEF Msg
  <2>2. CopiedTo(r, n) = [rd[r] EXCEPT !.buf = e, !.mp = m, !.msgs_read = k]
    BY <1>4
  <2> HIDE DEF e, m, k
  <2>3. /\ CopiedTo(r, n).buf = e /\ CopiedTo(r, n).mp = m /\ CopiedTo(r, n).msgs_read = k
        /\ CopiedTo(r, n).then = rd[r].then
    BY <1>1, <2>2 DEF Fields
  <2> QED
    BY <2>1, <2>3
<1>6. c \in Seq(Nat) /\ d \in Seq(Nat) /\ c \o d = u
  <2> HIDE DEF u
  <2>1. 1 \in 1 .. Len(u) + 1 /\ n \in 1 - 1 .. Len(u) /\ Len(u) \in n .. Len(u)
    BY <1>2, <1>3
  <2>2. SubSeq(u, 1, n) \o SubSeq(u, n + 1, Len(u)) = SubSeq(u, 1, Len(u))
    BY <1>1, <2>1, ConcatAdjacentSubSeq
  <2>3. SubSeq(u, 1, Len(u)) = u
    BY <1>1, SubSeqFull
  <2>4. n + 1 \in 1 .. Len(u) + 1 /\ Len(u) \in (n + 1) - 1 .. Len(u)
    BY <1>2, <1>3
  <2>5. SubSeq(u, 1, n) \in Seq(Nat)
    BY <1>1, <2>1, SubSeqProperties
  <2>6. SubSeq(u, n + 1, Len(u)) \in Seq(Nat)
    BY <1>1, <2>4, SubSeqProperties
  <2> QED
    BY <2>2, <2>3, <2>5, <2>6
<1>7. (b \o c) \o d = b \o (c \o d) /\ b \o c \in Seq(Nat)
  <2>1. b \in Seq(Nat) /\ c \in Seq(Nat) /\ d \in Seq(Nat)
    BY <1>1, <1>6
  <2> HIDE DEF b, c, d, e
  <2> QED
    BY <2>1, Regrouped
<1>8. Hand(r) = b \o u
  BY DEF Hand
<1>9. k > 0
  BY <1>1
<1>10. e = b \o c /\ e \o d = b \o u
  BY <1>6, <1>7
<1> HIDE DEF b, u, c, d, e, k
<1> QED
  BY <1>5, <1>6, <1>7, <1>8, <1>9, <1>10

\* So it is with as much as there is room for,
LEMMA RoomIs ==
    ASSUME NEW r, rd[r] \in Record
    PROVE  \E n \in Nat : n <= Len(rd[r].mp.u) /\ n <= Room(r) /\ Copied(r) = CopiedTo(r, n)
<1> DEFINE l == Len(rd[r].mp.u)
           m == Len(rd[r].buf)
<1>1. rd[r].ulen \in {1, 2} /\ l \in Nat /\ m \in Nat /\ m <= rd[r].ulen
  BY LenProperties DEF Record, Fields, Msg
<1>2. Room(r) = rd[r].ulen - m
  BY DEF Room
<1>3. Copied(r) = CopiedTo(r, IF Room(r) < l THEN Room(r) ELSE l)
  BY DEF Copied
<1> HIDE DEF l, m
<1>4. Room(r) \in Nat
  BY <1>1, <1>2
<1>5. CASE Room(r) < l
  <2>1. Copied(r) = CopiedTo(r, Room(r))
    BY <1>3, <1>5
  <2> QED
    BY <1>1, <1>4, <1>5, <2>1 DEF l
<1>6. CASE ~(Room(r) < l)
  <2>1. Copied(r) = CopiedTo(r, l)
    BY <1>3, <1>6
  <2> QED
    BY <1>1, <1>4, <1>6, <2>1 DEF l
<1> QED
  BY <1>5, <1>6

LEMMA CopiedKept ==
    ASSUME NEW r, rd[r] \in Record
    PROVE  /\ Copied(r) \in Record
           /\ Copied(r).pc = rd[r].pc /\ Copied(r).kind = rd[r].kind
           /\ Copied(r).mp.t = rd[r].mp.t
  BY RoomIs, CopiedToKept

LEMMA CopiedHand ==
    ASSUME NEW r, rd[r] \in Record
    PROVE  /\ Copied(r).buf \in Seq(Nat) /\ Copied(r).mp.u \in Seq(Nat)
           /\ Copied(r).buf \o Copied(r).mp.u = Hand(r)
           /\ Copied(r).msgs_read > 0 /\ Copied(r).then = rd[r].then
  BY RoomIs, CopiedToHand

\* and when lis_copyout fails after a part of it.
LEMMA FaultIs ==
    ASSUME Locals, NEW r \in Reader, ReadFault(r)
    PROVE  /\ rd' = [rd EXCEPT ![r] = rd'[r]] /\ rd'[r] \in Record /\ rd'[r].pc = "putback"
           /\ rd'[r].kind = "read" /\ rd'[r].mp.t = "DATA" /\ rd'[r].then # "again"
           /\ rd'[r].msgs_read > 0 /\ Hand(r)' = Hand(r)
<1>1. PICK n \in 0 .. 1, t \in {"fail", "return"} :
         /\ n < Room(r) /\ n < Len(rd[r].mp.u)
         /\ rd' = [rd EXCEPT ![r] = [CopiedTo(r, n) EXCEPT !.pc = "putback", !.then = t]]
  BY DEF ReadFault
<1>2. rd[r] \in Record /\ rd[r].kind = "read" /\ rd[r].mp.t = "DATA"
  BY DEF Locals, ReadFault, ToUser
<1>3. n \in Nat /\ n <= Len(rd[r].mp.u) /\ n <= Room(r)
  <2>1. Len(rd[r].mp.u) \in Nat /\ Room(r) \in Int
    BY <1>2, LenProperties DEF Record, Fields, Msg, Room
  <2> QED
    BY <1>1, <2>1
<1> DEFINE x == CopiedTo(r, n)
<1>4. /\ x \in Record /\ x \in Fields /\ x.kind = "read" /\ x.mp.t = "DATA"
      /\ x.buf \o x.mp.u = Hand(r) /\ x.msgs_read > 0
  BY <1>2, <1>3, CopiedToKept, CopiedToHand DEF Record
<1>5. rd' = [rd EXCEPT ![r] = [x EXCEPT !.pc = "putback", !.then = t]]
  BY <1>1
<1> HIDE DEF x
<1>6. rd'[r] = [x EXCEPT !.pc = "putback", !.then = t] /\ rd' = [rd EXCEPT ![r] = rd'[r]]
  BY <1>5 DEF Locals
<1>7. rd'[r] \in Record
  <2>1. "putback" \in Labels /\ t \in {"return", "fail", "again"}
    BY DEF Labels
  <2>2. [x EXCEPT !.pc = "putback", !.then = t] \in Record
    BY <1>4, <2>1, FieldsKept
  <2> QED
    BY <1>6, <2>2
<1>8. /\ rd'[r].pc = "putback" /\ rd'[r].kind = x.kind /\ rd'[r].mp = x.mp
      /\ rd'[r].then = t /\ rd'[r].msgs_read = x.msgs_read /\ rd'[r].buf = x.buf
  BY <1>4, <1>6 DEF Fields
<1>9. Hand(r)' = Hand(r)
  BY <1>4, <1>8 DEF Hand
<1>10. rd'[r].then # "again"
  BY <1>8
<1> QED
  BY <1>4, <1>6, <1>7, <1>8, <1>9, <1>10

\* Some fields of a copied record change.
LEMMA CopiedGoesOn ==
    ASSUME NEW r, rd[r] \in Record
    PROVE  /\ [Copied(r) EXCEPT !.pc = "lock", !.mp = NoMsg] \in Record
           /\ [Copied(r) EXCEPT !.pc = "putback"] \in Record
<1>1. Copied(r) \in Record /\ "lock" \in Labels /\ "putback" \in Labels
  BY CopiedKept DEF Labels
<1> QED
  BY <1>1, FieldsKept, NoMsgIsOne

\* Every step keeps the types of the local variables,
LEMMA LocalsKept ==
    ASSUME IInv, NEW r, Acts(r)
    PROVE  Locals'
<1>0. Locals /\ Queues
  BY DEF IInv
<1>o. Others(r)
  BY OthersKept
<1>d. Domains
  BY DomainsKnown
<1>1. CASE r \in Reader /\ Begin(r)
  <2>1. PICK k \in Kinds[r], n \in 1 .. 2 :
           rd' = [rd EXCEPT ![r] = [Idle EXCEPT !.pc = "down", !.kind = k, !.ulen = n]]
    BY <1>1 DEF Begin
  <2>2. k \in {"read", "getmsg", "gethipri"} /\ n \in {1, 2}
    BY <1>0, <1>1, KindsAssumption
  <2> QED
    BY <1>0, <2>1, <2>2, IdleKept DEF Locals
<1>2. CASE r \in Reader /\ GetReadSem(r)
  BY <1>0, <1>2, GotoKept DEF GetReadSem, Labels
<1>3. CASE r \in Reader /\ LockQ(r)
  BY <1>0, <1>3, GotoKept DEF LockQ, Labels
<1>4. CASE r \in Reader /\ HungUp(r)
  BY <1>0, <1>4, RtnKept DEF HungUp
<1>5. CASE r \in Reader /\ WouldBlock(r)
  BY <1>0, <1>5, RtnKept DEF WouldBlock
<1>6. CASE r \in Reader /\ WillSleep(r)
  BY <1>0, <1>6, GotoKept DEF WillSleep, Labels
<1>7. CASE r \in Reader /\ SleepOnWread(r)
  BY <1>0, <1>7, GotoKept DEF SleepOnWread, Labels
<1>8. CASE r \in Reader /\ WokenUp(r)
  BY <1>0, <1>8, GotoKept DEF WokenUp, Labels
<1>9. CASE r \in Reader /\ WakeTest(r)
  BY <1>0, <1>9, GotoKept, IdleKept DEF WakeTest, Labels, Locals
<1>10. CASE r \in Reader /\ WakeUp(r)
  BY <1>0, <1>10, IdleKept DEF WakeUp, Locals
<1>11. CASE r \in Reader /\ ReadReady(r)
  BY <1>0, <1>11, GotoKept DEF ReadReady, Labels
<1>12. CASE r \in Reader /\ TakeNothing(r)
  BY <1>0, <1>12, RtnKept DEF TakeNothing
<1>13. CASE r \in Reader /\ TakeForRead(r)
  <2>1. rd[r] \in Record /\ Head(q) \in Msg
    BY <1>0, <1>13 DEF Locals, Queues, TakeForRead
  <2>2. rd' = [rd EXCEPT ![r] = [rd[r] EXCEPT !.pc = "copy", !.mp = Head(q)]]
    BY <1>0, <1>13 DEF TakeForRead, Locals
  <2>3. [rd[r] EXCEPT !.pc = "copy", !.mp = Head(q)] \in Record
    BY <2>1, FieldsKept DEF Labels
  <2> QED
    BY <1>0, <2>2, <2>3 DEF Locals
<1>14. CASE r \in Reader /\ ReadMore(r)
  <2>1. rd[r] \in Record
    BY <1>0, <1>14 DEF Locals
  <2> QED
    BY <1>0, <2>1, CopiedGoesOn, <1>14 DEF Locals, ReadMore
<1>15. CASE r \in Reader /\ ReadDone(r)
  BY <1>0, <1>15, RtnKept DEF ReadDone
<1>16. CASE r \in Reader /\ ReadPart(r)
  <2>1. rd[r] \in Record
    BY <1>0, <1>16 DEF Locals
  <2> QED
    BY <1>0, <2>1, CopiedGoesOn, <1>16 DEF Locals, ReadPart
<1>17. CASE r \in Reader /\ ReadFault(r)
  <2>1. rd' = [rd EXCEPT ![r] = rd'[r]] /\ rd'[r] \in Record
    BY <1>0, <1>17, FaultIs
  <2> QED
    BY <1>0, <2>1 DEF Locals
<1>18. CASE r \in Reader /\ ReadProto(r)
  <2>0. rd[r] \in Record /\ rd[r].mp \in Msg /\ rd[r].msgs_read \in Nat
    BY <1>0, <1>18 DEF Locals, Record, Fields
  <2>1. CASE rd' = [rd EXCEPT ![r].pc = "putback", ![r].then = "fail"]
    <3>1. rd' = [rd EXCEPT ![r] = [rd[r] EXCEPT !.pc = "putback", !.then = "fail"]]
      BY <1>0, <2>1 DEF Locals
    <3>2. [rd[r] EXCEPT !.pc = "putback", !.then = "fail"] \in Record
      BY <2>0, FieldsKept DEF Labels
    <3> QED
      BY <1>0, <3>1, <3>2 DEF Locals
  <2>2. CASE rd' = [rd EXCEPT ![r].pc = "putback", ![r].mp.t = "DATA", ![r].msgs_read = @ + 1,
                              ![r].then = "again"]
    <3> DEFINE m == [rd[r].mp EXCEPT !.t = "DATA"]
               x == [rd[r] EXCEPT !.pc = "putback", !.mp = m, !.then = "again"]
               y == [x EXCEPT !.msgs_read = rd[r].msgs_read + 1]
    <3>1. m \in Msg
      BY <2>0 DEF Msg
    <3>2. x \in Record
      <4> HIDE DEF m
      <4>1. "putback" \in Labels
        BY DEF Labels
      <4> QED
        BY <2>0, <3>1, <4>1, FieldsKept
    <3>3. y \in Record
      <4> HIDE DEF x, m
      <4> QED
        BY <2>0, <3>2 DEF Record, Fields
    <3>4. rd' = [rd EXCEPT ![r] = y]
      BY <1>0, <2>0, <2>2 DEF Locals, Record, Fields
    <3> QED
      BY <1>0, <3>3, <3>4 DEF Locals
  <2>3. CASE Rtn(r, TRUE, rd[r].buf)
    BY <1>0, <2>3, <1>18, RtnKept
  <2> QED
    BY <2>1, <2>2, <2>3, <1>18 DEF ReadProto
<1>19. CASE r \in Reader /\ MsgReady(r)
  BY <1>0, <1>19, GotoKept DEF MsgReady, Labels
<1>20. CASE r \in Reader /\ (NotTheMsg(r) \/ NoMsgEnds(r))
  BY <1>0, <1>20, GotoKept, RtnKept DEF NotTheMsg, NoMsgEnds, Labels
<1>21. CASE r \in Reader /\ TakeMsg(r)
  <2>1. rd[r] \in Record /\ Head(q) \in Msg
    BY <1>0, <1>21 DEF Locals, Queues, TakeMsg
  <2>2. rd' = [rd EXCEPT ![r] = [rd[r] EXCEPT !.pc = "copy", !.mp = Head(q)]]
    BY <1>0, <1>21 DEF TakeMsg, Locals
  <2>3. [rd[r] EXCEPT !.pc = "copy", !.mp = Head(q)] \in Record
    BY <2>1, FieldsKept DEF Labels
  <2> QED
    BY <1>0, <2>2, <2>3 DEF Locals
<1>22. CASE r \in Reader /\ CopyMsg(r)
  <2>1. rd[r] \in Record
    BY <1>0, <1>22 DEF Locals
  <2>2. CASE Rtn(r, FALSE, Copied(r).buf)
    BY <1>0, <2>2, <1>22, RtnKept
  <2>3. CASE rd' = [rd EXCEPT ![r] = [Copied(r) EXCEPT !.pc = "putback"]]
    BY <1>0, <2>1, <2>3, CopiedGoesOn DEF Locals
  <2> QED
    BY <2>2, <2>3, <1>22 DEF CopyMsg
<1>23. CASE r \in Reader /\ CopyMsgFault(r)
  BY <1>0, <1>23, RtnKept DEF CopyMsgFault
<1>24. CASE r \in Reader /\ PutBack(r)
  <2>1. CASE rd[r].then # "again"
    BY <1>0, <2>1, <1>24, RtnKept DEF PutBack, AfterPutBack
  <2>2. CASE rd[r].then = "again"
    <3>1. rd' = [rd EXCEPT ![r] = [rd[r] EXCEPT !.pc = "lock", !.mp = NoMsg, !.then = "return"]]
      BY <1>0, <2>2, <1>24 DEF PutBack, AfterPutBack, Locals
    <3>2. [rd[r] EXCEPT !.pc = "lock", !.mp = NoMsg, !.then = "return"] \in Record
      <4>1. rd[r] \in Record /\ "lock" \in Labels
        BY <1>0, <1>24 DEF Locals, Labels
      <4> QED
        BY <4>1, FieldsKept, NoMsgIsOne
    <3> QED
      BY <1>0, <3>1, <3>2 DEF Locals
  <2> QED
    BY <2>1, <2>2
<1>25. CASE r \in Reader /\ PutBackPri(r)
  BY <1>0, <1>25, GotoKept DEF PutBackPri, Labels
<1>26. CASE r \in Reader /\ PutBackPriEnds(r)
  BY <1>0, <1>26, RtnKept DEF PutBackPriEnds
<1>27. CASE r \in Reader /\ ReadSemInterrupted(r)
  BY <1>0, <1>27, IdleKept DEF ReadSemInterrupted, Locals
<1>28. CASE r \in Reader /\ WreadInterrupted(r)
  BY <1>0, <1>28, RtnKept DEF WreadInterrupted
<1>29. CASE DataArrives \/ HangupArrives \/ FlushArrives \/ SrvStart \/
     ProcessData \/ ProcessHangup \/ ProcessFlush \/ SrvEnd \/ PeerClose \/
     Wakes
  <2>1. UNCHANGED <<rd>>
    BY <1>29 DEF DataArrives, PutRput, Discards, HangupArrives, FlushArrives,
       PriAfterFlush, SrvStart, ProcessData, Process, ProcessHangup,
       ProcessFlush, SrvEnd, PeerClose, Wakes, WakeUps, WakeStep, At, queue,
       sems, count, arrivals, history
  <2> QED
    BY <1>0, <2>1 DEF Locals
<1> QED
  BY <1>1, <1>2, <1>3, <1>4, <1>5, <1>6, <1>7, <1>8, <1>9, <1>10, <1>11, <1>12,
     <1>13, <1>14, <1>15, <1>16, <1>17, <1>18, <1>19, <1>20, <1>21, <1>22,
     <1>23, <1>24, <1>25, <1>26, <1>27, <1>28, <1>29 DEF Acts

\* of the semaphore and the flags,
LEMMA NumbersKept ==
    ASSUME IInv, NEW r, Acts(r)
    PROVE  Numbers' /\ SemIsPositive'
<1>0. Numbers /\ SemIsPositive
  BY DEF IInv
<1>d. Domains
  BY DomainsKnown
<1>1. CASE Wakes
  <2>1. PICK t \in Waker : WakeStep(t)
    BY <1>1 DEF Wakes, WakeUps
  <2>2. UNCHANGED STRPRI
    BY <1>1 DEF Wakes, WakeUps, queue
  <2>3. \/ UNCHANGED <<sd_read_sem, woken>>
        \/ sd_read_sem' = sd_read_sem + 1 /\ woken' = TRUE
    BY <2>1 DEF WakeStep, sems
  <2> QED
    <3>1. STRPRI' \in BOOLEAN
      BY <1>0, <2>2 DEF Numbers
    <3>2. sd_read_sem' \in Int /\ woken' \in BOOLEAN /\ sd_read_sem' >= 0
      <4>1. CASE UNCHANGED <<sd_read_sem, woken>>
        BY <1>0, <4>1 DEF Numbers, SemIsPositive
      <4>2. CASE sd_read_sem' = sd_read_sem + 1 /\ woken' = TRUE
        BY <1>0, <4>2 DEF Numbers, SemIsPositive
      <4> QED
        BY <2>3, <4>1, <4>2
    <3> QED
      BY <3>1, <3>2 DEF Numbers, SemIsPositive
<1>2. CASE r \in Reader /\ (GetReadSem(r) \/ WakeUp(r))
  BY <1>0, <1>d, <1>2 DEF GetReadSem, DownPasses, Goto, WakeUp, Numbers,
     SemIsPositive, Others, Domains, At, queue, sems, count, arrivals, history
<1>3. CASE r \in Reader /\ ReadProto(r)
  BY <1>0, <1>d, <1>3 DEF ReadProto, Rtn, PriCleared, Numbers, SemIsPositive,
     Others, Domains, At, queue, sems, count, arrivals, history
<1>4. CASE (r \in Reader /\ (TakeMsg(r) \/ PutBackPri(r))) \/ DataArrives
  BY <1>0, <1>d, <1>4 DEF TakeMsg, PutBackPri, Goto, DataArrives, PutRput,
     Discards, Numbers, SemIsPositive, Others, Domains, At, queue, sems, count,
     arrivals, history
<1>5. CASE FlushArrives \/ ProcessFlush
  BY <1>0, <1>d, <1>5 DEF FlushArrives, PutRput, PriAfterFlush, ProcessFlush,
     Process, Numbers, SemIsPositive, Others, Domains, At, queue, sems, count,
     arrivals, history
<1>6. CASE (r \in Reader /\ (Begin(r) \/ LockQ(r) \/ HungUp(r) \/ WouldBlock(r)
     \/ WillSleep(r) \/ SleepOnWread(r) \/ WokenUp(r) \/ WakeTest(r) \/
     ReadReady(r) \/ TakeNothing(r) \/ TakeForRead(r) \/ ReadMore(r) \/
     ReadDone(r) \/ ReadPart(r) \/ ReadFault(r) \/ MsgReady(r) \/ NotTheMsg(r)
     \/ NoMsgEnds(r) \/ CopyMsg(r) \/ CopyMsgFault(r) \/ PutBack(r) \/ PutBackPriEnds(r) \/
     ReadSemInterrupted(r) \/ WreadInterrupted(r))) \/ HangupArrives \/ SrvStart
     \/ ProcessData \/ ProcessHangup \/ SrvEnd \/ PeerClose
  <2>1. UNCHANGED <<sd_read_sem, woken, STRPRI>>
    BY <1>6 DEF Begin, LockQ, Goto, HungUp, Rtn, WouldBlock, WillSleep,
       SleepOnWread, WokenUp, WakeTest, ReadReady, TakeNothing, TakeForRead,
       ReadMore, ReadDone, ReadPart, ReadFault, MsgReady, NotTheMsg, NoMsgEnds, CopyMsg,
       CopyMsgFault, PutBack, AfterPutBack, PutBackPriEnds, ReadSemInterrupted,
       WreadInterrupted, HangupArrives, PutRput, SrvStart, ProcessData, Process,
       ProcessHangup, SrvEnd, PeerClose, At, queue, sems, count, arrivals,
       history
  <2> QED
    BY <1>0, <2>1 DEF Numbers, SemIsPositive
<1> QED
  BY <1>1, <1>2, <1>3, <1>4, <1>5, <1>6 DEF Acts

-----------------------------------------------------------------------------
(* Sequences                                                               *)

\* What is inserted is in the sequence, with what was there.
LEMMA InsertKept ==
    ASSUME NEW S, NEW s \in Seq(S), NEW x \in S, NEW i \in 1 .. Len(s) + 1
    PROVE  /\ InsertAt(s, i, x) \in Seq(S)
           /\ ToSet(InsertAt(s, i, x)) = ToSet(s) \union {x}
<1> DEFINE a == SubSeq(s, 1, i - 1)
           b == SubSeq(s, i, Len(s))
           n == Len(s)
<1>1. n \in Nat /\ i \in Int /\ DOMAIN s = 1 .. n /\ \A j \in 1 .. n : s[j] \in S
  BY LenProperties, ElementOfSeq
<1>2. /\ a \in Seq(S) /\ Len(a) = i - 1
      /\ \A j \in 1 .. i - 1 : a[j] = s[j]
  <2>1. 1 \in Int /\ i - 1 \in Int /\ \A j \in 1 .. i - 1 : s[j] \in S
    BY <1>1
  <2>2. /\ a \in Seq(S) /\ Len(a) = IF 1 <= i - 1 THEN (i - 1) - 1 + 1 ELSE 0
        /\ \A j \in 1 .. (i - 1) - 1 + 1 : a[j] = s[1 + j - 1]
    BY <2>1, SubSeqProperties
  <2> HIDE DEF a
  <2> QED
    BY <1>1, <2>2
<1>3. /\ b \in Seq(S) /\ Len(b) = n - i + 1
      /\ \A j \in 1 .. n - i + 1 : b[j] = s[i + j - 1]
  <2>1. n \in Int /\ i \in Int /\ \A j \in i .. n : s[j] \in S
    BY <1>1
  <2>2. /\ b \in Seq(S) /\ Len(b) = IF i <= n THEN n - i + 1 ELSE 0
        /\ \A j \in 1 .. n - i + 1 : b[j] = s[i + j - 1]
    BY <2>1, SubSeqProperties
  <2> HIDE DEF b
  <2> QED
    BY <1>1, <2>2
<1> DEFINE c == a \o <<x>>
           d == c \o b
<1>4. InsertAt(s, i, x) = d
  BY DEF InsertAt
<1> HIDE DEF a, b
<1>5. /\ c \in Seq(S) /\ Len(c) = i
      /\ \A j \in 1 .. i : c[j] = IF j <= i - 1 THEN a[j] ELSE x
  <2>1. <<x>> \in Seq(S) /\ Len(<<x>>) = 1 /\ <<x>>[1] = x
    OBVIOUS
  <2>2. /\ c \in Seq(S) /\ Len(c) = Len(a) + 1
        /\ \A j \in 1 .. Len(a) + 1 : c[j] = IF j <= Len(a) THEN a[j] ELSE <<x>>[j - Len(a)]
    BY <1>2, <2>1, ConcatProperties
  <2> HIDE DEF c
  <2> QED
    BY <1>1, <1>2, <2>1, <2>2
<1> HIDE DEF c
<1>6. /\ d \in Seq(S) /\ Len(d) = n + 1
      /\ \A j \in 1 .. n + 1 : d[j] = IF j <= i THEN c[j] ELSE b[j - i]
  <2>1. /\ d \in Seq(S) /\ Len(d) = Len(c) + Len(b)
        /\ \A j \in 1 .. Len(c) + Len(b) : d[j] = IF j <= Len(c) THEN c[j] ELSE b[j - Len(c)]
    BY <1>3, <1>5, ConcatProperties
  <2> HIDE DEF d
  <2> QED
    BY <1>1, <1>3, <1>5, <2>1
<1> HIDE DEF d
<1>7. \A j \in 1 .. n + 1 : d[j] = IF j < i THEN s[j] ELSE IF j = i THEN x ELSE s[j - 1]
  <2> SUFFICES ASSUME NEW j \in 1 .. n + 1
               PROVE  d[j] = IF j < i THEN s[j] ELSE IF j = i THEN x ELSE s[j - 1]
    OBVIOUS
  <2>1. CASE j < i
    BY <1>1, <1>2, <1>5, <1>6, <2>1
  <2>2. CASE j = i
    BY <1>1, <1>5, <1>6, <2>2
  <2>3. CASE j > i
    <3>1. d[j] = b[j - i] /\ j - i \in 1 .. n - i + 1
      BY <1>1, <1>6, <2>3
    <3>2. b[j - i] = s[i + (j - i) - 1]
      BY <1>3, <3>1
    <3>3. i + (j - i) - 1 = j - 1
      BY <1>1
    <3> QED
      BY <1>1, <2>3, <3>1, <3>2, <3>3
  <2> QED
    BY <1>1, <2>1, <2>2, <2>3
<1>8. DOMAIN d = 1 .. n + 1
  BY <1>1, <1>6, LenProperties
<1>9. ASSUME NEW y
      PROVE  y \in ToSet(d) <=> y \in ToSet(s) \/ y = x
  <2>1. y \in ToSet(d) <=> \E j \in 1 .. n + 1 : y = d[j]
    BY <1>8 DEF ToSet
  <2>2. y \in ToSet(s) <=> \E j \in 1 .. n : y = s[j]
    BY <1>1 DEF ToSet
  <2>3. ASSUME NEW j \in 1 .. n + 1, y = d[j]
        PROVE  y = x \/ \E k \in 1 .. n : y = s[k]
    <3>1. CASE j < i
      <4>1. j \in 1 .. n
        BY <1>1, <3>1
      <4> QED
        BY <1>7, <2>3, <3>1, <4>1
    <3>2. CASE j = i
      BY <1>1, <1>7, <2>3, <3>2
    <3>3. CASE j > i
      <4>1. j - 1 \in 1 .. n
        BY <1>1, <3>3
      <4> QED
        BY <1>1, <1>7, <2>3, <3>3, <4>1
    <3> QED
      BY <1>1, <3>1, <3>2, <3>3
  <2>4. ASSUME NEW k \in 1 .. n, y = s[k]
        PROVE  \E j \in 1 .. n + 1 : y = d[j]
    <3>1. CASE k < i
      <4>1. k \in 1 .. n + 1 /\ d[k] = s[k]
        BY <1>1, <1>7, <3>1
      <4> QED
        BY <2>4, <4>1
    <3>2. CASE k >= i
      <4>1. k + 1 \in 1 .. n + 1 /\ ~(k + 1 < i) /\ k + 1 # i /\ (k + 1) - 1 = k
        BY <1>1, <3>2
      <4>2. d[k + 1] = s[k]
        BY <1>7, <4>1
      <4> QED
        BY <2>4, <4>1, <4>2
    <3> QED
      BY <1>1, <3>1, <3>2
  <2>5. i \in 1 .. n + 1 /\ d[i] = x
    BY <1>1, <1>7
  <2> QED
    BY <2>1, <2>2, <2>3, <2>4, <2>5
<1>10. ToSet(d) = ToSet(s) \union {x}
  BY <1>9
<1> QED
  BY <1>4, <1>6, <1>10

\* The same for what is appended, at the end,
LEMMA AppendKept ==
    ASSUME NEW S, NEW s \in Seq(S), NEW x \in S
    PROVE  Append(s, x) \in Seq(S) /\ ToSet(Append(s, x)) = ToSet(s) \union {x}
<1> DEFINE t == Append(s, x)
<1>1. /\ DOMAIN t = 1 .. (Len(s) + 1) /\ DOMAIN s = 1 .. Len(s) /\ Len(s) \in Nat
      /\ \A i \in 1 .. Len(s) : t[i] = s[i]
      /\ t[Len(s) + 1] = x /\ t \in Seq(S)
  BY AppendProperties, LenProperties
<1> HIDE DEF t
<1>2. ASSUME NEW y
      PROVE  y \in ToSet(t) <=> y \in ToSet(s) \/ y = x
  <2>1. y \in ToSet(t) <=> \E i \in 1 .. (Len(s) + 1) : y = t[i]
    BY <1>1 DEF ToSet
  <2>2. y \in ToSet(s) <=> \E i \in 1 .. Len(s) : y = s[i]
    BY <1>1 DEF ToSet
  <2>3. \A i : i \in 1 .. (Len(s) + 1) <=> i \in 1 .. Len(s) \/ i = Len(s) + 1
    BY <1>1
  <2> QED
    BY <1>1, <2>1, <2>2, <2>3
<1>3. ToSet(t) = ToSet(s) \union {x}
  BY <1>2
<1> QED
  BY <1>1, <1>3 DEF t

\* and for what is taken from the head.
LEMMA TailKept ==
    ASSUME NEW S, NEW s \in Seq(S), s # <<>>
    PROVE  /\ Tail(s) \in Seq(S) /\ Head(s) \in S
           /\ ToSet(s) = ToSet(Tail(s)) \union {Head(s)}
<1> DEFINE t == Tail(s)
           n == Len(s)
<1>1. n \in Nat /\ DOMAIN s = 1 .. n /\ n >= 1 /\ Head(s) = s[1]
  BY LenProperties, EmptySeq
<1>2. /\ t \in Seq(S) /\ Head(s) \in S /\ Len(t) = n - 1
      /\ \A i \in 1 .. Len(t) : t[i] = s[i + 1]
  BY HeadTailProperties
<1> HIDE DEF t, n
<1>3. DOMAIN t = 1 .. n - 1 /\ \A i \in 1 .. n - 1 : t[i] = s[i + 1]
  BY <1>2, LenProperties
<1>4. ASSUME NEW y
      PROVE  y \in ToSet(s) <=> y \in ToSet(t) \/ y = Head(s)
  <2>1. y \in ToSet(t) <=> \E i \in 1 .. n - 1 : y = t[i]
    BY <1>3 DEF ToSet
  <2>2. y \in ToSet(s) <=> \E i \in 1 .. n : y = s[i]
    BY <1>1 DEF ToSet
  <2>3. ASSUME NEW i \in 1 .. n, y = s[i]
        PROVE  y = Head(s) \/ \E j \in 1 .. n - 1 : y = t[j]
    <3>1. CASE i = 1
      BY <1>1, <2>3, <3>1
    <3>2. CASE i # 1
      <4>1. i - 1 \in 1 .. n - 1 /\ (i - 1) + 1 = i
        BY <1>1, <3>2
      <4> QED
        BY <1>3, <2>3, <4>1
    <3> QED
      BY <3>1, <3>2
  <2>4. ASSUME NEW j \in 1 .. n - 1, y = t[j]
        PROVE  \E i \in 1 .. n : y = s[i]
    <3>1. j + 1 \in 1 .. n /\ y = s[j + 1]
      BY <1>1, <1>3, <2>4
    <3> QED
      BY <3>1
  <2>5. 1 \in 1 .. n
    BY <1>1
  <2> QED
    BY <1>1, <2>1, <2>2, <2>3, <2>4, <2>5
<1>5. ToSet(s) = ToSet(t) \union {Head(s)}
  BY <1>4
<1> QED
  BY <1>2, <1>5 DEF t

\* What is in two sequences is in them one after the other.
LEMMA ConcatIsIn ==
    ASSUME NEW S, NEW s \in Seq(S), NEW t \in Seq(S)
    PROVE  ToSet(s) \subseteq ToSet(s \o t) /\ ToSet(t) \subseteq ToSet(s \o t)
<1> DEFINE c == s \o t
<1>1. /\ c \in Seq(S) /\ Len(c) = Len(s) + Len(t)
      /\ \A i \in 1 .. Len(s) + Len(t) : c[i] = IF i <= Len(s) THEN s[i] ELSE t[i - Len(s)]
  BY ConcatProperties
<1>2. /\ Len(s) \in Nat /\ Len(t) \in Nat /\ DOMAIN s = 1 .. Len(s) /\ DOMAIN t = 1 .. Len(t)
  BY LenProperties
<1>3. DOMAIN c = 1 .. Len(s) + Len(t)
  BY <1>1, LenProperties
<1> HIDE DEF c
<1>4. ASSUME NEW i \in 1 .. Len(s)
      PROVE  i \in 1 .. Len(s) + Len(t) /\ c[i] = s[i]
  BY <1>1, <1>2
<1>5. ASSUME NEW i \in 1 .. Len(t)
      PROVE  i + Len(s) \in 1 .. Len(s) + Len(t) /\ c[i + Len(s)] = t[i]
  <2>1. i + Len(s) \in 1 .. Len(s) + Len(t) /\ ~(i + Len(s) <= Len(s)) /\ (i + Len(s)) - Len(s) = i
    BY <1>2
  <2> QED
    BY <1>1, <2>1
<1>6. ToSet(s) \subseteq ToSet(c)
  BY <1>2, <1>3, <1>4 DEF ToSet
<1>7. ToSet(t) \subseteq ToSet(c)
  BY <1>2, <1>3, <1>5 DEF ToSet
<1> QED
  BY <1>6, <1>7 DEF c

\* putq and putbq put a message somewhere on the queue.
LEMMA PutKept ==
    ASSUME NEW s \in Seq(Msg), NEW m \in Msg
    PROVE  /\ PutQ(s, m) \in Seq(Msg) /\ ToSet(PutQ(s, m)) = ToSet(s) \union {m}
           /\ PutBq(s, m) \in Seq(Msg) /\ ToSet(PutBq(s, m)) = ToSet(s) \union {m}
<1>1. AfterPri(s) \in 1 .. Len(s) + 1
  <2> DEFINE P == {i \in DOMAIN s : IsPri(s[i])}
  <2>1. Len(s) \in Nat /\ DOMAIN s = 1 .. Len(s)
    BY LenProperties
  <2>2. IsFiniteSet(1 .. Len(s)) /\ Cardinality(1 .. Len(s)) = Len(s)
    BY <2>1, FS_Interval
  <2>3. P \in SUBSET (1 .. Len(s))
    BY <2>1
  <2> HIDE DEF P
  <2>4. IsFiniteSet(P) /\ Cardinality(P) <= Len(s)
    BY <2>2, <2>3, FS_Subset
  <2>5. Cardinality(P) \in Nat
    BY <2>4, FS_CardinalityType
  <2> QED
    BY <2>1, <2>4, <2>5 DEF AfterPri, P
<1>2. 1 \in 1 .. Len(s) + 1
  BY LenProperties
<1> QED
  BY <1>1, <1>2, InsertKept, AppendKept DEF PutQ, PutBq

-----------------------------------------------------------------------------
(* The queues                                                              *)

\* There are messages on the queues.
LEMMA QueuesKept ==
    ASSUME IInv, NEW r, Acts(r)
    PROVE  Queues'
<1>0. Queues /\ Locals
  BY DEF IInv
<1>d. Domains
  BY DomainsKnown
<1>1. CASE r \in Reader /\ TakeForRead(r)
  <2>1. q # <<>> /\ q' = Tail(q) /\ UNCHANGED <<rput, units>>
    BY <1>1 DEF TakeForRead, arrivals
  <2>2. Tail(q) \in Seq(Msg)
    BY <1>0, <2>1, TailKept DEF Queues
  <2> QED
    BY <1>0, <2>1, <2>2 DEF Queues
<1>2. CASE r \in Reader /\ TakeMsg(r)
  <2>1. q # <<>> /\ q' = Tail(q) /\ UNCHANGED <<rput, units>>
    BY <1>2 DEF TakeMsg, arrivals
  <2>2. Tail(q) \in Seq(Msg)
    BY <1>0, <2>1, TailKept DEF Queues
  <2> QED
    BY <1>0, <2>1, <2>2 DEF Queues
<1>3. CASE r \in Reader /\ PutBack(r)
  <2>1. q' = PutBq(q, rd[r].mp) /\ UNCHANGED <<rput, units>>
    BY <1>3 DEF PutBack, arrivals
  <2>2. q \in Seq(Msg) /\ rd[r].mp \in Msg
    BY <1>0, <1>3 DEF Queues, Locals, Record, Fields
  <2> QED
    BY <1>0, <2>1, <2>2, PutKept DEF Queues
<1>4. CASE r \in Reader /\ PutBackPriEnds(r)
  <2> DEFINE s == IF q # <<>> /\ IsPri(Head(q)) THEN Tail(q) ELSE q
  <2>1. q' = PutBq(s, rd[r].mp) /\ UNCHANGED <<rput, units>>
    BY <1>4 DEF PutBackPriEnds, arrivals
  <2>2. s \in Seq(Msg) /\ rd[r].mp \in Msg
    BY <1>0, <1>4, TailKept DEF Queues, Locals, Record, Fields
  <2> HIDE DEF s
  <2> QED
    BY <1>0, <2>1, <2>2, PutKept DEF Queues
<1>5. CASE DataArrives
  <2>1. PICK t \in {"DATA", "PROTO", "PCPROTO"}, n \in 1 .. 2 :
           LET m == [t |-> t, u |-> New(n)]
           IN  /\ rput' = rput \/ rput' = Append(rput, m)
               /\ units' = units + n
    BY <1>5 DEF DataArrives, PutRput
  <2>2. q' = q
    BY <1>5 DEF DataArrives
  <2> DEFINE m == [t |-> t, u |-> New(n)]
  <2>3. units \in Nat /\ rput \in Seq(Msg) /\ q \in Seq(Msg)
    BY <1>0 DEF Queues
  <2>4. m \in Msg
    <3>1. \A i \in 1 .. n : units + i \in Nat
      BY <2>3
    <3>2. New(n) \in Seq(Nat)
      BY <3>1 DEF New
    <3> QED
      BY <3>2 DEF Msg
  <2>5. units' \in Nat
    BY <2>1, <2>3
  <2> HIDE DEF m
  <2>6. Append(rput, m) \in Seq(Msg)
    BY <2>3, <2>4
  <2> QED
    BY <2>1, <2>2, <2>3, <2>5, <2>6 DEF Queues, m
<1>6. CASE HangupArrives
  <2>1. rput' = Append(rput, [t |-> "HANGUP", u |-> <<>>]) /\ UNCHANGED <<q, units>>
    BY <1>6 DEF HangupArrives, PutRput
  <2>2. [t |-> "HANGUP", u |-> <<>>] \in Msg
    BY DEF Msg
  <2> QED
    BY <1>0, <2>1, <2>2, AppendKept DEF Queues
<1>7. CASE FlushArrives
  <2>1. /\ \/ rput' = Append(rput, [t |-> "FLUSH", u |-> <<>>]) /\ q' = q
           \/ rput' = <<>> /\ q' = <<>>
        /\ UNCHANGED units
    BY <1>7 DEF FlushArrives, PutRput
  <2>2. [t |-> "FLUSH", u |-> <<>>] \in Msg
    BY DEF Msg
  <2>3. Append(rput, [t |-> "FLUSH", u |-> <<>>]) \in Seq(Msg) /\ <<>> \in Seq(Msg)
    BY <1>0, <2>2, AppendKept DEF Queues
  <2> QED
    BY <1>0, <2>1, <2>3 DEF Queues
<1>8. CASE ProcessData
  <2>1. PICK m \in ToSet(rput) : /\ rput # <<>> /\ rput' = Tail(rput) /\ Head(rput) = m
                                 /\ q' = PutQ(q, m) /\ units' = units
    BY <1>8 DEF ProcessData, Process, arrivals
  <2>2. Tail(rput) \in Seq(Msg) /\ m \in Msg /\ q \in Seq(Msg)
    BY <1>0, <2>1, TailKept DEF Queues
  <2> QED
    BY <1>0, <2>1, <2>2, PutKept DEF Queues
<1>9. CASE ProcessHangup
  <2>1. PICK m \in ToSet(rput) : /\ rput # <<>> /\ rput' = Tail(rput) /\ Head(rput) = m
                                 /\ q' = q /\ units' = units
    BY <1>9 DEF ProcessHangup, Process, arrivals
  <2>2. Tail(rput) \in Seq(Msg) /\ m \in Msg /\ q \in Seq(Msg)
    BY <1>0, <2>1, TailKept DEF Queues
  <2> QED
    BY <1>0, <2>1, <2>2 DEF Queues
<1>10. CASE ProcessFlush
  <2>1. PICK m \in ToSet(rput) : /\ rput # <<>> /\ rput' = Tail(rput) /\ Head(rput) = m
                                 /\ q' \in {q, <<>>} /\ units' = units
    BY <1>10 DEF ProcessFlush, Process, arrivals
  <2>2. Tail(rput) \in Seq(Msg) /\ m \in Msg /\ q \in Seq(Msg)
    BY <1>0, <2>1, TailKept DEF Queues
  <2>3. <<>> \in Seq(Msg)
    OBVIOUS
  <2> QED
    BY <1>0, <2>1, <2>2, <2>3 DEF Queues
<1>11. CASE (r \in Reader /\ (Begin(r) \/ GetReadSem(r) \/ LockQ(r) \/ HungUp(r)
     \/ WouldBlock(r) \/ WillSleep(r) \/ SleepOnWread(r) \/ WokenUp(r) \/
     WakeTest(r) \/ WakeUp(r) \/ ReadReady(r) \/ TakeNothing(r) \/ ReadMore(r)
     \/ ReadDone(r) \/ ReadPart(r) \/ ReadFault(r) \/ ReadProto(r) \/
     MsgReady(r) \/ NotTheMsg(r) \/ NoMsgEnds(r) \/ CopyMsg(r) \/ CopyMsgFault(r) \/
     PutBackPri(r) \/ ReadSemInterrupted(r) \/ WreadInterrupted(r))) \/ SrvStart
     \/ SrvEnd \/ PeerClose \/ Wakes
  <2>1. UNCHANGED <<q, rput, units>>
    BY <1>11 DEF Begin, GetReadSem, DownPasses, Goto, LockQ, HungUp, Rtn,
       WouldBlock, WillSleep, SleepOnWread, WokenUp, WakeTest, WakeUp,
       ReadReady, TakeNothing, ReadMore, ReadDone, ReadPart, ReadFault,
       ReadProto, PriCleared, MsgReady, NotTheMsg, NoMsgEnds, CopyMsg, CopyMsgFault,
       PutBackPri, ReadSemInterrupted, WreadInterrupted, SrvStart, SrvEnd,
       PeerClose, Wakes, WakeUps, WakeStep, At, queue, sems, count, arrivals,
       history
  <2> QED
    BY <1>0, <2>1 DEF Queues
<1> QED
  BY <1>1, <1>2, <1>3, <1>4, <1>5, <1>6, <1>7, <1>8, <1>9, <1>10, <1>11 DEF Acts

-----------------------------------------------------------------------------
(* The readers inside                                                      *)

Insiders == {v \in Reader : Inside(v)}

\* Three actions have to do with who is inside.
LEMMA InsidersStay ==
    ASSUME IInv, NEW r, Acts(r)
    PROVE  \/ r \in Reader /\ (GetReadSem(r) \/ WakeTest(r) \/ WakeUp(r))
           \/ /\ \A v \in Reader : Inside(v)' <=> Inside(v)
              /\ ~woken' => ~woken /\ sd_read_sem' = sd_read_sem
<1>0. Numbers
  BY DEF IInv
<1>o. Others(r)
  BY OthersKept
<1>d. Domains
  BY DomainsKnown
<1>1. CASE r \in Reader /\ GetReadSem(r)
  BY <1>1
<1>2. CASE r \in Reader /\ WakeTest(r)
  BY <1>2
<1>3. CASE r \in Reader /\ WakeUp(r)
  BY <1>3
<1>4. CASE r \in Reader /\ ReadMore(r)
  <2>1. rd[r] \in Record /\ Copied(r) \in Record
    BY <1>d, <1>4, CopiedKept DEF Domains
  <2>2. rd'[r].pc \in {"lock", "putback", "wake"} /\ rd[r].pc = "copy"
    BY <1>d, <2>1, <1>4 DEF ReadMore, ToUser, Rtn, Idle, Domains, Record, Fields, At
  <2>3. UNCHANGED <<sd_read_sem, woken>>
    BY <1>4 DEF ReadMore, sems, history
  <2> QED
    BY <1>o, <2>2, <2>3, <1>4 DEF Others, Inside
<1>5. CASE r \in Reader /\ ReadDone(r)
  <2>1. rd[r].pc \notin {"idle", "down"}
    BY <1>5 DEF ReadDone, At, ToUser
  <2>2. rd'[r].pc \notin {"idle", "down"}
    BY <1>d, <1>5 DEF ReadDone, Rtn, Idle, Domains, Record, Fields
  <2>3. UNCHANGED <<sd_read_sem, woken>>
    BY <1>5 DEF ReadDone, sems, history
  <2> QED
    BY <1>o, <2>1, <2>2, <2>3, <1>5 DEF Others, Inside
<1>6. CASE r \in Reader /\ ReadPart(r)
  <2>1. rd[r] \in Record /\ Copied(r) \in Record
    BY <1>d, <1>6, CopiedKept DEF Domains
  <2>2. rd'[r].pc \in {"lock", "putback", "wake"} /\ rd[r].pc = "copy"
    BY <1>d, <2>1, <1>6 DEF ReadPart, ToUser, Rtn, Idle, Domains, Record, Fields, At
  <2>3. UNCHANGED <<sd_read_sem, woken>>
    BY <1>6 DEF ReadPart, sems, history
  <2> QED
    BY <1>o, <2>2, <2>3, <1>6 DEF Others, Inside
<1>7. CASE r \in Reader /\ ReadFault(r)
  <2>1. rd[r].pc \notin {"idle", "down"}
    BY <1>7 DEF ReadFault, At, ToUser
  <2>2. rd'[r].pc \notin {"idle", "down"}
    BY <1>0, <1>7, FaultIs DEF IInv
  <2>3. UNCHANGED <<sd_read_sem, woken>>
    BY <1>7 DEF ReadFault, sems, history
  <2> QED
    BY <1>o, <2>1, <2>2, <2>3, <1>7 DEF Others, Inside
<1>8. CASE r \in Reader /\ ReadProto(r)
  <2>1. rd[r].pc \notin {"idle", "down"}
    BY <1>8 DEF ReadProto, At, ToUser
  <2>2. rd'[r].pc \notin {"idle", "down"}
    BY <1>d, <1>8 DEF ReadProto, Rtn, PriCleared, Idle, Domains, Record, Fields
  <2>3. UNCHANGED <<sd_read_sem, woken>>
    BY <1>8 DEF ReadProto, sems, history
  <2> QED
    BY <1>o, <2>1, <2>2, <2>3, <1>8 DEF Others, Inside
<1>9. CASE r \in Reader /\ CopyMsg(r)
  <2>1. rd[r] \in Record /\ Copied(r) \in Record
    BY <1>d, <1>9, CopiedKept DEF Domains
  <2>2. rd'[r].pc \in {"lock", "putback", "wake"} /\ rd[r].pc = "copy"
    BY <1>d, <2>1, <1>9 DEF CopyMsg, ToUser, Rtn, Idle, Domains, Record, Fields, At
  <2>3. UNCHANGED <<sd_read_sem, woken>>
    BY <1>9 DEF CopyMsg, sems, history
  <2> QED
    BY <1>o, <2>2, <2>3, <1>9 DEF Others, Inside
<1>10. CASE r \in Reader /\ PutBack(r)
  <2>1. rd[r].pc \notin {"idle", "down"}
    BY <1>10 DEF PutBack, At, ToUser
  <2>2. rd'[r].pc \notin {"idle", "down"}
    BY <1>d, <1>10 DEF PutBack, AfterPutBack, Rtn, Idle, Domains, Record, Fields
  <2>3. UNCHANGED <<sd_read_sem, woken>>
    BY <1>10 DEF PutBack, sems, history
  <2> QED
    BY <1>o, <2>1, <2>2, <2>3, <1>10 DEF Others, Inside
<1>11. CASE r \in Reader /\ Begin(r)
  BY <1>0, <1>o, <1>d, <1>11 DEF Begin, Numbers, Inside, Record, Fields, Idle,
     Others, Domains, At, queue, sems, count, arrivals, history
<1>12. CASE r \in Reader /\ LockQ(r)
  BY <1>0, <1>o, <1>d, <1>12 DEF LockQ, Goto, Numbers, Inside, Record, Fields,
     Idle, Others, Domains, At, queue, sems, count, arrivals, history
<1>13. CASE r \in Reader /\ HungUp(r)
  BY <1>0, <1>o, <1>d, <1>13 DEF HungUp, Rtn, Numbers, Inside, Record, Fields,
     Idle, Others, Domains, At, queue, sems, count, arrivals, history
<1>14. CASE r \in Reader /\ (WouldBlock(r) \/ WillSleep(r))
  <2>1. CASE WouldBlock(r)
    BY <1>0, <1>o, <1>d, <1>14, <2>1 DEF WouldBlock, Rtn, Numbers, Inside, Record,
       Fields, Idle, Others, Domains, At, sems, count, arrivals
  <2>2. CASE WillSleep(r)
    BY <1>0, <1>o, <1>d, <1>14, <2>2 DEF WillSleep, Goto, Numbers, Inside, Record,
       Fields, Others, Domains, At, sems, count, arrivals, history
  <2> QED
    BY <1>14, <2>1, <2>2
<1>15. CASE r \in Reader /\ SleepOnWread(r)
  BY <1>0, <1>o, <1>d, <1>15 DEF SleepOnWread, Goto, Numbers, Inside, Record,
     Fields, Idle, Others, Domains, At, queue, sems, count, arrivals, history
<1>16. CASE r \in Reader /\ (WokenUp(r) \/ ReadReady(r))
  BY <1>0, <1>o, <1>d, <1>16 DEF WokenUp, Goto, ReadReady, Numbers, Inside,
     Record, Fields, Idle, Others, Domains, At, queue, sems, count, arrivals,
     history
<1>17. CASE r \in Reader /\ TakeNothing(r)
  BY <1>0, <1>o, <1>d, <1>17 DEF TakeNothing, Rtn, Numbers, Inside, Record,
     Fields, Idle, Others, Domains, At, queue, sems, count, arrivals, history
<1>18. CASE r \in Reader /\ (TakeForRead(r) \/ MsgReady(r))
  BY <1>0, <1>o, <1>d, <1>18 DEF TakeForRead, MsgReady, Goto, Numbers, Inside,
     Record, Fields, Idle, Others, Domains, At, queue, sems, count, arrivals,
     history
<1>19. CASE r \in Reader /\ (NotTheMsg(r) \/ NoMsgEnds(r))
  <2>1. CASE NotTheMsg(r)
    BY <1>0, <1>o, <1>d, <1>19, <2>1 DEF NotTheMsg, Goto, Numbers, Inside, Record,
       Fields, Others, Domains, At, sems, history
  <2>2. CASE NoMsgEnds(r)
    BY <1>0, <1>o, <1>d, <1>19, <2>2 DEF NoMsgEnds, Rtn, Numbers, Inside, Record,
       Fields, Idle, Others, Domains, At, sems
  <2> QED
    BY <1>19, <2>1, <2>2
<1>20. CASE r \in Reader /\ (TakeMsg(r) \/ CopyMsgFault(r))
  BY <1>0, <1>o, <1>d, <1>20 DEF TakeMsg, CopyMsgFault, Rtn, Numbers, Inside,
     Record, Fields, Idle, Others, Domains, At, queue, sems, count, arrivals,
     history
<1>21. CASE r \in Reader /\ PutBackPri(r)
  BY <1>0, <1>o, <1>d, <1>21 DEF PutBackPri, Goto, Numbers, Inside, Record,
     Fields, Idle, Others, Domains, At, queue, sems, count, arrivals, history
<1>22. CASE r \in Reader /\ (PutBackPriEnds(r) \/ ReadSemInterrupted(r) \/
     WreadInterrupted(r))
  BY <1>0, <1>o, <1>d, <1>22 DEF PutBackPriEnds, Rtn, ReadSemInterrupted,
     WreadInterrupted, Numbers, Inside, Record, Fields, Idle, Others, Domains,
     At, queue, sems, count, arrivals, history
<1>23. CASE Wakes
  BY <1>0, <1>o, <1>d, <1>23 DEF Wakes, WakeUps, WakeStep, Numbers, Inside,
     Record, Fields, Idle, Others, Domains, At, queue, sems, count, arrivals,
     history
<1>24. CASE DataArrives \/ HangupArrives \/ FlushArrives \/ SrvStart \/
     ProcessData \/ ProcessHangup \/ ProcessFlush \/ SrvEnd \/ PeerClose
  <2>1. UNCHANGED <<rd, sd_read_sem, woken>>
    BY <1>24 DEF DataArrives, PutRput, Discards, HangupArrives, FlushArrives,
       PriAfterFlush, SrvStart, ProcessData, Process, ProcessHangup,
       ProcessFlush, SrvEnd, PeerClose, At, queue, sems, count, arrivals,
       history
  <2> QED
    BY <1>0, <2>1 DEF Numbers, Inside, Record, Fields, Idle, At
<1> QED
  BY <1>1, <1>2, <1>3, <1>4, <1>5, <1>6, <1>7, <1>8, <1>9, <1>10, <1>11, <1>12,
     <1>13, <1>14, <1>15, <1>16, <1>17, <1>18, <1>19, <1>20, <1>21, <1>22,
     <1>23, <1>24 DEF Acts

\* sd_read_sem and the readers inside add up to one at most.
LEMMA OneEntersKept ==
    ASSUME IInv, NEW r, Acts(r)
    PROVE  OneEnters'
<1>0. Numbers /\ OneEnters
  BY DEF IInv
<1>o. Others(r)
  BY OthersKept
<1>d. Domains
  BY DomainsKnown
<1>f. IsFiniteSet(Insiders) /\ Cardinality(Insiders) \in Int
  <2>1. IsFiniteSet(Insiders)
    BY ReaderAssumption, FS_Subset DEF Insiders
  <2>2. Cardinality(Insiders) \in Nat
    BY <2>1, FS_CardinalityType
  <2> QED
    BY <2>1, <2>2
<1>1. CASE r \in Reader /\ GetReadSem(r)
  <2>1. r \in Reader /\ rd[r].pc = "down" /\ rd'[r].pc = "lock"
    BY <1>d, <1>1 DEF GetReadSem, Domains, Record, Fields, At, Goto
  <2>2. Insiders' = Insiders \union {r} /\ r \notin Insiders
    <3>1. \A v \in Reader : Inside(v)' <=> v = r \/ Inside(v)
      BY <1>o, <2>1 DEF Others, Inside
    <3> QED
      BY <2>1, <3>1 DEF Insiders, Inside
  <2>3. Cardinality(Insiders') = Cardinality(Insiders) + 1
    BY <1>f, <2>2, FS_AddElement
  <2>4. sd_read_sem' = sd_read_sem - 1 /\ woken' = woken
    BY <1>1 DEF GetReadSem, history
  <2> QED
    BY <1>0, <1>f, <2>3, <2>4 DEF OneEnters, Insiders, Numbers
<1>2. CASE r \in Reader /\ WakeUp(r)
  <2>1. r \in Reader /\ rd[r].pc = "up" /\ rd'[r].pc = "idle"
    BY <1>d, <1>2 DEF WakeUp, Domains, Record, Fields, At, Idle
  <2>2. Insiders' = Insiders \ {r} /\ r \in Insiders
    <3>1. \A v \in Reader : Inside(v)' <=> v # r /\ Inside(v)
      BY <1>o, <2>1 DEF Others, Inside
    <3> QED
      BY <2>1, <3>1 DEF Insiders, Inside
  <2>3. Cardinality(Insiders') = Cardinality(Insiders) - 1
    BY <1>f, <2>2, FS_RemoveElement
  <2>4. sd_read_sem' = sd_read_sem + 1 /\ woken' = woken
    BY <1>2 DEF WakeUp, history
  <2> QED
    BY <1>0, <1>f, <2>3, <2>4 DEF OneEnters, Insiders, Numbers
<1>3. CASE r \in Reader /\ WakeTest(r)
  <2>1. Insiders' \in SUBSET Insiders
    <3>1. \A v \in Reader : Inside(v)' => Inside(v)
      <4>1. rd[r].pc = "wake"
        BY <1>3 DEF WakeTest, At
      <4> QED
        BY <1>o, <4>1 DEF Others, Inside
    <3> QED
      BY <3>1 DEF Insiders
  <2>2. Cardinality(Insiders') <= Cardinality(Insiders) /\ IsFiniteSet(Insiders')
    BY <1>f, <2>1, FS_Subset
  <2>3. Cardinality(Insiders') \in Int
    BY <2>2, FS_CardinalityType
  <2>4. UNCHANGED <<sd_read_sem, woken>>
    BY <1>3 DEF WakeTest, sems, history
  <2> QED
    BY <1>0, <1>f, <2>2, <2>3, <2>4 DEF OneEnters, Insiders, Numbers
<1>4. CASE /\ \A v \in Reader : Inside(v)' <=> Inside(v)
           /\ ~woken' => ~woken /\ sd_read_sem' = sd_read_sem
  <2>1. Insiders' = Insiders
    BY <1>4 DEF Insiders
  <2> QED
    BY <1>0, <1>4, <2>1 DEF OneEnters, Insiders
<1> QED
  BY <1>1, <1>2, <1>3, <1>4, InsidersStay

-----------------------------------------------------------------------------
(* STRPRI                                                                  *)

\* The messages of other readers stay.
LEMMA OthersHold ==
    ASSUME PriIsFound, NEW r, Others(r), ~At(r, "putbackpri")'
    PROVE  /\ ~Held(r) => \A v \in Reader : Held(v) => Held(v)'
           /\ \A v \in Reader : At(v, "putbackpri")' => IsPri(rd'[v].mp)
<1>1. ASSUME ~Held(r), NEW v \in Reader, Held(v)
      PROVE  Held(v)'
  <2>1. rd'[v] = rd[v]
    BY <1>1 DEF Others
  <2> QED
    BY <1>1, <2>1 DEF Held, At, IsPri
<1>2. ASSUME NEW v \in Reader, At(v, "putbackpri")'
      PROVE  IsPri(rd'[v].mp)
  <2>1. rd'[v] = rd[v]
    BY <1>2 DEF Others
  <2> QED
    BY <1>2, <2>1 DEF PriIsFound, At
<1> QED
  BY <1>1, <1>2

\* A message that STRPRI stands for stays with its reader.
LEMMA HeldStays ==
    ASSUME IInv, NEW r, Acts(r)
    PROVE  \/ r \in Reader /\ (PutBackPri(r) \/ PutBackPriEnds(r))
           \/ DataArrives
           \/ /\ STRPRI' => STRPRI /\ \A v \in Reader : Held(v) => Held(v)'
              /\ \A v \in Reader : At(v, "putbackpri")' => IsPri(rd'[v].mp)
<1>0. Numbers /\ PriIsFound
  BY DEF IInv
<1>o. Others(r)
  BY OthersKept
<1>d. Domains
  BY DomainsKnown
<1>1. CASE r \in Reader /\ WakeTest(r)
  <2>1. r \in Reader /\ ~Held(r) /\ STRPRI' = STRPRI
    BY <1>1 DEF WakeTest, ToUser, IsPri, Held, At, queue
  <2>2. ~At(r, "putbackpri")'
    <3>1. rd[r] \in Record /\ Copied(r) \in Record
      BY <1>d, <2>1, CopiedKept DEF Domains
    <3> QED
      BY <1>d, <3>1, <1>1 DEF WakeTest, Goto, Idle, Domains, Record, Fields, At
  <2> QED
    BY <1>0, <1>o, <2>1, <2>2, OthersHold
<1>2. CASE r \in Reader /\ WakeUp(r)
  <2>1. r \in Reader /\ ~Held(r) /\ STRPRI' = STRPRI
    BY <1>2 DEF WakeUp, ToUser, IsPri, Held, At, queue
  <2>2. ~At(r, "putbackpri")'
    <3>1. rd[r] \in Record /\ Copied(r) \in Record
      BY <1>d, <2>1, CopiedKept DEF Domains
    <3> QED
      BY <1>d, <3>1, <1>2 DEF WakeUp, Idle, Domains, Record, Fields, At
  <2> QED
    BY <1>0, <1>o, <2>1, <2>2, OthersHold
<1>3. CASE r \in Reader /\ ReadReady(r)
  <2>1. r \in Reader /\ ~Held(r) /\ STRPRI' = STRPRI
    BY <1>3 DEF ReadReady, ToUser, IsPri, Held, At, queue
  <2>2. ~At(r, "putbackpri")'
    <3>1. rd[r] \in Record /\ Copied(r) \in Record
      BY <1>d, <2>1, CopiedKept DEF Domains
    <3> QED
      BY <1>d, <3>1, <1>3 DEF ReadReady, Goto, Idle, Domains, Record, Fields, At
  <2> QED
    BY <1>0, <1>o, <2>1, <2>2, OthersHold
<1>4. CASE r \in Reader /\ TakeForRead(r)
  <2>1. r \in Reader /\ ~Held(r) /\ STRPRI' = STRPRI
    BY <1>4 DEF TakeForRead, ToUser, IsPri, Held, At, queue
  <2>2. ~At(r, "putbackpri")'
    <3>1. rd[r] \in Record /\ Copied(r) \in Record
      BY <1>d, <2>1, CopiedKept DEF Domains
    <3> QED
      BY <1>d, <3>1, <1>4 DEF TakeForRead, Idle, Domains, Record, Fields, At
  <2> QED
    BY <1>0, <1>o, <2>1, <2>2, OthersHold
<1>5. CASE r \in Reader /\ ReadMore(r)
  <2>1. r \in Reader /\ ~Held(r) /\ STRPRI' = STRPRI
    BY <1>5 DEF ReadMore, ToUser, IsPri, Held, At, queue
  <2>2. ~At(r, "putbackpri")'
    <3>1. rd[r] \in Record /\ Copied(r) \in Record
      BY <1>d, <2>1, CopiedKept DEF Domains
    <3> QED
      BY <1>d, <3>1, <1>5 DEF ReadMore, Idle, Domains, Record, Fields, At
  <2> QED
    BY <1>0, <1>o, <2>1, <2>2, OthersHold
<1>6. CASE r \in Reader /\ ReadDone(r)
  <2>1. r \in Reader /\ ~Held(r) /\ STRPRI' = STRPRI
    BY <1>6 DEF ReadDone, ToUser, IsPri, Held, At, queue
  <2>2. ~At(r, "putbackpri")'
    <3>1. rd[r] \in Record /\ Copied(r) \in Record
      BY <1>d, <2>1, CopiedKept DEF Domains
    <3> QED
      BY <1>d, <3>1, <1>6 DEF ReadDone, Rtn, Idle, Domains, Record, Fields, At
  <2> QED
    BY <1>0, <1>o, <2>1, <2>2, OthersHold
<1>7. CASE r \in Reader /\ ReadPart(r)
  <2>1. r \in Reader /\ ~Held(r) /\ STRPRI' = STRPRI
    BY <1>7 DEF ReadPart, ToUser, IsPri, Held, At, queue
  <2>2. ~At(r, "putbackpri")'
    <3>1. rd[r] \in Record /\ Copied(r) \in Record
      BY <1>d, <2>1, CopiedKept DEF Domains
    <3> QED
      BY <1>d, <3>1, <1>7 DEF ReadPart, Idle, Domains, Record, Fields, At
  <2> QED
    BY <1>0, <1>o, <2>1, <2>2, OthersHold
<1>8. CASE r \in Reader /\ ReadFault(r)
  <2>1. r \in Reader /\ ~Held(r) /\ STRPRI' = STRPRI
    BY <1>8 DEF ReadFault, ToUser, IsPri, Held, At, queue
  <2>2. ~At(r, "putbackpri")'
    BY <1>0, <1>8, FaultIs DEF IInv, At
  <2> QED
    BY <1>0, <1>o, <2>1, <2>2, OthersHold
<1>9. CASE r \in Reader /\ ReadProto(r)
  <2>1. r \in Reader /\ STRPRI' = (STRPRI /\ ~IsPri(rd[r].mp))
    BY <1>9 DEF ReadProto, PriCleared
  <2>2. ~At(r, "putbackpri")'
    BY <1>d, <1>9 DEF ReadProto, Rtn, Idle, Domains, Record, Fields, At
  <2>3. STRPRI' => STRPRI /\ ~Held(r)
    BY <2>1 DEF Held
  <2> QED
    BY <1>0, <1>o, <2>2, <2>3, OthersHold
<1>10. CASE r \in Reader /\ CopyMsg(r)
  <2>1. r \in Reader /\ ~Held(r) /\ STRPRI' = STRPRI
    BY <1>10 DEF CopyMsg, ToUser, IsPri, Held, At, queue
  <2>2. ~At(r, "putbackpri")'
    <3>1. rd[r] \in Record /\ Copied(r) \in Record
      BY <1>d, <2>1, CopiedKept DEF Domains
    <3> QED
      BY <1>d, <3>1, <1>10 DEF CopyMsg, Rtn, Idle, Domains, Record, Fields, At
  <2> QED
    BY <1>0, <1>o, <2>1, <2>2, OthersHold
<1>11. CASE r \in Reader /\ CopyMsgFault(r)
  <2>1. r \in Reader /\ ~Held(r) /\ STRPRI' = STRPRI
    BY <1>11 DEF CopyMsgFault, ToUser, IsPri, Held, At, queue
  <2>2. ~At(r, "putbackpri")'
    <3>1. rd[r] \in Record /\ Copied(r) \in Record
      BY <1>d, <2>1, CopiedKept DEF Domains
    <3> QED
      BY <1>d, <3>1, <1>11 DEF CopyMsgFault, Rtn, Idle, Domains, Record, Fields, At
  <2> QED
    BY <1>0, <1>o, <2>1, <2>2, OthersHold
<1>12. CASE r \in Reader /\ PutBack(r)
  <2>1. r \in Reader /\ ~Held(r) /\ STRPRI' = STRPRI
    BY <1>12 DEF PutBack, ToUser, IsPri, Held, At, queue
  <2>2. ~At(r, "putbackpri")'
    <3>1. rd[r] \in Record /\ Copied(r) \in Record
      BY <1>d, <2>1, CopiedKept DEF Domains
    <3> QED
      BY <1>d, <3>1, <1>12 DEF PutBack, AfterPutBack, Rtn, Idle, Domains, Record, Fields, At
  <2> QED
    BY <1>0, <1>o, <2>1, <2>2, OthersHold
<1>13. CASE r \in Reader /\ PutBackPri(r)
  BY <1>13
<1>14. CASE r \in Reader /\ PutBackPriEnds(r)
  BY <1>14
<1>15. CASE r \in Reader /\ ReadSemInterrupted(r)
  <2>1. r \in Reader /\ ~Held(r) /\ STRPRI' = STRPRI
    BY <1>15 DEF ReadSemInterrupted, ToUser, IsPri, Held, At, queue
  <2>2. ~At(r, "putbackpri")'
    <3>1. rd[r] \in Record /\ Copied(r) \in Record
      BY <1>d, <2>1, CopiedKept DEF Domains
    <3> QED
      BY <1>d, <3>1, <1>15 DEF ReadSemInterrupted, Idle, Domains, Record, Fields, At
  <2> QED
    BY <1>0, <1>o, <2>1, <2>2, OthersHold
<1>16. CASE r \in Reader /\ WreadInterrupted(r)
  <2>1. r \in Reader /\ ~Held(r) /\ STRPRI' = STRPRI
    BY <1>16 DEF WreadInterrupted, ToUser, IsPri, Held, At, queue
  <2>2. ~At(r, "putbackpri")'
    <3>1. rd[r] \in Record /\ Copied(r) \in Record
      BY <1>d, <2>1, CopiedKept DEF Domains
    <3> QED
      BY <1>d, <3>1, <1>16 DEF WreadInterrupted, Rtn, Idle, Domains, Record, Fields, At
  <2> QED
    BY <1>0, <1>o, <2>1, <2>2, OthersHold
<1>17. CASE DataArrives
  BY <1>17
<1>18. CASE r \in Reader /\ Begin(r)
  BY <1>0, <1>o, <1>d, <1>18 DEF Begin, Numbers, PriIsFound, Held, Record,
     Fields, Idle, Others, Domains, At, queue, sems, count, arrivals, history
<1>19. CASE r \in Reader /\ GetReadSem(r)
  BY <1>0, <1>o, <1>d, <1>19 DEF GetReadSem, DownPasses, Goto, Numbers,
     PriIsFound, Held, Record, Fields, Idle, Others, Domains, At, queue, sems,
     count, arrivals, history
<1>20. CASE r \in Reader /\ LockQ(r)
  BY <1>0, <1>o, <1>d, <1>20 DEF LockQ, Goto, Numbers, PriIsFound, Held, Record,
     Fields, Idle, Others, Domains, At, queue, sems, count, arrivals, history
<1>21. CASE r \in Reader /\ (HungUp(r) \/ WouldBlock(r) \/ WillSleep(r))
  <2>1. CASE HungUp(r)
    BY <1>0, <1>o, <1>d, <1>21, <2>1 DEF HungUp, Rtn,
       PriIsFound, Held, Record, Fields, Idle, Others, Domains, At
  <2>2. CASE WouldBlock(r)
    BY <1>0, <1>o, <1>d, <1>21, <2>2 DEF WouldBlock, Rtn,
       PriIsFound, Held, Record, Fields, Idle, Others, Domains, At
  <2>3. CASE WillSleep(r)
    BY <1>0, <1>o, <1>d, <1>21, <2>3 DEF WillSleep, Goto,
       PriIsFound, Held, Record, Fields, Others, Domains, At
  <2> QED
    BY <1>21, <2>1, <2>2, <2>3
<1>22. CASE r \in Reader /\ (SleepOnWread(r) \/ WokenUp(r))
  BY <1>0, <1>o, <1>d, <1>22 DEF SleepOnWread, Goto, WokenUp, Numbers,
     PriIsFound, Held, Record, Fields, Idle, Others, Domains, At, queue, sems,
     count, arrivals, history
<1>23. CASE r \in Reader /\ TakeNothing(r)
  BY <1>0, <1>o, <1>d, <1>23 DEF TakeNothing, Rtn, Numbers, PriIsFound, Held,
     Record, Fields, Idle, Others, Domains, At, queue, sems, count, arrivals,
     history
<1>24. CASE r \in Reader /\ (MsgReady(r) \/ NotTheMsg(r) \/ NoMsgEnds(r))
  <2>1. CASE MsgReady(r)
    BY <1>0, <1>o, <1>d, <1>24, <2>1 DEF MsgReady, Goto,
       PriIsFound, Held, Record, Fields, Others, Domains, At
  <2>2. CASE NotTheMsg(r)
    BY <1>0, <1>o, <1>d, <1>24, <2>2 DEF NotTheMsg, Goto,
       PriIsFound, Held, Record, Fields, Others, Domains, At
  <2>3. CASE NoMsgEnds(r)
    BY <1>0, <1>o, <1>d, <1>24, <2>3 DEF NoMsgEnds, Rtn,
       PriIsFound, Held, Record, Fields, Idle, Others, Domains, At
  <2> QED
    BY <1>24, <2>1, <2>2, <2>3
<1>25. CASE r \in Reader /\ TakeMsg(r)
  BY <1>0, <1>o, <1>d, <1>25 DEF TakeMsg, Numbers, PriIsFound, Held, Record,
     Fields, Idle, Others, Domains, At, queue, sems, count, arrivals, history
<1>26. CASE FlushArrives \/ ProcessFlush
  BY <1>0, <1>o, <1>d, <1>26 DEF FlushArrives, PutRput, PriAfterFlush,
     ProcessFlush, Process, Numbers, PriIsFound, Held, Record, Fields, Idle,
     Others, Domains, At, queue, sems, count, arrivals, history
<1>27. CASE HangupArrives \/ SrvStart \/ ProcessData \/ ProcessHangup \/ SrvEnd
     \/ PeerClose \/ Wakes
  <2>1. UNCHANGED <<rd, STRPRI>>
    BY <1>27 DEF HangupArrives, PutRput, SrvStart, ProcessData, Process,
       ProcessHangup, SrvEnd, PeerClose, Wakes, WakeUps, WakeStep, At, queue,
       sems, count, arrivals, history
  <2> QED
    BY <1>0, <2>1 DEF Numbers, PriIsFound, Held, Record, Fields, Idle, At
<1> QED
  BY <1>1, <1>2, <1>3, <1>4, <1>5, <1>6, <1>7, <1>8, <1>9, <1>10, <1>11, <1>12,
     <1>13, <1>14, <1>15, <1>16, <1>17, <1>18, <1>19, <1>20, <1>21, <1>22,
     <1>23, <1>24, <1>25, <1>26, <1>27 DEF Acts

\* A sequence has a message of high priority if it has been added, or was there.
LEMMA HasPriSplit ==
    ASSUME NEW s, NEW t, NEW x, ToSet(s) = ToSet(t) \union {x}
    PROVE  HasPri(s) <=> HasPri(t) \/ IsPri(x)
  BY DEF HasPri

\* A message that STRPRI stands for stays on the queues, or its taker has it.
LEMMA PriRemains ==
    ASSUME IInv, NEW r, Acts(r)
    PROVE  (STRPRI' /\ (HasPri(q) \/ HasPri(rput) \/ (DataArrives /\ ~STRPRI))) =>
              (HasPri(q') \/ HasPri(rput') \/ \E v \in Reader : Held(v)')
<1>0. Queues /\ Numbers /\ PriIsFound
  BY DEF IInv
<1>d. Domains
  BY DomainsKnown
<1>1. CASE r \in Reader /\ TakeForRead(r)
  <2>1. q # <<>> /\ q' = Tail(q) /\ rput' = rput /\ (STRPRI' => STRPRI)
    BY <1>1 DEF TakeForRead, queue
  <2>2. ToSet(q) = ToSet(Tail(q)) \union {Head(q)}
    BY <1>0, <2>1, TailKept DEF Queues
  <2>3. IsPri(Head(q)) => Held(r)'
    BY <1>d, <1>1 DEF TakeForRead, Domains, Record, Fields, At, Held, IsPri
  <2>4. HasPri(q) <=> HasPri(Tail(q)) \/ IsPri(Head(q))
    BY <2>2, HasPriSplit
  <2>5. HasPri(q') = HasPri(Tail(q)) /\ HasPri(rput') = HasPri(rput) /\ r \in Reader
    BY <2>1, <1>1
  <2> QED
    BY <2>1, <2>3, <2>4, <2>5
<1>2. CASE r \in Reader /\ TakeMsg(r)
  <2>1. q # <<>> /\ q' = Tail(q) /\ rput' = rput /\ (STRPRI' => STRPRI)
    BY <1>2 DEF TakeMsg, queue
  <2>2. ToSet(q) = ToSet(Tail(q)) \union {Head(q)}
    BY <1>0, <2>1, TailKept DEF Queues
  <2>3. STRPRI' => ~IsPri(Head(q))
    BY <1>2 DEF TakeMsg
  <2>4. HasPri(q) <=> HasPri(Tail(q)) \/ IsPri(Head(q))
    BY <2>2, HasPriSplit
  <2>5. HasPri(q') = HasPri(Tail(q)) /\ HasPri(rput') = HasPri(rput)
    BY <2>1
  <2> QED
    BY <2>1, <2>3, <2>4, <2>5
<1>3. CASE r \in Reader /\ PutBack(r)
  <2>1. q' = PutBq(q, rd[r].mp) /\ rput' = rput /\ STRPRI' = STRPRI
    BY <1>3 DEF PutBack
  <2>2. ToSet(q') = ToSet(q) \union {rd[r].mp}
    BY <1>0, <1>d, <2>1, <1>3, PutKept DEF Queues, Domains, Record, Fields
  <2> QED
    BY <2>1, <2>2, HasPriSplit
<1>4. CASE r \in Reader /\ PutBackPri(r)
  <2>1. UNCHANGED <<q, rput>> /\ r \in Reader
    BY <1>4 DEF PutBackPri
  <2>2. Held(r)'
    BY <1>d, <1>4 DEF PutBackPri, Goto, Domains, Record, Fields, Held, At, IsPri
  <2> QED
    BY <2>1, <2>2
<1>5. CASE r \in Reader /\ PutBackPriEnds(r)
  <2> DEFINE s == IF q # <<>> /\ IsPri(Head(q)) THEN Tail(q) ELSE q
  <2>1. q' = PutBq(s, rd[r].mp)
    BY <1>5 DEF PutBackPriEnds
  <2>2. s \in Seq(Msg) /\ rd[r].mp \in Msg
    BY <1>0, <1>d, <1>5, TailKept DEF Queues, Domains, Record, Fields
  <2> HIDE DEF s
  <2>3. ToSet(q') = ToSet(s) \union {rd[r].mp}
    BY <2>1, <2>2, PutKept
  <2>4. IsPri(rd[r].mp)
    BY <1>0, <1>5 DEF PriIsFound, PutBackPriEnds
  <2> QED
    BY <2>3, <2>4, HasPriSplit
<1>6. CASE DataArrives
  <2>1. q' = q
    BY <1>6 DEF DataArrives
  <2>2. PICK t \in {"DATA", "PROTO", "PCPROTO"}, n \in 1 .. 2 :
           LET m == [t |-> t, u |-> New(n)]
           IN  \/ rput' = rput /\ STRPRI' = STRPRI
               \/ rput' = Append(rput, m) /\ STRPRI' = (STRPRI \/ IsPri(m))
    BY <1>6 DEF DataArrives, PutRput
  <2> DEFINE m == [t |-> t, u |-> New(n)]
  <2>3. m \in Msg
    <3>1. \A i \in 1 .. n : units + i \in Nat
      BY <1>0 DEF Queues
    <3>2. New(n) \in Seq(Nat)
      BY <3>1 DEF New
    <3> QED
      BY <3>2 DEF Msg
  <2>4. rput \in Seq(Msg)
    BY <1>0 DEF Queues
  <2> HIDE DEF m
  <2>5. ToSet(Append(rput, m)) = ToSet(rput) \union {m}
    BY <2>3, <2>4, AppendKept
  <2>6. CASE rput' = rput /\ STRPRI' = STRPRI
    BY <2>1, <2>6
  <2>7. CASE rput' = Append(rput, m) /\ STRPRI' = (STRPRI \/ IsPri(m))
    BY <2>1, <2>5, <2>7, HasPriSplit
  <2> QED
    BY <2>2, <2>6, <2>7 DEF m
<1>7. CASE HangupArrives
  <2>1. rput' = Append(rput, [t |-> "HANGUP", u |-> <<>>]) /\ UNCHANGED <<q, STRPRI>>
    BY <1>7 DEF HangupArrives, PutRput
  <2>2. [t |-> "HANGUP", u |-> <<>>] \in Msg
    BY DEF Msg
  <2>3. ToSet(rput') = ToSet(rput) \union {[t |-> "HANGUP", u |-> <<>>]}
    BY <1>0, <2>1, <2>2, AppendKept DEF Queues
  <2>4. HasPri(rput) => HasPri(rput')
    BY <2>3, HasPriSplit
  <2>5. HasPri(q') = HasPri(q) /\ STRPRI' = STRPRI
    BY <2>1
  <2> QED
    BY <2>4, <2>5
<1>8. CASE FlushArrives
  <2>1. \/ rput' = Append(rput, [t |-> "FLUSH", u |-> <<>>]) /\ q' = q /\ STRPRI' = STRPRI
        \/ ~STRPRI'
    BY <1>8 DEF FlushArrives, PutRput, PriAfterFlush
  <2>2. [t |-> "FLUSH", u |-> <<>>] \in Msg
    BY DEF Msg
  <2>3. ToSet(Append(rput, [t |-> "FLUSH", u |-> <<>>])) =
           ToSet(rput) \union {[t |-> "FLUSH", u |-> <<>>]}
    BY <1>0, <2>2, AppendKept DEF Queues
  <2>4. HasPri(rput) => HasPri(Append(rput, [t |-> "FLUSH", u |-> <<>>]))
    BY <2>3, HasPriSplit
  <2>5. CASE ~STRPRI'
    BY <2>5
  <2>6. CASE /\ rput' = Append(rput, [t |-> "FLUSH", u |-> <<>>]) /\ q' = q
             /\ STRPRI' = STRPRI
    <3>1. HasPri(q') = HasPri(q) /\ (HasPri(rput) => HasPri(rput'))
      BY <2>4, <2>6
    <3> QED
      BY <2>6, <3>1
  <2> QED
    BY <2>1, <2>5, <2>6
<1>9. CASE ProcessData
  <2>1. PICK m \in ToSet(rput) : /\ rput # <<>> /\ rput' = Tail(rput) /\ Head(rput) = m
                                 /\ q' = PutQ(q, m) /\ STRPRI' = STRPRI
    BY <1>9 DEF ProcessData, Process
  <2>2. ToSet(rput) = ToSet(Tail(rput)) \union {m} /\ m \in Msg
    BY <1>0, <2>1, TailKept DEF Queues
  <2>3. ToSet(q') = ToSet(q) \union {m}
    BY <1>0, <2>1, <2>2, PutKept DEF Queues
  <2> QED
    BY <2>1, <2>2, <2>3, HasPriSplit
<1>10. CASE ProcessHangup
  <2>1. PICK m \in ToSet(rput) : /\ rput # <<>> /\ rput' = Tail(rput) /\ Head(rput) = m
                                 /\ q' = q /\ STRPRI' = STRPRI /\ m.t = "HANGUP"
    BY <1>10 DEF ProcessHangup, Process
  <2>2. ToSet(rput) = ToSet(Tail(rput)) \union {m} /\ m \in Msg
    BY <1>0, <2>1, TailKept DEF Queues
  <2>3. ~IsPri(m)
    BY <2>1 DEF IsPri
  <2> QED
    BY <2>1, <2>2, <2>3, HasPriSplit
<1>11. CASE ProcessFlush
  <2>1. PICK m \in ToSet(rput) : /\ rput # <<>> /\ rput' = Tail(rput) /\ Head(rput) = m
                                 /\ (q' = q /\ STRPRI' = STRPRI) \/ ~STRPRI'
                                 /\ m.t = "FLUSH"
    BY <1>11 DEF ProcessFlush, PriAfterFlush, Process
  <2>2. ToSet(rput) = ToSet(Tail(rput)) \union {m} /\ m \in Msg
    BY <1>0, <2>1, TailKept DEF Queues
  <2>3. ~IsPri(m)
    BY <2>1 DEF IsPri
  <2> QED
    BY <2>1, <2>2, <2>3, HasPriSplit
<1>12. CASE r \in Reader /\ ReadProto(r)
  BY <1>0, <1>d, <1>12 DEF ReadProto, Rtn, PriCleared, Others, Domains, At,
     queue, sems, count, arrivals, history
<1>13. CASE (r \in Reader /\ (Begin(r) \/ GetReadSem(r) \/ LockQ(r) \/ HungUp(r)
     \/ WouldBlock(r) \/ WillSleep(r) \/ SleepOnWread(r) \/ WokenUp(r) \/
     WakeTest(r) \/ WakeUp(r) \/ ReadReady(r) \/ TakeNothing(r) \/ ReadMore(r)
     \/ ReadDone(r) \/ ReadPart(r) \/ ReadFault(r) \/ MsgReady(r) \/
     NotTheMsg(r) \/ NoMsgEnds(r) \/ CopyMsg(r) \/ CopyMsgFault(r) \/ ReadSemInterrupted(r) \/
     WreadInterrupted(r))) \/ SrvStart \/ SrvEnd \/ PeerClose \/ Wakes
  <2>1. UNCHANGED <<q, rput, STRPRI>>
    BY <1>13 DEF Begin, GetReadSem, DownPasses, Goto, LockQ, HungUp, Rtn,
       WouldBlock, WillSleep, SleepOnWread, WokenUp, WakeTest, WakeUp,
       ReadReady, TakeNothing, ReadMore, ReadDone, ReadPart, ReadFault,
       MsgReady, NotTheMsg, NoMsgEnds, CopyMsg, CopyMsgFault, ReadSemInterrupted,
       WreadInterrupted, SrvStart, SrvEnd, PeerClose, Wakes, WakeUps, WakeStep,
       At, queue, sems, count, arrivals, history
  <2> QED
    BY <1>0, <2>1
<1> QED
  BY <1>1, <1>2, <1>3, <1>4, <1>5, <1>6, <1>7, <1>8, <1>9, <1>10, <1>11, <1>12,
     <1>13 DEF Acts

\* STRPRI stands for a message.
LEMMA PriIsFoundKept ==
    ASSUME IInv, NEW r, Acts(r)
    PROVE  PriIsFound'
<1>0. Queues /\ Numbers /\ PriIsFound
  BY DEF IInv
<1>o. Others(r)
  BY OthersKept
<1>d. Domains
  BY DomainsKnown
<1>1. CASE r \in Reader /\ PutBackPri(r)
  <2>1. rd'[r].pc = "putbackpri" /\ IsPri(rd[r].mp) /\ rd'[r].mp = rd[r].mp
    BY <1>d, <1>1 DEF PutBackPri, Goto, Domains, Record, Fields
  <2>2. Held(r)' /\ IsPri(rd'[r].mp)
    BY <2>1 DEF Held, At, IsPri
  <2>3. ASSUME NEW v \in Reader, At(v, "putbackpri")'
        PROVE  IsPri(rd'[v].mp)
    <3>1. CASE v = r
      BY <2>2, <3>1
    <3>2. CASE v # r
      BY <1>0, <1>o, <2>3, <3>2 DEF PriIsFound, Others, At
    <3> QED
      BY <3>1, <3>2
  <2> QED
    BY <1>1, <2>2, <2>3 DEF PriIsFound
<1>2. CASE r \in Reader /\ PutBackPriEnds(r)
  <2>1. ~At(r, "putbackpri")'
    BY <1>d, <1>2 DEF PutBackPriEnds, Rtn, Idle, Domains, Record, Fields, At
  <2>2. \A v \in Reader : At(v, "putbackpri")' => IsPri(rd'[v].mp)
    BY <1>0, <1>o, <2>1, OthersHold
  <2>3. HasPri(q')
    <3> DEFINE s == IF q # <<>> /\ IsPri(Head(q)) THEN Tail(q) ELSE q
    <3>1. q' = PutBq(s, rd[r].mp)
      BY <1>2 DEF PutBackPriEnds
    <3>2. s \in Seq(Msg) /\ rd[r].mp \in Msg
      BY <1>0, <1>d, <1>2, TailKept DEF Queues, Domains, Record, Fields
    <3> HIDE DEF s
    <3>3. ToSet(q') = ToSet(s) \union {rd[r].mp}
      BY <3>1, <3>2, PutKept
    <3>4. IsPri(rd[r].mp)
      BY <1>0, <1>2 DEF PriIsFound, PutBackPriEnds
    <3> QED
      BY <3>3, <3>4, HasPriSplit
  <2>4. HasPri(q)' = HasPri(q') /\ HasPri(rput)' = HasPri(rput')
    BY DEF HasPri, IsPri
  <2> QED
    BY <2>2, <2>3, <2>4 DEF PriIsFound
<1>3. CASE DataArrives
  <2>1. rd' = rd
    BY <1>3 DEF DataArrives
  <2>2. /\ \A v \in Reader : Held(v) => Held(v)'
        /\ \A v \in Reader : At(v, "putbackpri")' => IsPri(rd'[v].mp)
    BY <1>0, <2>1 DEF PriIsFound, Held, At, IsPri
  <2>3. STRPRI' => HasPri(q') \/ HasPri(rput') \/ \E v \in Reader : Held(v)'
    BY <1>0, <1>3, <2>2, PriRemains DEF PriIsFound
  <2>4. HasPri(q)' = HasPri(q') /\ HasPri(rput)' = HasPri(rput')
    BY DEF HasPri, IsPri
  <2> QED
    BY <2>2, <2>3, <2>4 DEF PriIsFound
<1>4. CASE /\ STRPRI' => STRPRI /\ \A v \in Reader : Held(v) => Held(v)'
           /\ \A v \in Reader : At(v, "putbackpri")' => IsPri(rd'[v].mp)
  <2>1. STRPRI' => HasPri(q') \/ HasPri(rput') \/ \E v \in Reader : Held(v)'
    BY <1>0, <1>4, PriRemains DEF PriIsFound
  <2>2. HasPri(q)' = HasPri(q') /\ HasPri(rput)' = HasPri(rput')
    BY DEF HasPri, IsPri
  <2> QED
    BY <1>4, <2>1, <2>2 DEF PriIsFound
<1> QED
  BY <1>1, <1>2, <1>3, <1>4, HeldStays

-----------------------------------------------------------------------------
(* The theorems of OneReader and PriNotStuck                               *)

\* The invariant holds at the start,
LEMMA AtFirst == Init => IInv
<1> SUFFICES ASSUME Init
             PROVE  IInv
  OBVIOUS
<1>1. \A r \in Reader : rd[r].pc = "idle"
  BY DEF Init, Idle
<1>2. Locals
  BY IdleKept DEF Init, Locals
<1>3. Queues
  <2>1. q = <<>> /\ rput = <<>> /\ units = 0
    BY DEF Init
  <2> QED
    BY <2>1 DEF Queues
<1>4. sd_read_sem = 1 /\ woken = FALSE /\ STRPRI = FALSE
  BY DEF Init
<1>5. OneEnters
  <2>1. {r \in Reader : Inside(r)} = {}
    BY <1>1 DEF Inside
  <2> QED
    BY <1>4, <2>1, FS_EmptySet DEF OneEnters
<1>6. Numbers /\ SemIsPositive
  <2>1. sd_read_sem = 1 /\ woken \in BOOLEAN /\ STRPRI \in BOOLEAN
    BY DEF Init
  <2> QED
    BY <2>1 DEF Numbers, SemIsPositive
<1>7. PriIsFound
  BY <1>1, <1>4 DEF PriIsFound, At
<1> QED
  BY <1>2, <1>3, <1>5, <1>6, <1>7 DEF IInv

\* a step of nobody leaves it alone,
LEMMA Stutter == IInv /\ UNCHANGED vars => IInv'
<1> SUFFICES ASSUME IInv, UNCHANGED vars
             PROVE  IInv'
  OBVIOUS
<1>1. UNCHANGED <<rd, q, rput, units, sd_read_sem, woken, STRPRI>>
  BY DEF vars, queue, sems, arrivals, history
<1>2. Locals' /\ Queues' /\ Numbers' /\ SemIsPositive'
  BY <1>1 DEF IInv, Locals, Queues, Numbers, SemIsPositive
<1>3. OneEnters'
  BY <1>1 DEF IInv, OneEnters, Inside
<1>4. PriIsFound'
  BY <1>1 DEF IInv, PriIsFound, HasPri, Held, At, IsPri
<1> QED
  BY <1>2, <1>3, <1>4 DEF IInv

\* and every step keeps it.
LEMMA IInvKept == IInv /\ [Next]_vars => IInv'
<1> SUFFICES ASSUME IInv, [Next]_vars
             PROVE  IInv'
  OBVIOUS
<1>1. ASSUME NEW r, Acts(r)
      PROVE  IInv'
  BY <1>1, LocalsKept, NumbersKept, QueuesKept, OneEntersKept, PriIsFoundKept DEF IInv
<1>2. CASE UNCHANGED vars
  BY <1>2, Stutter
<1>3. CASE Next
  <2>1. CASE \E r \in Reader : Begin(r) \/ Goes(r) \/ Interrupt(r)
    BY <1>1, <2>1 DEF Acts, Goes, StrRead, StrGetmsg, Interrupt
  <2>2. CASE Arrives \/ Service \/ PeerClose \/ \E t \in Waker : WakeUps(t)
    BY <1>1, <2>2 DEF Acts, Arrives, Service, Wakes
  <2> QED
    BY <1>3, <2>1, <2>2 DEF Next
<1> QED
  BY <1>2, <1>3

\* What the invariant says of the readers and of STRPRI.
LEMMA IInvMeans == IInv => OneReader /\ PriNotStuck
<1> SUFFICES ASSUME IInv
             PROVE  OneReader /\ PriNotStuck
  OBVIOUS
<1>1. OneReader
  <2> DEFINE S == {r \in Reader : Inside(r)}
  <2>1. IsFiniteSet(S)
    BY ReaderAssumption, FS_Subset
  <2>2. Cardinality(S) \in Nat
    BY <2>1, FS_CardinalityType
  <2> HIDE DEF S
  <2>3. ~woken => Cardinality(S) <= 1
    BY <2>2 DEF IInv, Numbers, SemIsPositive, OneEnters, S
  <2> QED
    BY <2>3 DEF OneReader, S
<1>2. PriNotStuck
  <2>1. q \in Seq(Msg) /\ rput \in Seq(Msg)
    BY DEF IInv, Queues
  <2>2. ToSet(q) \subseteq ToSet(q \o rput) /\ ToSet(rput) \subseteq ToSet(q \o rput)
    BY <2>1, ConcatIsIn
  <2> QED
    BY <2>2 DEF IInv, PriIsFound, PriNotStuck, HasPri, Held
<1> QED
  BY <1>1, <1>2

\* sd_read_sem lets one reader in at a time (lis_sleep_on_read_sem, lis_wake_up_read_sem),
\* whatever signals, faults and messages come, until all are woken.
THEOREM OneReaderAtATime == Spec => []OneReader
<1> QED
  BY AtFirst, IInvKept, IInvMeans, PTL DEF Spec

\* While STRPRI makes lis_strrput throw M_PCPROTO messages away, there is one to be read.
THEOREM PriIsNotStuck == Spec => []PriNotStuck
<1> QED
  BY AtFirst, IInvKept, IInvMeans, PTL DEF Spec

-----------------------------------------------------------------------------
(* Relations between the units of a sequence                               *)

\* Every unit of A is related to every unit of B;
Before(R, A, B) == \A x \in A, y \in B : <<x, y>> \in R
\* every unit of a sequence to those behind it;
Within(R, s) == \A i, j \in DOMAIN s : i < j => <<s[i], s[j]>> \in R
\* every unit of some messages to those behind it.
Along(R, s) ==
  /\ \A i \in DOMAIN s : Within(R, s[i].u)
  /\ \A i, j \in DOMAIN s : i < j => Before(R, ToSet(s[i].u), ToSet(s[j].u))

\* s becomes d when m is put in front of its i-th message.
Inserts(s, i, m, d) ==
  /\ i \in 1 .. Len(s) + 1 /\ d \in Seq(Msg) /\ Len(d) = Len(s) + 1
  /\ \A j \in 1 .. Len(s) + 1 : d[j] = IF j < i THEN s[j] ELSE IF j = i THEN m ELSE s[j - 1]

\* Nothing carries no unit.
LEMMA NoUnits == ToSet(<<>>) = {} /\ UnitsOf(<<>>) = {}
  BY DEF ToSet, UnitsOf

\* Two sequences one after the other.
LEMMA ConcatRelates ==
    ASSUME NEW R, NEW a \in Seq(Nat), NEW b \in Seq(Nat)
    PROVE  /\ a \o b \in Seq(Nat) /\ ToSet(a \o b) = ToSet(a) \union ToSet(b)
           /\ Within(R, a \o b) <=>
                Within(R, a) /\ Within(R, b) /\ Before(R, ToSet(a), ToSet(b))
<1> DEFINE c == a \o b
           m == Len(a)
           n == Len(b)
<1>1. /\ c \in Seq(Nat) /\ Len(c) = m + n
      /\ \A i \in 1 .. m + n : c[i] = IF i <= m THEN a[i] ELSE b[i - m]
  BY ConcatProperties
<1>2. m \in Nat /\ n \in Nat /\ DOMAIN a = 1 .. m /\ DOMAIN b = 1 .. n
  BY LenProperties
<1>3. DOMAIN c = 1 .. m + n
  BY <1>1, LenProperties
<1> HIDE DEF c, m, n
<1>4. ASSUME NEW i \in 1 .. m
      PROVE  i \in 1 .. m + n /\ c[i] = a[i]
  BY <1>1, <1>2
<1>5. ASSUME NEW i \in 1 .. n
      PROVE  m + i \in 1 .. m + n /\ c[m + i] = b[i]
  <2>1. m + i \in 1 .. m + n /\ ~(m + i <= m) /\ (m + i) - m = i
    BY <1>2
  <2> QED
    BY <1>1, <2>1
<1>6. ASSUME NEW i \in 1 .. m + n
      PROVE  i \in 1 .. m \/ \E k \in 1 .. n : i = m + k
  <2>1. CASE i > m
    <3>1. i - m \in 1 .. n /\ i = m + (i - m)
      BY <1>2, <2>1
    <3> QED
      BY <3>1
  <2> QED
    BY <1>2, <2>1
<1>7. ToSet(c) = ToSet(a) \union ToSet(b)
  <2>1. ToSet(c) \subseteq ToSet(a) \union ToSet(b)
    <3> SUFFICES ASSUME NEW i \in 1 .. m + n
                 PROVE  c[i] \in ToSet(a) \/ c[i] \in ToSet(b)
      BY <1>3 DEF ToSet
    <3>1. CASE i \in 1 .. m
      BY <1>2, <1>4, <3>1 DEF ToSet
    <3>2. CASE \E k \in 1 .. n : i = m + k
      BY <1>2, <1>5, <3>2 DEF ToSet
    <3> QED
      BY <1>6, <3>1, <3>2
  <2>2. ToSet(a) \subseteq ToSet(c)
    BY <1>2, <1>3, <1>4 DEF ToSet
  <2>3. ToSet(b) \subseteq ToSet(c)
    BY <1>2, <1>3, <1>5 DEF ToSet
  <2> QED
    BY <2>1, <2>2, <2>3
<1>8. ASSUME Within(R, c)
      PROVE  Within(R, a) /\ Within(R, b) /\ Before(R, ToSet(a), ToSet(b))
  <2>1. \A i, j \in 1 .. m + n : i < j => <<c[i], c[j]>> \in R
    BY <1>3, <1>8 DEF Within
  <2>2. Within(R, a)
    <3>1. \A i, j \in 1 .. m : i < j => <<a[i], a[j]>> \in R
      BY <1>4, <2>1
    <3> QED
      BY <1>2, <3>1 DEF Within
  <2>3. ASSUME NEW i \in 1 .. n, NEW j \in 1 .. n, i < j
        PROVE  <<b[i], b[j]>> \in R
    <3>1. m + i < m + j
      BY <1>2, <2>3
    <3> QED
      BY <1>5, <2>1, <3>1
  <2>4. ASSUME NEW i \in 1 .. m, NEW j \in 1 .. n
        PROVE  <<a[i], b[j]>> \in R
    <3>1. i < m + j
      BY <1>2
    <3> QED
      BY <1>4, <1>5, <2>1, <3>1
  <2>5. Within(R, b)
    BY <1>2, <2>3 DEF Within
  <2>6. Before(R, ToSet(a), ToSet(b))
    BY <1>2, <2>4 DEF Before, ToSet
  <2> QED
    BY <2>2, <2>5, <2>6
<1>9. ASSUME Within(R, a), Within(R, b), Before(R, ToSet(a), ToSet(b))
      PROVE  Within(R, c)
  <2> SUFFICES ASSUME NEW i \in 1 .. m + n, NEW j \in 1 .. m + n, i < j
               PROVE  <<c[i], c[j]>> \in R
    BY <1>3 DEF Within
  <2>1. CASE j \in 1 .. m
    <3>1. i \in 1 .. m
      BY <1>2, <2>1
    <3> QED
      BY <1>2, <1>4, <1>9, <2>1, <3>1 DEF Within
  <2>2. CASE i \in 1 .. m /\ \E k \in 1 .. n : j = m + k
    BY <1>2, <1>4, <1>5, <1>9, <2>2 DEF Before, ToSet
  <2>3. CASE i \notin 1 .. m /\ \E k \in 1 .. n : j = m + k
    <3>1. PICK k \in 1 .. n, l \in 1 .. n : i = m + l /\ j = m + k
      BY <1>6, <2>3
    <3>2. l < k
      BY <1>2, <3>1
    <3> QED
      BY <1>2, <1>5, <1>9, <3>1, <3>2 DEF Within
  <2> QED
    BY <1>6, <2>1, <2>2, <2>3
<1> QED
  BY <1>1, <1>7, <1>8, <1>9 DEF c

\* The first message is taken.
LEMMA TailRelates ==
    ASSUME NEW R, NEW s \in Seq(Msg), s # <<>>
    PROVE  /\ UnitsOf(s) = ToSet(Head(s).u) \union UnitsOf(Tail(s))
           /\ Along(R, s) => /\ Within(R, Head(s).u) /\ Along(R, Tail(s))
                             /\ Before(R, ToSet(Head(s).u), UnitsOf(Tail(s)))
<1> DEFINE t == Tail(s)
           n == Len(s)
<1>1. n \in Nat /\ DOMAIN s = 1 .. n /\ n >= 1 /\ Head(s) = s[1]
  BY LenProperties, EmptySeq
<1>2. /\ t \in Seq(Msg) /\ Len(t) = n - 1
      /\ \A i \in 1 .. Len(t) : t[i] = s[i + 1]
  BY HeadTailProperties
<1> HIDE DEF t, n
<1>3. DOMAIN t = 1 .. n - 1 /\ \A i \in 1 .. n - 1 : t[i] = s[i + 1]
  BY <1>2, LenProperties
<1>4. ASSUME NEW i \in 1 .. n - 1
      PROVE  i + 1 \in 1 .. n /\ t[i] = s[i + 1] /\ 1 < i + 1
  BY <1>1, <1>3
<1>5. 1 \in 1 .. n
  BY <1>1
<1>6. ASSUME NEW i \in 1 .. n
      PROVE  i = 1 \/ \E k \in 1 .. n - 1 : i = k + 1
  <2>1. CASE i # 1
    <3>1. i - 1 \in 1 .. n - 1 /\ i = (i - 1) + 1
      BY <1>1, <2>1
    <3> QED
      BY <3>1
  <2> QED
    BY <2>1
<1>7. UnitsOf(s) \subseteq ToSet(Head(s).u) \union UnitsOf(t)
  <2> SUFFICES ASSUME NEW x, NEW i \in 1 .. n, x \in ToSet(s[i].u)
               PROVE  x \in ToSet(Head(s).u) \/ x \in UnitsOf(t)
    BY <1>1 DEF UnitsOf
  <2>1. CASE i = 1
    BY <1>1, <2>1
  <2>2. CASE \E k \in 1 .. n - 1 : i = k + 1
    BY <1>3, <1>4, <2>2 DEF UnitsOf
  <2> QED
    BY <1>6, <2>1, <2>2
<1>8. ToSet(Head(s).u) \subseteq UnitsOf(s)
  BY <1>1, <1>5 DEF UnitsOf
<1>9. UnitsOf(t) \subseteq UnitsOf(s)
  <2> SUFFICES ASSUME NEW x, NEW i \in 1 .. n - 1, x \in ToSet(t[i].u)
               PROVE  x \in UnitsOf(s)
    BY <1>3 DEF UnitsOf
  <2> QED
    BY <1>1, <1>4 DEF UnitsOf
<1>10. ASSUME Along(R, s)
       PROVE  /\ Within(R, Head(s).u) /\ Along(R, t)
              /\ Before(R, ToSet(Head(s).u), UnitsOf(t))
  <2>1. /\ \A i \in 1 .. n : Within(R, s[i].u)
        /\ \A i, j \in 1 .. n : i < j => Before(R, ToSet(s[i].u), ToSet(s[j].u))
    BY <1>1, <1>10 DEF Along
  <2>2. Within(R, Head(s).u)
    BY <1>1, <1>5, <2>1
  <2>3. ASSUME NEW i \in 1 .. n - 1, NEW j \in 1 .. n - 1, i < j
        PROVE  Before(R, ToSet(t[i].u), ToSet(t[j].u))
    <3>1. i + 1 < j + 1
      BY <1>1, <2>3
    <3> QED
      BY <1>4, <2>1, <3>1
  <2>4. Along(R, t)
    BY <1>3, <1>4, <2>1, <2>3 DEF Along
  <2>5. \A i \in 1 .. n - 1 : Before(R, ToSet(Head(s).u), ToSet(t[i].u))
    BY <1>1, <1>4, <1>5, <2>1
  <2>6. Before(R, ToSet(Head(s).u), UnitsOf(t))
    BY <1>3, <2>5 DEF Before, UnitsOf
  <2> QED
    BY <2>2, <2>4, <2>6
<1> QED
  BY <1>7, <1>8, <1>9, <1>10 DEF t

\* A message is inserted.
LEMMA InsertRelates ==
    ASSUME NEW R, NEW s \in Seq(Msg), NEW i, NEW m \in Msg, NEW d, Inserts(s, i, m, d),
           Along(R, s), Within(R, m.u),
           \A j \in DOMAIN s : j < i => Before(R, ToSet(s[j].u), ToSet(m.u)),
           \A j \in DOMAIN s : ~(j < i) => Before(R, ToSet(m.u), ToSet(s[j].u))
    PROVE  UnitsOf(d) = UnitsOf(s) \union ToSet(m.u) /\ Along(R, d)
<1> DEFINE n == Len(s)
<1>1. n \in Nat /\ DOMAIN s = 1 .. n /\ i \in 1 .. n + 1
  BY LenProperties DEF Inserts
<1>2. DOMAIN d = 1 .. n + 1
  BY LenProperties DEF Inserts
<1>3. \A j \in 1 .. n + 1 : d[j] = IF j < i THEN s[j] ELSE IF j = i THEN m ELSE s[j - 1]
  BY DEF Inserts
<1> HIDE DEF n
\* where the messages of s are in d
<1> DEFINE To(k) == IF k < i THEN k ELSE k + 1
<1>4. ASSUME NEW k \in 1 .. n
      PROVE  To(k) \in 1 .. n + 1 /\ d[To(k)] = s[k] /\ To(k) # i /\ (To(k) < i <=> k < i)
  <2>1. CASE k < i
    BY <1>1, <1>3, <2>1
  <2>2. CASE ~(k < i)
    <3>1. k + 1 \in 1 .. n + 1 /\ ~(k + 1 < i) /\ k + 1 # i /\ (k + 1) - 1 = k
      BY <1>1, <2>2
    <3> QED
      BY <1>3, <2>2, <3>1
  <2> QED
    BY <2>1, <2>2
<1>5. ASSUME NEW j \in 1 .. n + 1
      PROVE  j = i \/ \E k \in 1 .. n : j = To(k)
  <2>1. CASE j < i
    BY <1>1, <2>1
  <2>2. CASE j > i
    <3>1. j - 1 \in 1 .. n /\ ~(j - 1 < i) /\ (j - 1) + 1 = j
      BY <1>1, <2>2
    <3> QED
      BY <3>1
  <2> QED
    BY <1>1, <2>1, <2>2
<1>6. \A k, l \in 1 .. n : To(k) < To(l) => k < l
  BY <1>1
<1>7. i \in 1 .. n + 1 /\ d[i] = m
  BY <1>1, <1>3
<1> HIDE DEF To
<1>8. UnitsOf(d) \subseteq UnitsOf(s) \union ToSet(m.u)
  <2> SUFFICES ASSUME NEW x, NEW j \in 1 .. n + 1, x \in ToSet(d[j].u)
               PROVE  x \in UnitsOf(s) \/ x \in ToSet(m.u)
    BY <1>2 DEF UnitsOf
  <2>1. CASE j = i
    BY <1>7, <2>1
  <2>2. CASE \E k \in 1 .. n : j = To(k)
    BY <1>1, <1>4, <2>2 DEF UnitsOf
  <2> QED
    BY <1>5, <2>1, <2>2
<1>9. ToSet(m.u) \subseteq UnitsOf(d)
  BY <1>2, <1>7 DEF UnitsOf
<1>10. UnitsOf(s) \subseteq UnitsOf(d)
  <2> SUFFICES ASSUME NEW x, NEW k \in 1 .. n, x \in ToSet(s[k].u)
               PROVE  x \in UnitsOf(d)
    BY <1>1 DEF UnitsOf
  <2> QED
    BY <1>2, <1>4 DEF UnitsOf
<1>11. Along(R, d)
  <2>1. /\ \A k \in 1 .. n : Within(R, s[k].u)
        /\ \A k, l \in 1 .. n : k < l => Before(R, ToSet(s[k].u), ToSet(s[l].u))
    BY <1>1 DEF Along
  <2>2. \A k \in 1 .. n : IF k < i THEN Before(R, ToSet(s[k].u), ToSet(m.u))
                          ELSE Before(R, ToSet(m.u), ToSet(s[k].u))
    BY <1>1
  <2>3. ASSUME NEW j \in 1 .. n + 1
        PROVE  Within(R, d[j].u)
    BY <1>4, <1>5, <1>7, <2>1
  <2>4. ASSUME NEW j \in 1 .. n + 1, NEW l \in 1 .. n + 1, j < l
        PROVE  Before(R, ToSet(d[j].u), ToSet(d[l].u))
    <3>1. CASE j = i /\ l = i
      BY <1>1, <2>4, <3>1
    <3>2. CASE j = i /\ \E k \in 1 .. n : l = To(k)
      <4>1. PICK k \in 1 .. n : l = To(k)
        BY <3>2
      <4>2. ~(To(k) < i) /\ d[l] = s[k] /\ d[j] = m
        BY <1>1, <1>4, <1>7, <2>4, <3>2, <4>1
      <4>3. ~(k < i)
        BY <1>4, <4>2
      <4> QED
        BY <2>2, <4>2, <4>3
    <3>3. CASE l = i /\ \E k \in 1 .. n : j = To(k)
      <4>1. PICK k \in 1 .. n : j = To(k)
        BY <3>3
      <4>2. To(k) < i /\ d[j] = s[k] /\ d[l] = m
        BY <1>4, <1>7, <2>4, <3>3, <4>1
      <4>3. k < i
        BY <1>4, <4>2
      <4> QED
        BY <2>2, <4>2, <4>3
    <3>4. CASE \E k, h \in 1 .. n : j = To(k) /\ l = To(h)
      <4>1. PICK k, h \in 1 .. n : j = To(k) /\ l = To(h)
        BY <3>4
      <4>2. k < h /\ d[j] = s[k] /\ d[l] = s[h]
        BY <1>4, <1>6, <2>4, <4>1
      <4> QED
        BY <2>1, <4>2
    <3> QED
      BY <1>5, <3>1, <3>2, <3>3, <3>4
  <2> QED
    BY <1>2, <2>3, <2>4 DEF Along
<1> QED
  BY <1>8, <1>9, <1>10, <1>11

-----------------------------------------------------------------------------
(* Where messages are put                                                  *)

\* A message is inserted at a place,
LEMMA InsertIs ==
    ASSUME NEW s \in Seq(Msg), NEW m \in Msg, NEW i \in 1 .. Len(s) + 1
    PROVE  Inserts(s, i, m, InsertAt(s, i, m))
<1> DEFINE a == SubSeq(s, 1, i - 1)
           b == SubSeq(s, i, Len(s))
           n == Len(s)
<1>1. n \in Nat /\ i \in Int /\ DOMAIN s = 1 .. n /\ \A j \in 1 .. n : s[j] \in Msg
  BY LenProperties, ElementOfSeq
<1>2. /\ a \in Seq(Msg) /\ Len(a) = i - 1
      /\ \A j \in 1 .. i - 1 : a[j] = s[j]
  <2>1. 1 \in Int /\ i - 1 \in Int /\ \A j \in 1 .. i - 1 : s[j] \in Msg
    BY <1>1
  <2>2. /\ a \in Seq(Msg) /\ Len(a) = IF 1 <= i - 1 THEN (i - 1) - 1 + 1 ELSE 0
        /\ \A j \in 1 .. (i - 1) - 1 + 1 : a[j] = s[1 + j - 1]
    BY <2>1, SubSeqProperties
  <2> HIDE DEF a
  <2> QED
    BY <1>1, <2>2
<1>3. /\ b \in Seq(Msg) /\ Len(b) = n - i + 1
      /\ \A j \in 1 .. n - i + 1 : b[j] = s[i + j - 1]
  <2>1. n \in Int /\ i \in Int /\ \A j \in i .. n : s[j] \in Msg
    BY <1>1
  <2>2. /\ b \in Seq(Msg) /\ Len(b) = IF i <= n THEN n - i + 1 ELSE 0
        /\ \A j \in 1 .. n - i + 1 : b[j] = s[i + j - 1]
    BY <2>1, SubSeqProperties
  <2> HIDE DEF b
  <2> QED
    BY <1>1, <2>2
<1> DEFINE c == a \o <<m>>
           d == c \o b
<1>4. InsertAt(s, i, m) = d
  BY DEF InsertAt
<1> HIDE DEF a, b
<1>5. /\ c \in Seq(Msg) /\ Len(c) = i
      /\ \A j \in 1 .. i : c[j] = IF j <= i - 1 THEN a[j] ELSE m
  <2>1. <<m>> \in Seq(Msg) /\ Len(<<m>>) = 1 /\ <<m>>[1] = m
    OBVIOUS
  <2>2. /\ c \in Seq(Msg) /\ Len(c) = Len(a) + 1
        /\ \A j \in 1 .. Len(a) + 1 : c[j] = IF j <= Len(a) THEN a[j] ELSE <<m>>[j - Len(a)]
    BY <1>2, <2>1, ConcatProperties
  <2> HIDE DEF c
  <2> QED
    BY <1>1, <1>2, <2>1, <2>2
<1> HIDE DEF c
<1>6. /\ d \in Seq(Msg) /\ Len(d) = n + 1
      /\ \A j \in 1 .. n + 1 : d[j] = IF j <= i THEN c[j] ELSE b[j - i]
  <2>1. /\ d \in Seq(Msg) /\ Len(d) = Len(c) + Len(b)
        /\ \A j \in 1 .. Len(c) + Len(b) : d[j] = IF j <= Len(c) THEN c[j] ELSE b[j - Len(c)]
    BY <1>3, <1>5, ConcatProperties
  <2> HIDE DEF d
  <2> QED
    BY <1>1, <1>3, <1>5, <2>1
<1> HIDE DEF d
<1>7. \A j \in 1 .. n + 1 : d[j] = IF j < i THEN s[j] ELSE IF j = i THEN m ELSE s[j - 1]
  <2> SUFFICES ASSUME NEW j \in 1 .. n + 1
               PROVE  d[j] = IF j < i THEN s[j] ELSE IF j = i THEN m ELSE s[j - 1]
    OBVIOUS
  <2>1. CASE j < i
    BY <1>1, <1>2, <1>5, <1>6, <2>1
  <2>2. CASE j = i
    BY <1>1, <1>5, <1>6, <2>2
  <2>3. CASE j > i
    <3>1. d[j] = b[j - i] /\ j - i \in 1 .. n - i + 1
      BY <1>1, <1>6, <2>3
    <3>2. b[j - i] = s[i + (j - i) - 1]
      BY <1>3, <3>1
    <3>3. i + (j - i) - 1 = j - 1
      BY <1>1
    <3> QED
      BY <1>1, <2>3, <3>1, <3>2, <3>3
  <2> QED
    BY <1>1, <2>1, <2>2, <2>3
<1> QED
  BY <1>1, <1>4, <1>6, <1>7 DEF Inserts

\* or behind all others.
LEMMA AppendIs ==
    ASSUME NEW s \in Seq(Msg), NEW m \in Msg
    PROVE  Inserts(s, Len(s) + 1, m, Append(s, m))
<1> DEFINE d == Append(s, m)
           n == Len(s)
<1>1. /\ d \in Seq(Msg) /\ Len(d) = n + 1 /\ n \in Nat
      /\ \A i \in 1 .. n : d[i] = s[i]
      /\ d[n + 1] = m
  BY AppendProperties, LenProperties
<1> HIDE DEF d, n
<1>2. n + 1 \in 1 .. n + 1
  BY <1>1
<1>3. \A j \in 1 .. n + 1 : d[j] = IF j < n + 1 THEN s[j] ELSE IF j = n + 1 THEN m ELSE s[j - 1]
  BY <1>1
<1> QED
  BY <1>1, <1>2, <1>3 DEF Inserts, d, n

\* Numbers have a least one.
LEMMA LeastNat ==
    ASSUME NEW S \in SUBSET Nat, S # {}
    PROVE  \E n \in S : \A k \in S : n <= k
<1> DEFINE R == OpToRel(<, Nat)
<1>1. IsWellFoundedOn(R, Nat)
  BY NatLessThanWellFounded
<1>2. \A x, y \in Nat : x < y => <<x, y>> \in R
  BY DEF OpToRel
<1> HIDE DEF R
<1>3. PICK x \in S : \A y \in S : <<y, x>> \notin R
  BY <1>1, WFMin
<1>4. ASSUME NEW k \in S
      PROVE  x <= k
  <2>1. x \in Nat /\ k \in Nat /\ ~(k < x)
    BY <1>2, <1>3
  <2> QED
    BY <2>1
<1> QED
  BY <1>4

\* High priority messages come first.
PriFirst(s) == \A i, j \in DOMAIN s : i < j /\ IsPri(s[j]) => IsPri(s[i])

\* AfterPri is behind them.
LEMMA AfterPriIs ==
    ASSUME NEW s \in Seq(Msg), PriFirst(s)
    PROVE  /\ AfterPri(s) \in 1 .. Len(s) + 1
           /\ \A j \in DOMAIN s : IsPri(s[j]) <=> j < AfterPri(s)
<1>1. DOMAIN s = 1 .. Len(s) /\ Len(s) \in Nat
  BY LenProperties
<1> DEFINE N == {i \in 1 .. Len(s) + 1 : i = Len(s) + 1 \/ ~IsPri(s[i])}
<1>2. N \in SUBSET Nat /\ N # {}
  BY <1>1
<1>3. PICK k \in N : \A j \in N : k <= j
  BY <1>2, LeastNat
<1>4. k \in 1 .. Len(s) + 1 /\ \A i \in 1 .. k - 1 : IsPri(s[i])
  BY <1>1, <1>3
<1>5. ASSUME NEW i \in DOMAIN s
      PROVE  IsPri(s[i]) <=> i < k
  <2>1. CASE i < k
    BY <1>1, <1>4, <2>1
  <2>2. CASE i >= k
    <3>1. k \in 1 .. Len(s) /\ ~IsPri(s[k])
      BY <1>1, <1>3, <1>4, <2>2
    <3> QED
      BY <1>1, <2>2, <3>1 DEF PriFirst
  <2> QED
    BY <1>1, <1>4, <2>1, <2>2
<1>6. {i \in DOMAIN s : IsPri(s[i])} = 1 .. k - 1
  BY <1>1, <1>4, <1>5
<1>7. AfterPri(s) = k
  <2>1. Cardinality(1 .. k - 1) = IF 1 > k - 1 THEN 0 ELSE (k - 1) - 1 + 1
    BY <1>4, FS_Interval
  <2>2. (IF 1 > k - 1 THEN 0 ELSE (k - 1) - 1 + 1) = k - 1
    BY <1>1, <1>4
  <2>3. AfterPri(s) = (k - 1) + 1
    BY <1>6, <2>1, <2>2 DEF AfterPri
  <2> QED
    BY <1>4, <2>3
<1> QED
  BY <1>4, <1>5, <1>7

\* The first message is taken from the queue,
LEMMA PriFirstTail ==
    ASSUME NEW s \in Seq(Msg), s # <<>>, PriFirst(s)
    PROVE  PriFirst(Tail(s))
<1> DEFINE t == Tail(s)
           n == Len(s)
<1>1. n \in Nat /\ DOMAIN s = 1 .. n /\ n >= 1
  BY LenProperties, EmptySeq
<1>2. /\ t \in Seq(Msg) /\ Len(t) = n - 1
      /\ \A i \in 1 .. Len(t) : t[i] = s[i + 1]
  BY HeadTailProperties
<1> HIDE DEF t, n
<1>3. DOMAIN t = 1 .. n - 1 /\ \A i \in 1 .. n - 1 : t[i] = s[i + 1]
  BY <1>2, LenProperties
<1>4. ASSUME NEW i \in 1 .. n - 1, NEW j \in 1 .. n - 1, i < j, IsPri(t[j])
      PROVE  IsPri(t[i])
  <2>1. i + 1 \in 1 .. n /\ j + 1 \in 1 .. n /\ i + 1 < j + 1
    BY <1>1, <1>4
  <2> QED
    BY <1>1, <1>3, <1>4, <2>1 DEF PriFirst
<1> QED
  BY <1>3, <1>4 DEF PriFirst, t

\* A message is put behind or in front of what it may be.
LEMMA PriFirstInsert ==
    ASSUME NEW s \in Seq(Msg), PriFirst(s), NEW m, NEW d, NEW i, Inserts(s, i, m, d),
           IF IsPri(m) THEN \A j \in DOMAIN s : j < i => IsPri(s[j])
           ELSE \A j \in DOMAIN s : ~(j < i) => ~IsPri(s[j])
    PROVE  PriFirst(d)
<1> DEFINE n == Len(s)
<1>1. n \in Nat /\ DOMAIN s = 1 .. n /\ i \in 1 .. n + 1
  BY LenProperties DEF Inserts
<1>2. DOMAIN d = 1 .. n + 1
  BY LenProperties DEF Inserts
<1>3. \A j \in 1 .. n + 1 : d[j] = IF j < i THEN s[j] ELSE IF j = i THEN m ELSE s[j - 1]
  BY DEF Inserts
<1>p. \A k, l \in 1 .. n : k < l /\ IsPri(s[l]) => IsPri(s[k])
  BY <1>1 DEF PriFirst
<1>q. IF IsPri(m) THEN \A j \in 1 .. n : j < i => IsPri(s[j])
      ELSE \A j \in 1 .. n : ~(j < i) => ~IsPri(s[j])
  BY <1>1
<1> HIDE DEF n
<1> SUFFICES ASSUME NEW k \in 1 .. n + 1, NEW l \in 1 .. n + 1, k < l, IsPri(d[l])
             PROVE  IsPri(d[k])
  BY <1>2 DEF PriFirst
<1>4. CASE l < i
  <2>1. k \in 1 .. n /\ l \in 1 .. n /\ d[k] = s[k] /\ d[l] = s[l]
    BY <1>1, <1>3, <1>4
  <2> QED
    BY <1>p, <2>1
<1>5. CASE l = i
  <2>1. k \in 1 .. n /\ k < i /\ d[k] = s[k] /\ d[l] = m
    BY <1>1, <1>3, <1>5
  <2> QED
    BY <1>q, <2>1
<1>6. CASE l > i
  <2>1. l - 1 \in 1 .. n /\ d[l] = s[l - 1] /\ ~(l - 1 < i)
    BY <1>1, <1>3, <1>6
  <2>2. CASE k < i
    <3>1. k \in 1 .. n /\ d[k] = s[k] /\ k < l - 1
      BY <1>1, <1>3, <1>6, <2>2
    <3> QED
      BY <1>p, <2>1, <3>1
  <2>3. CASE k = i
    <3>1. d[k] = m
      BY <1>1, <1>3, <2>3
    <3> QED
      BY <1>q, <2>1, <3>1
  <2>4. CASE k > i
    <3>1. k - 1 \in 1 .. n /\ d[k] = s[k - 1] /\ k - 1 < l - 1
      BY <1>1, <1>3, <2>4
    <3> QED
      BY <1>p, <2>1, <3>1
  <2> QED
    BY <1>1, <2>2, <2>3, <2>4
<1> QED
  BY <1>1, <1>4, <1>5, <1>6

\* Where putbq and putq put a message.
LEMMA PutBqIs ==
    ASSUME NEW s \in Seq(Msg), NEW m \in Msg, PriFirst(s)
    PROVE  /\ PriFirst(PutBq(s, m))
           /\ \E i : /\ Inserts(s, i, m, PutBq(s, m))
                     /\ \A j \in DOMAIN s : j < i => IsPri(s[j])
<1>1. AfterPri(s) \in 1 .. Len(s) + 1 /\ \A j \in DOMAIN s : IsPri(s[j]) <=> j < AfterPri(s)
  BY AfterPriIs
<1>2. DOMAIN s = 1 .. Len(s) /\ Len(s) \in Nat
  BY LenProperties
<1> DEFINE i == IF IsPri(m) THEN 1 ELSE AfterPri(s)
<1>3. i \in 1 .. Len(s) + 1 /\ PutBq(s, m) = InsertAt(s, i, m)
  BY <1>1, <1>2 DEF PutBq
<1>4. /\ \A j \in DOMAIN s : j < i => IsPri(s[j])
      /\ ~IsPri(m) => \A j \in DOMAIN s : ~(j < i) => ~IsPri(s[j])
  BY <1>1, <1>2
<1> HIDE DEF i
<1>5. Inserts(s, i, m, PutBq(s, m))
  BY <1>3, InsertIs
<1>6. PriFirst(PutBq(s, m))
  BY <1>4, <1>5, PriFirstInsert
<1> QED
  BY <1>4, <1>5, <1>6

\* Where putq puts a message: behind all others, unless it is one of high priority.
LEMMA PutQIs ==
    ASSUME NEW s \in Seq(Msg), NEW m \in Msg, PriFirst(s)
    PROVE  /\ PriFirst(PutQ(s, m))
           /\ \E i : /\ Inserts(s, i, m, PutQ(s, m))
                     /\ IsPri(m) \/ \A j \in DOMAIN s : j < i
<1>1. AfterPri(s) \in 1 .. Len(s) + 1 /\ \A j \in DOMAIN s : IsPri(s[j]) <=> j < AfterPri(s)
  BY AfterPriIs
<1>2. DOMAIN s = 1 .. Len(s) /\ Len(s) \in Nat
  BY LenProperties
<1>3. CASE IsPri(m)
  <2>1. Inserts(s, AfterPri(s), m, PutQ(s, m))
    BY <1>1, <1>3, InsertIs DEF PutQ
  <2>2. PriFirst(PutQ(s, m))
    BY <1>1, <1>3, <2>1, PriFirstInsert
  <2> QED
    BY <1>3, <2>1, <2>2
<1>4. CASE ~IsPri(m)
  <2>1. Inserts(s, Len(s) + 1, m, PutQ(s, m))
    BY <1>4, AppendIs DEF PutQ
  <2>2. \A j \in DOMAIN s : j < Len(s) + 1
    BY <1>2
  <2>3. PriFirst(PutQ(s, m))
    BY <1>4, <2>1, <2>2, PriFirstInsert
  <2> QED
    BY <2>1, <2>2, <2>3
<1> QED
  BY <1>3, <1>4

-----------------------------------------------------------------------------
(* The way of the units                                                    *)

\* What has been got, what the readers have in hand, the queue and the list.
Texts(g, h, s, p) ==
  g \in Seq(Nat) /\ h \in [Reader -> Seq(Nat)] /\ s \in Seq(Msg) /\ p \in Seq(Msg)

\* Each unit is related to those that come after it.
Chain(R, g, h, s, p) ==
  /\ Within(R, g) /\ Along(R, s) /\ Along(R, p)
  /\ Before(R, ToSet(g), UnitsOf(s)) /\ Before(R, ToSet(g), UnitsOf(p))
  /\ Before(R, UnitsOf(s), UnitsOf(p))
  /\ \A r \in Reader :
       /\ Within(R, h[r]) /\ Before(R, ToSet(g), ToSet(h[r]))
       /\ Before(R, ToSet(h[r]), UnitsOf(s)) /\ Before(R, ToSet(h[r]), UnitsOf(p))

\* What r has in hand is related to what the others have, and they to it.
Lone(R, r, h) ==
  \A t \in Reader \ {r} : Before(R, ToSet(h[r]), ToSet(h[t])) /\ Before(R, ToSet(h[t]), ToSet(h[r]))

\* Parts are related as the wholes are,
LEMMA BeforeSub ==
    ASSUME NEW R, NEW A, NEW B, Before(R, A, B), NEW C, NEW D, C \subseteq A, D \subseteq B
    PROVE  Before(R, C, D)
  BY DEF Before

\* and wholes as their parts.
LEMMA BeforeUnion ==
    ASSUME NEW R, NEW A, NEW B, NEW C, NEW D, D = A \union B
    PROVE  /\ Before(R, A, C) /\ Before(R, B, C) => Before(R, D, C)
           /\ Before(R, C, A) /\ Before(R, C, B) => Before(R, C, D)
  BY DEF Before

\* A reader changes what it has in hand.
LEMMA HandChanges ==
    ASSUME NEW h \in [Reader -> Seq(Nat)], NEW r \in Reader, NEW e \in Seq(Nat)
    PROVE  /\ [h EXCEPT ![r] = e] \in [Reader -> Seq(Nat)]
           /\ [h EXCEPT ![r] = e][r] = e
           /\ \A t \in Reader : t # r => [h EXCEPT ![r] = e][t] = h[t]
  OBVIOUS

\* A message leaves the queue, or all do.
LEMMA ChainSub ==
    ASSUME NEW R, NEW g, NEW h, NEW s, NEW p, Chain(R, g, h, s, p),
           NEW s1, Along(R, s1), UnitsOf(s1) \subseteq UnitsOf(s),
           NEW p1, Along(R, p1), UnitsOf(p1) \subseteq UnitsOf(p)
    PROVE  Chain(R, g, h, s1, p1)
<1> USE DEF Chain
<1>1. /\ Before(R, ToSet(g), UnitsOf(s1)) /\ Before(R, ToSet(g), UnitsOf(p1))
      /\ Before(R, UnitsOf(s1), UnitsOf(p1))
  BY DEF Before
<1>2. ASSUME NEW r \in Reader
      PROVE  Before(R, ToSet(h[r]), UnitsOf(s1)) /\ Before(R, ToSet(h[r]), UnitsOf(p1))
  BY DEF Before
<1> QED
  BY <1>1, <1>2

\* A reader takes the first message of the queue: its units follow those it has in hand.
LEMMA ChainTake ==
    ASSUME NEW R, NEW g, NEW h, NEW s, NEW p, Texts(g, h, s, p), Chain(R, g, h, s, p),
           NEW r \in Reader, s # <<>>
    PROVE  LET e == [h EXCEPT ![r] = h[r] \o Head(s).u]
           IN  Texts(g, e, Tail(s), p) /\ Chain(R, g, e, Tail(s), p)
<1> DEFINE u == Head(s).u
           e == [h EXCEPT ![r] = h[r] \o u]
           t == Tail(s)
<1>1. /\ t \in Seq(Msg) /\ u \in Seq(Nat) /\ h[r] \in Seq(Nat)
      /\ h \in [Reader -> Seq(Nat)] /\ g \in Seq(Nat) /\ p \in Seq(Msg)
  <2>1. t \in Seq(Msg) /\ Head(s) \in Msg
    BY TailKept DEF Texts
  <2> QED
    BY <2>1 DEF Texts, Msg
<1>2. /\ UnitsOf(s) = ToSet(u) \union UnitsOf(t)
      /\ Within(R, u) /\ Along(R, t) /\ Before(R, ToSet(u), UnitsOf(t))
  BY TailRelates DEF Texts, Chain
<1> HIDE DEF u, t
<1>3. /\ h[r] \o u \in Seq(Nat) /\ ToSet(h[r] \o u) = ToSet(h[r]) \union ToSet(u)
      /\ Within(R, h[r]) /\ Within(R, u) /\ Before(R, ToSet(h[r]), ToSet(u))
         => Within(R, h[r] \o u)
  BY <1>1, ConcatRelates
<1>4. /\ e \in [Reader -> Seq(Nat)] /\ e[r] = h[r] \o u
      /\ \A v \in Reader : v # r => e[v] = h[v]
  BY <1>1, <1>3, HandChanges
<1> HIDE DEF e
<1>5. /\ Within(R, g) /\ Along(R, p) /\ Before(R, ToSet(g), UnitsOf(p))
      /\ Before(R, ToSet(g), UnitsOf(s)) /\ Before(R, UnitsOf(s), UnitsOf(p))
  BY DEF Chain
<1>6. \A v \in Reader :
        /\ Within(R, h[v]) /\ Before(R, ToSet(g), ToSet(h[v]))
        /\ Before(R, ToSet(h[v]), UnitsOf(s)) /\ Before(R, ToSet(h[v]), UnitsOf(p))
  BY DEF Chain
<1>7. Before(R, ToSet(g), UnitsOf(t)) /\ Before(R, UnitsOf(t), UnitsOf(p))
  BY <1>2, <1>5 DEF Before
<1>8. ASSUME NEW v \in Reader
      PROVE  /\ Within(R, e[v]) /\ Before(R, ToSet(g), ToSet(e[v]))
             /\ Before(R, ToSet(e[v]), UnitsOf(t)) /\ Before(R, ToSet(e[v]), UnitsOf(p))
  <2>1. Before(R, ToSet(h[v]), UnitsOf(t))
    BY <1>2, <1>6 DEF Before
  <2>2. CASE v # r
    BY <1>4, <1>6, <2>1, <2>2
  <2>3. CASE v = r
    <3>1. Before(R, ToSet(h[r]), ToSet(u))
      BY <1>2, <1>6 DEF Before
    <3>2. Within(R, e[r])
      BY <1>2, <1>3, <1>4, <1>6, <3>1
    <3>3. Before(R, ToSet(g), ToSet(u)) /\ Before(R, ToSet(u), UnitsOf(p))
      BY <1>2, <1>5 DEF Before
    <3>4. ToSet(e[r]) = ToSet(h[r]) \union ToSet(u)
      BY <1>3, <1>4
    <3>5. Before(R, ToSet(g), ToSet(h[r])) /\ Before(R, ToSet(h[r]), UnitsOf(p))
      BY <1>6
    <3>6. Before(R, ToSet(g), ToSet(e[r])) /\ Before(R, ToSet(e[r]), UnitsOf(p))
      BY <3>3, <3>4, <3>5 DEF Before
    <3>7. Before(R, ToSet(e[r]), UnitsOf(t))
      BY <1>2, <2>1, <2>3, <3>4 DEF Before
    <3> QED
      BY <2>3, <3>2, <3>6, <3>7
  <2> QED
    BY <2>2, <2>3
<1>9. Chain(R, g, e, t, p)
  BY <1>2, <1>5, <1>7, <1>8 DEF Chain
<1>10. Texts(g, e, t, p)
  BY <1>1, <1>4 DEF Texts
<1> QED
  BY <1>9, <1>10 DEF e, t, u

\* A reader returns the first part of what it has in hand and loses the rest, or loses all.
LEMMA ChainKeep ==
    ASSUME NEW R, NEW g, NEW h, NEW s, NEW p, Texts(g, h, s, p), Chain(R, g, h, s, p),
           NEW r \in Reader, NEW c \in Seq(Nat), NEW d \in Seq(Nat), h[r] = c \o d, Lone(R, r, h)
    PROVE  LET e == [h EXCEPT ![r] = <<>>]
           IN  /\ Texts(g \o c, e, s, p) /\ Chain(R, g \o c, e, s, p)
               /\ Texts(g, e, s, p) /\ Chain(R, g, e, s, p)
<1> DEFINE e == [h EXCEPT ![r] = <<>>]
           f == g \o c
<1>1. /\ h \in [Reader -> Seq(Nat)] /\ g \in Seq(Nat) /\ s \in Seq(Msg) /\ p \in Seq(Msg)
      /\ <<>> \in Seq(Nat)
  BY DEF Texts
<1>2. ToSet(h[r]) = ToSet(c) \union ToSet(d) /\ (Within(R, h[r]) => Within(R, c))
  <2>1. ToSet(c \o d) = ToSet(c) \union ToSet(d) /\ (Within(R, c \o d) => Within(R, c))
    BY ConcatRelates
  <2> QED
    BY <2>1
<1>3. /\ f \in Seq(Nat) /\ ToSet(f) = ToSet(g) \union ToSet(c)
      /\ Within(R, g) /\ Within(R, c) /\ Before(R, ToSet(g), ToSet(c)) => Within(R, f)
  BY <1>1, ConcatRelates
<1> HIDE DEF f
<1>4. /\ e \in [Reader -> Seq(Nat)] /\ e[r] = <<>>
      /\ \A v \in Reader : v # r => e[v] = h[v]
  BY <1>1, HandChanges
<1> HIDE DEF e
<1>5. /\ Within(R, g) /\ Along(R, p) /\ Along(R, s) /\ Before(R, ToSet(g), UnitsOf(p))
      /\ Before(R, ToSet(g), UnitsOf(s)) /\ Before(R, UnitsOf(s), UnitsOf(p))
  BY DEF Chain
<1>6. \A v \in Reader :
        /\ Within(R, h[v]) /\ Before(R, ToSet(g), ToSet(h[v]))
        /\ Before(R, ToSet(h[v]), UnitsOf(s)) /\ Before(R, ToSet(h[v]), UnitsOf(p))
  BY DEF Chain
<1>7. /\ Before(R, ToSet(g), ToSet(c)) /\ Before(R, ToSet(c), UnitsOf(s))
      /\ Before(R, ToSet(c), UnitsOf(p))
  BY <1>2, <1>6 DEF Before
<1>8. /\ Within(R, f) /\ Before(R, ToSet(f), UnitsOf(s)) /\ Before(R, ToSet(f), UnitsOf(p))
  BY <1>2, <1>3, <1>5, <1>6, <1>7, BeforeUnion
<1>9. ASSUME NEW v \in Reader
      PROVE  /\ Within(R, e[v]) /\ Before(R, ToSet(f), ToSet(e[v]))
             /\ Before(R, ToSet(g), ToSet(e[v]))
             /\ Before(R, ToSet(e[v]), UnitsOf(s)) /\ Before(R, ToSet(e[v]), UnitsOf(p))
  <2>1. CASE v # r
    <3>1. Before(R, ToSet(c), ToSet(h[v]))
      BY <1>2, <2>1 DEF Before, Lone
    <3>2. Before(R, ToSet(f), ToSet(h[v]))
      BY <1>3, <1>6, <3>1, BeforeUnion
    <3> QED
      BY <1>4, <1>6, <2>1, <3>2
  <2>2. CASE v = r
    <3>1. Within(R, <<>>)
      BY DEF Within
    <3>2. ToSet(e[v]) = {}
      BY <1>4, <2>2, NoUnits
    <3> QED
      BY <1>4, <2>2, <3>1, <3>2 DEF Before
  <2> QED
    BY <2>1, <2>2
<1>10. Chain(R, f, e, s, p) /\ Chain(R, g, e, s, p)
  BY <1>5, <1>8, <1>9 DEF Chain
<1>11. Texts(f, e, s, p) /\ Texts(g, e, s, p)
  BY <1>1, <1>3, <1>4 DEF Texts
<1> QED
  BY <1>10, <1>11 DEF e, f

\* A reader puts the last part of what it has in hand back, behind messages that may go first.
LEMMA ChainPut ==
    ASSUME NEW R, NEW g, NEW h, NEW s, NEW p, Texts(g, h, s, p), Chain(R, g, h, s, p),
           NEW r \in Reader, NEW c \in Seq(Nat), NEW m \in Msg, h[r] = c \o m.u, Lone(R, r, h),
           NEW i, NEW d, Inserts(s, i, m, d),
           \A j \in DOMAIN s : j < i => Before(R, ToSet(s[j].u), ToSet(m.u))
    PROVE  LET e == [h EXCEPT ![r] = c]
           IN  Texts(g, e, d, p) /\ Chain(R, g, e, d, p)
<1> DEFINE e == [h EXCEPT ![r] = c]
<1>1. /\ h \in [Reader -> Seq(Nat)] /\ g \in Seq(Nat) /\ s \in Seq(Msg) /\ p \in Seq(Msg)
      /\ m.u \in Seq(Nat) /\ d \in Seq(Msg)
  BY DEF Texts, Msg, Inserts
<1>2. /\ ToSet(h[r]) = ToSet(c) \union ToSet(m.u)
      /\ Within(R, h[r]) => /\ Within(R, c) /\ Within(R, m.u)
                            /\ Before(R, ToSet(c), ToSet(m.u))
  <2> DEFINE u == m.u
  <2>1. h[r] = c \o u /\ u \in Seq(Nat)
    BY <1>1
  <2> HIDE DEF u
  <2>2. /\ ToSet(c \o u) = ToSet(c) \union ToSet(u)
        /\ Within(R, c \o u) => /\ Within(R, c) /\ Within(R, u)
                                /\ Before(R, ToSet(c), ToSet(u))
    BY <2>1, ConcatRelates
  <2>3. /\ ToSet(h[r]) = ToSet(c) \union ToSet(u)
        /\ Within(R, h[r]) => /\ Within(R, c) /\ Within(R, u)
                              /\ Before(R, ToSet(c), ToSet(u))
    BY <2>1, <2>2
  <2> QED
    BY <2>3 DEF u
<1>4. /\ e \in [Reader -> Seq(Nat)] /\ e[r] = c
      /\ \A v \in Reader : v # r => e[v] = h[v]
  BY <1>1, HandChanges
<1> HIDE DEF e
<1>5. /\ Within(R, g) /\ Along(R, p) /\ Along(R, s) /\ Before(R, ToSet(g), UnitsOf(p))
      /\ Before(R, ToSet(g), UnitsOf(s)) /\ Before(R, UnitsOf(s), UnitsOf(p))
  BY DEF Chain
<1>6. \A v \in Reader :
        /\ Within(R, h[v]) /\ Before(R, ToSet(g), ToSet(h[v]))
        /\ Before(R, ToSet(h[v]), UnitsOf(s)) /\ Before(R, ToSet(h[v]), UnitsOf(p))
  BY DEF Chain
<1>7. /\ Within(R, m.u) /\ Within(R, c) /\ Before(R, ToSet(c), ToSet(m.u))
  BY <1>2, <1>6
<1>8. \A j \in DOMAIN s : Before(R, ToSet(m.u), ToSet(s[j].u))
  <2>1. Before(R, ToSet(m.u), UnitsOf(s))
    BY <1>2, <1>6 DEF Before
  <2> QED
    BY <2>1 DEF Before, UnitsOf
<1>9. UnitsOf(d) = UnitsOf(s) \union ToSet(m.u) /\ Along(R, d)
  <2>1. \A j \in DOMAIN s : ~(j < i) => Before(R, ToSet(m.u), ToSet(s[j].u))
    BY <1>8
  <2> QED
    BY <1>1, <1>5, <1>7, <2>1, InsertRelates
<1>10. Before(R, ToSet(g), UnitsOf(d)) /\ Before(R, UnitsOf(d), UnitsOf(p))
  <2>1. Before(R, ToSet(g), ToSet(m.u)) /\ Before(R, ToSet(m.u), UnitsOf(p))
    BY <1>2, <1>6 DEF Before
  <2> QED
    BY <1>5, <1>9, <2>1 DEF Before
<1>11. ASSUME NEW v \in Reader
       PROVE  /\ Within(R, e[v]) /\ Before(R, ToSet(g), ToSet(e[v]))
              /\ Before(R, ToSet(e[v]), UnitsOf(d)) /\ Before(R, ToSet(e[v]), UnitsOf(p))
  <2>1. CASE v # r
    <3>1. Before(R, ToSet(h[v]), ToSet(m.u))
      BY <1>2, <2>1 DEF Before, Lone
    <3>2. Before(R, ToSet(h[v]), UnitsOf(d))
      <4>1. Before(R, ToSet(h[v]), UnitsOf(s))
        BY <1>6
      <4> QED
        BY <1>9, <3>1, <4>1 DEF Before
    <3> QED
      BY <1>4, <1>6, <2>1, <3>2
  <2>2. CASE v = r
    <3>1. /\ Before(R, ToSet(g), ToSet(c)) /\ Before(R, ToSet(c), UnitsOf(s))
          /\ Before(R, ToSet(c), UnitsOf(p))
      BY <1>2, <1>6 DEF Before
    <3>2. Before(R, ToSet(c), UnitsOf(d))
      BY <1>7, <1>9, <3>1 DEF Before
    <3> QED
      BY <1>4, <1>7, <2>2, <3>1, <3>2
  <2> QED
    BY <2>1, <2>2
<1>12. Chain(R, g, e, d, p)
  BY <1>5, <1>9, <1>10, <1>11 DEF Chain
<1>13. Texts(g, e, d, p)
  BY <1>1, <1>4 DEF Texts
<1> QED
  BY <1>12, <1>13 DEF e

\* A message comes behind all others.
LEMMA ChainArrives ==
    ASSUME NEW R, NEW g, NEW h, NEW s, NEW p, Texts(g, h, s, p), Chain(R, g, h, s, p),
           NEW m \in Msg, Within(R, m.u), NEW d, Inserts(p, Len(p) + 1, m, d),
           Before(R, ToSet(g), ToSet(m.u)), Before(R, UnitsOf(s), ToSet(m.u)),
           Before(R, UnitsOf(p), ToSet(m.u)),
           \A r \in Reader : Before(R, ToSet(h[r]), ToSet(m.u))
    PROVE  Texts(g, h, s, d) /\ Chain(R, g, h, s, d)
<1>1. p \in Seq(Msg) /\ DOMAIN p = 1 .. Len(p) /\ Len(p) \in Nat
  BY LenProperties DEF Texts
<1>2. \A j \in DOMAIN p : j < Len(p) + 1 /\ Before(R, ToSet(p[j].u), ToSet(m.u))
  BY <1>1 DEF Before, UnitsOf
<1>3. UnitsOf(d) = UnitsOf(p) \union ToSet(m.u) /\ Along(R, d)
  <2>1. Along(R, p)
    BY DEF Chain
  <2>2. /\ \A j \in DOMAIN p : j < Len(p) + 1 => Before(R, ToSet(p[j].u), ToSet(m.u))
        /\ \A j \in DOMAIN p : ~(j < Len(p) + 1) => Before(R, ToSet(m.u), ToSet(p[j].u))
    BY <1>2
  <2> QED
    BY <1>1, <2>1, <2>2, InsertRelates
<1>4. /\ Within(R, g) /\ Along(R, s) /\ Before(R, ToSet(g), UnitsOf(s))
      /\ Before(R, ToSet(g), UnitsOf(d)) /\ Before(R, UnitsOf(s), UnitsOf(d))
  <2>1. /\ Within(R, g) /\ Along(R, s) /\ Before(R, ToSet(g), UnitsOf(s))
        /\ Before(R, ToSet(g), UnitsOf(p)) /\ Before(R, UnitsOf(s), UnitsOf(p))
    BY DEF Chain
  <2>2. Before(R, ToSet(g), UnitsOf(d))
    BY <1>3, <2>1 DEF Before
  <2>3. Before(R, UnitsOf(s), UnitsOf(d))
    BY <1>3, <2>1 DEF Before
  <2> QED
    BY <2>1, <2>2, <2>3
<1>5. ASSUME NEW r \in Reader
      PROVE  /\ Within(R, h[r]) /\ Before(R, ToSet(g), ToSet(h[r]))
             /\ Before(R, ToSet(h[r]), UnitsOf(s)) /\ Before(R, ToSet(h[r]), UnitsOf(d))
  <2>1. /\ Within(R, h[r]) /\ Before(R, ToSet(g), ToSet(h[r]))
        /\ Before(R, ToSet(h[r]), UnitsOf(s)) /\ Before(R, ToSet(h[r]), UnitsOf(p))
        /\ Before(R, ToSet(h[r]), ToSet(m.u))
    BY DEF Chain
  <2>2. Before(R, ToSet(h[r]), UnitsOf(d))
    BY <1>3, <2>1 DEF Before
  <2> QED
    BY <2>1, <2>2
<1>6. Chain(R, g, h, s, d)
  BY <1>3, <1>4, <1>5 DEF Chain
<1> QED
  BY <1>6 DEF Texts, Inserts

\* A message goes from the list to the queue, in front of messages that it may overtake.
LEMMA ChainProcess ==
    ASSUME NEW R, NEW g, NEW h, NEW s, NEW p, Texts(g, h, s, p), Chain(R, g, h, s, p), p # <<>>,
           NEW i, NEW d, Inserts(s, i, Head(p), d),
           \A j \in DOMAIN s : ~(j < i) => Before(R, ToSet(Head(p).u), ToSet(s[j].u))
    PROVE  Texts(g, h, d, Tail(p)) /\ Chain(R, g, h, d, Tail(p))
<1> DEFINE m == Head(p)
           t == Tail(p)
<1>1. /\ g \in Seq(Nat) /\ h \in [Reader -> Seq(Nat)] /\ s \in Seq(Msg) /\ d \in Seq(Msg)
      /\ t \in Seq(Msg) /\ m \in Msg
  BY TailKept DEF Texts, Inserts
<1>2. /\ UnitsOf(p) = ToSet(m.u) \union UnitsOf(t)
      /\ Within(R, m.u) /\ Along(R, t) /\ Before(R, ToSet(m.u), UnitsOf(t))
  BY TailRelates DEF Texts, Chain
<1>3. Inserts(s, i, m, d) /\ \A j \in DOMAIN s : ~(j < i) => Before(R, ToSet(m.u), ToSet(s[j].u))
  OBVIOUS
<1> HIDE DEF m, t
<1>5. /\ Within(R, g) /\ Along(R, s) /\ Before(R, ToSet(g), UnitsOf(p))
      /\ Before(R, ToSet(g), UnitsOf(s)) /\ Before(R, UnitsOf(s), UnitsOf(p))
  BY DEF Chain
<1>6. \A v \in Reader :
        /\ Within(R, h[v]) /\ Before(R, ToSet(g), ToSet(h[v]))
        /\ Before(R, ToSet(h[v]), UnitsOf(s)) /\ Before(R, ToSet(h[v]), UnitsOf(p))
  BY DEF Chain
<1>7. \A j \in DOMAIN s : Before(R, ToSet(s[j].u), ToSet(m.u))
  BY <1>2, <1>5 DEF Before, UnitsOf
<1>8. UnitsOf(d) = UnitsOf(s) \union ToSet(m.u) /\ Along(R, d)
  <2>1. \A j \in DOMAIN s : j < i => Before(R, ToSet(s[j].u), ToSet(m.u))
    BY <1>7
  <2> QED
    BY <1>1, <1>2, <1>3, <1>5, <2>1, InsertRelates
<1>9. /\ Before(R, ToSet(g), ToSet(m.u)) /\ Before(R, ToSet(g), UnitsOf(t))
      /\ Before(R, UnitsOf(s), UnitsOf(t))
  BY <1>2, <1>5 DEF Before
<1>10. Before(R, ToSet(g), UnitsOf(d)) /\ Before(R, UnitsOf(d), UnitsOf(t))
  BY <1>2, <1>5, <1>8, <1>9, BeforeUnion
<1>11. ASSUME NEW v \in Reader
       PROVE  Before(R, ToSet(h[v]), UnitsOf(d)) /\ Before(R, ToSet(h[v]), UnitsOf(t))
  <2>1. /\ Before(R, ToSet(h[v]), ToSet(m.u)) /\ Before(R, ToSet(h[v]), UnitsOf(t))
        /\ Before(R, ToSet(h[v]), UnitsOf(s))
    BY <1>2, <1>6 DEF Before
  <2> QED
    BY <1>8, <2>1 DEF Before
<1>12. Chain(R, g, h, d, t)
  BY <1>2, <1>5, <1>6, <1>8, <1>9, <1>10, <1>11 DEF Chain
<1>13. Texts(g, h, d, t)
  BY <1>1 DEF Texts
<1> QED
  BY <1>12, <1>13 DEF t

\* The units are related in another way, too.
LEMMA ChainWider ==
    ASSUME NEW R, NEW g, NEW h, NEW s, NEW p, Chain(R, g, h, s, p), NEW Q, NEW U,
           \A x, y \in U : <<x, y>> \in R => <<x, y>> \in Q,
           ToSet(g) \subseteq U, UnitsOf(s) \subseteq U, UnitsOf(p) \subseteq U,
           \A r \in Reader : ToSet(h[r]) \subseteq U
    PROVE  Chain(Q, g, h, s, p)
<1>1. ASSUME NEW A, NEW B, A \subseteq U, B \subseteq U, Before(R, A, B)
      PROVE  Before(Q, A, B)
  BY <1>1 DEF Before
<1>2. ASSUME NEW t, ToSet(t) \subseteq U, Within(R, t)
      PROVE  Within(Q, t)
  BY <1>2 DEF Within, ToSet
<1>3. ASSUME NEW t, UnitsOf(t) \subseteq U, Along(R, t)
      PROVE  Along(Q, t)
  <2>1. \A i \in DOMAIN t : ToSet(t[i].u) \subseteq U
    BY <1>3 DEF UnitsOf
  <2>2. \A i \in DOMAIN t : Within(R, t[i].u)
    BY <1>3 DEF Along
  <2>3. \A i \in DOMAIN t : Within(Q, t[i].u)
    BY <1>2, <2>1, <2>2
  <2>4. \A i, j \in DOMAIN t : i < j => Before(R, ToSet(t[i].u), ToSet(t[j].u))
    BY <1>3 DEF Along
  <2>5. \A i, j \in DOMAIN t : i < j => Before(Q, ToSet(t[i].u), ToSet(t[j].u))
    BY <1>1, <2>1, <2>4
  <2> QED
    BY <2>3, <2>5 DEF Along
<1>4. /\ Within(Q, g) /\ Along(Q, s) /\ Along(Q, p)
      /\ Before(Q, ToSet(g), UnitsOf(s)) /\ Before(Q, ToSet(g), UnitsOf(p))
      /\ Before(Q, UnitsOf(s), UnitsOf(p))
  BY <1>1, <1>2, <1>3 DEF Chain
<1>5. ASSUME NEW r \in Reader
      PROVE  /\ Within(Q, h[r]) /\ Before(Q, ToSet(g), ToSet(h[r]))
             /\ Before(Q, ToSet(h[r]), UnitsOf(s)) /\ Before(Q, ToSet(h[r]), UnitsOf(p))
  BY <1>1, <1>2 DEF Chain
<1> QED
  BY <1>4, <1>5 DEF Chain

-----------------------------------------------------------------------------
(* Each unit is in one place                                               *)

Differ    == {z \in Nat \X Nat : z[1] # z[2]}
Rising(N) == {z \in Nat \X Nat : z[1] \in N /\ z[2] \in N => z[1] < z[2]}

\* The first n units are where each is once; x have been flushed or thrown away.
Once(g, x, h, s, p, n) ==
  /\ Chain(Differ, g, h, s, p)
  /\ \A r, t \in Reader : r # t => ToSet(h[r]) \cap ToSet(h[t]) = {}
  /\ x \cap ToSet(g) = {} /\ x \cap UnitsOf(s) = {} /\ x \cap UnitsOf(p) = {}
  /\ \A r \in Reader : x \cap ToSet(h[r]) = {}
  /\ \A y : y \in 1 .. n <=> \/ y \in ToSet(g) \/ y \in x \/ y \in UnitsOf(s) \/ y \in UnitsOf(p)
                             \/ \E r \in Reader : y \in ToSet(h[r])

\* What it is to be in one of the two relations.
LEMMA Pairs ==
    ASSUME NEW x \in Nat, NEW y \in Nat
    PROVE  /\ <<x, y>> \in Differ <=> x # y
           /\ \A N : <<x, y>> \in Rising(N) <=> (x \in N /\ y \in N => x < y)
<1> <<x, y>> \in Nat \X Nat /\ <<x, y>>[1] = x /\ <<x, y>>[2] = y
  OBVIOUS
<1> QED
  BY DEF Differ, Rising

\* Units differ if no unit is in both sets.
LEMMA DifferIs ==
    ASSUME NEW A, NEW B, A \subseteq Nat, B \subseteq Nat
    PROVE  Before(Differ, A, B) <=> A \cap B = {}
<1>1. \A x \in A, y \in B : <<x, y>> \in Differ <=> x # y
  BY Pairs
<1> QED
  BY <1>1 DEF Before

\* All places hold numbers, and no two the same one.
LEMMA PlacesApart ==
    ASSUME NEW g, NEW x, NEW h, NEW s, NEW p, NEW n \in Nat, Once(g, x, h, s, p, n)
    PROVE  /\ ToSet(g) \subseteq Nat /\ UnitsOf(s) \subseteq Nat /\ UnitsOf(p) \subseteq Nat
           /\ \A r \in Reader : ToSet(h[r]) \subseteq Nat
           /\ ToSet(g) \cap UnitsOf(s) = {} /\ ToSet(g) \cap UnitsOf(p) = {}
           /\ UnitsOf(s) \cap UnitsOf(p) = {}
           /\ \A r \in Reader : /\ ToSet(g) \cap ToSet(h[r]) = {}
                                /\ ToSet(h[r]) \cap UnitsOf(s) = {}
                                /\ ToSet(h[r]) \cap UnitsOf(p) = {}
<1>1. \A y \in 1 .. n : y \in Nat
  OBVIOUS
<1>2. /\ ToSet(g) \subseteq Nat /\ UnitsOf(s) \subseteq Nat /\ UnitsOf(p) \subseteq Nat
      /\ \A r \in Reader : ToSet(h[r]) \subseteq Nat
  BY <1>1 DEF Once
<1>3. /\ Before(Differ, ToSet(g), UnitsOf(s)) /\ Before(Differ, ToSet(g), UnitsOf(p))
      /\ Before(Differ, UnitsOf(s), UnitsOf(p))
      /\ \A r \in Reader : /\ Before(Differ, ToSet(g), ToSet(h[r]))
                           /\ Before(Differ, ToSet(h[r]), UnitsOf(s))
                           /\ Before(Differ, ToSet(h[r]), UnitsOf(p))
  BY DEF Once, Chain
<1>4. /\ ToSet(g) \cap UnitsOf(s) = {} /\ ToSet(g) \cap UnitsOf(p) = {}
      /\ UnitsOf(s) \cap UnitsOf(p) = {}
  BY <1>2, <1>3, DifferIs
<1>5. ASSUME NEW r \in Reader
      PROVE  /\ ToSet(g) \cap ToSet(h[r]) = {} /\ ToSet(h[r]) \cap UnitsOf(s) = {}
             /\ ToSet(h[r]) \cap UnitsOf(p) = {}
  BY <1>2, <1>3, DifferIs
<1> QED
  BY <1>2, <1>4, <1>5

\* What readers have in hand differs.
LEMMA HandsApart ==
    ASSUME NEW g, NEW x, NEW h, NEW s, NEW p, NEW n \in Nat, Once(g, x, h, s, p, n),
           NEW r \in Reader
    PROVE  Lone(Differ, r, h)
<1>1. ASSUME NEW t \in Reader \ {r}
      PROVE  /\ Before(Differ, ToSet(h[r]), ToSet(h[t]))
             /\ Before(Differ, ToSet(h[t]), ToSet(h[r]))
  <2>1. ToSet(h[r]) \subseteq Nat /\ ToSet(h[t]) \subseteq Nat
    BY PlacesApart
  <2>2. ToSet(h[r]) \cap ToSet(h[t]) = {} /\ ToSet(h[t]) \cap ToSet(h[r]) = {}
    BY DEF Once
  <2> QED
    BY <2>1, <2>2, DifferIs
<1> QED
  BY <1>1 DEF Lone

\* Each unit stays where each is once: a reader takes the first message of the queue,
LEMMA OnceTake ==
    ASSUME NEW g, NEW x, NEW h, NEW s, NEW p, NEW n \in Nat, Texts(g, h, s, p),
           Once(g, x, h, s, p, n), NEW r \in Reader, s # <<>>
    PROVE  Once(g, x, [h EXCEPT ![r] = h[r] \o Head(s).u], Tail(s), p, n)
<1> DEFINE e == [h EXCEPT ![r] = h[r] \o Head(s).u]
           T == UnitsOf(Tail(s))
           V == ToSet(Head(s).u)
<1>1. Chain(Differ, g, e, Tail(s), p)
  BY ChainTake DEF Once
<1>2. UnitsOf(s) = V \union T
  BY TailRelates DEF Texts
<1>3. /\ ToSet(e[r]) = ToSet(h[r]) \union V /\ \A v \in Reader : v # r => e[v] = h[v]
  <2>1. h[r] \in Seq(Nat) /\ Head(s).u \in Seq(Nat) /\ h \in [Reader -> Seq(Nat)]
    <3>1. Head(s) \in Msg
      BY TailKept DEF Texts
    <3> QED
      BY <3>1 DEF Texts, Msg
  <2>2. h[r] \o Head(s).u \in Seq(Nat) /\ ToSet(h[r] \o Head(s).u) = ToSet(h[r]) \union V
    BY <2>1, ConcatRelates
  <2> QED
    BY <2>1, <2>2, HandChanges
<1> HIDE DEF e, T, V
<1>4. /\ x \cap T = {} /\ x \cap UnitsOf(p) = {} /\ x \cap ToSet(g) = {}
      /\ \A v \in Reader : x \cap ToSet(e[v]) = {}
  BY <1>2, <1>3 DEF Once
<1>5. \A v, t \in Reader : v # t => ToSet(e[v]) \cap ToSet(e[t]) = {}
  <2>1. \A v \in Reader : ToSet(h[v]) \cap V = {}
    BY <1>2, PlacesApart
  <2>2. \A v, t \in Reader : v # t => ToSet(h[v]) \cap ToSet(h[t]) = {}
    BY DEF Once
  <2>3. \A v \in Reader : ToSet(e[v]) = IF v = r THEN ToSet(h[r]) \union V ELSE ToSet(h[v])
    BY <1>3
  <2> SUFFICES ASSUME NEW v \in Reader, NEW t \in Reader, v # t
               PROVE  ToSet(e[v]) \cap ToSet(e[t]) = {}
    OBVIOUS
  <2> QED
    BY <2>1, <2>2, <2>3
<1>6. ASSUME NEW y
      PROVE  y \in 1 .. n <=> \/ y \in ToSet(g) \/ y \in x \/ y \in T \/ y \in UnitsOf(p)
                              \/ \E v \in Reader : y \in ToSet(e[v])
  <2>1. y \in 1 .. n <=> \/ y \in ToSet(g) \/ y \in x \/ y \in V \union T \/ y \in UnitsOf(p)
                         \/ \E v \in Reader : y \in ToSet(h[v])
    BY <1>2 DEF Once
  <2>2. (\E v \in Reader : y \in ToSet(e[v])) <=> y \in V \/ \E v \in Reader : y \in ToSet(h[v])
    BY <1>3
  <2> QED
    BY <2>1, <2>2
<1> QED
  BY <1>1, <1>4, <1>5, <1>6 DEF Once, e, T

\* returns what it has, or loses it,
LEMMA OnceKeep ==
    ASSUME NEW g, NEW x, NEW h, NEW s, NEW p, NEW n \in Nat, Texts(g, h, s, p),
           Once(g, x, h, s, p, n), NEW r \in Reader,
           NEW c \in Seq(Nat), NEW d \in Seq(Nat), h[r] = c \o d
    PROVE  LET e == [h EXCEPT ![r] = <<>>]
           IN  /\ Once(g \o c, x \union ToSet(d), e, s, p, n)
               /\ Once(g, x \union ToSet(h[r]), e, s, p, n)
<1> DEFINE e == [h EXCEPT ![r] = <<>>]
           f == g \o c
<1>1. Chain(Differ, f, e, s, p) /\ Chain(Differ, g, e, s, p)
  <2>1. Lone(Differ, r, h)
    BY HandsApart
  <2>2. Chain(Differ, g, h, s, p)
    BY DEF Once
  <2> QED
    BY <2>1, <2>2, ChainKeep
<1>2. ToSet(h[r]) = ToSet(c) \union ToSet(d) /\ ToSet(f) = ToSet(g) \union ToSet(c)
  BY ConcatRelates DEF Texts
<1>a. ToSet(c) \cap ToSet(d) = {}
  <2>1. Within(Differ, h[r])
    BY DEF Once, Chain
  <2>2. Before(Differ, ToSet(c), ToSet(d))
    <3>1. Within(Differ, c \o d) => Before(Differ, ToSet(c), ToSet(d))
      BY ConcatRelates
    <3> QED
      BY <2>1, <3>1
  <2>3. ToSet(c) \subseteq Nat /\ ToSet(d) \subseteq Nat
    BY <1>2, PlacesApart
  <2> QED
    BY <2>2, <2>3, DifferIs
<1>3. ToSet(e[r]) = {} /\ \A v \in Reader : v # r => e[v] = h[v]
  <2>1. h \in [Reader -> Seq(Nat)] /\ <<>> \in Seq(Nat)
    BY DEF Texts
  <2> QED
    BY <2>1, HandChanges, NoUnits
<1> HIDE DEF e, f
<1>d. \A v \in Reader : ToSet(e[v]) = IF v = r THEN {} ELSE ToSet(h[v])
  BY <1>3
<1>4. \A v, t \in Reader : v # t => ToSet(e[v]) \cap ToSet(e[t]) = {}
  <2>2. \A v, t \in Reader : v # t => ToSet(h[v]) \cap ToSet(h[t]) = {}
    BY DEF Once
  <2> QED
    BY <1>d, <2>2
<1>5. /\ ToSet(h[r]) \cap ToSet(g) = {} /\ ToSet(h[r]) \cap UnitsOf(s) = {}
      /\ ToSet(h[r]) \cap UnitsOf(p) = {}
      /\ \A v \in Reader : v # r => ToSet(h[r]) \cap ToSet(h[v]) = {}
  <2>1. /\ ToSet(g) \cap ToSet(h[r]) = {} /\ ToSet(h[r]) \cap UnitsOf(s) = {}
        /\ ToSet(h[r]) \cap UnitsOf(p) = {}
    BY PlacesApart
  <2>2. \A v \in Reader : v # r => ToSet(h[r]) \cap ToSet(h[v]) = {}
    BY DEF Once
  <2> QED
    BY <2>1, <2>2
<1>6. /\ x \cap ToSet(g) = {} /\ x \cap UnitsOf(s) = {} /\ x \cap UnitsOf(p) = {}
      /\ \A v \in Reader : x \cap ToSet(h[v]) = {}
  BY DEF Once
<1>7. /\ (x \union ToSet(d)) \cap ToSet(f) = {} /\ (x \union ToSet(d)) \cap UnitsOf(s) = {}
      /\ (x \union ToSet(d)) \cap UnitsOf(p) = {}
      /\ (x \union ToSet(h[r])) \cap ToSet(g) = {} /\ (x \union ToSet(h[r])) \cap UnitsOf(s) = {}
      /\ (x \union ToSet(h[r])) \cap UnitsOf(p) = {}
  BY <1>2, <1>a, <1>5, <1>6
<1>8. \A v \in Reader : /\ (x \union ToSet(d)) \cap ToSet(e[v]) = {}
                        /\ (x \union ToSet(h[r])) \cap ToSet(e[v]) = {}
  BY <1>2, <1>d, <1>5, <1>6
<1>9. ASSUME NEW y
      PROVE  /\ y \in 1 .. n <=> \/ y \in ToSet(f) \/ y \in x \union ToSet(d) \/ y \in UnitsOf(s)
                                 \/ y \in UnitsOf(p) \/ \E v \in Reader : y \in ToSet(e[v])
             /\ y \in 1 .. n <=> \/ y \in ToSet(g) \/ y \in x \union ToSet(h[r]) \/ y \in UnitsOf(s)
                                 \/ y \in UnitsOf(p) \/ \E v \in Reader : y \in ToSet(e[v])
  <2>1. y \in 1 .. n <=> \/ y \in ToSet(g) \/ y \in x \/ y \in UnitsOf(s) \/ y \in UnitsOf(p)
                         \/ \E v \in Reader : y \in ToSet(h[v])
    BY DEF Once
  <2>2. (\E v \in Reader : y \in ToSet(h[v])) <=>
           y \in ToSet(h[r]) \/ \E v \in Reader : y \in ToSet(e[v])
    BY <1>d
  <2> QED
    BY <1>2, <2>1, <2>2
<1> QED
  BY <1>1, <1>4, <1>7, <1>8, <1>9 DEF Once, e, f

\* or puts it back;
LEMMA OncePut ==
    ASSUME NEW g, NEW x, NEW h, NEW s, NEW p, NEW n \in Nat, Texts(g, h, s, p),
           Once(g, x, h, s, p, n), NEW r \in Reader,
           NEW c \in Seq(Nat), NEW m \in Msg, h[r] = c \o m.u, NEW i, NEW d, Inserts(s, i, m, d)
    PROVE  Once(g, x, [h EXCEPT ![r] = c], d, p, n)
<1> DEFINE e == [h EXCEPT ![r] = c]
<1>u. m.u \in Seq(Nat) /\ s \in Seq(Msg) /\ h \in [Reader -> Seq(Nat)]
  BY DEF Msg, Texts
<1>2. ToSet(h[r]) = ToSet(c) \union ToSet(m.u)
  <2> DEFINE u == m.u
  <2>1. h[r] = c \o u /\ u \in Seq(Nat)
    BY <1>u
  <2> HIDE DEF u
  <2> QED
    BY <2>1, ConcatRelates DEF u
<1>w. Within(Differ, h[r])
  BY DEF Once, Chain
<1>a. ToSet(c) \cap ToSet(m.u) = {} /\ Within(Differ, m.u)
  <2> DEFINE u == m.u
  <2>1. h[r] = c \o u /\ u \in Seq(Nat)
    BY <1>u
  <2>3. ToSet(c) \subseteq Nat /\ ToSet(u) \subseteq Nat
    BY <1>2, PlacesApart
  <2> HIDE DEF u
  <2>2. Before(Differ, ToSet(c), ToSet(u)) /\ Within(Differ, u)
    <3>1. Within(Differ, c \o u)
      BY <2>1, <1>w
    <3> QED
      BY <2>1, <3>1, ConcatRelates
  <2> QED
    BY <2>2, <2>3, DifferIs DEF u
<1>b. \A j \in DOMAIN s : Before(Differ, ToSet(s[j].u), ToSet(m.u))
                          /\ Before(Differ, ToSet(m.u), ToSet(s[j].u))
  <2>1. UnitsOf(s) \subseteq Nat /\ ToSet(m.u) \subseteq Nat /\ UnitsOf(s) \cap ToSet(m.u) = {}
    BY <1>2, PlacesApart
  <2>2. \A j \in DOMAIN s : ToSet(s[j].u) \subseteq UnitsOf(s)
    BY DEF UnitsOf
  <2> SUFFICES ASSUME NEW j \in DOMAIN s
               PROVE  /\ Before(Differ, ToSet(s[j].u), ToSet(m.u))
                      /\ Before(Differ, ToSet(m.u), ToSet(s[j].u))
    OBVIOUS
  <2>3. /\ ToSet(s[j].u) \subseteq Nat /\ ToSet(s[j].u) \cap ToSet(m.u) = {}
        /\ ToSet(m.u) \cap ToSet(s[j].u) = {}
    BY <2>1, <2>2
  <2> QED
    BY <2>1, <2>3, DifferIs
<1>1. Chain(Differ, g, e, d, p)
  <2>1. Lone(Differ, r, h)
    BY HandsApart
  <2>2. Chain(Differ, g, h, s, p)
    BY DEF Once
  <2> QED
    BY <2>1, <2>2, <1>b, ChainPut
<1>c. UnitsOf(d) = UnitsOf(s) \union ToSet(m.u)
  <2>1. Along(Differ, s)
    BY DEF Once, Chain
  <2> QED
    BY <1>u, <1>a, <1>b, <2>1, InsertRelates
<1>3. ToSet(e[r]) = ToSet(c) /\ \A v \in Reader : v # r => e[v] = h[v]
  BY <1>u, HandChanges
<1> HIDE DEF e
<1>d. \A v \in Reader : ToSet(e[v]) = IF v = r THEN ToSet(c) ELSE ToSet(h[v])
  BY <1>3
<1>4. \A v, t \in Reader : v # t => ToSet(e[v]) \cap ToSet(e[t]) = {}
  <2>2. \A v, t \in Reader : v # t => ToSet(h[v]) \cap ToSet(h[t]) = {}
    BY DEF Once
  <2> QED
    BY <1>d, <1>2, <2>2
<1>6. /\ x \cap ToSet(g) = {} /\ x \cap UnitsOf(s) = {} /\ x \cap UnitsOf(p) = {}
      /\ \A v \in Reader : x \cap ToSet(h[v]) = {}
  BY DEF Once
<1>7. x \cap UnitsOf(d) = {} /\ \A v \in Reader : x \cap ToSet(e[v]) = {}
  BY <1>2, <1>c, <1>d, <1>6
<1>9. ASSUME NEW y
      PROVE  y \in 1 .. n <=> \/ y \in ToSet(g) \/ y \in x \/ y \in UnitsOf(d)
                              \/ y \in UnitsOf(p) \/ \E v \in Reader : y \in ToSet(e[v])
  <2>1. y \in 1 .. n <=> \/ y \in ToSet(g) \/ y \in x \/ y \in UnitsOf(s) \/ y \in UnitsOf(p)
                         \/ \E v \in Reader : y \in ToSet(h[v])
    BY DEF Once
  <2>2. y \in ToSet(m.u) \/ (\E v \in Reader : y \in ToSet(e[v])) <=>
           \E v \in Reader : y \in ToSet(h[v])
    BY <1>2, <1>d
  <2> QED
    BY <1>c, <2>1, <2>2
<1> QED
  BY <1>1, <1>4, <1>6, <1>7, <1>9 DEF Once, e

\* messages are flushed,
LEMMA OnceDrop ==
    ASSUME NEW g, NEW x, NEW h, NEW s, NEW p, NEW n, Once(g, x, h, s, p, n),
           NEW s1, Along(Differ, s1), NEW p1, Along(Differ, p1), NEW L,
           UnitsOf(s1) \subseteq UnitsOf(s), UnitsOf(p1) \subseteq UnitsOf(p),
           UnitsOf(s) \union UnitsOf(p) = UnitsOf(s1) \union UnitsOf(p1) \union L,
           L \cap UnitsOf(s1) = {}, L \cap UnitsOf(p1) = {},
           L \cap ToSet(g) = {}, \A r \in Reader : L \cap ToSet(h[r]) = {}
    PROVE  Once(g, x \union L, h, s1, p1, n)
<1>1. Chain(Differ, g, h, s1, p1)
  BY ChainSub DEF Once
<1>2. /\ (x \union L) \cap ToSet(g) = {} /\ (x \union L) \cap UnitsOf(s1) = {}
      /\ (x \union L) \cap UnitsOf(p1) = {}
      /\ \A r \in Reader : (x \union L) \cap ToSet(h[r]) = {}
      /\ \A r, t \in Reader : r # t => ToSet(h[r]) \cap ToSet(h[t]) = {}
  BY DEF Once
<1>3. ASSUME NEW y
      PROVE  y \in 1 .. n <=> \/ y \in ToSet(g) \/ y \in x \union L \/ y \in UnitsOf(s1)
                              \/ y \in UnitsOf(p1) \/ \E v \in Reader : y \in ToSet(h[v])
  <2>1. y \in UnitsOf(s) \/ y \in UnitsOf(p) <=> y \in UnitsOf(s1) \/ y \in UnitsOf(p1) \/ y \in L
    OBVIOUS
  <2> QED
    BY <2>1 DEF Once
<1> QED
  BY <1>1, <1>2, <1>3 DEF Once

\* a message comes, with the next units, and is added to the list or thrown away,
LEMMA OnceArrives ==
    ASSUME NEW g, NEW x, NEW h, NEW s, NEW p, NEW n \in Nat, Texts(g, h, s, p),
           Once(g, x, h, s, p, n), NEW m \in Msg, NEW k \in Nat, k >= n,
           ToSet(m.u) = (n + 1) .. k, Within(Differ, m.u),
           NEW d, Inserts(p, Len(p) + 1, m, d)
    PROVE  /\ Once(g, x, h, s, d, k)
           /\ Once(g, x \union ToSet(m.u), h, s, p, k)
<1>1. /\ \A y \in ToSet(m.u) : y \in Nat /\ y \notin 1 .. n
      /\ \A y : y \in 1 .. k <=> y \in 1 .. n \/ y \in ToSet(m.u)
  OBVIOUS
<1>2. /\ \A y \in ToSet(m.u) : /\ y \notin ToSet(g) /\ y \notin x /\ y \notin UnitsOf(s)
                               /\ y \notin UnitsOf(p)
                               /\ \A r \in Reader : y \notin ToSet(h[r])
  BY <1>1 DEF Once
<1>3. /\ Chain(Differ, g, h, s, p)
      /\ \A r, t \in Reader : r # t => ToSet(h[r]) \cap ToSet(h[t]) = {}
      /\ x \cap ToSet(g) = {} /\ x \cap UnitsOf(s) = {} /\ x \cap UnitsOf(p) = {}
      /\ \A r \in Reader : x \cap ToSet(h[r]) = {}
      /\ \A y : y \in 1 .. n <=> \/ y \in ToSet(g) \/ y \in x \/ y \in UnitsOf(s)
                                 \/ y \in UnitsOf(p) \/ \E r \in Reader : y \in ToSet(h[r])
  BY DEF Once
<1>4. /\ ToSet(g) \subseteq Nat /\ UnitsOf(s) \subseteq Nat /\ UnitsOf(p) \subseteq Nat
      /\ \A r \in Reader : ToSet(h[r]) \subseteq Nat
  BY PlacesApart
<1>5. ToSet(m.u) \subseteq Nat
  BY <1>1
<1>6. /\ Before(Differ, ToSet(g), ToSet(m.u)) /\ Before(Differ, UnitsOf(s), ToSet(m.u))
      /\ Before(Differ, UnitsOf(p), ToSet(m.u))
      /\ \A r \in Reader : Before(Differ, ToSet(h[r]), ToSet(m.u))
  <2>1. /\ ToSet(g) \cap ToSet(m.u) = {} /\ UnitsOf(s) \cap ToSet(m.u) = {}
        /\ UnitsOf(p) \cap ToSet(m.u) = {}
        /\ \A r \in Reader : ToSet(h[r]) \cap ToSet(m.u) = {}
    BY <1>2
  <2> QED
    BY <1>4, <1>5, <2>1, DifferIs
<1>7. Chain(Differ, g, h, s, d)
  BY <1>3, <1>6, ChainArrives
<1>8. UnitsOf(d) = UnitsOf(p) \union ToSet(m.u)
  <2>1. p \in Seq(Msg) /\ DOMAIN p = 1 .. Len(p) /\ Len(p) \in Nat
    BY LenProperties DEF Texts
  <2>2. \A j \in DOMAIN p : Before(Differ, ToSet(p[j].u), ToSet(m.u))
    BY <1>6 DEF Before, UnitsOf
  <2>3. \A j \in DOMAIN p : j < Len(p) + 1
    BY <2>1
  <2>4. Along(Differ, p)
    BY <1>3 DEF Chain
  <2> QED
    BY <2>1, <2>2, <2>3, <2>4, InsertRelates
<1>9. ASSUME NEW y
      PROVE  /\ y \in 1 .. k <=> \/ y \in ToSet(g) \/ y \in x \/ y \in UnitsOf(s)
                                 \/ y \in UnitsOf(d) \/ \E r \in Reader : y \in ToSet(h[r])
             /\ y \in 1 .. k <=> \/ y \in ToSet(g) \/ y \in x \union ToSet(m.u)
                                 \/ y \in UnitsOf(s) \/ y \in UnitsOf(p)
                                 \/ \E r \in Reader : y \in ToSet(h[r])
  <2>1. y \in 1 .. k <=> y \in 1 .. n \/ y \in ToSet(m.u)
    BY <1>1
  <2>2. y \in 1 .. n <=> \/ y \in ToSet(g) \/ y \in x \/ y \in UnitsOf(s)
                         \/ y \in UnitsOf(p) \/ \E r \in Reader : y \in ToSet(h[r])
    BY <1>3
  <2> HIDE DEF UnitsOf
  <2> QED
    BY <1>8, <2>1, <2>2
<1>10. x \cap UnitsOf(d) = {}
  BY <1>2, <1>3, <1>8
<1>11. /\ (x \union ToSet(m.u)) \cap ToSet(g) = {} /\ (x \union ToSet(m.u)) \cap UnitsOf(s) = {}
       /\ (x \union ToSet(m.u)) \cap UnitsOf(p) = {}
       /\ \A r \in Reader : (x \union ToSet(m.u)) \cap ToSet(h[r]) = {}
  BY <1>2, <1>3
<1>12. Once(g, x, h, s, d, k)
  BY <1>3, <1>7, <1>9, <1>10 DEF Once
<1>13. Once(g, x \union ToSet(m.u), h, s, p, k)
  BY <1>3, <1>9, <1>11 DEF Once
<1> QED
  BY <1>12, <1>13

\* or goes from the list to the queue.
LEMMA OnceProcess ==
    ASSUME NEW g, NEW x, NEW h, NEW s, NEW p, NEW n \in Nat, Texts(g, h, s, p),
           Once(g, x, h, s, p, n), p # <<>>, NEW i, NEW d, Inserts(s, i, Head(p), d)
    PROVE  Once(g, x, h, d, Tail(p), n)
<1> DEFINE m == Head(p)
           t == Tail(p)
<1>1. s \in Seq(Msg) /\ p \in Seq(Msg) /\ m \in Msg /\ t \in Seq(Msg)
  BY TailKept DEF Texts
<1>c. Chain(Differ, g, h, s, p)
  BY DEF Once
<1>2. UnitsOf(p) = ToSet(m.u) \union UnitsOf(t) /\ Within(Differ, m.u)
  BY <1>1, <1>c, TailRelates DEF Chain
<1>3. /\ UnitsOf(s) \subseteq Nat /\ UnitsOf(p) \subseteq Nat /\ UnitsOf(s) \cap UnitsOf(p) = {}
  BY PlacesApart
<1>4. ASSUME NEW j \in DOMAIN s
      PROVE  /\ Before(Differ, ToSet(s[j].u), ToSet(m.u))
             /\ Before(Differ, ToSet(m.u), ToSet(s[j].u))
  <2>1. ToSet(s[j].u) \subseteq UnitsOf(s)
    BY DEF UnitsOf
  <2> HIDE DEF m, t
  <2>2. /\ ToSet(s[j].u) \subseteq Nat /\ ToSet(m.u) \subseteq Nat
        /\ ToSet(s[j].u) \cap ToSet(m.u) = {} /\ ToSet(m.u) \cap ToSet(s[j].u) = {}
    BY <1>2, <1>3, <2>1
  <2> QED
    BY <2>2, DifferIs
<1>5. Chain(Differ, g, h, d, t)
  BY <1>c, <1>4, ChainProcess
<1>6. UnitsOf(d) = UnitsOf(s) \union ToSet(m.u)
  <2>1. Along(Differ, s) /\ Inserts(s, i, m, d)
    BY <1>c DEF Chain
  <2> HIDE DEF m
  <2> QED
    BY <1>1, <1>2, <1>4, <2>1, InsertRelates
<1> HIDE DEF m, t
<1>7. UnitsOf(s) \union UnitsOf(p) = UnitsOf(d) \union UnitsOf(t)
  BY <1>2, <1>6
<1>8. x \cap UnitsOf(d) = {} /\ x \cap UnitsOf(t) = {}
  <2>1. x \cap UnitsOf(s) = {} /\ x \cap UnitsOf(p) = {}
    BY DEF Once
  <2> QED
    BY <1>7, <2>1
<1>9. ASSUME NEW y
      PROVE  y \in 1 .. n <=> \/ y \in ToSet(g) \/ y \in x \/ y \in UnitsOf(d)
                              \/ y \in UnitsOf(t) \/ \E v \in Reader : y \in ToSet(h[v])
  <2>1. y \in 1 .. n <=> \/ y \in ToSet(g) \/ y \in x \/ y \in UnitsOf(s)
                         \/ y \in UnitsOf(p) \/ \E v \in Reader : y \in ToSet(h[v])
    BY DEF Once
  <2>2. y \in UnitsOf(s) \/ y \in UnitsOf(p) <=> y \in UnitsOf(d) \/ y \in UnitsOf(t)
    BY <1>7
  <2> QED
    BY <2>1, <2>2
<1>10. /\ \A r, v \in Reader : r # v => ToSet(h[r]) \cap ToSet(h[v]) = {}
       /\ x \cap ToSet(g) = {} /\ \A r \in Reader : x \cap ToSet(h[r]) = {}
  BY DEF Once
<1> QED
  BY <1>5, <1>8, <1>9, <1>10 DEF Once, t

-----------------------------------------------------------------------------
(* What this means for the places of a unit                                *)

\* A unit has one place in a sequence that has it once,
LEMMA WhereIs ==
    ASSUME NEW t \in Seq(Nat), Within(Differ, t), NEW x
    PROVE  /\ x \notin ToSet(t) => Where(t, x) = {}
           /\ x \in ToSet(t) => \E i : Where(t, x) = {i}
<1>1. DOMAIN t = 1 .. Len(t) /\ Len(t) \in Nat /\ \A i \in DOMAIN t : t[i] \in Nat
  BY LenProperties, ElementOfSeq
<1>2. ASSUME NEW i \in DOMAIN t, NEW j \in DOMAIN t, i < j
      PROVE  t[i] # t[j]
  BY <1>1, <1>2, Pairs DEF Within
<1>3. ASSUME NEW i \in DOMAIN t, NEW j \in DOMAIN t, t[i] = t[j]
      PROVE  i = j
  BY <1>1, <1>2, <1>3
<1>4. x \notin ToSet(t) => Where(t, x) = {}
  BY DEF Where, ToSet
<1>5. ASSUME x \in ToSet(t)
      PROVE  \E i : Where(t, x) = {i}
  <2>1. PICK i \in DOMAIN t : t[i] = x
    BY <1>5 DEF ToSet
  <2>2. Where(t, x) = {i}
    BY <1>3, <2>1 DEF Where
  <2> QED
    BY <2>2
<1> QED
  BY <1>4, <1>5

\* and in messages that have it once.
LEMMA AmongIs ==
    ASSUME NEW s \in Seq(Msg), Along(Differ, s), NEW x
    PROVE  /\ x \notin UnitsOf(s) => Among(s, x) = {}
           /\ x \in UnitsOf(s) => \E w : Among(s, x) = {w}
<1>1. DOMAIN s = 1 .. Len(s) /\ Len(s) \in Nat
  BY LenProperties
<1>2. \A i \in DOMAIN s : s[i].u \in Seq(Nat)
  <2>1. \A i \in DOMAIN s : s[i] \in Msg
    BY ElementOfSeq, <1>1
  <2> QED
    BY <2>1 DEF Msg
<1>3. \A i \in DOMAIN s : Within(Differ, s[i].u)
  BY DEF Along
<1>4. ASSUME NEW i \in DOMAIN s
      PROVE  /\ x \notin ToSet(s[i].u) => Where(s[i].u, x) = {}
             /\ x \in ToSet(s[i].u) => \E k : Where(s[i].u, x) = {k}
  <2> DEFINE t == s[i].u
  <2>1. t \in Seq(Nat) /\ Within(Differ, t)
    BY <1>2, <1>3
  <2> HIDE DEF t
  <2>2. /\ x \notin ToSet(t) => Where(t, x) = {}
        /\ x \in ToSet(t) => \E k : Where(t, x) = {k}
    BY <2>1, WhereIs
  <2> QED
    BY <2>2 DEF t
<1>5. ASSUME NEW i \in DOMAIN s, NEW j \in DOMAIN s, i < j
      PROVE  ~(x \in ToSet(s[i].u) /\ x \in ToSet(s[j].u))
  <2>1. Before(Differ, ToSet(s[i].u), ToSet(s[j].u))
    BY <1>5 DEF Along
  <2>2. <<x, x>> \notin Differ
    BY DEF Differ
  <2> QED
    BY <2>1, <2>2 DEF Before
<1>6. ASSUME x \notin UnitsOf(s)
      PROVE  Among(s, x) = {}
  <2>1. \A i \in DOMAIN s : Where(s[i].u, x) = {}
    BY <1>4, <1>6 DEF UnitsOf
  <2> QED
    BY <2>1 DEF Among
<1>7. ASSUME x \in UnitsOf(s)
      PROVE  \E w : Among(s, x) = {w}
  <2>1. PICK i \in DOMAIN s : x \in ToSet(s[i].u)
    BY <1>7 DEF UnitsOf
  <2>2. PICK k : Where(s[i].u, x) = {k}
    BY <1>4, <2>1
  <2>3. \A j \in DOMAIN s : j # i => Where(s[j].u, x) = {}
    <3> SUFFICES ASSUME NEW j \in DOMAIN s, j # i
                 PROVE  x \notin ToSet(s[j].u)
      BY <1>4
    <3>1. j < i \/ i < j
      BY <1>1
    <3> QED
      BY <1>5, <2>1, <3>1
  <2>4. Among(s, x) = {<<i, k>>}
    <3>1. \A w : w \in Among(s, x) <=> \E j \in DOMAIN s : \E l \in Where(s[j].u, x) : w = <<j, l>>
      BY DEF Among
    <3>2. \A w : w \in Among(s, x) <=> w = <<i, k>>
      BY <2>2, <2>3, <3>1
    <3> QED
      BY <3>2
  <2> QED
    BY <2>4
<1> QED
  BY <1>6, <1>7

-----------------------------------------------------------------------------
(* The invariant for ReadOnce                                              *)

Hands == [r \in Reader |-> Hand(r)]

\* When a reader has something in hand, and what has been counted by then.
Fits(x) ==
  /\ x.mp.u # <<>> => x.pc \in {"copy", "putback", "putbackpri"}
  /\ x.buf # <<>> => /\ x.pc \in {"lock", "look", "take", "copy", "putback", "putbackpri"}
                     /\ x.kind = "read" => x.msgs_read > 0
                     /\ x.kind # "read" => x.pc \in {"putback", "putbackpri"}
  /\ x.then = "again" => x.kind = "read"
HandsFit == \A r \in Reader : Fits(rd[r])

\* The units of a high priority message may overtake others; those of the normal ones not.
PriApart(m, N) == IsPri(m) => ToSet(m.u) \cap N = {}
Overtakers ==
  /\ normal \subseteq 1 .. units
  /\ \A m \in ToSet(q) : PriApart(m, normal)
  /\ \A m \in ToSet(rput) : PriApart(m, normal)
  /\ \A r \in Reader : PriApart(rd[r].mp, normal)
\* Only messages of data carry units.
DataTypes == {"DATA", "PROTO", "PCPROTO"}
OnlyData == \A m \in ToSet(rput) : m.t \notin DataTypes => m.u = <<>>

\* Each unit is once, and, while one reader is let in at a time, the normal ones are in order.
Sound(g, x, h, s, p, n, N, w) ==
  /\ Texts(g, h, s, p)
  /\ Once(g, x, h, s, p, n)
  /\ ~w => Chain(Rising(N), g, h, s, p)

OInv ==
  /\ IInv /\ HandsFit /\ PriFirst(q) /\ Overtakers /\ OnlyData
  /\ Sound(got, gone, Hands, q, rput, units, normal, woken)

-----------------------------------------------------------------------------
(* The invariant is kept when a reader takes, returns or puts back,        *)

\* The others have nothing in hand.
Alone(r, h) == \A t \in Reader \ {r} : h[t] = <<>>

\* A reader that alone has something in hand is in order with the others.
LEMMA AloneIsLone ==
    ASSUME NEW R, NEW h, NEW r, Alone(r, h)
    PROVE  Lone(R, r, h)
<1>1. \A t \in Reader \ {r} : ToSet(h[t]) = {}
  BY NoUnits DEF Alone
<1> QED
  BY <1>1 DEF Lone, Before

\* A reader takes the first message of the queue.
LEMMA SoundTake ==
    ASSUME NEW g, NEW x, NEW h, NEW s, NEW p, NEW n \in Nat, NEW N, NEW w,
           Sound(g, x, h, s, p, n, N, w), NEW r \in Reader, s # <<>>,
           NEW e, e = [h EXCEPT ![r] = h[r] \o Head(s).u]
    PROVE  Sound(g, x, e, Tail(s), p, n, N, w)
<1>1. Texts(g, h, s, p) /\ Once(g, x, h, s, p, n)
  BY DEF Sound
<1>2. Chain(Differ, g, h, s, p)
  BY <1>1 DEF Once
<1>3. Texts(g, e, Tail(s), p)
  BY <1>1, <1>2, ChainTake
<1>4. Once(g, x, e, Tail(s), p, n)
  BY <1>1, OnceTake
<1>5. ASSUME ~w
      PROVE  Chain(Rising(N), g, e, Tail(s), p)
  <2>1. Chain(Rising(N), g, h, s, p)
    BY <1>5 DEF Sound
  <2> QED
    BY <1>1, <2>1, ChainTake
<1> QED
  BY <1>3, <1>4, <1>5 DEF Sound

\* A reader returns the first part of what it has, and loses the rest; or loses all.
LEMMA SoundKeep ==
    ASSUME NEW g, NEW x, NEW h, NEW s, NEW p, NEW n \in Nat, NEW N, NEW w,
           Sound(g, x, h, s, p, n, N, w), NEW r \in Reader, ~w => Alone(r, h),
           NEW c \in Seq(Nat), NEW d \in Seq(Nat), h[r] = c \o d,
           NEW e, e = [h EXCEPT ![r] = <<>>]
    PROVE  /\ Sound(g \o c, x \union ToSet(d), e, s, p, n, N, w)
           /\ Sound(g, x \union ToSet(h[r]), e, s, p, n, N, w)
<1>1. Texts(g, h, s, p) /\ Once(g, x, h, s, p, n)
  BY DEF Sound
<1>2. Chain(Differ, g, h, s, p)
  BY <1>1 DEF Once
<1>3. Lone(Differ, r, h)
  BY <1>1, HandsApart
<1>4. Texts(g \o c, e, s, p) /\ Texts(g, e, s, p)
  BY <1>1, <1>2, <1>3, ChainKeep
<1>5. /\ Once(g \o c, x \union ToSet(d), e, s, p, n)
      /\ Once(g, x \union ToSet(h[r]), e, s, p, n)
  BY <1>1, OnceKeep
<1>6. ASSUME ~w
      PROVE  Chain(Rising(N), g \o c, e, s, p) /\ Chain(Rising(N), g, e, s, p)
  <2>1. Chain(Rising(N), g, h, s, p)
    BY <1>6 DEF Sound
  <2>2. Lone(Rising(N), r, h)
    BY <1>6, AloneIsLone
  <2> QED
    BY <1>1, <2>1, <2>2, ChainKeep
<1> QED
  BY <1>4, <1>5, <1>6 DEF Sound

\* The units of some messages differ from all of N, or have their number behind them.
LEMMA RisingApart ==
    ASSUME NEW N, NEW A, NEW B, A \subseteq Nat, B \subseteq Nat, A \cap N = {} \/ B \cap N = {}
    PROVE  Before(Rising(N), A, B)
  BY Pairs DEF Before

\* A reader puts the rest of a message back.
LEMMA SoundPut ==
    ASSUME NEW g, NEW x, NEW h, NEW s, NEW p, NEW n \in Nat, NEW N, NEW w,
           Sound(g, x, h, s, p, n, N, w), NEW r \in Reader, ~w => Alone(r, h),
           NEW c \in Seq(Nat), NEW m \in Msg, NEW u, u = m.u, h[r] = c \o u,
           PriFirst(s), \A j \in DOMAIN s : PriApart(s[j], N),
           NEW e, e = [h EXCEPT ![r] = c]
    PROVE  Sound(g, x, e, PutBq(s, m), p, n, N, w)
<1>1. Texts(g, h, s, p) /\ Once(g, x, h, s, p, n)
  BY DEF Sound
<1>2. Chain(Differ, g, h, s, p) /\ s \in Seq(Msg) /\ h[r] = c \o m.u
  BY <1>1 DEF Once, Texts
<1>3. Lone(Differ, r, h)
  BY <1>1, HandsApart
<1> DEFINE d == PutBq(s, m)
<1>4. PICK i : Inserts(s, i, m, d) /\ \A j \in DOMAIN s : j < i => IsPri(s[j])
  BY <1>2, PutBqIs
<1> HIDE DEF d
<1>5. Once(g, x, e, d, p, n)
  BY <1>1, <1>2, <1>4, OncePut
<1>6. u \in Seq(Nat) /\ ToSet(h[r]) = ToSet(c) \union ToSet(u)
  <2>1. u \in Seq(Nat)
    BY DEF Msg
  <2> QED
    BY <1>2, <2>1, ConcatRelates
<1>7. ToSet(h[r]) \cap UnitsOf(s) = {} /\ UnitsOf(s) \subseteq Nat /\ ToSet(h[r]) \subseteq Nat
  BY <1>1, PlacesApart
<1>8. \A j \in DOMAIN s : ToSet(s[j].u) \subseteq UnitsOf(s)
  BY DEF UnitsOf
<1>9. ToSet(u) \subseteq Nat /\ \A j \in DOMAIN s : ToSet(s[j].u) \subseteq Nat
  BY <1>6, <1>7, <1>8
<1>10. \A j \in DOMAIN s : Before(Differ, ToSet(s[j].u), ToSet(u))
  <2> TAKE j \in DOMAIN s
  <2>1. ToSet(s[j].u) \cap ToSet(u) = {}
    BY <1>6, <1>7, <1>8
  <2> QED
    BY <2>1, <1>9, DifferIs
<1>11. Texts(g, e, d, p)
  BY <1>1, <1>2, <1>3, <1>4, <1>10, ChainPut
<1>12. ASSUME ~w
       PROVE  Chain(Rising(N), g, e, d, p)
  <2>1. Chain(Rising(N), g, h, s, p)
    BY <1>12 DEF Sound
  <2>2. Lone(Rising(N), r, h)
    BY <1>12, AloneIsLone
  <2>3. \A j \in DOMAIN s : j < i => Before(Rising(N), ToSet(s[j].u), ToSet(m.u))
    <3> SUFFICES ASSUME NEW j \in DOMAIN s, j < i
                 PROVE  Before(Rising(N), ToSet(s[j].u), ToSet(m.u))
      OBVIOUS
    <3>1. ToSet(s[j].u) \cap N = {}
      BY <1>4 DEF PriApart
    <3>2. Before(Rising(N), ToSet(s[j].u), ToSet(u))
      BY <3>1, <1>9, RisingApart
    <3> QED
      BY <3>2
  <2> QED
    BY <1>1, <1>2, <1>4, <2>1, <2>2, <2>3, ChainPut
<1> QED
  BY <1>5, <1>11, <1>12 DEF Sound, d

-----------------------------------------------------------------------------
(* when messages leave the queue or the list,                              *)

\* Some messages leave the queue or the list, and x gets their units.
LEMMA SoundDrop ==
    ASSUME NEW g, NEW x, NEW h, NEW s, NEW p, NEW n \in Nat, NEW N, NEW w,
           Sound(g, x, h, s, p, n, N, w),
           NEW s1 \in Seq(Msg), NEW p1 \in Seq(Msg), NEW L,
           \A R : Along(R, s) => Along(R, s1), \A R : Along(R, p) => Along(R, p1),
           UnitsOf(s) \union UnitsOf(p) = UnitsOf(s1) \union UnitsOf(p1) \union L,
           L \cap UnitsOf(s1) = {}, L \cap UnitsOf(p1) = {},
           UnitsOf(s1) \subseteq UnitsOf(s), UnitsOf(p1) \subseteq UnitsOf(p)
    PROVE  Sound(g, x \union L, h, s1, p1, n, N, w)
<1>1. Texts(g, h, s, p) /\ Once(g, x, h, s, p, n)
  BY DEF Sound
<1>2. Chain(Differ, g, h, s, p)
  BY <1>1 DEF Once
<1>3. Along(Differ, s1) /\ Along(Differ, p1)
  <2>1. Along(Differ, s) /\ Along(Differ, p)
    BY <1>2 DEF Chain
  <2> QED
    BY <2>1
<1>4. L \subseteq UnitsOf(s) \union UnitsOf(p)
  OBVIOUS
<1>5. L \cap ToSet(g) = {} /\ \A r \in Reader : L \cap ToSet(h[r]) = {}
  <2>1. /\ ToSet(g) \cap UnitsOf(s) = {} /\ ToSet(g) \cap UnitsOf(p) = {}
        /\ \A r \in Reader : ToSet(h[r]) \cap UnitsOf(s) = {} /\ ToSet(h[r]) \cap UnitsOf(p) = {}
    BY <1>1, PlacesApart
  <2> QED
    BY <1>4, <2>1
<1>6. Once(g, x \union L, h, s1, p1, n)
  BY <1>1, <1>3, <1>5, OnceDrop
<1>7. ASSUME ~w
      PROVE  Chain(Rising(N), g, h, s1, p1)
  <2>1. Chain(Rising(N), g, h, s, p)
    BY <1>7 DEF Sound
  <2>2. Along(Rising(N), s1) /\ Along(Rising(N), p1)
    <3>1. Along(Rising(N), s) /\ Along(Rising(N), p)
      BY <2>1 DEF Chain
    <3> QED
      BY <3>1
  <2> QED
    BY <2>1, <2>2, ChainSub
<1>8. Texts(g, h, s1, p1)
  BY <1>1 DEF Texts
<1> QED
  BY <1>6, <1>7, <1>8 DEF Sound

\* No messages are in any order.
LEMMA NoneAlong == \A R : Along(R, <<>>)
  BY DEF Along

\* The queue is flushed, or the list, too.
LEMMA SoundFlush ==
    ASSUME NEW g, NEW x, NEW h, NEW s, NEW p, NEW n \in Nat, NEW N, NEW w,
           Sound(g, x, h, s, p, n, N, w)
    PROVE  /\ Sound(g, x \union UnitsOf(s), h, <<>>, p, n, N, w)
           /\ Sound(g, x \union UnitsOf(s) \union UnitsOf(p), h, <<>>, <<>>, n, N, w)
<1>1. UnitsOf(<<>>) = {} /\ <<>> \in Seq(Msg) /\ p \in Seq(Msg)
  BY NoUnits DEF Sound, Texts
<1>2. UnitsOf(s) \cap UnitsOf(p) = {}
  <2>1. Once(g, x, h, s, p, n)
    BY DEF Sound
  <2> QED
    BY <2>1, PlacesApart
<1>3. Sound(g, x \union UnitsOf(s), h, <<>>, p, n, N, w)
  <2> DEFINE L == UnitsOf(s)
  <2>1. /\ UnitsOf(s) \union UnitsOf(p) = UnitsOf(<<>>) \union UnitsOf(p) \union L
        /\ L \cap UnitsOf(<<>>) = {} /\ L \cap UnitsOf(p) = {}
        /\ UnitsOf(<<>>) \subseteq UnitsOf(s) /\ UnitsOf(p) \subseteq UnitsOf(p)
    BY <1>1, <1>2
  <2> QED
    BY <1>1, <2>1, NoneAlong, SoundDrop
<1>4. Sound(g, x \union (UnitsOf(s) \union UnitsOf(p)), h, <<>>, <<>>, n, N, w)
  <2> DEFINE L == UnitsOf(s) \union UnitsOf(p)
  <2>1. /\ UnitsOf(s) \union UnitsOf(p) = UnitsOf(<<>>) \union UnitsOf(<<>>) \union L
        /\ L \cap UnitsOf(<<>>) = {}
        /\ UnitsOf(<<>>) \subseteq UnitsOf(s) /\ UnitsOf(<<>>) \subseteq UnitsOf(p)
    BY <1>1
  <2> QED
    BY <1>1, <2>1, NoneAlong, SoundDrop
<1>5. x \union (UnitsOf(s) \union UnitsOf(p)) = x \union UnitsOf(s) \union UnitsOf(p)
  OBVIOUS
<1> QED
  BY <1>3, <1>4, <1>5

\* The first message of the queue is deleted.
LEMMA SoundDisplaced ==
    ASSUME NEW g, NEW x, NEW h, NEW s, NEW p, NEW n \in Nat, NEW N, NEW w,
           Sound(g, x, h, s, p, n, N, w), s # <<>>
    PROVE  Sound(g, x \union ToSet(Head(s).u), h, Tail(s), p, n, N, w)
<1>1. Texts(g, h, s, p) /\ Once(g, x, h, s, p, n)
  BY DEF Sound
<1>2. s \in Seq(Msg) /\ p \in Seq(Msg) /\ Tail(s) \in Seq(Msg) /\ Head(s) \in Msg
  BY <1>1, HeadTailProperties DEF Texts
<1> DEFINE L == ToSet(Head(s).u)
<1>3. UnitsOf(s) = L \union UnitsOf(Tail(s))
  BY <1>2, TailRelates
<1>4. \A R : Along(R, s) => Along(R, Tail(s))
  BY <1>2, TailRelates
<1>5. L \subseteq Nat /\ UnitsOf(Tail(s)) \subseteq Nat /\ L \cap UnitsOf(p) = {}
  <2>1. UnitsOf(s) \subseteq Nat /\ UnitsOf(s) \cap UnitsOf(p) = {}
    BY <1>1, PlacesApart
  <2> HIDE DEF L
  <2> QED
    BY <1>3, <2>1
<1>6. L \cap UnitsOf(Tail(s)) = {}
  <2>1. Along(Differ, s)
    BY <1>1 DEF Once, Chain
  <2>2. Before(Differ, L, UnitsOf(Tail(s)))
    BY <1>2, <2>1, TailRelates
  <2> HIDE DEF L
  <2> QED
    BY <1>5, <2>2, DifferIs
<1> HIDE DEF L
<1>7. /\ UnitsOf(s) \union UnitsOf(p) = UnitsOf(Tail(s)) \union UnitsOf(p) \union L
      /\ UnitsOf(Tail(s)) \subseteq UnitsOf(s) /\ UnitsOf(p) \subseteq UnitsOf(p)
  BY <1>3
<1>8. Sound(g, x \union L, h, Tail(s), p, n, N, w)
  BY <1>2, <1>4, <1>5, <1>6, <1>7, SoundDrop
<1> QED
  BY <1>8 DEF L

\* A message without data leaves the list.
LEMMA SoundProcessed ==
    ASSUME NEW g, NEW x, NEW h, NEW s, NEW p, NEW n \in Nat, NEW N, NEW w,
           Sound(g, x, h, s, p, n, N, w), p # <<>>, NEW u, u = Head(p).u, u = <<>>
    PROVE  Sound(g, x, h, s, Tail(p), n, N, w)
<1>1. s \in Seq(Msg) /\ p \in Seq(Msg) /\ Tail(p) \in Seq(Msg)
  BY HeadTailProperties DEF Sound, Texts
<1>2. UnitsOf(p) = ToSet(u) \union UnitsOf(Tail(p))
  BY <1>1, TailRelates
<1>3. UnitsOf(p) = UnitsOf(Tail(p))
  BY <1>2, NoUnits
<1>4. \A R : Along(R, p) => Along(R, Tail(p))
  BY <1>1, TailRelates
<1> DEFINE L == {}
<1>5. /\ UnitsOf(s) \union UnitsOf(p) = UnitsOf(s) \union UnitsOf(Tail(p)) \union L
      /\ UnitsOf(Tail(p)) \subseteq UnitsOf(p) /\ UnitsOf(s) \subseteq UnitsOf(s)
      /\ L \cap UnitsOf(s) = {} /\ L \cap UnitsOf(Tail(p)) = {}
  BY <1>3
<1> HIDE DEF L
<1>6. Sound(g, x \union L, h, s, Tail(p), n, N, w)
  BY <1>1, <1>4, <1>5, SoundDrop
<1>7. x \union L = x
  BY DEF L
<1> QED
  BY <1>6, <1>7

\* A message goes from the list to the queue.
LEMMA SoundProcess ==
    ASSUME NEW g, NEW x, NEW h, NEW s, NEW p, NEW n \in Nat, NEW N, NEW w,
           Sound(g, x, h, s, p, n, N, w), p # <<>>, NEW m, m = Head(p),
           PriFirst(s), PriApart(m, N)
    PROVE  Sound(g, x, h, PutQ(s, m), Tail(p), n, N, w)
<1>1. Texts(g, h, s, p) /\ Once(g, x, h, s, p, n)
  BY DEF Sound
<1>2. s \in Seq(Msg) /\ p \in Seq(Msg) /\ m \in Msg
  BY <1>1, HeadTailProperties DEF Texts
<1> DEFINE d == PutQ(s, m)
<1>3. PICK i : Inserts(s, i, m, d) /\ (IsPri(m) \/ \A j \in DOMAIN s : j < i)
  BY <1>2, PutQIs
<1> HIDE DEF d
<1>4. Inserts(s, i, Head(p), d)
  BY <1>3
<1>5. Once(g, x, h, d, Tail(p), n)
  BY <1>1, <1>4, OnceProcess
<1> DEFINE A == ToSet(m.u)
<1>6. UnitsOf(p) = A \union UnitsOf(Tail(p))
  <2>1. UnitsOf(p) = ToSet(Head(p).u) \union UnitsOf(Tail(p))
    BY <1>2, TailRelates
  <2> QED
    BY <2>1
<1>7. A \subseteq Nat /\ A \cap UnitsOf(s) = {} /\ UnitsOf(s) \subseteq Nat
  <2>1. UnitsOf(p) \subseteq Nat /\ UnitsOf(s) \cap UnitsOf(p) = {} /\ UnitsOf(s) \subseteq Nat
    BY <1>1, PlacesApart
  <2> HIDE DEF A
  <2> QED
    BY <1>6, <2>1
<1> HIDE DEF A
<1>8. \A j \in DOMAIN s : ToSet(s[j].u) \subseteq UnitsOf(s)
  BY DEF UnitsOf
<1>9. \A j \in DOMAIN s : ToSet(s[j].u) \subseteq Nat /\ A \cap ToSet(s[j].u) = {}
  BY <1>7, <1>8
<1>10. \A j \in DOMAIN s : Before(Differ, A, ToSet(s[j].u))
  BY <1>7, <1>9, DifferIs
<1>11. \A j \in DOMAIN s : Before(Differ, ToSet(Head(p).u), ToSet(s[j].u))
  BY <1>10 DEF A
<1>12. Texts(g, h, d, Tail(p))
  <2>1. Chain(Differ, g, h, s, p)
    BY <1>1 DEF Once
  <2> QED
    BY <1>1, <1>4, <1>11, <2>1, ChainProcess
<1>13. ASSUME ~w
       PROVE  Chain(Rising(N), g, h, d, Tail(p))
  <2>1. Chain(Rising(N), g, h, s, p)
    BY <1>13 DEF Sound
  <2>2. \A j \in DOMAIN s : ~(j < i) => Before(Rising(N), A, ToSet(s[j].u))
    <3> SUFFICES ASSUME NEW j \in DOMAIN s, ~(j < i)
                 PROVE  Before(Rising(N), A, ToSet(s[j].u))
      OBVIOUS
    <3>1. IsPri(m)
      BY <1>3
    <3>2. A \cap N = {}
      BY <3>1 DEF PriApart, A
    <3> QED
      BY <3>2, <1>7, <1>9, RisingApart
  <2>3. \A j \in DOMAIN s : ~(j < i) => Before(Rising(N), ToSet(Head(p).u), ToSet(s[j].u))
    BY <2>2 DEF A
  <2> QED
    BY <1>1, <1>4, <2>1, <2>3, ChainProcess
<1> QED
  BY <1>5, <1>12, <1>13 DEF Sound, d

-----------------------------------------------------------------------------
(* and when they come                                                      *)

\* All units that are anywhere are among the first n.
LEMMA AllPlaces ==
    ASSUME NEW g, NEW x, NEW h, NEW s, NEW p, NEW n, Once(g, x, h, s, p, n)
    PROVE  /\ ToSet(g) \subseteq 1 .. n
           /\ UnitsOf(s) \subseteq 1 .. n /\ UnitsOf(p) \subseteq 1 .. n
           /\ \A r \in Reader : ToSet(h[r]) \subseteq 1 .. n
  BY DEF Once

\* What is sent later is greater.
LEMMA LaterRises ==
    ASSUME NEW n \in Nat, NEW k \in Nat, NEW A, A \subseteq 1 .. n, NEW B, B \subseteq (n + 1) .. k,
           NEW N
    PROVE  Before(Rising(N), A, B)
<1> SUFFICES ASSUME NEW a \in A, NEW b \in B
             PROVE  <<a, b>> \in Rising(N)
  BY DEF Before
<1>1. a \in Nat /\ b \in Nat /\ a < b
  <2>1. a \in 1 .. n /\ b \in (n + 1) .. k
    OBVIOUS
  <2> QED
    BY <2>1
<1> QED
  BY <1>1, Pairs

\* What grows has no unit twice, and is in order.
LEMMA GrowingIs ==
    ASSUME NEW u \in Seq(Nat), \A i, j \in DOMAIN u : i < j => u[i] < u[j]
    PROVE  Within(Differ, u) /\ \A N : Within(Rising(N), u)
<1>1. DOMAIN u = 1 .. Len(u) /\ \A i \in DOMAIN u : u[i] \in Nat
  BY LenProperties, ElementOfSeq
<1> SUFFICES ASSUME NEW i \in DOMAIN u, NEW j \in DOMAIN u, i < j, NEW N
             PROVE  <<u[i], u[j]>> \in Differ /\ <<u[i], u[j]>> \in Rising(N)
  BY DEF Within
<1>2. u[i] \in Nat /\ u[j] \in Nat /\ u[i] < u[j]
  BY <1>1
<1> DEFINE a == u[i]
           b == u[j]
<1>3. a \in Nat /\ b \in Nat /\ a < b
  BY <1>2
<1> HIDE DEF a, b
<1>4. a # b
  BY <1>3
<1>5. <<a, b>> \in Differ /\ <<a, b>> \in Rising(N)
  BY <1>3, <1>4, Pairs
<1> QED
  BY <1>5 DEF a, b

\* A message without data is added to the list.
LEMMA SoundAdded ==
    ASSUME NEW g, NEW x, NEW h, NEW s, NEW p, NEW n \in Nat, NEW N, NEW w,
           Sound(g, x, h, s, p, n, N, w), NEW m \in Msg, NEW u, u = m.u, u = <<>>
    PROVE  Sound(g, x, h, s, Append(p, m), n, N, w)
<1>1. Texts(g, h, s, p) /\ Once(g, x, h, s, p, n)
  BY DEF Sound
<1>2. p \in Seq(Msg) /\ Append(p, m) \in Seq(Msg)
  BY <1>1, AppendProperties DEF Texts
<1>3. Inserts(p, Len(p) + 1, m, Append(p, m))
  BY <1>2, AppendIs
<1>4. \A R : Within(R, u)
  BY DEF Within
<1>5. ToSet(u) = {}
  BY NoUnits
<1>6. ToSet(u) = (n + 1) .. n
  BY <1>5
<1>7. Once(g, x, h, s, Append(p, m), n)
  <2>1. ToSet(m.u) = (n + 1) .. n /\ Within(Differ, m.u) /\ n >= n
    BY <1>4, <1>6
  <2> QED
    BY <1>1, <1>3, <2>1, OnceArrives
<1>8. ASSUME ~w
      PROVE  Chain(Rising(N), g, h, s, Append(p, m))
  <2>1. Chain(Rising(N), g, h, s, p)
    BY <1>8 DEF Sound
  <2>2. \A A : Before(Rising(N), A, ToSet(u))
    BY <1>5 DEF Before
  <2>3. /\ Within(Rising(N), m.u) /\ Before(Rising(N), ToSet(g), ToSet(m.u))
        /\ Before(Rising(N), UnitsOf(s), ToSet(m.u)) /\ Before(Rising(N), UnitsOf(p), ToSet(m.u))
        /\ \A r \in Reader : Before(Rising(N), ToSet(h[r]), ToSet(m.u))
    BY <1>4, <2>2
  <2> QED
    BY <1>1, <1>3, <2>1, <2>3, ChainArrives
<1>9. Texts(g, h, s, Append(p, m))
  BY <1>1, <1>2 DEF Texts
<1> QED
  BY <1>7, <1>8, <1>9 DEF Sound

\* Data comes, and is added to the list or thrown away.
LEMMA SoundArrives ==
    ASSUME NEW g, NEW x, NEW h, NEW s, NEW p, NEW n \in Nat, NEW N, NEW w,
           Sound(g, x, h, s, p, n, N, w), NEW m \in Msg, NEW u \in Seq(Nat), u = m.u,
           NEW k \in Nat, k >= n, ToSet(u) = (n + 1) .. k,
           \A i, j \in DOMAIN u : i < j => u[i] < u[j],
           NEW M, \A y \in 1 .. n : y \in M => y \in N
    PROVE  /\ Sound(g, x, h, s, Append(p, m), k, M, w)
           /\ Sound(g, x \union ToSet(u), h, s, p, k, M, w)
<1>1. Texts(g, h, s, p) /\ Once(g, x, h, s, p, n)
  BY DEF Sound
<1>2. p \in Seq(Msg) /\ Append(p, m) \in Seq(Msg)
  BY <1>1, AppendProperties DEF Texts
<1>3. Inserts(p, Len(p) + 1, m, Append(p, m))
  BY <1>2, AppendIs
<1>4. Within(Differ, u) /\ Within(Rising(M), u)
  BY GrowingIs
<1>5. Once(g, x, h, s, Append(p, m), k) /\ Once(g, x \union ToSet(u), h, s, p, k)
  <2>1. ToSet(m.u) = (n + 1) .. k /\ Within(Differ, m.u)
    BY <1>4
  <2>2. Once(g, x, h, s, Append(p, m), k) /\ Once(g, x \union ToSet(m.u), h, s, p, k)
    BY <1>1, <1>3, <2>1, OnceArrives
  <2> QED
    BY <2>2
<1>6. /\ ToSet(g) \subseteq 1 .. n /\ UnitsOf(s) \subseteq 1 .. n /\ UnitsOf(p) \subseteq 1 .. n
      /\ \A r \in Reader : ToSet(h[r]) \subseteq 1 .. n
  BY <1>1, AllPlaces
<1>7. ASSUME ~w
      PROVE  Chain(Rising(M), g, h, s, p) /\ Chain(Rising(M), g, h, s, Append(p, m))
  <2>1. Chain(Rising(N), g, h, s, p)
    BY <1>7 DEF Sound
  <2>2. \A y, z \in 1 .. n : <<y, z>> \in Rising(N) => <<y, z>> \in Rising(M)
    <3> TAKE y \in 1 .. n, z \in 1 .. n
    <3>1. y \in Nat /\ z \in Nat
      OBVIOUS
    <3> QED
      BY <3>1, Pairs
  <2>3. Chain(Rising(M), g, h, s, p)
    BY <1>6, <2>1, <2>2, ChainWider
  <2> DEFINE B == ToSet(u)
  <2>4. B \subseteq (n + 1) .. k
    OBVIOUS
  <2> HIDE DEF B
  <2>5. /\ Before(Rising(M), ToSet(g), B) /\ Before(Rising(M), UnitsOf(s), B)
        /\ Before(Rising(M), UnitsOf(p), B)
        /\ \A r \in Reader : Before(Rising(M), ToSet(h[r]), B)
    BY <1>6, <2>4, LaterRises
  <2>6. /\ Within(Rising(M), m.u) /\ Before(Rising(M), ToSet(g), ToSet(m.u))
        /\ Before(Rising(M), UnitsOf(s), ToSet(m.u)) /\ Before(Rising(M), UnitsOf(p), ToSet(m.u))
        /\ \A r \in Reader : Before(Rising(M), ToSet(h[r]), ToSet(m.u))
    BY <1>4, <2>5 DEF B
  <2>7. Chain(Rising(M), g, h, s, Append(p, m))
    BY <1>1, <1>3, <2>3, <2>6, ChainArrives
  <2> QED
    BY <2>3, <2>7
<1>8. Texts(g, h, s, Append(p, m))
  BY <1>1, <1>2 DEF Texts
<1> QED
  BY <1>1, <1>5, <1>7, <1>8 DEF Sound

-----------------------------------------------------------------------------
(* What readers have in hand                                               *)

\* To have nothing more changes nothing.
LEMMA NothingInHand == <<>> \o <<>> = <<>> /\ \A b \in Seq(Nat) : b \o <<>> = b /\ <<>> \o b = b
<1>1. <<>> \in Seq(Nat)
  OBVIOUS
<1> QED
  BY <1>1, ConcatEmptySeq

\* What a record of local variables is made of
LEMMA RecordIs ==
    ASSUME NEW x \in Record
    PROVE  x.buf \in Seq(Nat) /\ x.mp \in Msg /\ x.mp.u \in Seq(Nat) /\ x.msgs_read \in Nat
  BY DEF Record, Fields, Msg

\* A step changes what one reader has in hand, or nothing.
LEMMA HandBecomes ==
    ASSUME IInv, NEW r \in Reader, Acts(r)
    PROVE  /\ Hands' = [Hands EXCEPT ![r] = Hand(r)']
           /\ Hand(r)' = Hand(r) => Hands' = Hands
<1>1. Others(r)
  BY OthersKept
<1>2. \A v \in Reader : v # r => Hand(v)' = Hand(v)
  BY <1>1 DEF Others, Hand
<1> QED
  BY <1>2 DEF Hands

\* A reader that is inside is alone there.
LEMMA AloneInside ==
    ASSUME IInv, HandsFit, ~woken, NEW r \in Reader, Inside(r)
    PROVE  Alone(r, Hands)
<1> SUFFICES ASSUME NEW t \in Reader \ {r}, Hands[t] # <<>>
             PROVE  FALSE
  BY DEF Alone
<1>1. rd[t] \in Record /\ Fits(rd[t])
  BY DEF IInv, Locals, HandsFit
<1>2. Hand(t) # <<>>
  BY DEF Hands
<1>3. rd[t].buf # <<>> \/ rd[t].mp.u # <<>>
  BY <1>2, NothingInHand DEF Hand
<1>4. Inside(t)
  BY <1>1, <1>3 DEF Fits, Inside
<1> DEFINE S == {v \in Reader : Inside(v)}
<1>5. IsFiniteSet(S) /\ Cardinality(S) <= 1
  <2>1. OneReader
    BY IInvMeans
  <2> QED
    BY <2>1, ReaderAssumption, FS_Subset DEF OneReader
<1>6. {r} \union {t} \subseteq S
  BY <1>4
<1> HIDE DEF S
<1>7. IsFiniteSet({r}) /\ Cardinality({r}) = 1 /\ t \notin {r}
  BY FS_Singleton
<1>8. IsFiniteSet({r} \union {t}) /\ Cardinality({r} \union {t}) = 2
  <2> DEFINE T == {r}
  <2>1. IsFiniteSet(T) /\ Cardinality(T) = 1 /\ t \notin T
    BY <1>7
  <2> HIDE DEF T
  <2>2. IsFiniteSet(T \union {t}) /\ Cardinality(T \union {t}) = Cardinality(T) + 1
    BY <2>1, FS_AddElement
  <2>3. IsFiniteSet(T \union {t}) /\ Cardinality(T \union {t}) = 2
    BY <2>1, <2>2
  <2> QED
    BY <2>3 DEF T
<1>9. Cardinality({r} \union {t}) <= Cardinality(S) /\ Cardinality(S) \in Nat
  BY <1>5, <1>6, FS_Subset, FS_CardinalityType
<1> DEFINE k == Cardinality({r} \union {t})
           l == Cardinality(S)
<1>10. k = 2 /\ k <= l /\ l \in Nat /\ l <= 1
  BY <1>5, <1>8, <1>9
<1> HIDE DEF k, l
<1> QED
  BY <1>10

\* At the start and at the end of a call a reader has nothing in hand.
LEMMA IdleFits ==
    /\ Fits(Idle) /\ Fits([Idle EXCEPT !.pc = "wake"])
    /\ \A k, n : Fits([Idle EXCEPT !.pc = "down", !.kind = k, !.ulen = n])
  BY DEF Fits, Idle, NoMsg

\* A reader that goes on still has what it had.
LEMMA GotoFits ==
    ASSUME Locals, NEW r \in Reader, NEW l, Goto(r, l), Fits(rd[r]),
           /\ rd[r].mp.u # <<>> => l \in {"copy", "putback", "putbackpri"}
           /\ rd[r].buf # <<>> =>
                /\ l \in {"lock", "look", "take", "copy", "putback", "putbackpri"}
                /\ rd[r].kind # "read" => l \in {"putback", "putbackpri"}
    PROVE  Fits(rd'[r])
<1>1. rd[r] \in Fields /\ rd'[r] = [rd[r] EXCEPT !.pc = l]
  BY DEF Locals, Record, Goto
<1> QED
  BY <1>1 DEF Fits, Fields

\* At the end of a call,
LEMMA RtnFits ==
    ASSUME Locals, NEW r \in Reader, NEW f, NEW b, Rtn(r, f, b)
    PROVE  Fits(rd'[r]) /\ Hand(r)' = <<>>
<1>1. rd'[r] = [Idle EXCEPT !.pc = "wake"]
  BY DEF Locals, Rtn
<1>2. [Idle EXCEPT !.pc = "wake"].buf = <<>> /\ [Idle EXCEPT !.pc = "wake"].mp.u = <<>>
  BY DEF Idle, NoMsg
<1>3. Hand(r)' = <<>> \o <<>>
  BY <1>1, <1>2 DEF Hand
<1> QED
  BY <1>1, <1>3, IdleFits, NothingInHand

\* A copied message goes on.
LEMMA CopiedFits ==
    ASSUME NEW r, rd[r] \in Record, rd[r].kind = "read" \/ rd[r].buf = <<>>, Fits(rd[r])
    PROVE  /\ rd[r].kind = "read" => Fits([Copied(r) EXCEPT !.pc = "lock", !.mp = NoMsg])
           /\ Fits([Copied(r) EXCEPT !.pc = "putback"])
<1>1. /\ Copied(r) \in Fields /\ Copied(r).msgs_read > 0
      /\ Copied(r).kind = rd[r].kind /\ Copied(r).then = rd[r].then
  BY CopiedKept, CopiedHand DEF Record
<1>2. NoMsg.u = <<>>
  BY DEF NoMsg
<1>3. rd[r].then = "again" => rd[r].kind = "read"
  BY DEF Fits
<1> DEFINE x == Copied(r)
<1>4. /\ x \in Fields /\ x.msgs_read > 0
      /\ x.then = "again" => x.kind = "read"
  BY <1>1, <1>3
<1>5. rd[r].kind = "read" => x.kind = "read"
  BY <1>1
<1> HIDE DEF x
<1>6. x.kind = "read" => Fits([x EXCEPT !.pc = "lock", !.mp = NoMsg])
  BY <1>2, <1>4 DEF Fits, Fields
<1>7. Fits([x EXCEPT !.pc = "putback"])
  BY <1>4 DEF Fits, Fields
<1> QED
  BY <1>5, <1>6, <1>7 DEF x

\* Every step keeps HandsFit.
LEMMA FitsKept ==
    ASSUME IInv, HandsFit, NEW r, Acts(r)
    PROVE  HandsFit'
<1>0. Locals
  BY DEF IInv
<1>o. Others(r)
  BY OthersKept
<1>1. ASSUME rd' = rd
      PROVE  HandsFit'
  BY <1>1 DEF HandsFit
<1>2. ASSUME r \in Reader, Fits(rd'[r])
      PROVE  HandsFit'
  <2>1. \A v \in Reader : v # r => Fits(rd'[v])
    BY <1>o DEF HandsFit, Others
  <2>2. \A v \in Reader : Fits(rd'[v])
    BY <1>2, <2>1
  <2> QED
    BY <2>2 DEF HandsFit
<1>3. ASSUME r \in Reader
      PROVE  rd[r] \in Record /\ rd[r] \in Fields /\ Fits(rd[r]) /\ rd[r].mp \in Msg
  BY <1>0, <1>3 DEF Locals, Record, HandsFit, Fields
<1>4. CASE r \in Reader /\ Begin(r)
  <2>1. PICK k \in Kinds[r], n \in 1 .. 2 :
           rd' = [rd EXCEPT ![r] = [Idle EXCEPT !.pc = "down", !.kind = k, !.ulen = n]]
    BY <1>4 DEF Begin
  <2>2. rd'[r] = [Idle EXCEPT !.pc = "down", !.kind = k, !.ulen = n]
    BY <1>0, <1>4, <2>1 DEF Locals
  <2> DEFINE x == [Idle EXCEPT !.pc = "down", !.kind = k, !.ulen = n]
  <2>3. Fits(x)
    BY IdleFits
  <2>4. rd'[r] = x
    BY <2>2
  <2> HIDE DEF x
  <2>5. Fits(rd'[r])
    BY <2>3, <2>4
  <2> QED
    BY <1>2, <1>4, <2>5
<1>5. CASE r \in Reader /\ (GetReadSem(r) \/ LockQ(r) \/ WillSleep(r) \/ SleepOnWread(r)
     \/ WokenUp(r) \/ NotTheMsg(r))
  <2>1. PICK l : /\ Goto(r, l)
                 /\ rd[r].mp.u # <<>> => l \in {"copy", "putback", "putbackpri"}
                 /\ rd[r].buf # <<>> =>
                      /\ l \in {"lock", "look", "take", "copy", "putback", "putbackpri"}
                      /\ rd[r].kind # "read" => l \in {"putback", "putbackpri"}
    <3>1. /\ rd[r].mp.u = <<>>
          /\ rd[r].buf # <<>> => /\ At(r, "lock") \/ (At(r, "look") /\ rd[r].msgs_read > 0)
                                 /\ rd[r].kind = "read"
      BY <1>3, <1>5 DEF Fits, GetReadSem, LockQ, WillSleep, SleepOnWread, WokenUp, NotTheMsg, At
    <3>2. ~(0 > 0)
      OBVIOUS
    <3>3. CASE LockQ(r)
      BY <1>5, <3>1, <3>3 DEF LockQ
    <3>4. CASE GetReadSem(r) \/ WillSleep(r) \/ SleepOnWread(r) \/ WokenUp(r) \/ NotTheMsg(r)
      BY <1>5, <3>1, <3>2, <3>4 DEF GetReadSem, WillSleep, SleepOnWread, WokenUp, NotTheMsg, At,
         NothingToRead
    <3> QED
      BY <1>5, <3>3, <3>4
  <2> QED
    BY <1>0, <1>2, <1>3, <1>5, <2>1, GotoFits
<1>6. CASE r \in Reader /\ (ReadReady(r) \/ MsgReady(r) \/ PutBackPri(r))
  <2>1. PICK l : /\ Goto(r, l)
                 /\ rd[r].mp.u # <<>> => l \in {"copy", "putback", "putbackpri"}
                 /\ rd[r].buf # <<>> =>
                      /\ l \in {"lock", "look", "take", "copy", "putback", "putbackpri"}
                      /\ rd[r].kind # "read" => l \in {"putback", "putbackpri"}
    <3>1. CASE ReadReady(r) \/ MsgReady(r)
      <4>1. Goto(r, "take") /\ At(r, "look") /\ (rd[r].kind = "read" \/ MsgReady(r))
        BY <3>1 DEF ReadReady, MsgReady
      <4>2. rd[r].mp.u = <<>> /\ (rd[r].buf # <<>> => rd[r].kind = "read")
        BY <1>3, <1>6, <4>1 DEF Fits, At
      <4> QED
        BY <4>1, <4>2
    <3>2. CASE PutBackPri(r)
      BY <1>3, <3>2 DEF PutBackPri
    <3> QED
      BY <1>6, <3>1, <3>2
  <2> QED
    BY <1>0, <1>2, <1>3, <1>6, <2>1, GotoFits
<1>7. CASE r \in Reader /\ (WakeTest(r) \/ WakeUp(r) \/ ReadSemInterrupted(r))
  <2>1. CASE rd' = [rd EXCEPT ![r] = Idle]
    <3>1. rd'[r] = Idle
      BY <1>0, <1>7, <2>1 DEF Locals
    <3> QED
      BY <1>2, <1>7, <3>1, IdleFits
  <2>2. CASE Goto(r, "up") /\ At(r, "wake")
    <3>1. rd[r].buf = <<>> /\ rd[r].mp.u = <<>>
      BY <1>3, <1>7, <2>2 DEF Fits, At
    <3> QED
      BY <1>0, <1>2, <1>3, <1>7, <2>2, <3>1, GotoFits
  <2> QED
    BY <1>7, <2>1, <2>2 DEF WakeTest, WakeUp, ReadSemInterrupted
<1>8. CASE r \in Reader /\ (HungUp(r) \/ WouldBlock(r) \/ WreadInterrupted(r) \/ TakeNothing(r)
     \/ ReadDone(r) \/ NoMsgEnds(r) \/ CopyMsgFault(r) \/ PutBackPriEnds(r))
  <2>1. PICK f, b : Rtn(r, f, b)
    BY <1>8 DEF HungUp, WouldBlock, WreadInterrupted, TakeNothing, ReadDone, NoMsgEnds,
       CopyMsgFault, PutBackPriEnds
  <2> QED
    BY <1>0, <1>2, <1>8, <2>1, RtnFits
<1>9. CASE r \in Reader /\ (TakeForRead(r) \/ TakeMsg(r))
  <2>1. /\ rd[r].buf # <<>> => rd[r].kind = "read" /\ rd[r].msgs_read > 0
        /\ rd' = [rd EXCEPT ![r].pc = "copy", ![r].mp = Head(q)]
    BY <1>3, <1>9 DEF TakeForRead, TakeMsg, Fits, At
  <2> DEFINE m == Head(q)
  <2> HIDE DEF m
  <2>2. rd'[r] = [rd[r] EXCEPT !.pc = "copy", !.mp = m]
    BY <1>0, <1>9, <2>1 DEF Locals, m
  <2>3. Fits([rd[r] EXCEPT !.pc = "copy", !.mp = m])
    BY <1>3, <1>9, <2>1 DEF Fits, Fields
  <2> QED
    BY <1>2, <1>9, <2>2, <2>3
<1>10. CASE r \in Reader /\ (ReadMore(r) \/ ReadPart(r))
  <2>1. rd[r].kind = "read"
    BY <1>10 DEF ReadMore, ReadPart, ToUser
  <2>2. \/ rd'[r] = [Copied(r) EXCEPT !.pc = "lock", !.mp = NoMsg]
        \/ rd'[r] = [Copied(r) EXCEPT !.pc = "putback"]
    BY <1>0, <1>10 DEF ReadMore, ReadPart, Locals
  <2>3. Fits(rd'[r])
    BY <1>3, <1>10, <2>1, <2>2, CopiedFits
  <2> QED
    BY <1>2, <1>10, <2>3
<1>11. CASE r \in Reader /\ CopyMsg(r)
  <2>1. CASE Rtn(r, FALSE, Copied(r).buf)
    BY <1>0, <1>2, <1>11, <2>1, RtnFits
  <2>2. CASE rd' = [rd EXCEPT ![r] = [Copied(r) EXCEPT !.pc = "putback"]]
    <3>1. rd'[r] = [Copied(r) EXCEPT !.pc = "putback"]
      BY <1>0, <1>11, <2>2 DEF Locals
    <3>2. rd[r].buf = <<>>
      BY <1>3, <1>11 DEF CopyMsg, Fits, At
    <3>3. Fits(rd'[r])
      BY <1>3, <1>11, <3>1, <3>2, CopiedFits
    <3> QED
      BY <1>2, <1>11, <3>3
  <2> QED
    BY <1>11, <2>1, <2>2 DEF CopyMsg
<1>12. CASE r \in Reader /\ ReadFault(r)
  <2>1. Fits(rd'[r])
    BY <1>0, <1>12, FaultIs DEF Fits
  <2> QED
    BY <1>2, <1>12, <2>1
<1>13. CASE r \in Reader /\ ReadProto(r)
  <2>0. rd[r].kind = "read"
    BY <1>13 DEF ReadProto
  <2>1. CASE rd' = [rd EXCEPT ![r].pc = "putback", ![r].then = "fail"]
    <3>1. rd'[r] = [rd[r] EXCEPT !.pc = "putback", !.then = "fail"]
      BY <1>0, <1>13, <2>1 DEF Locals
    <3>2. Fits([rd[r] EXCEPT !.pc = "putback", !.then = "fail"])
      BY <1>3, <1>13 DEF Fits, Fields
    <3> QED
      BY <1>2, <1>13, <3>1, <3>2
  <2>2. CASE rd' = [rd EXCEPT ![r].pc = "putback", ![r].mp.t = "DATA", ![r].msgs_read = @ + 1,
                              ![r].then = "again"]
    <3> DEFINE m == [rd[r].mp EXCEPT !.t = "DATA"]
               k == rd[r].msgs_read + 1
    <3>1. rd'[r] = [rd[r] EXCEPT !.pc = "putback", !.mp = m, !.msgs_read = k, !.then = "again"]
      BY <1>0, <1>13, <2>2 DEF Locals, Record, Fields
    <3>2. k > 0
      BY <1>3, <1>13, RecordIs
    <3> HIDE DEF m, k
    <3>3. Fits([rd[r] EXCEPT !.pc = "putback", !.mp = m, !.msgs_read = k, !.then = "again"])
      BY <1>3, <1>13, <2>0, <3>2 DEF Fits, Fields
    <3> QED
      BY <1>2, <1>13, <3>1, <3>3
  <2>3. CASE Rtn(r, TRUE, rd[r].buf)
    BY <1>0, <1>2, <1>13, <2>3, RtnFits
  <2> QED
    BY <1>13, <2>1, <2>2, <2>3 DEF ReadProto
<1>14. CASE r \in Reader /\ PutBack(r)
  <2>1. CASE rd[r].then # "again"
    BY <1>0, <1>2, <1>14, <2>1, RtnFits DEF PutBack, AfterPutBack
  <2>2. CASE rd[r].then = "again"
    <3>1. rd' = [rd EXCEPT ![r].pc = "lock", ![r].mp = NoMsg, ![r].then = "return"]
      BY <1>14, <2>2 DEF PutBack, AfterPutBack
    <3>2. rd'[r] = [rd[r] EXCEPT !.pc = "lock", !.mp = NoMsg, !.then = "return"]
      BY <1>0, <1>14, <3>1 DEF Locals
    <3>3. Fits([rd[r] EXCEPT !.pc = "lock", !.mp = NoMsg, !.then = "return"])
      BY <1>3, <1>14, <2>2 DEF Fits, Fields, NoMsg
    <3> QED
      BY <1>2, <1>14, <3>2, <3>3
  <2> QED
    BY <2>1, <2>2
<1>15. CASE DataArrives \/ HangupArrives \/ FlushArrives \/ SrvStart \/ ProcessData \/
     ProcessHangup \/ ProcessFlush \/ SrvEnd \/ PeerClose \/ Wakes
  <2>1. rd' = rd
    BY <1>15 DEF DataArrives, HangupArrives, FlushArrives, SrvStart, ProcessData,
       ProcessHangup, ProcessFlush, SrvEnd, PeerClose, Wakes, WakeUps
  <2> QED
    BY <1>1, <2>1
<1> QED
  BY <1>4, <1>5, <1>6, <1>7, <1>8, <1>9, <1>10, <1>11, <1>12, <1>13, <1>14, <1>15 DEF Acts

-----------------------------------------------------------------------------
(* What a step does to the places that units have                          *)

Still ==
  Hands' = Hands /\ UNCHANGED <<got, gone, q, rput, units, normal>> /\ (woken => woken')
Takes(r) ==
  /\ q # <<>> /\ q' = Tail(q)
  /\ Hands' = [Hands EXCEPT ![r] = Hands[r] \o Head(q).u]
  /\ UNCHANGED <<got, gone, rput, units, normal, woken>>
\* r returns c and loses d, or loses all.
Returns(r) ==
  /\ Inside(r) /\ Hands' = [Hands EXCEPT ![r] = <<>>]
  /\ UNCHANGED <<q, rput, units, normal, woken>>
  /\ \/ \E c, d \in Seq(Nat) : /\ Hands[r] = c \o d
                               /\ got' = got \o c /\ gone' = gone \union ToSet(d)
     \/ got' = got /\ gone' = gone \union ToSet(Hands[r])
\* r puts its message on s, and goes on, returns what else it has, or loses it.
Puts(r, s, x) ==
  /\ Inside(r) /\ q' = PutBq(s, rd[r].mp) /\ UNCHANGED <<rput, units, normal, woken>>
  /\ \/ Hands' = [Hands EXCEPT ![r] = rd[r].buf] /\ got' = got /\ gone' = x
     \/ /\ Hands' = [Hands EXCEPT ![r] = <<>>]
        /\ got' = got \o rd[r].buf /\ gone' = x
     \/ /\ Hands' = [Hands EXCEPT ![r] = <<>>]
        /\ got' = got /\ gone' = x \union ToSet(rd[r].buf)

\* A reader goes on or sleeps,
LEMMA GoesStill ==
    ASSUME OInv, NEW r \in Reader, Acts(r),
           \/ GetReadSem(r) \/ LockQ(r) \/ WillSleep(r) \/ SleepOnWread(r) \/ WokenUp(r)
           \/ ReadReady(r) \/ MsgReady(r) \/ PutBackPri(r) \/ NotTheMsg(r)
    PROVE  Still
<1>1. IInv /\ rd[r] \in Record /\ rd \in [Reader -> Record]
  BY DEF OInv, IInv, Locals
<1>2. rd'[r].buf = rd[r].buf /\ rd'[r].mp = rd[r].mp
  BY <1>1 DEF GetReadSem, LockQ, WillSleep, SleepOnWread, WokenUp, ReadReady, MsgReady,
     PutBackPri, NotTheMsg, Goto, Record, Fields
<1>3. Hand(r)' = Hand(r)
  BY <1>2 DEF Hand
<1>4. UNCHANGED <<got, gone, q, rput, units, normal, woken>>
  BY DEF GetReadSem, LockQ, WillSleep, SleepOnWread, WokenUp, ReadReady, MsgReady,
     PutBackPri, NotTheMsg, queue, arrivals, history
<1> QED
  BY <1>1, <1>3, <1>4, HandBecomes DEF Still

\* starts a call, or ends it with nothing in hand,
LEMMA EndsStill ==
    ASSUME OInv, NEW r \in Reader, Acts(r),
           \/ Begin(r) \/ ReadSemInterrupted(r) \/ WakeTest(r) \/ WakeUp(r)
           \/ HungUp(r) \/ WouldBlock(r) \/ WreadInterrupted(r) \/ NoMsgEnds(r)
    PROVE  Still
<1>1. IInv /\ rd[r] \in Record /\ rd \in [Reader -> Record] /\ Fits(rd[r])
  BY DEF OInv, IInv, Locals, HandsFit
<1>2. rd[r].buf = <<>> /\ rd[r].mp.u = <<>>
  <2>1. ~(0 > 0)
    OBVIOUS
  <2>2. CASE HungUp(r) \/ WouldBlock(r)
    BY <1>1, <2>1, <2>2 DEF Fits, At, HungUp, WouldBlock, NothingToRead
  <2>3. CASE Begin(r) \/ ReadSemInterrupted(r) \/ WakeTest(r) \/ WakeUp(r) \/ WreadInterrupted(r)
             \/ NoMsgEnds(r)
    BY <1>1, <2>3 DEF Fits, At, Begin, ReadSemInterrupted, WakeTest, WakeUp, WreadInterrupted,
       NoMsgEnds
  <2> QED
    BY <2>2, <2>3
<1>3. rd'[r].buf = <<>> /\ rd'[r].mp.u = <<>>
  <2>1. CASE Begin(r)
    <3>1. PICK k \in Kinds[r], n \in 1 .. 2 :
             rd' = [rd EXCEPT ![r] = [Idle EXCEPT !.pc = "down", !.kind = k, !.ulen = n]]
      BY <2>1 DEF Begin
    <3> QED
      BY <1>1, <3>1 DEF Idle, NoMsg
  <2>2. CASE ReadSemInterrupted(r) \/ WakeUp(r)
    BY <1>1, <2>2 DEF ReadSemInterrupted, WakeUp, Idle, NoMsg
  <2>3. CASE WakeTest(r)
    <3>1. CASE Goto(r, "up")
      BY <1>1, <1>2, <3>1 DEF Goto, Record, Fields
    <3>2. CASE rd' = [rd EXCEPT ![r] = Idle]
      BY <1>1, <3>2 DEF Idle, NoMsg
    <3> QED
      BY <2>3, <3>1, <3>2 DEF WakeTest
  <2>4. CASE HungUp(r) \/ WouldBlock(r) \/ WreadInterrupted(r) \/ NoMsgEnds(r)
    BY <1>1, <2>4 DEF HungUp, WouldBlock, WreadInterrupted, NoMsgEnds, Rtn, Idle, NoMsg
  <2> QED
    BY <2>1, <2>2, <2>3, <2>4
<1>4. Hand(r)' = Hand(r)
  BY <1>2, <1>3 DEF Hand
<1>5. got \o <<>> = got
  BY NothingInHand DEF OInv, Sound, Texts
<1>6. UNCHANGED <<got, gone, q, rput, units, normal, woken>>
  BY <1>5 DEF Begin, ReadSemInterrupted, WakeTest, WakeUp, HungUp, WouldBlock, WreadInterrupted,
     NoMsgEnds, Rtn, Goto, queue, arrivals, history
<1> QED
  BY <1>1, <1>4, <1>6, HandBecomes DEF Still

\* or has copied a part of its message.
LEMMA CopiesStill ==
    ASSUME OInv, NEW r \in Reader, Acts(r),
           \/ ReadMore(r) \/ ReadPart(r) \/ ReadFault(r)
           \/ (CopyMsg(r) /\ Copied(r).mp.u # <<>>)
    PROVE  Still
<1>1. IInv /\ rd[r] \in Record /\ rd \in [Reader -> Record]
  BY DEF OInv, IInv, Locals
<1> DEFINE x == Copied(r)
<1>2. x \in Record /\ x \in Fields /\ x.buf \o x.mp.u = Hand(r) /\ x.buf \in Seq(Nat)
  BY <1>1, CopiedKept, CopiedHand DEF Record
<1>3. Hand(r)' = Hand(r)
  <2>1. CASE ReadMore(r)
    <3>1. rd'[r] = [x EXCEPT !.pc = "lock", !.mp = NoMsg] /\ x.mp.u = <<>>
      BY <1>1, <2>1 DEF ReadMore
    <3> HIDE DEF x
    <3>2. rd'[r].buf = x.buf /\ rd'[r].mp.u = x.mp.u
      BY <1>2, <3>1 DEF Fields, NoMsg
    <3> QED
      BY <1>2, <3>2 DEF Hand
  <2>2. CASE ReadPart(r) \/ (CopyMsg(r) /\ Copied(r).mp.u # <<>>)
    <3>1. rd'[r] = [x EXCEPT !.pc = "putback"]
      BY <1>1, <2>2 DEF ReadPart, CopyMsg
    <3> HIDE DEF x
    <3>2. rd'[r].buf = x.buf /\ rd'[r].mp.u = x.mp.u
      BY <1>2, <3>1 DEF Fields
    <3> QED
      BY <1>2, <3>2 DEF Hand
  <2>3. CASE ReadFault(r)
    BY <1>1, <2>3, FaultIs DEF IInv
  <2> QED
    BY <2>1, <2>2, <2>3
<1>4. UNCHANGED <<got, gone, q, rput, units, normal, woken>>
  BY DEF ReadMore, ReadPart, ReadFault, CopyMsg, queue, arrivals, history
<1> QED
  BY <1>1, <1>3, <1>4, HandBecomes DEF Still

\* The steps of others change no place of a unit, either.
LEMMA OthersStill ==
    ASSUME SrvStart \/ SrvEnd \/ PeerClose \/ Wakes
    PROVE  Still
<1>1. UNCHANGED <<rd, got, gone, q, rput, units, normal>> /\ (woken => woken')
  BY DEF SrvStart, SrvEnd, PeerClose, Wakes, WakeUps, WakeStep, queue, arrivals, history
<1> QED
  BY <1>1 DEF Still, Hands, Hand

\* A message is taken by a reader that has none.
LEMMA TakesIt ==
    ASSUME OInv, NEW r \in Reader, Acts(r), TakeForRead(r) \/ TakeMsg(r)
    PROVE  Takes(r)
<1>1. IInv /\ rd[r] \in Record /\ rd \in [Reader -> Record] /\ Fits(rd[r])
  BY DEF OInv, IInv, Locals, HandsFit
<1> DEFINE m == Head(q)
           b == rd[r].buf
<1>2. rd[r].mp.u = <<>> /\ b \in Seq(Nat)
  BY <1>1, RecordIs DEF Fits, At, TakeForRead, TakeMsg
<1>3. Hands[r] = b
  <2>1. Hands[r] = b \o <<>>
    BY <1>2 DEF Hands, Hand
  <2> QED
    BY <1>2, <2>1, NothingInHand
<1>4. rd'[r].buf = b /\ rd'[r].mp = m
  <2>1. rd' = [rd EXCEPT ![r].pc = "copy", ![r].mp = m]
    BY DEF TakeForRead, TakeMsg
  <2> HIDE DEF m
  <2> QED
    BY <1>1, <2>1 DEF Record, Fields
<1>5. Hand(r)' = Hands[r] \o Head(q).u
  BY <1>3, <1>4 DEF Hand
<1>6. Hands' = [Hands EXCEPT ![r] = Hand(r)']
  BY <1>1, HandBecomes
<1> QED
  BY <1>5, <1>6 DEF Takes, TakeForRead, TakeMsg, queue, arrivals, history

\* A call ends.
LEMMA ReturnsIt ==
    ASSUME OInv, NEW r \in Reader, Acts(r),
           \/ TakeNothing(r) \/ ReadDone(r) \/ CopyMsgFault(r)
           \/ (CopyMsg(r) /\ Copied(r).mp.u = <<>>)
           \/ (ReadProto(r) /\ sd_rdopt.proto = "both")
    PROVE  Returns(r)
<1>1. IInv /\ rd[r] \in Record /\ rd \in [Reader -> Record] /\ Fits(rd[r]) /\ Locals
  BY DEF OInv, IInv, Locals, HandsFit
<1>2. PICK f, b : Rtn(r, f, b)
  BY DEF TakeNothing, ReadDone, CopyMsgFault, CopyMsg, ReadProto
<1>3. Hands' = [Hands EXCEPT ![r] = <<>>]
  <2>1. Hand(r)' = <<>>
    BY <1>1, <1>2, RtnFits
  <2> QED
    BY <1>1, <2>1, HandBecomes
<1>4. Inside(r)
  BY DEF Inside, At, TakeNothing, ReadDone, CopyMsgFault, CopyMsg, ReadProto, ToUser
<1>5. UNCHANGED <<q, rput, units, normal, woken>>
  BY DEF TakeNothing, ReadDone, CopyMsgFault, CopyMsg, ReadProto, queue, arrivals, history
<1>6. /\ Hands[r] = rd[r].buf \o rd[r].mp.u
      /\ Hands[r] = Copied(r).buf \o Copied(r).mp.u
      /\ Copied(r).buf \in Seq(Nat) /\ Copied(r).mp.u \in Seq(Nat)
      /\ rd[r].buf \in Seq(Nat) /\ rd[r].mp.u \in Seq(Nat)
  BY <1>1, CopiedHand, RecordIs DEF Hands, Hand
<1>7. got \in Seq(Nat) /\ <<>> \in Seq(Nat) /\ ToSet(<<>>) = {}
  BY NoUnits DEF OInv, Sound, Texts
<1>8. \/ \E c, d \in Seq(Nat) : /\ Hands[r] = c \o d
                                /\ got' = got \o c /\ gone' = gone \union ToSet(d)
      \/ got' = got /\ gone' = gone \union ToSet(Hands[r])
  <2>1. CASE TakeNothing(r)
    <3>1. rd[r].mp.u = <<>>
      BY <1>1, <2>1 DEF TakeNothing, Fits, At
    <3>2. got' = got \o rd[r].buf /\ gone' = gone
      BY <2>1 DEF TakeNothing, Rtn
    <3>3. Hands[r] = rd[r].buf \o <<>> /\ gone' = gone \union ToSet(<<>>)
      BY <1>6, <1>7, <3>1, <3>2
    <3> QED
      BY <1>6, <1>7, <3>2, <3>3
  <2>2. CASE ReadDone(r)
    BY <1>6, <2>2 DEF ReadDone, Rtn
  <2>3. CASE CopyMsgFault(r)
    <3>1. rd[r].buf = <<>>
      BY <1>1, <2>3 DEF CopyMsgFault, Fits, At
    <3>2. got' = got /\ gone' = gone \union ToSet(rd[r].mp.u)
      BY <2>3 DEF CopyMsgFault, Rtn
    <3>3. Hands[r] = rd[r].mp.u
      BY <1>6, <3>1, NothingInHand
    <3> QED
      BY <3>2, <3>3
  <2>4. CASE CopyMsg(r) /\ Copied(r).mp.u = <<>>
    <3>1. got' = got \o Copied(r).buf /\ gone' = gone
      BY <2>4 DEF CopyMsg, Rtn
    <3>2. Hands[r] = Copied(r).buf \o <<>> /\ gone' = gone \union ToSet(<<>>)
      BY <1>6, <1>7, <2>4, <3>1
    <3> QED
      BY <1>6, <1>7, <3>1, <3>2
  <2>5. CASE ReadProto(r) /\ sd_rdopt.proto = "both"
    <3>1. got' = got /\ gone' = gone \union ToSet(rd[r].mp.u) \union ToSet(rd[r].buf)
      BY <2>5 DEF ReadProto, Rtn
    <3> DEFINE e == rd[r].buf
               u == rd[r].mp.u
    <3>2. e \in Seq(Nat) /\ u \in Seq(Nat) /\ Hands[r] = e \o u
      BY <1>6
    <3> HIDE DEF e, u
    <3>3. ToSet(e \o u) = ToSet(e) \union ToSet(u)
      BY <3>2, ConcatRelates
    <3>4. gone' = gone \union ToSet(Hands[r])
      BY <3>1, <3>2, <3>3 DEF e, u
    <3> QED
      BY <3>1, <3>4
  <2> QED
    BY <2>1, <2>2, <2>3, <2>4, <2>5
<1> QED
  BY <1>3, <1>4, <1>5, <1>8 DEF Returns

\* A read() leaves a message of another type for later.
LEMMA ProtoStill ==
    ASSUME OInv, NEW r \in Reader, Acts(r), ReadProto(r), sd_rdopt.proto # "both"
    PROVE  Still
<1>1. IInv /\ rd[r] \in Record /\ rd \in [Reader -> Record] /\ rd[r].mp \in Msg
  BY RecordIs DEF OInv, IInv, Locals
<1>2. rd'[r].buf = rd[r].buf /\ rd'[r].mp.u = rd[r].mp.u
  <2>1. CASE rd' = [rd EXCEPT ![r].pc = "putback", ![r].then = "fail"]
    BY <1>1, <2>1 DEF Record, Fields
  <2>2. CASE rd' = [rd EXCEPT ![r].pc = "putback", ![r].mp.t = "DATA", ![r].msgs_read = @ + 1,
                              ![r].then = "again"]
    <3> DEFINE m == [rd[r].mp EXCEPT !.t = "DATA"]
               k == rd[r].msgs_read + 1
    <3>1. rd'[r] = [rd[r] EXCEPT !.pc = "putback", !.mp = m, !.msgs_read = k, !.then = "again"]
      BY <1>1, <2>2 DEF Record, Fields
    <3>2. m.u = rd[r].mp.u
      BY <1>1 DEF Msg
    <3> HIDE DEF m, k
    <3> QED
      BY <1>1, <3>1, <3>2 DEF Record, Fields
  <2> QED
    BY <2>1, <2>2 DEF ReadProto
<1>3. Hand(r)' = Hand(r)
  BY <1>2 DEF Hand
<1>4. UNCHANGED <<got, gone, q, rput, units, normal, woken>>
  BY DEF ReadProto, queue, arrivals, history
<1> QED
  BY <1>1, <1>3, <1>4, HandBecomes DEF Still

\* A message is put back,
LEMMA PutsIt ==
    ASSUME OInv, NEW r \in Reader, Acts(r), PutBack(r)
    PROVE  Puts(r, q, gone)
<1>1. IInv /\ rd[r] \in Record /\ rd \in [Reader -> Record] /\ Locals
  BY DEF OInv, IInv, Locals
<1>2. Inside(r) /\ q' = PutBq(q, rd[r].mp) /\ UNCHANGED <<rput, units, normal, woken>>
  BY DEF PutBack, AfterPutBack, Inside, At, queue, arrivals, history
<1>3. CASE rd[r].then = "again"
  <2>1. rd' = [rd EXCEPT ![r].pc = "lock", ![r].mp = NoMsg, ![r].then = "return"]
    BY <1>3 DEF PutBack, AfterPutBack
  <2>2. rd'[r].buf = rd[r].buf /\ rd'[r].mp.u = <<>> /\ rd[r].buf \in Seq(Nat)
    BY <1>1, <2>1, RecordIs DEF Record, Fields, NoMsg
  <2>3. Hand(r)' = rd[r].buf
    <3>1. Hand(r)' = rd[r].buf \o <<>>
      BY <2>2 DEF Hand
    <3> QED
      BY <2>2, <3>1, NothingInHand
  <2>4. Hands' = [Hands EXCEPT ![r] = rd[r].buf]
    BY <1>1, <2>3, HandBecomes
  <2>5. got' = got /\ gone' = gone
    BY <1>3 DEF PutBack, AfterPutBack
  <2> QED
    BY <1>2, <2>4, <2>5 DEF Puts
<1>4. CASE rd[r].then # "again"
  <2>1. Rtn(r, rd[r].then = "fail", rd[r].buf)
    BY <1>4 DEF PutBack, AfterPutBack
  <2>2. Hand(r)' = <<>>
    BY <1>1, <2>1, RtnFits
  <2>3. Hands' = [Hands EXCEPT ![r] = <<>>]
    BY <1>1, <2>2, HandBecomes
  <2>4. \/ got' = got \o rd[r].buf /\ gone' = gone
        \/ got' = got /\ gone' = gone \union ToSet(rd[r].buf)
    BY <1>4 DEF PutBack, AfterPutBack, Rtn
  <2> QED
    BY <1>2, <2>3, <2>4 DEF Puts
<1> QED
  BY <1>3, <1>4

\* and may delete the one that has taken its place.
LEMMA PutsPri ==
    ASSUME OInv, NEW r \in Reader, Acts(r), PutBackPriEnds(r)
    PROVE  \/ Puts(r, q, gone)
           \/ q # <<>> /\ Puts(r, Tail(q), gone \union ToSet(Head(q).u))
<1>1. IInv /\ Locals
  BY DEF OInv, IInv
<1>2. Inside(r) /\ UNCHANGED <<rput, units, normal, woken>>
  BY DEF PutBackPriEnds, Inside, At, queue, arrivals, history
<1>3. Rtn(r, rd[r].then = "fail", rd[r].buf)
  BY DEF PutBackPriEnds
<1>4. Hands' = [Hands EXCEPT ![r] = <<>>]
  <2>1. Hand(r)' = <<>>
    BY <1>1, <1>3, RtnFits
  <2> QED
    BY <1>1, <2>1, HandBecomes
<1>5. \/ got' = got \o rd[r].buf /\ gone' = gone \union Displaced
      \/ got' = got /\ gone' = gone \union Displaced \union ToSet(rd[r].buf)
  BY <1>3 DEF PutBackPriEnds, Rtn
<1>6. CASE q # <<>> /\ IsPri(Head(q))
  <2>1. Displaced = ToSet(Head(q).u) /\ q' = PutBq(Tail(q), rd[r].mp)
    BY <1>6 DEF Displaced, PutBackPriEnds
  <2> QED
    BY <1>2, <1>4, <1>5, <1>6, <2>1 DEF Puts
<1>7. CASE ~(q # <<>> /\ IsPri(Head(q)))
  <2>1. Displaced = {} /\ q' = PutBq(q, rd[r].mp)
    BY <1>7 DEF Displaced, PutBackPriEnds
  <2>2. gone \union Displaced = gone
    BY <2>1
  <2> QED
    BY <1>2, <1>4, <1>5, <2>1, <2>2 DEF Puts
<1> QED
  BY <1>6, <1>7

\* The new values of the variables, and the values of the new ones, are the same.
LEMMA SoundPrimed ==
    Sound(got, gone, Hands, q, rput, units, normal, woken)' <=>
      Sound(got', gone', Hands', q', rput', units', normal', woken')
  BY DEF Sound, Texts, Once, Chain, Before, Along, Within, Differ, Rising, UnitsOf

\* Nothing moves,
LEMMA StillSound ==
    ASSUME OInv, Still
    PROVE  Sound(got', gone', Hands', q', rput', units', normal', woken')
<1>1. Sound(got, gone, Hands, q, rput, units, normal, woken)
  BY DEF OInv
<1>2. Sound(got, gone, Hands, q, rput, units, normal, woken')
  BY <1>1 DEF Sound, Still
<1> QED
  BY <1>2 DEF Still

\* What Sound and the others say of the present,
LEMMA NowSound ==
    ASSUME OInv
    PROVE  /\ units \in Nat /\ Hands \in [Reader -> Seq(Nat)]
           /\ q \in Seq(Msg) /\ rput \in Seq(Msg) /\ got \in Seq(Nat)
           /\ Sound(got, gone, Hands, q, rput, units, normal, woken)
           /\ PriFirst(q) /\ IInv /\ HandsFit
  BY DEF OInv, IInv, Queues, Sound, Texts

\* a reader takes a message,
LEMMA TakesSound ==
    ASSUME OInv, NEW r \in Reader, Takes(r)
    PROVE  Sound(got', gone', Hands', q', rput', units', normal', woken')
<1>1. Sound(got, gone, Hands', Tail(q), rput, units, normal, woken)
  BY NowSound, SoundTake DEF Takes
<1> QED
  BY <1>1 DEF Takes

\* ends its call,
LEMMA ReturnsSound ==
    ASSUME OInv, NEW r \in Reader, Returns(r)
    PROVE  Sound(got', gone', Hands', q', rput', units', normal', woken')
<1>1. ~woken => Alone(r, Hands)
  BY NowSound, AloneInside DEF Returns
<1>2. Hands[r] \in Seq(Nat) /\ <<>> \in Seq(Nat) /\ Hands[r] = Hands[r] \o <<>>
  BY NowSound, NothingInHand
<1>3. CASE \E c, d \in Seq(Nat) : /\ Hands[r] = c \o d
                                  /\ got' = got \o c /\ gone' = gone \union ToSet(d)
  <2>1. PICK c \in Seq(Nat), d \in Seq(Nat) : /\ Hands[r] = c \o d
                                  /\ got' = got \o c /\ gone' = gone \union ToSet(d)
    BY <1>3
  <2>2. Sound(got \o c, gone \union ToSet(d), Hands', q, rput, units, normal, woken)
    BY NowSound, <1>1, <2>1, SoundKeep DEF Returns
  <2> QED
    BY <2>1, <2>2 DEF Returns
<1>4. CASE got' = got /\ gone' = gone \union ToSet(Hands[r])
  <2>1. Sound(got, gone \union ToSet(Hands[r]), Hands', q, rput, units, normal, woken)
    BY NowSound, <1>1, <1>2, SoundKeep DEF Returns
  <2> QED
    BY <1>4, <2>1 DEF Returns
<1> QED
  BY <1>3, <1>4 DEF Returns

\* puts its message back.
LEMMA PutsSound ==
    ASSUME OInv, NEW r \in Reader, NEW s, NEW x, Puts(r, s, x),
           Sound(got, x, Hands, s, rput, units, normal, woken),
           PriFirst(s), \A m \in ToSet(s) : PriApart(m, normal)
    PROVE  Sound(got', gone', Hands', q', rput', units', normal', woken')
<1>1. ~woken => Alone(r, Hands)
  BY NowSound, AloneInside DEF Puts
<1> DEFINE m == rd[r].mp
           u == rd[r].mp.u
           c == rd[r].buf
           d == PutBq(s, m)
           h == [Hands EXCEPT ![r] = c]
           e == [Hands EXCEPT ![r] = <<>>]
<1>2. m \in Msg /\ u = m.u /\ c \in Seq(Nat) /\ Hands[r] = c \o u
  <2>1. rd[r] \in Record
    BY NowSound DEF IInv, Locals
  <2> QED
    BY <2>1, RecordIs DEF Hands, Hand
<1>3. \A j \in DOMAIN s : PriApart(s[j], normal)
  BY DEF ToSet
<1>4. /\ h \in [Reader -> Seq(Nat)] /\ h[r] = c /\ \A t \in Reader : t # r => h[t] = Hands[t]
      /\ [h EXCEPT ![r] = <<>>] = e
  BY NowSound, <1>2
<1>5. /\ q' = d /\ UNCHANGED <<rput, units, normal, woken>>
      /\ \/ Hands' = h /\ got' = got /\ gone' = x
         \/ Hands' = e /\ got' = got \o c /\ gone' = x
         \/ Hands' = e /\ got' = got /\ gone' = x \union ToSet(c)
  BY DEF Puts
<1> HIDE DEF m, u, c, d, h, e
<1>6. Sound(got, x, h, d, rput, units, normal, woken)
  BY NowSound, <1>1, <1>2, <1>3, SoundPut DEF h, d
<1>7. ~woken => Alone(r, h)
  BY <1>1, <1>4 DEF Alone
<1>8. /\ Sound(got \o c, x, e, d, rput, units, normal, woken)
      /\ Sound(got, x \union ToSet(c), e, d, rput, units, normal, woken)
  <2>1. c \o <<>> = c /\ <<>> \in Seq(Nat) /\ x \union ToSet(<<>>) = x
    BY <1>2, NothingInHand, NoUnits
  <2>2. /\ Sound(got \o c, x \union ToSet(<<>>), e, d, rput, units, normal, woken)
        /\ Sound(got, x \union ToSet(h[r]), e, d, rput, units, normal, woken)
    BY NowSound, <1>2, <1>4, <1>6, <1>7, <2>1, SoundKeep
  <2> QED
    BY <1>4, <2>1, <2>2
<1>9. \/ Hands' = h /\ got' = got /\ gone' = x
      \/ Hands' = e /\ got' = got \o c /\ gone' = x
      \/ Hands' = e /\ got' = got /\ gone' = x \union ToSet(c)
  BY <1>5
<1> QED
  BY <1>5, <1>6, <1>8, <1>9

-----------------------------------------------------------------------------
(* The steps of lis_strrput and lis_strrsrv                                *)

\* The units of a message that arrives are the next ones.
LEMMA NewIs ==
    ASSUME units \in Nat, NEW n \in 1 .. 2
    PROVE  /\ New(n) \in Seq(Nat) /\ ToSet(New(n)) = (units + 1) .. (units + n)
           /\ \A i, j \in DOMAIN New(n) : i < j => New(n)[i] < New(n)[j]
<1>1. \A i \in 1 .. n : units + i \in Nat
  OBVIOUS
<1>2. New(n) \in Seq(Nat) /\ DOMAIN New(n) = 1 .. n /\ \A i \in 1 .. n : New(n)[i] = units + i
  BY <1>1 DEF New
<1>3. ToSet(New(n)) = {New(n)[i] : i \in 1 .. n}
  BY <1>2 DEF ToSet
<1>4. \A y \in (units + 1) .. (units + n) : y - units \in 1 .. n /\ units + (y - units) = y
  OBVIOUS
<1>5. ToSet(New(n)) = (units + 1) .. (units + n)
  <2>1. ASSUME NEW y \in ToSet(New(n))
        PROVE  y \in (units + 1) .. (units + n)
    <3>1. PICK i \in 1 .. n : y = units + i
      BY <1>2, <1>3
    <3> QED
      BY <3>1
  <2>2. ASSUME NEW y \in (units + 1) .. (units + n)
        PROVE  y \in ToSet(New(n))
    BY <1>2, <1>3, <1>4
  <2> QED
    BY <2>1, <2>2
<1> QED
  BY <1>2, <1>5

\* Data arrives,
LEMMA DataSound ==
    ASSUME OInv, DataArrives
    PROVE  Sound(got', gone', Hands', q', rput', units', normal', woken')
<1>1. PICK t \in {"DATA", "PROTO", "PCPROTO"}, n \in 1 .. 2 :
         LET m == [t |-> t, u |-> New(n)]
         IN  /\ \/ gone' = gone \union ToSet(m.u) /\ rput' = rput
                \/ rput' = Append(rput, m) /\ gone' = gone
             /\ units' = units + n
             /\ normal' = IF IsPri(m) THEN normal ELSE normal \union ToSet(m.u)
  BY DEF DataArrives, PutRput
<1> DEFINE u == New(n)
           m == [t |-> t, u |-> u]
           k == units + n
<1>2. u \in Seq(Nat) /\ ToSet(u) = (units + 1) .. k /\ \A i, j \in DOMAIN u : i < j => u[i] < u[j]
  BY NowSound, NewIs
<1>3. m \in Msg /\ m.u = u /\ k \in Nat /\ k >= units
  <2> HIDE DEF u
  <2> QED
    BY <1>2, NowSound DEF Msg
<1>4. /\ \/ gone' = gone \union ToSet(u) /\ rput' = rput
         \/ rput' = Append(rput, m) /\ gone' = gone
      /\ units' = k
      /\ normal' = normal \/ normal' = normal \union ToSet(u)
  BY <1>1
<1> HIDE DEF u, m, k
<1>5. \A y \in 1 .. units : y \in normal' => y \in normal
  <2>1. \A y \in 1 .. units : y \notin ToSet(u)
    BY <1>2, <1>3, NowSound
  <2> QED
    BY <1>4, <2>1
<1>6. /\ Sound(got, gone, Hands, q, Append(rput, m), k, normal', woken)
      /\ Sound(got, gone \union ToSet(u), Hands, q, rput, k, normal', woken)
  BY NowSound, <1>2, <1>3, <1>5, SoundArrives
<1>7. UNCHANGED <<q, got, woken>> /\ Hands' = Hands
  BY DEF DataArrives, Hands, Hand
<1> QED
  BY <1>4, <1>6, <1>7

\* or a message without data,
LEMMA HangupSound ==
    ASSUME OInv, HangupArrives
    PROVE  Sound(got', gone', Hands', q', rput', units', normal', woken')
<1> DEFINE m == [t |-> "HANGUP", u |-> <<>>]
<1>1. m \in Msg /\ m.u = <<>>
  BY DEF Msg
<1>2. rput' = Append(rput, m)
  BY DEF HangupArrives, PutRput
<1> HIDE DEF m
<1>3. Sound(got, gone, Hands, q, Append(rput, m), units, normal, woken)
  BY NowSound, <1>1, SoundAdded
<1>4. UNCHANGED <<got, gone, q, units, normal, woken>> /\ Hands' = Hands
  BY DEF HangupArrives, Hands, Hand, history
<1> QED
  BY <1>2, <1>3, <1>4

\* or a flush,
LEMMA FlushSound ==
    ASSUME OInv, FlushArrives
    PROVE  Sound(got', gone', Hands', q', rput', units', normal', woken')
<1> DEFINE m == [t |-> "FLUSH", u |-> <<>>]
<1>1. m \in Msg /\ m.u = <<>>
  BY DEF Msg
<1>2. \/ rput' = Append(rput, m) /\ UNCHANGED <<q, gone>>
      \/ q' = <<>> /\ rput' = <<>> /\ gone' = gone \union UnitsOf(q) \union UnitsOf(rput)
  BY DEF FlushArrives, PutRput
<1> HIDE DEF m
<1>3. Sound(got, gone, Hands, q, Append(rput, m), units, normal, woken)
  BY NowSound, <1>1, SoundAdded
<1>4. Sound(got, gone \union UnitsOf(q) \union UnitsOf(rput), Hands, <<>>, <<>>, units, normal,
            woken)
  BY NowSound, SoundFlush
<1>5. UNCHANGED <<got, units, normal, woken>> /\ Hands' = Hands
  BY DEF FlushArrives, Hands, Hand
<1> QED
  BY <1>2, <1>3, <1>4, <1>5

\* and lis_strrsrv takes one from the list.
LEMMA ProcessSound ==
    ASSUME OInv, ProcessData
    PROVE  Sound(got', gone', Hands', q', rput', units', normal', woken')
<1>1. PICK m \in ToSet(rput) : /\ rput # <<>> /\ Head(rput) = m /\ rput' = Tail(rput)
                               /\ q' = PutQ(q, m)
  BY DEF ProcessData, Process
<1>2. PriApart(m, normal)
  BY DEF OInv, Overtakers
<1>3. Sound(got, gone, Hands, PutQ(q, m), Tail(rput), units, normal, woken)
  BY NowSound, <1>1, <1>2, SoundProcess
<1>4. UNCHANGED <<got, gone, units, normal, woken>> /\ Hands' = Hands
  BY DEF ProcessData, Hands, Hand, history, arrivals
<1> QED
  BY <1>1, <1>3, <1>4

\* or one without data.
LEMMA ProcessedSound ==
    ASSUME OInv, ProcessHangup \/ ProcessFlush
    PROVE  Sound(got', gone', Hands', q', rput', units', normal', woken')
<1>1. PICK m \in ToSet(rput) : /\ rput # <<>> /\ Head(rput) = m /\ rput' = Tail(rput)
                               /\ m.t \in {"HANGUP", "FLUSH"}
                               /\ \/ q' = q /\ gone' = gone
                                  \/ q' = <<>> /\ gone' = gone \union UnitsOf(q)
  BY DEF ProcessHangup, ProcessFlush, Process, history
<1>2. m.u = <<>>
  <2>1. m.t \notin DataTypes
    BY <1>1 DEF DataTypes
  <2> QED
    BY <2>1 DEF OInv, OnlyData
<1>3. Head(rput).u = <<>>
  BY <1>1, <1>2
<1>4. Sound(got, gone, Hands, q, Tail(rput), units, normal, woken)
  BY NowSound, <1>1, <1>3, SoundProcessed
<1>5. Sound(got, gone \union UnitsOf(q), Hands, <<>>, Tail(rput), units, normal, woken)
  BY NowSound, <1>4, SoundFlush
<1>6. UNCHANGED <<got, units, normal, woken>> /\ Hands' = Hands
  BY DEF ProcessHangup, ProcessFlush, Hands, Hand, history, arrivals
<1> QED
  BY <1>1, <1>4, <1>5, <1>6

\* Every step keeps Sound.
LEMMA SoundKept ==
    ASSUME OInv, NEW r, Acts(r)
    PROVE  Sound(got, gone, Hands, q, rput, units, normal, woken)'
<1> SUFFICES Sound(got', gone', Hands', q', rput', units', normal', woken')
  BY SoundPrimed
<1>1. CASE r \in Reader /\ (GetReadSem(r) \/ LockQ(r) \/ WillSleep(r) \/ SleepOnWread(r)
     \/ WokenUp(r) \/ ReadReady(r) \/ MsgReady(r) \/ PutBackPri(r) \/ NotTheMsg(r))
  BY <1>1, GoesStill, StillSound
<1>2. CASE r \in Reader /\ (Begin(r) \/ ReadSemInterrupted(r) \/ WakeTest(r) \/ WakeUp(r)
     \/ HungUp(r) \/ WouldBlock(r) \/ WreadInterrupted(r) \/ NoMsgEnds(r))
  BY <1>2, EndsStill, StillSound
<1>3. CASE r \in Reader /\ (ReadMore(r) \/ ReadPart(r) \/ ReadFault(r) \/ CopyMsg(r))
  BY <1>3, CopiesStill, StillSound, ReturnsIt, ReturnsSound
<1>4. CASE r \in Reader /\ (TakeForRead(r) \/ TakeMsg(r))
  BY <1>4, TakesIt, TakesSound
<1>5. CASE r \in Reader /\ (TakeNothing(r) \/ ReadDone(r) \/ CopyMsgFault(r))
  BY <1>5, ReturnsIt, ReturnsSound
<1>6. CASE r \in Reader /\ ReadProto(r)
  BY <1>6, ReturnsIt, ReturnsSound, ProtoStill, StillSound
<1>7. CASE r \in Reader /\ PutBack(r)
  <2>1. Puts(r, q, gone)
    BY <1>7, PutsIt
  <2> QED
    BY <1>7, <2>1, NowSound, PutsSound DEF OInv, Overtakers
<1>8. CASE r \in Reader /\ PutBackPriEnds(r)
  <2>1. CASE Puts(r, q, gone)
    BY <1>8, <2>1, NowSound, PutsSound DEF OInv, Overtakers
  <2>2. CASE q # <<>> /\ Puts(r, Tail(q), gone \union ToSet(Head(q).u))
    <3>1. Sound(got, gone \union ToSet(Head(q).u), Hands, Tail(q), rput, units, normal, woken)
      BY <2>2, NowSound, SoundDisplaced
    <3>2. PriFirst(Tail(q)) /\ ToSet(Tail(q)) \subseteq ToSet(q)
      BY <2>2, NowSound, PriFirstTail, TailKept
    <3>3. \A m \in ToSet(Tail(q)) : PriApart(m, normal)
      BY <3>2 DEF OInv, Overtakers
    <3> QED
      BY <1>8, <2>2, <3>1, <3>2, <3>3, PutsSound
  <2> QED
    BY <1>8, <2>1, <2>2, PutsPri
<1>9. CASE DataArrives \/ HangupArrives \/ FlushArrives
  BY <1>9, DataSound, HangupSound, FlushSound
<1>10. CASE ProcessData \/ ProcessHangup \/ ProcessFlush
  BY <1>10, ProcessSound, ProcessedSound
<1>11. CASE SrvStart \/ SrvEnd \/ PeerClose \/ Wakes
  BY <1>11, OthersStill, StillSound
<1> QED
  BY <1>1, <1>2, <1>3, <1>4, <1>5, <1>6, <1>7, <1>8, <1>9, <1>10, <1>11 DEF Acts

-----------------------------------------------------------------------------
(* Where messages come from                                                *)

\* All messages, on the queues and with the readers, carry units that have been sent.
LEMMA MessagesHave ==
    ASSUME OInv
    PROVE  /\ \A m \in ToSet(q) : ToSet(m.u) \subseteq 1 .. units
           /\ \A m \in ToSet(rput) : ToSet(m.u) \subseteq 1 .. units
           /\ \A v \in Reader : ToSet(rd[v].mp.u) \subseteq 1 .. units
<1>1. Once(got, gone, Hands, q, rput, units)
  BY DEF OInv, Sound
<1>2. /\ UnitsOf(q) \subseteq 1 .. units /\ UnitsOf(rput) \subseteq 1 .. units
      /\ \A v \in Reader : ToSet(Hands[v]) \subseteq 1 .. units
  BY <1>1, AllPlaces
<1>3. \A s : \A m \in ToSet(s) : ToSet(m.u) \subseteq UnitsOf(s)
  BY DEF ToSet, UnitsOf
<1>4. ASSUME NEW v \in Reader
      PROVE  ToSet(rd[v].mp.u) \subseteq ToSet(Hands[v])
  <2> DEFINE b == rd[v].buf
             u == rd[v].mp.u
  <2>1. b \in Seq(Nat) /\ u \in Seq(Nat) /\ Hands[v] = b \o u
    <3>1. rd[v] \in Record
      BY NowSound DEF IInv, Locals
    <3> QED
      BY <3>1, RecordIs DEF Hands, Hand
  <2> HIDE DEF b, u
  <2>2. ToSet(b \o u) = ToSet(b) \union ToSet(u)
    BY <2>1, ConcatRelates
  <2>3. ToSet(u) \subseteq ToSet(Hands[v])
    BY <2>1, <2>2
  <2> QED
    BY <2>3 DEF u
<1> QED
  BY <1>2, <1>3, <1>4

\* Where the messages of the queue come from,
LEMMA QueueComes ==
    ASSUME OInv, NEW r, Acts(r), NEW m \in ToSet(q')
    PROVE  m \in ToSet(q) \/ m \in ToSet(rput) \/ \E v \in Reader : m = rd[v].mp
<1>1. CASE r \in Reader /\ (TakeForRead(r) \/ TakeMsg(r))
  <2>1. q # <<>> /\ q' = Tail(q)
    BY <1>1 DEF TakeForRead, TakeMsg
  <2> QED
    BY <2>1, NowSound, TailKept
<1>2. CASE r \in Reader /\ (PutBack(r) \/ PutBackPriEnds(r))
  <2>1. rd[r].mp \in Msg
    BY <1>2, NowSound, RecordIs DEF IInv, Locals
  <2>2. CASE q' = PutBq(q, rd[r].mp)
    <3>1. ToSet(q') = ToSet(q) \union {rd[r].mp}
      BY <2>1, <2>2, NowSound, PutKept
    <3> QED
      BY <1>2, <3>1
  <2>3. CASE q # <<>> /\ q' = PutBq(Tail(q), rd[r].mp)
    <3>1. Tail(q) \in Seq(Msg) /\ ToSet(Tail(q)) \subseteq ToSet(q)
      BY <2>3, NowSound, TailKept
    <3>2. ToSet(q') = ToSet(Tail(q)) \union {rd[r].mp}
      BY <2>1, <2>3, <3>1, PutKept
    <3> QED
      BY <1>2, <3>1, <3>2
  <2> QED
    BY <1>2, <2>2, <2>3 DEF PutBack, PutBackPriEnds
<1>3. CASE ProcessData
  <2>1. PICK x \in ToSet(rput) : q' = PutQ(q, x)
    BY <1>3 DEF ProcessData
  <2>2. x \in Msg
    BY NowSound DEF ToSet
  <2>3. ToSet(q') = ToSet(q) \union {x}
    BY <2>1, <2>2, NowSound, PutKept
  <2> QED
    BY <2>1, <2>3
<1>4. CASE FlushArrives \/ ProcessFlush
  <2>1. q' = q \/ q' = <<>>
    BY <1>4 DEF FlushArrives, ProcessFlush
  <2> QED
    BY <2>1, NoUnits
<1>5. CASE (r \in Reader /\ (Begin(r) \/ GetReadSem(r) \/ LockQ(r) \/ HungUp(r)
     \/ WouldBlock(r) \/ WillSleep(r) \/ SleepOnWread(r) \/ WokenUp(r) \/
     WakeTest(r) \/ WakeUp(r) \/ ReadReady(r) \/ TakeNothing(r) \/ ReadMore(r)
     \/ ReadDone(r) \/ ReadPart(r) \/ ReadFault(r) \/ ReadProto(r) \/ MsgReady(r) \/
     NotTheMsg(r) \/ NoMsgEnds(r) \/ CopyMsg(r) \/ CopyMsgFault(r) \/ PutBackPri(r)
     \/ ReadSemInterrupted(r) \/
     WreadInterrupted(r))) \/ DataArrives \/ HangupArrives \/ SrvStart \/ ProcessHangup
     \/ SrvEnd \/ PeerClose \/ Wakes
  <2>1. q' = q
    BY <1>5 DEF Begin, GetReadSem, LockQ, HungUp, WouldBlock, WillSleep, SleepOnWread, WokenUp,
       WakeTest, WakeUp, ReadReady, TakeNothing, ReadMore, ReadDone, ReadPart, ReadFault,
       ReadProto, MsgReady, NotTheMsg, NoMsgEnds, CopyMsg, CopyMsgFault, PutBackPri,
       ReadSemInterrupted,
       WreadInterrupted, DataArrives, HangupArrives, SrvStart, ProcessHangup, SrvEnd,
       PeerClose, Wakes, WakeUps, queue
  <2> QED
    BY <2>1
<1> QED
  BY <1>1, <1>2, <1>3, <1>4, <1>5 DEF Acts

\* and those of the list; and which units are new.
LEMMA ListComes ==
    ASSUME OInv, NEW r, Acts(r)
    PROVE  /\ units' \in Nat /\ units' >= units
           /\ \A y \in normal' : y \in normal \/ y \in (units + 1) .. units'
           /\ \A m \in ToSet(rput') :
                \/ m \in ToSet(rput)
                \/ m.u = <<>>
                \/ /\ m.t \in DataTypes /\ ToSet(m.u) \subseteq (units + 1) .. units'
                   /\ IsPri(m) => normal' = normal
<1>0. units \in Nat /\ rput \in Seq(Msg)
  BY NowSound
<1>1. CASE DataArrives
  <2>1. PICK t \in {"DATA", "PROTO", "PCPROTO"}, n \in 1 .. 2 :
           LET m == [t |-> t, u |-> New(n)]
           IN  /\ rput' = rput \/ rput' = Append(rput, m)
               /\ units' = units + n
               /\ normal' = IF IsPri(m) THEN normal ELSE normal \union ToSet(m.u)
    BY <1>1 DEF DataArrives, PutRput
  <2> DEFINE u == New(n)
             x == [t |-> t, u |-> u]
  <2>2. u \in Seq(Nat) /\ ToSet(u) = (units + 1) .. (units + n)
    BY <1>0, NewIs
  <2>3. x \in Msg /\ x.u = u /\ x.t = t
    <3> HIDE DEF u
    <3> QED
      BY <2>2 DEF Msg
  <2>4. /\ rput' = rput \/ rput' = Append(rput, x)
        /\ normal' = normal \/ normal' = normal \union ToSet(u)
        /\ IsPri(x) => normal' = normal
    BY <2>1
  <2>5. units' = units + n /\ units' \in Nat /\ units' >= units
    BY <1>0, <2>1
  <2>6. x.t \in DataTypes
    BY <2>3 DEF DataTypes
  <2> HIDE DEF x, u
  <2>7. ToSet(Append(rput, x)) = ToSet(rput) \union {x}
    BY <1>0, <2>3, AppendKept
  <2>8. ToSet(u) = (units + 1) .. units'
    BY <2>2, <2>5
  <2>9. ToSet(x.u) \subseteq (units + 1) .. units'
    BY <2>3, <2>8
  <2> QED
    BY <2>4, <2>5, <2>6, <2>7, <2>8, <2>9
<1>2. CASE HangupArrives \/ FlushArrives
  <2>1. units' = units /\ normal' = normal
    BY <1>2 DEF HangupArrives, FlushArrives
  <2>2. \E t \in {"HANGUP", "FLUSH"} :
           rput' = Append(rput, [t |-> t, u |-> <<>>]) \/ rput' = <<>>
    BY <1>2 DEF HangupArrives, FlushArrives, PutRput
  <2>3. PICK t \in {"HANGUP", "FLUSH"} :
           rput' = Append(rput, [t |-> t, u |-> <<>>]) \/ rput' = <<>>
    BY <2>2
  <2> DEFINE x == [t |-> t, u |-> <<>>]
  <2>4. x \in Msg /\ x.u = <<>>
    BY DEF Msg
  <2>5. rput' = Append(rput, x) \/ rput' = <<>>
    BY <2>3
  <2> HIDE DEF x
  <2>6. ToSet(Append(rput, x)) = ToSet(rput) \union {x}
    BY <1>0, <2>4, AppendKept
  <2>7. \A m \in ToSet(rput') : m \in ToSet(rput) \/ m = x
    BY <2>5, <2>6, NoUnits
  <2>8. \A m \in ToSet(rput') : m \in ToSet(rput) \/ m.u = <<>>
    BY <2>4, <2>7
  <2> QED
    BY <1>0, <2>1, <2>8
<1>3. CASE ProcessData \/ ProcessHangup \/ ProcessFlush
  <2>1. units' = units /\ normal' = normal /\ rput # <<>> /\ rput' = Tail(rput)
    BY <1>3 DEF ProcessData, ProcessHangup, ProcessFlush, Process, arrivals
  <2>2. ToSet(rput) = ToSet(Tail(rput)) \union {Head(rput)}
    BY <1>0, <2>1, TailKept
  <2> QED
    BY <1>0, <2>1, <2>2
<1>4. CASE (r \in Reader /\ (Begin(r) \/ GetReadSem(r) \/ LockQ(r) \/ HungUp(r)
     \/ WouldBlock(r) \/ WillSleep(r) \/ SleepOnWread(r) \/ WokenUp(r) \/
     WakeTest(r) \/ WakeUp(r) \/ ReadReady(r) \/ TakeNothing(r) \/ TakeForRead(r) \/ ReadMore(r)
     \/ ReadDone(r) \/ ReadPart(r) \/ ReadFault(r) \/ ReadProto(r) \/ MsgReady(r) \/
     NotTheMsg(r) \/ NoMsgEnds(r) \/ TakeMsg(r) \/ CopyMsg(r) \/ CopyMsgFault(r) \/ PutBack(r) \/ PutBackPri(r)
     \/ PutBackPriEnds(r) \/ ReadSemInterrupted(r) \/ WreadInterrupted(r))) \/ SrvStart
     \/ SrvEnd \/ PeerClose \/ Wakes
  <2>1. UNCHANGED <<units, normal, rput>>
    BY <1>4 DEF Begin, GetReadSem, LockQ, HungUp, WouldBlock, WillSleep, SleepOnWread, WokenUp,
       WakeTest, WakeUp, ReadReady, TakeNothing, TakeForRead, ReadMore, ReadDone, ReadPart,
       ReadFault, ReadProto, MsgReady, NotTheMsg, NoMsgEnds, TakeMsg, CopyMsg, CopyMsgFault, PutBack,
       PutBackPri, PutBackPriEnds, ReadSemInterrupted, WreadInterrupted, SrvStart, SrvEnd,
       PeerClose, Wakes, WakeUps, queue, arrivals
  <2> QED
    BY <1>0, <2>1
<1> QED
  BY <1>1, <1>2, <1>3, <1>4 DEF Acts

\* A high priority message that a reader has comes from the queue, or has been copied in part.
LEMMA MpComes ==
    ASSUME OInv, NEW r, Acts(r), NEW v \in Reader, IsPri(rd'[v].mp)
    PROVE  \/ rd'[v].mp \in ToSet(q)
           \/ IsPri(rd[v].mp) /\ ToSet(rd'[v].mp.u) \subseteq ToSet(rd[v].mp.u)
<1>0. IInv /\ rd[v] \in Record /\ rd[v] \in Fields /\ rd \in [Reader -> Record] /\ Locals
      /\ rd[v].mp \in Msg /\ Fits(rd[v])
  BY NowSound, RecordIs DEF IInv, Locals, Record, HandsFit
<1>n. ~IsPri(NoMsg) /\ ~IsPri(Idle.mp) /\ ~IsPri([Idle EXCEPT !.pc = "wake"].mp)
  BY DEF IsPri, NoMsg, Idle
<1>1. CASE rd'[v] = rd[v]
  BY <1>1
<1>2. CASE v # r \/ r \notin Reader
  <2>1. Others(r)
    BY <1>0, OthersKept
  <2> QED
    BY <1>1, <1>2, <2>1 DEF Others
<1>3. CASE v = r /\ Begin(r)
  <2>1. PICK k \in Kinds[r], n \in 1 .. 2 :
           rd' = [rd EXCEPT ![r] = [Idle EXCEPT !.pc = "down", !.kind = k, !.ulen = n]]
    BY <1>3 DEF Begin
  <2>2. rd'[v].mp = Idle.mp
    BY <1>0, <1>3, <2>1 DEF Idle
  <2> QED
    BY <1>n, <2>2
<1>4. CASE v = r /\ (GetReadSem(r) \/ LockQ(r) \/ WillSleep(r) \/ SleepOnWread(r) \/ WokenUp(r)
     \/ ReadReady(r) \/ MsgReady(r) \/ PutBackPri(r) \/ NotTheMsg(r))
  <2>1. rd'[v].mp = rd[v].mp
    BY <1>0, <1>4 DEF GetReadSem, LockQ, WillSleep, SleepOnWread, WokenUp, ReadReady, MsgReady,
       PutBackPri, NotTheMsg, Goto, Record, Fields
  <2> QED
    BY <2>1
<1>5. CASE v = r /\ (WakeTest(r) \/ WakeUp(r) \/ ReadSemInterrupted(r))
  <2>1. CASE Goto(r, "up")
    <3>1. rd'[v].mp = rd[v].mp
      BY <1>0, <1>5, <2>1 DEF Goto, Record, Fields
    <3> QED
      BY <3>1
  <2>2. CASE rd' = [rd EXCEPT ![r] = Idle]
    BY <1>0, <1>n, <1>5, <2>2
  <2> QED
    BY <1>5, <2>1, <2>2 DEF WakeTest, WakeUp, ReadSemInterrupted
<1>6. ASSUME v = r, NEW f, NEW b, Rtn(r, f, b)
      PROVE  FALSE
  BY <1>0, <1>n, <1>6 DEF Rtn
<1>7. CASE v = r /\ (HungUp(r) \/ WouldBlock(r) \/ WreadInterrupted(r) \/ TakeNothing(r)
     \/ ReadDone(r) \/ NoMsgEnds(r) \/ CopyMsgFault(r) \/ PutBackPriEnds(r))
  BY <1>6, <1>7 DEF HungUp, WouldBlock, WreadInterrupted, TakeNothing, ReadDone, NoMsgEnds,
     CopyMsgFault, PutBackPriEnds
<1>8. CASE v = r /\ (TakeForRead(r) \/ TakeMsg(r))
  <2> DEFINE m == Head(q)
  <2>1. m \in ToSet(q)
    BY <1>8, NowSound, TailKept DEF TakeForRead, TakeMsg
  <2>2. rd' = [rd EXCEPT ![r].pc = "copy", ![r].mp = m]
    BY <1>8 DEF TakeForRead, TakeMsg
  <2> HIDE DEF m
  <2>3. rd'[v].mp = m
    BY <1>0, <1>8, <2>2 DEF Record, Fields
  <2> QED
    BY <2>1, <2>3
<1>9. CASE v = r /\ (ReadMore(r) \/ ReadPart(r))
  <2> DEFINE x == Copied(r)
  <2>1. x \in Fields /\ x.mp.t = "DATA"
    BY <1>0, <1>9, CopiedKept DEF ReadMore, ReadPart, ToUser, Record
  <2>2. \/ rd'[v] = [x EXCEPT !.pc = "lock", !.mp = NoMsg]
        \/ rd'[v] = [x EXCEPT !.pc = "putback"]
    BY <1>0, <1>9 DEF ReadMore, ReadPart
  <2> HIDE DEF x
  <2>3. rd'[v].mp = NoMsg \/ rd'[v].mp = x.mp
    BY <2>1, <2>2 DEF Fields
  <2> QED
    BY <1>n, <2>1, <2>3 DEF IsPri
<1>14. CASE v = r /\ ReadFault(r)
  <2>1. rd'[v].mp.t = "DATA"
    BY <1>0, <1>14, FaultIs
  <2> QED
    BY <2>1 DEF IsPri
<1>10. CASE v = r /\ CopyMsg(r)
  <2>1. rd'[v] = [Copied(r) EXCEPT !.pc = "putback"]
    BY <1>0, <1>6, <1>10 DEF CopyMsg
  <2> DEFINE x == Copied(r)
             c == x.buf
             d == x.mp.u
             u == rd[v].mp.u
  <2>2. rd[v].buf = <<>> /\ u \in Seq(Nat)
    BY <1>0, <1>10, RecordIs DEF CopyMsg, Fits, At
  <2>3. Hand(v) = u
    BY <2>2, NothingInHand DEF Hand
  <2>4. x \in Fields /\ x.mp.t = rd[v].mp.t /\ c \in Seq(Nat) /\ d \in Seq(Nat) /\ c \o d = u
    BY <1>0, <1>10, <2>3, CopiedKept, CopiedHand DEF Record
  <2>5. rd'[v].mp = x.mp
    <3> HIDE DEF x
    <3> QED
      BY <2>1, <2>4 DEF x, Fields
  <2>6. rd'[v].mp.u = d /\ (IsPri(rd'[v].mp) => IsPri(rd[v].mp))
    BY <2>4, <2>5 DEF IsPri
  <2> HIDE DEF x, c, d, u
  <2>7. ToSet(c \o d) = ToSet(c) \union ToSet(d)
    BY <2>4, ConcatRelates
  <2>8. ToSet(rd'[v].mp.u) \subseteq ToSet(u)
    BY <2>4, <2>6, <2>7
  <2> QED
    BY <2>6, <2>8 DEF u
<1>11. CASE v = r /\ ReadProto(r)
  <2>1. CASE rd' = [rd EXCEPT ![r].pc = "putback", ![r].then = "fail"]
    <3>1. rd'[v].mp = rd[v].mp
      BY <1>0, <1>11, <2>1 DEF Record, Fields
    <3> QED
      BY <3>1
  <2>2. CASE rd' = [rd EXCEPT ![r].pc = "putback", ![r].mp.t = "DATA", ![r].msgs_read = @ + 1,
                              ![r].then = "again"]
    <3> DEFINE m == [rd[r].mp EXCEPT !.t = "DATA"]
               k == rd[r].msgs_read + 1
    <3>1. rd'[r] = [rd[r] EXCEPT !.pc = "putback", !.mp = m, !.msgs_read = k, !.then = "again"]
      BY <1>0, <1>11, <2>2 DEF Record, Fields
    <3>2. m.t = "DATA"
      BY <1>0, <1>11 DEF Msg
    <3> HIDE DEF m, k
    <3>3. rd'[v].mp = m
      BY <1>0, <1>11, <3>1 DEF Record, Fields
    <3> QED
      BY <3>2, <3>3 DEF IsPri
  <2>3. CASE Rtn(r, TRUE, rd[r].buf)
    BY <1>6, <1>11, <2>3
  <2> QED
    BY <1>11, <2>1, <2>2, <2>3 DEF ReadProto
<1>12. CASE v = r /\ PutBack(r)
  <2>1. CASE rd[r].then # "again"
    BY <1>6, <1>12, <2>1 DEF PutBack, AfterPutBack
  <2>2. CASE rd[r].then = "again"
    <3>1. rd' = [rd EXCEPT ![r].pc = "lock", ![r].mp = NoMsg, ![r].then = "return"]
      BY <1>12, <2>2 DEF PutBack, AfterPutBack
    <3>2. rd'[v].mp = NoMsg
      BY <1>0, <1>12, <3>1 DEF Record, Fields
    <3> QED
      BY <1>n, <3>2
  <2> QED
    BY <2>1, <2>2
<1>13. CASE DataArrives \/ HangupArrives \/ FlushArrives \/ SrvStart \/ ProcessData \/
     ProcessHangup \/ ProcessFlush \/ SrvEnd \/ PeerClose \/ Wakes
  <2>1. rd' = rd
    BY <1>13 DEF DataArrives, HangupArrives, FlushArrives, SrvStart, ProcessData,
       ProcessHangup, ProcessFlush, SrvEnd, PeerClose, Wakes, WakeUps
  <2> QED
    BY <1>1, <2>1
<1> QED
  BY <1>2, <1>3, <1>4, <1>5, <1>7, <1>8, <1>9, <1>10, <1>11, <1>12, <1>13,
     <1>14 DEF Acts

\* No message of high priority ever carries a normal unit.
LEMMA OvertakersKept ==
    ASSUME OInv, NEW r, Acts(r)
    PROVE  Overtakers'
<1>0. /\ units \in Nat /\ normal \subseteq 1 .. units
      /\ \A m \in ToSet(q) : PriApart(m, normal)
      /\ \A m \in ToSet(rput) : PriApart(m, normal)
      /\ \A v \in Reader : PriApart(rd[v].mp, normal)
  BY NowSound DEF OInv, Overtakers
<1>1. /\ \A m \in ToSet(q) : ToSet(m.u) \subseteq 1 .. units
      /\ \A m \in ToSet(rput) : ToSet(m.u) \subseteq 1 .. units
      /\ \A v \in Reader : ToSet(rd[v].mp.u) \subseteq 1 .. units
  BY MessagesHave
<1>2. /\ units' \in Nat /\ units' >= units
      /\ \A y \in normal' : y \in normal \/ y \in (units + 1) .. units'
  BY ListComes
<1> DEFINE n == units
           k == units'
           N == normal
           M == normal'
<1>a. /\ n \in Nat /\ k \in Nat /\ k >= n /\ N \subseteq 1 .. n
      /\ \A y \in M : y \in N \/ y \in (n + 1) .. k
  BY <1>0, <1>2
<1> HIDE DEF n, k, N, M
<1>b. M \subseteq 1 .. k
  <2> SUFFICES ASSUME NEW y \in M
               PROVE  y \in 1 .. k
    OBVIOUS
  <2>1. y \in 1 .. n \/ y \in (n + 1) .. k
    BY <1>a
  <2> QED
    BY <1>a, <2>1
<1>c. \A A \in SUBSET (1 .. n) : A \cap N = {} => A \cap M = {}
  <2> SUFFICES ASSUME NEW A \in SUBSET (1 .. n), A \cap N = {}, NEW y \in A \cap M
               PROVE  FALSE
    OBVIOUS
  <2>1. y \in 1 .. n /\ y \in (n + 1) .. k
    BY <1>a
  <2> QED
    BY <1>a, <2>1
<1>3. normal' \subseteq 1 .. units'
  BY <1>b DEF M, k
<1>4. \A A \in SUBSET (1 .. units) : A \cap normal = {} => A \cap normal' = {}
  BY <1>c DEF M, N, n
<1>5. \A m : PriApart(m, normal) /\ ToSet(m.u) \subseteq 1 .. units => PriApart(m, normal')
  <2> TAKE m
  <2> DEFINE A == ToSet(m.u)
  <2>1. A \subseteq 1 .. units /\ A \cap normal = {} => A \cap normal' = {}
    BY <1>4
  <2> QED
    BY <2>1 DEF PriApart
<1>6. \A m \in ToSet(q') : PriApart(m, normal')
  BY <1>0, <1>1, <1>5, QueueComes
<1>7. ASSUME NEW m \in ToSet(rput')
      PROVE  PriApart(m, normal')
  <2>1. CASE m \in ToSet(rput)
    BY <1>0, <1>1, <1>5, <2>1
  <2>2. CASE m.u = <<>>
    BY <2>2, NoUnits DEF PriApart
  <2>3. CASE ToSet(m.u) \subseteq (units + 1) .. units' /\ (IsPri(m) => normal' = normal)
    <3> DEFINE A == ToSet(m.u)
    <3>1. A \subseteq (units + 1) .. units'
      BY <2>3
    <3> HIDE DEF A
    <3>2. A \cap normal = {}
      BY <1>0, <1>2, <3>1
    <3> QED
      BY <2>3, <3>2 DEF PriApart, A
  <2> QED
    BY <2>1, <2>2, <2>3, ListComes
<1>8. ASSUME NEW v \in Reader
      PROVE  PriApart(rd'[v].mp, normal')
  <2>1. CASE ~IsPri(rd'[v].mp)
    BY <2>1 DEF PriApart
  <2>2. CASE rd'[v].mp \in ToSet(q)
    BY <1>0, <1>1, <1>5, <2>2
  <2>3. CASE IsPri(rd[v].mp) /\ ToSet(rd'[v].mp.u) \subseteq ToSet(rd[v].mp.u)
    <3>1. ToSet(rd[v].mp.u) \cap normal' = {}
      BY <1>0, <1>1, <1>5, <2>3 DEF PriApart
    <3> QED
      BY <2>3, <3>1 DEF PriApart
  <2> QED
    BY <2>1, <2>2, <2>3, MpComes
<1> QED
  BY <1>3, <1>6, <1>7, <1>8 DEF Overtakers, PriApart, IsPri

\* Only messages of data carry units.
LEMMA OnlyDataKept ==
    ASSUME OInv, NEW r, Acts(r)
    PROVE  OnlyData'
<1>1. \A m \in ToSet(rput') : m \in ToSet(rput) \/ m.u = <<>> \/ m.t \in DataTypes
  BY ListComes
<1>2. \A m \in ToSet(rput) : m.t \notin DataTypes => m.u = <<>>
  BY DEF OInv, OnlyData
<1> QED
  BY <1>1, <1>2 DEF OnlyData

-----------------------------------------------------------------------------
(* The theorem of ReadOnce                                                 *)

\* The messages of high priority stay in front of the others.
LEMMA PriFirstKept ==
    ASSUME OInv, NEW r, Acts(r)
    PROVE  PriFirst(q')
<1>1. CASE q' = q
  BY <1>1, NowSound
<1>2. CASE q # <<>> /\ q' = Tail(q)
  BY <1>2, NowSound, PriFirstTail
<1>3. CASE r \in Reader /\ q' = PutBq(q, rd[r].mp)
  <2>1. rd[r].mp \in Msg
    BY <1>3, NowSound, RecordIs DEF IInv, Locals
  <2> QED
    BY <1>3, <2>1, NowSound, PutBqIs
<1>4. CASE r \in Reader /\ q # <<>> /\ q' = PutBq(Tail(q), rd[r].mp)
  <2>1. rd[r].mp \in Msg
    BY <1>4, NowSound, RecordIs DEF IInv, Locals
  <2>2. Tail(q) \in Seq(Msg) /\ PriFirst(Tail(q))
    BY <1>4, NowSound, PriFirstTail, TailKept
  <2> QED
    BY <1>4, <2>1, <2>2, PutBqIs
<1>5. CASE \E m \in ToSet(rput) : q' = PutQ(q, m)
  <2>1. PICK m \in ToSet(rput) : q' = PutQ(q, m)
    BY <1>5
  <2>2. m \in Msg
    BY NowSound DEF ToSet
  <2> QED
    BY <2>1, <2>2, NowSound, PutQIs
<1>6. CASE q' = <<>>
  BY <1>6 DEF PriFirst
<1>7. CASE r \in Reader /\ (TakeForRead(r) \/ TakeMsg(r) \/ PutBack(r) \/ PutBackPriEnds(r))
  BY <1>2, <1>3, <1>4, <1>7 DEF TakeForRead, TakeMsg, PutBack, PutBackPriEnds
<1>8. CASE FlushArrives \/ ProcessData \/ ProcessFlush
  BY <1>1, <1>5, <1>6, <1>8 DEF FlushArrives, ProcessData, ProcessFlush
<1>9. CASE (r \in Reader /\ (Begin(r) \/ GetReadSem(r) \/ LockQ(r) \/ HungUp(r)
     \/ WouldBlock(r) \/ WillSleep(r) \/ SleepOnWread(r) \/ WokenUp(r) \/
     WakeTest(r) \/ WakeUp(r) \/ ReadReady(r) \/ TakeNothing(r) \/ ReadMore(r)
     \/ ReadDone(r) \/ ReadPart(r) \/ ReadFault(r) \/ ReadProto(r) \/ MsgReady(r) \/
     NotTheMsg(r) \/ NoMsgEnds(r) \/ CopyMsg(r) \/ CopyMsgFault(r) \/ PutBackPri(r)
     \/ ReadSemInterrupted(r) \/
     WreadInterrupted(r))) \/ DataArrives \/ HangupArrives \/ SrvStart \/ ProcessHangup
     \/ SrvEnd \/ PeerClose \/ Wakes
  BY <1>1, <1>9 DEF Begin, GetReadSem, LockQ, HungUp, WouldBlock, WillSleep, SleepOnWread,
     WokenUp, WakeTest, WakeUp, ReadReady, TakeNothing, ReadMore, ReadDone, ReadPart, ReadFault,
     ReadProto, MsgReady, NotTheMsg, NoMsgEnds, CopyMsg, CopyMsgFault, PutBackPri,
       ReadSemInterrupted,
     WreadInterrupted, DataArrives, HangupArrives, SrvStart, ProcessHangup, SrvEnd,
     PeerClose, Wakes, WakeUps, queue
<1> QED
  BY <1>7, <1>8, <1>9 DEF Acts

\* The invariant holds at the start,
LEMMA OInvAtFirst == Init => OInv
<1> SUFFICES ASSUME Init
             PROVE  OInv
  OBVIOUS
<1>0. /\ q = <<>> /\ rput = <<>> /\ got = <<>> /\ gone = {} /\ units = 0 /\ normal = {}
      /\ \A r \in Reader : rd[r] = Idle
  BY DEF Init
<1>1. IInv
  BY AtFirst
<1>2. HandsFit
  BY <1>0, IdleFits DEF HandsFit
<1>3. PriFirst(q)
  BY <1>0 DEF PriFirst
<1>4. Overtakers /\ OnlyData
  BY <1>0, NoUnits DEF Overtakers, OnlyData, PriApart, Idle, NoMsg, IsPri
<1>5. \A r \in Reader : Hands[r] = <<>>
  <2>1. \A r \in Reader : Hand(r) = <<>> \o <<>>
    BY <1>0 DEF Hand, Idle, NoMsg
  <2> QED
    BY <2>1, NothingInHand DEF Hands
<1>6. Texts(got, Hands, q, rput)
  <2>1. <<>> \in Seq(Nat) /\ <<>> \in Seq(Msg) /\ Hands = [r \in Reader |-> Hands[r]]
    BY DEF Hands
  <2>2. Hands \in [Reader -> Seq(Nat)]
    BY <1>5, <2>1
  <2> QED
    BY <1>0, <2>1, <2>2 DEF Texts
<1>7. \A R : Chain(R, got, Hands, q, rput)
  <2>1. /\ ToSet(got) = {} /\ UnitsOf(q) = {} /\ UnitsOf(rput) = {}
        /\ \A r \in Reader : ToSet(Hands[r]) = {}
    BY <1>0, <1>5, NoUnits
  <2>2. \A R : Within(R, <<>>) /\ Along(R, <<>>)
    BY DEF Within, Along
  <2> QED
    BY <1>0, <1>5, <2>1, <2>2 DEF Chain, Before
<1>8. Once(got, gone, Hands, q, rput, units)
  <2>1. /\ ToSet(got) = {} /\ UnitsOf(q) = {} /\ UnitsOf(rput) = {} /\ 1 .. units = {}
        /\ \A r \in Reader : ToSet(Hands[r]) = {}
    BY <1>0, <1>5, NoUnits
  <2> QED
    BY <1>0, <1>7, <2>1 DEF Once
<1> QED
  BY <1>1, <1>2, <1>3, <1>4, <1>6, <1>7, <1>8 DEF OInv, Sound

\* and every step keeps it.
LEMMA OInvKept == OInv /\ [Next]_vars => OInv'
<1> SUFFICES ASSUME OInv, [Next]_vars
             PROVE  OInv'
  OBVIOUS
<1>0. IInv'
  BY IInvKept DEF OInv
<1>p. PriFirst(q)' <=> PriFirst(q')
  BY DEF PriFirst, IsPri
<1>1. ASSUME NEW r, Acts(r)
      PROVE  OInv'
  <2>1. HandsFit'
    BY <1>1, FitsKept DEF OInv
  <2>2. Overtakers' /\ OnlyData'
    BY <1>1, OvertakersKept, OnlyDataKept
  <2>3. PriFirst(q)'
    BY <1>1, <1>p, PriFirstKept
  <2>4. Sound(got, gone, Hands, q, rput, units, normal, woken)'
    BY <1>1, SoundKept
  <2> QED
    BY <1>0, <2>1, <2>2, <2>3, <2>4 DEF OInv
<1>2. CASE UNCHANGED vars
  <2>1. UNCHANGED <<rd, q, rput, units, normal, woken, got, gone>>
    BY <1>2 DEF vars, queue, arrivals, history
  <2>2. HandsFit' /\ Overtakers' /\ OnlyData' /\ PriFirst(q)'
    BY <1>p, <2>1 DEF OInv, HandsFit, Overtakers, OnlyData, PriApart, IsPri
  <2>3. Hands' = Hands
    BY <2>1 DEF Hands, Hand
  <2>4. Sound(got', gone', Hands', q', rput', units', normal', woken')
    BY <2>1, <2>3, NowSound
  <2> QED
    BY <1>0, <2>2, <2>4, SoundPrimed DEF OInv
<1>3. CASE Next
  <2>1. CASE \E r \in Reader : Begin(r) \/ Goes(r) \/ Interrupt(r)
    BY <1>1, <2>1 DEF Acts, Goes, StrRead, StrGetmsg, Interrupt
  <2>2. CASE Arrives \/ Service \/ PeerClose \/ \E t \in Waker : WakeUps(t)
    BY <1>1, <2>2 DEF Acts, Arrives, Service, Wakes
  <2> QED
    BY <1>3, <2>1, <2>2 DEF Next
<1> QED
  BY <1>2, <1>3

\* A unit has one place.
LEMMA OneSpot ==
    ASSUME OInv, NEW x \in 1 .. units
    PROVE  \E z : Spots(x) = {z}
<1>0. Texts(got, Hands, q, rput) /\ Once(got, gone, Hands, q, rput, units)
  BY DEF OInv, Sound
<1>1. /\ ToSet(got) \cap UnitsOf(q) = {} /\ ToSet(got) \cap UnitsOf(rput) = {}
      /\ UnitsOf(q) \cap UnitsOf(rput) = {}
      /\ \A r \in Reader : /\ ToSet(got) \cap ToSet(Hands[r]) = {}
                           /\ ToSet(Hands[r]) \cap UnitsOf(q) = {}
                           /\ ToSet(Hands[r]) \cap UnitsOf(rput) = {}
  BY <1>0, NowSound, PlacesApart
<1>2. /\ \A r, t \in Reader : r # t => ToSet(Hands[r]) \cap ToSet(Hands[t]) = {}
      /\ gone \cap ToSet(got) = {} /\ gone \cap UnitsOf(q) = {} /\ gone \cap UnitsOf(rput) = {}
      /\ \A r \in Reader : gone \cap ToSet(Hands[r]) = {}
      /\ \/ x \in ToSet(got) \/ x \in gone \/ x \in UnitsOf(q) \/ x \in UnitsOf(rput)
         \/ \E r \in Reader : x \in ToSet(Hands[r])
  BY <1>0 DEF Once
<1>3. /\ Within(Differ, got) /\ Along(Differ, q) /\ Along(Differ, rput)
      /\ \A r \in Reader : Within(Differ, Hands[r])
  BY <1>0 DEF Once, Chain
<1>4. /\ got \in Seq(Nat) /\ q \in Seq(Msg) /\ rput \in Seq(Msg)
      /\ \A r \in Reader : Hands[r] \in Seq(Nat) /\ Hands[r] = Hand(r)
  BY <1>0 DEF Texts, Hands
<1> DEFINE G == {<<"got", i>> : i \in Where(got, x)}
           X == {<<"gone", y>> : y \in gone \cap {x}}
           Q == {<<"q", w>> : w \in Among(q, x)}
           P == {<<"rput", w>> : w \in Among(rput, x)}
           H(r) == {<<"reader", r, k>> : k \in Where(Hand(r), x)}
           U == UNION {H(r) : r \in Reader}
<1>5. Spots(x) = G \union X \union Q \union P \union U
  BY DEF Spots
<1>6. (x \notin ToSet(got) => G = {}) /\ (x \in ToSet(got) => \E z : G = {z})
  <2>1. /\ x \notin ToSet(got) => Where(got, x) = {}
        /\ x \in ToSet(got) => \E i : Where(got, x) = {i}
    BY <1>3, <1>4, WhereIs
  <2>2. ASSUME Where(got, x) = {}
        PROVE  G = {}
    BY <2>2
  <2>3. ASSUME NEW i, Where(got, x) = {i}
        PROVE  \E z : G = {z}
    <3>1. G = {<<"got", i>>}
      BY <2>3
    <3> QED
      BY <3>1
  <2> HIDE DEF G
  <2> QED
    BY <2>1, <2>2, <2>3
<1>7. (x \notin gone => X = {}) /\ (x \in gone => \E z : X = {z})
  OBVIOUS
<1>8. (x \notin UnitsOf(q) => Q = {}) /\ (x \in UnitsOf(q) => \E z : Q = {z})
  <2>1. /\ x \notin UnitsOf(q) => Among(q, x) = {}
        /\ x \in UnitsOf(q) => \E i : Among(q, x) = {i}
    BY <1>3, <1>4, AmongIs
  <2>2. ASSUME Among(q, x) = {}
        PROVE  Q = {}
    BY <2>2
  <2>3. ASSUME NEW i, Among(q, x) = {i}
        PROVE  \E z : Q = {z}
    <3>1. Q = {<<"q", i>>}
      BY <2>3
    <3> QED
      BY <3>1
  <2> HIDE DEF Q
  <2> QED
    BY <2>1, <2>2, <2>3
<1>9. (x \notin UnitsOf(rput) => P = {}) /\ (x \in UnitsOf(rput) => \E z : P = {z})
  <2>1. /\ x \notin UnitsOf(rput) => Among(rput, x) = {}
        /\ x \in UnitsOf(rput) => \E i : Among(rput, x) = {i}
    BY <1>3, <1>4, AmongIs
  <2>2. ASSUME Among(rput, x) = {}
        PROVE  P = {}
    BY <2>2
  <2>3. ASSUME NEW i, Among(rput, x) = {i}
        PROVE  \E z : P = {z}
    <3>1. P = {<<"rput", i>>}
      BY <2>3
    <3> QED
      BY <3>1
  <2> HIDE DEF P
  <2> QED
    BY <2>1, <2>2, <2>3
<1>10. ASSUME NEW r \in Reader
       PROVE  /\ x \notin ToSet(Hands[r]) => H(r) = {}
              /\ x \in ToSet(Hands[r]) => \E z : H(r) = {z}
  <2>1. /\ x \notin ToSet(Hands[r]) => Where(Hands[r], x) = {}
        /\ x \in ToSet(Hands[r]) => \E i : Where(Hands[r], x) = {i}
    BY <1>3, <1>4, WhereIs
  <2>2. Hands[r] = Hand(r)
    BY <1>4
  <2>3. ASSUME Where(Hand(r), x) = {}
        PROVE  H(r) = {}
    BY <2>3
  <2>4. ASSUME NEW i, Where(Hand(r), x) = {i}
        PROVE  \E z : H(r) = {z}
    <3>1. H(r) = {<<"reader", r, i>>}
      BY <2>4
    <3> QED
      BY <3>1
  <2> HIDE DEF H
  <2> QED
    BY <2>1, <2>2, <2>3, <2>4
<1> HIDE DEF H
<1>11. /\ (\A r \in Reader : x \notin ToSet(Hands[r])) => U = {}
       /\ (\E r \in Reader : x \in ToSet(Hands[r])) => \E z : U = {z}
  <2>1. (\A r \in Reader : x \notin ToSet(Hands[r])) => U = {}
    BY <1>10
  <2>2. ASSUME NEW r \in Reader, x \in ToSet(Hands[r])
        PROVE  \E z : U = {z}
    <3>1. \A t \in Reader : t # r => H(t) = {}
      BY <1>2, <1>10, <2>2
    <3>2. U = H(r)
      BY <3>1
    <3> QED
      BY <1>10, <2>2, <3>2
  <2> QED
    BY <2>1, <2>2
<1> HIDE DEF G, X, Q, P, U
<1>12. CASE x \in ToSet(got)
  <2>1. X = {} /\ Q = {} /\ P = {} /\ U = {}
    BY <1>1, <1>2, <1>7, <1>8, <1>9, <1>11, <1>12
  <2>2. Spots(x) = G
    BY <1>5, <2>1
  <2> QED
    BY <1>6, <1>12, <2>2
<1>13. CASE x \in gone
  <2>1. G = {} /\ Q = {} /\ P = {} /\ U = {}
    BY <1>2, <1>6, <1>8, <1>9, <1>11, <1>13
  <2>2. Spots(x) = X
    BY <1>5, <2>1
  <2> QED
    BY <1>7, <1>13, <2>2
<1>14. CASE x \in UnitsOf(q)
  <2>1. G = {} /\ X = {} /\ P = {} /\ U = {}
    BY <1>1, <1>2, <1>6, <1>7, <1>9, <1>11, <1>14
  <2>2. Spots(x) = Q
    BY <1>5, <2>1
  <2> QED
    BY <1>8, <1>14, <2>2
<1>15. CASE x \in UnitsOf(rput)
  <2>1. G = {} /\ X = {} /\ Q = {} /\ U = {}
    BY <1>1, <1>2, <1>6, <1>7, <1>8, <1>11, <1>15
  <2>2. Spots(x) = P
    BY <1>5, <2>1
  <2> QED
    BY <1>9, <1>15, <2>2
<1>16. CASE \E r \in Reader : x \in ToSet(Hands[r])
  <2>1. G = {} /\ X = {} /\ Q = {} /\ P = {}
    BY <1>1, <1>2, <1>6, <1>7, <1>8, <1>9, <1>16
  <2>2. Spots(x) = U
    BY <1>5, <2>1
  <2> QED
    BY <1>11, <1>16, <2>2
<1> QED
  BY <1>2, <1>12, <1>13, <1>14, <1>15, <1>16

\* What the invariant says of the units.
LEMMA OInvMeans == OInv => ReadOnce
<1> SUFFICES ASSUME OInv
             PROVE  ReadOnce
  OBVIOUS
<1>1. \A x \in 1 .. units : Cardinality(Spots(x)) = 1
  BY OneSpot, FS_Singleton
<1>2. ToSet(got) \cup gone \cup UnitsOf(q) \cup UnitsOf(rput)
        \cup (UNION {ToSet(Hand(r)) : r \in Reader}) = 1 .. units
  <2>1. \A y : y \in 1 .. units <=> \/ y \in ToSet(got) \/ y \in gone \/ y \in UnitsOf(q)
                                    \/ y \in UnitsOf(rput)
                                    \/ \E r \in Reader : y \in ToSet(Hands[r])
    BY DEF OInv, Sound, Once
  <2>2. \A r \in Reader : Hands[r] = Hand(r)
    BY DEF Hands
  <2> QED
    BY <2>1, <2>2
<1>3. InOrder
  <2> SUFFICES ASSUME ~woken, NEW i \in DOMAIN got, NEW j \in DOMAIN got,
                      i < j, {got[i], got[j]} \subseteq normal
               PROVE  got[i] < got[j]
    BY DEF InOrder
  <2>1. Within(Rising(normal), got)
    BY DEF OInv, Sound, Chain
  <2>2. <<got[i], got[j]>> \in Rising(normal)
    BY <2>1 DEF Within
  <2>3. got[i] \in Nat /\ got[j] \in Nat
    BY NowSound
  <2> QED
    BY <2>2, <2>3, Pairs
<1> QED
  BY <1>1, <1>2, <1>3 DEF ReadOnce, UnitsKept

\* lis_strread, lis_strgetpmsg and lis_strrput lose no unit of data that the driver has sent,
\* return none twice, and return the ordinary ones in the order in which they were sent.
THEOREM EachUnitIsReadOnce == Spec => []ReadOnce
<1> QED
  BY OInvAtFirst, OInvKept, OInvMeans, PTL DEF Spec
=============================================================================
