----------------------------- MODULE FlowControl -----------------------------
(***************************************************************************)
(* One message queue of a stream and its flow control (head/queue.c):      *)
(* putq, putbq and getq with their bands, bcanput, back-enabling and       *)
(* flushing.  Upstream, a service procedure sends messages through bcanput *)
(* and putq; an interrupt puts messages without asking; the queue's own    *)
(* service procedure takes them; another context flushes.                  *)
(*                                                                         *)
(* An action is a critical section of the queue's isr lock.  lis_qenable   *)
(* is what Scheduler shows it to be: an enabled service procedure runs     *)
(* once more.  Every message counts 1 in q_count.                          *)
(***************************************************************************)
EXTENDS Integers, Sequences, FiniteSets, SequencesExt

CONSTANTS
    q_hiwat, q_lowat,  \* the water marks of the queue and of its bands
    MaxUp,             \* how many messages the upstream queue sends
    MaxIntr,           \* how many the interrupt puts
    UpClass, IntrClass,\* the classes of message they send
    FlushKind,         \* the flushes that happen, <<band, flush_all>>
    MaxFlush,          \* how many
    NoMsg

\* A class of message: priority (M_PCPROTO), data in band 0 or 1, and a
\* control message of band 0.
Class     == {"hi", "d0", "d1", "c0"}
Hi(m)     == m.class = "hi"
Band(m)   == IF m.class = "d1" THEN 1 ELSE 0
Data(m)   == m.class # "c0"
Msg       == [id : Nat \ {0}, class : Class]
InBand(m) == ~Hi(m) /\ Band(m) > 0

\* The service procedure, the upstream one, the interrupt, the flush.
Context == {"srv", "up", "intr", "fl"}

Flag  == {"QFULL", "QWASFULL", "QWANTW", "QWANTR", "QBACK"}
QBFlag == {"QB_FULL", "QB_WASFULL", "QB_WANTW"}

ASSUME FlowAssumption ==
    /\ q_hiwat \in Nat /\ q_lowat \in 0 .. q_hiwat
    /\ MaxUp \in Nat /\ MaxIntr \in Nat /\ MaxFlush \in Nat
    /\ UpClass \subseteq Class \ {"hi"} /\ IntrClass \subseteq Class
    /\ FlushKind \subseteq (-1 .. 1) \X BOOLEAN
    /\ NoMsg \notin Msg

VARIABLES
    q_first,           \* the messages of the queue, first to last
    q_count, q_flag,
    q_bandp,           \* the band structures: first message, count, flags
    q_enab,            \* the service procedure is scheduled
    owes,              \* the contexts about to call lis_qenable
    srv, srv_msg,      \* the service procedure: where it is, what it has
    up_enab, up,       \* the upstream service procedure: scheduled, where
    up_msg,            \* the message it has to send
    up_qp,             \* bcanput's pointer to the band structure
    sent, put,         \* how many messages upstream and the interrupt sent
    fl,                \* the flush: where it is
    fl_list,           \* the messages taken that stay
    fl_flag,           \* q_flag as it was
    flushes            \* how many flushes have happened

qvars  == <<q_first, q_count, q_flag, q_bandp>>
svars  == <<srv, srv_msg>>
uvars  == <<up, up_msg, up_qp, sent>>
fvars  == <<fl, fl_list, fl_flag, flushes>>
vars   == <<qvars, q_enab, owes, svars, up_enab, uvars, put, fvars>>

NewBand == [first |-> NoMsg, count |-> 0, flag |-> {}]

Init ==
    /\ q_first = <<>> /\ q_count = 0 /\ q_flag = {"QWANTR"} /\ q_bandp = <<>>
    /\ q_enab = FALSE /\ owes = [x \in Context |-> FALSE]
    /\ srv = "idle" /\ srv_msg = NoMsg
    /\ up_enab = TRUE /\ up = "idle" /\ up_msg = NoMsg /\ up_qp = 0
    /\ sent = 0 /\ put = 0
    /\ fl = "idle" /\ fl_list = <<>> /\ fl_flag = {}
    /\ flushes = 0

-----------------------------------------------------------------------------
(* Where a message goes: the number of messages that stay ahead of it      *)

LeadingHi(s) == Cardinality({i \in DOMAIN s : \A j \in 1 .. i : Hi(s[j])})

\* The first message from k on that satisfies P, or the end.
Before(s, k, P(_)) ==
    LET found == {i \in k + 1 .. Len(s) : P(s[i])}
    IN IF found = {} THEN Len(s)
       ELSE (CHOOSE i \in found : \A j \in found : i <= j) - 1

find_q_spot_tail(s, m) ==
    IF s = <<>> \/ Hi(Last(s)) \/ (~Hi(m) /\ Band(m) <= Band(Last(s)))
    THEN Len(s)
    ELSE IF Hi(m) THEN LeadingHi(s)
    ELSE Before(s, LeadingHi(s), LAMBDA x : Band(x) < Band(m))

HeadPastClass(s, m) ==
    IF s = <<>> \/ Hi(m) THEN 0
    ELSE Before(s, LeadingHi(s), LAMBDA x : Band(x) < Band(m))

find_q_spot_head(s, m) ==
    IF s = <<>> \/ Hi(m) \/ (~Hi(s[1]) /\ Band(m) >= Band(s[1])) THEN 0
    ELSE Before(s, LeadingHi(s), LAMBDA x : Band(x) <= Band(m))

\* The band structure of a band: the one whose first message is of the band,
\* else an unused one, else a new one.  An unused structure is reset.
find_qband(bs, b) ==
    LET used == {i \in DOMAIN bs : bs[i].first # NoMsg /\ Band(bs[i].first) = b}
        free == {i \in DOMAIN bs : bs[i].first = NoMsg}
    IN IF used # {} THEN [bs |-> bs, i |-> Min(used)]
       ELSE IF free # {} THEN [bs |-> [bs EXCEPT ![Min(free)] = NewBand],
                               i  |-> Min(free)]
       ELSE [bs |-> <<NewBand>> \o bs, i |-> 1]

\* chk_band: the flags a band has after its count changed, and those it passes
\* on to the queue.
BandFlag(qb) ==
    LET f  == IF qb.count <= q_hiwat THEN qb.flag \ {"QB_FULL"} ELSE qb.flag
    IN IF "QB_WASFULL" \in f /\ qb.count <= q_lowat
       THEN f \ {"QB_WASFULL", "QB_WANTW"} ELSE f
ForgetsWant(qb) ==
    IF "QB_WASFULL" \in qb.flag /\ qb.count <= q_lowat THEN {"QBACK"} ELSE {}
BandPasses(qb) ==
    IF "QB_WASFULL" \in qb.flag /\ qb.count <= q_lowat
    THEN {"QBACK"} \cup (IF "QB_WANTW" \in qb.flag THEN {"QWANTW"} ELSE {})
    ELSE {}

-----------------------------------------------------------------------------
(* Critical sections                                                       *)

NotCounted(c, m) == c
Counted(c, m)    == c + 1

\* QWANTR: somebody waits for a message.
Enables(m)       == Hi(m) \/ "QWANTR" \in q_flag

\* ins_before and updatequeue, called by x: the message is linked after n
\* others and counted; if someone waits for a message, or it is urgent,
\* lis_qenable is called with the lock released.
Put(x, n, m) ==
    LET s  == InsertAt(q_first, n + 1, m)
        fb == find_qband(q_bandp, Band(m))
        qb == fb.bs[fb.i]
        c  == Counted(qb.count, m)
    IN
    /\ q_first' = s
    /\ IF InBand(m)
       THEN /\ q_bandp' = [fb.bs EXCEPT ![fb.i] =
                  [first |-> IF qb.first = NoMsg
                                \/ (n + 2 <= Len(s) /\ s[n + 2] = qb.first)
                             THEN m ELSE qb.first,
                   count |-> c,
                   flag  |-> IF c > q_hiwat
                             THEN qb.flag \cup {"QB_FULL", "QB_WASFULL"}
                             ELSE qb.flag]]
            /\ UNCHANGED <<q_count, q_flag>>
       ELSE /\ q_count' = Counted(q_count, m)
            /\ q_flag' = IF Counted(q_count, m) > q_hiwat
                         THEN q_flag \cup {"QFULL", "QWASFULL"} ELSE q_flag
            /\ UNCHANGED q_bandp
    /\ owes' = [owes EXCEPT ![x] = Enables(m)]

putq(x, m)  == Put(x, find_q_spot_tail(q_first, m), m)
putbq(x, m) == Put(x, find_q_spot_head(q_first, m), m)

Qenable(x) ==
    /\ owes[x]
    /\ q_enab' = TRUE /\ owes' = [owes EXCEPT ![x] = FALSE]
    /\ UNCHANGED <<qvars, svars, up_enab, uvars, put, fvars>>

\* rmv_msg of the first message, with adjust_q_count.
NotFull(c)      == c < q_hiwat

\* The message that begins a band after its first one, m, is removed.
NextAny(s, m)    == IF s = <<>> THEN NoMsg ELSE s[1]
NextInBand(s, m) == IF s # <<>> /\ Band(s[1]) = Band(m) THEN s[1] ELSE NoMsg

rmv_msg ==
    LET m  == Head(q_first)
        s  == Tail(q_first)
        fb == find_qband(q_bandp, Band(m))
        qb == [fb.bs[fb.i] EXCEPT
                 !.count = @ - 1,
                 !.first = IF @ = m THEN NextInBand(s, m) ELSE @]
    IN
    /\ q_first' = s
    /\ IF InBand(m)
       THEN /\ q_bandp' = [fb.bs EXCEPT ![fb.i] =
                              [qb EXCEPT !.flag = BandFlag(qb)]]
            /\ q_flag' = (q_flag \ {"QWANTR"}) \cup BandPasses(qb)
            /\ UNCHANGED q_count
       ELSE LET c == q_count - 1
                f == (q_flag \ {"QWANTR"})
                       \ (IF NotFull(c) THEN {"QFULL"} ELSE {})
            IN
            /\ q_count' = c
            /\ q_flag' = IF "QWASFULL" \in f /\ c <= q_lowat
                         THEN (f \ {"QWASFULL"}) \cup {"QBACK"} ELSE f
            /\ UNCHANGED q_bandp

\* lis_backenable: who wants to write is enabled when there is room.
MustBackenable == /\ {"QWANTW", "QBACK"} \subseteq q_flag
                  /\ q_count <= q_lowat

-----------------------------------------------------------------------------
(* The service procedure of the queue                                      *)

SrvStart ==
    /\ srv = "idle" /\ q_enab
    /\ q_enab' = FALSE /\ srv' = "getq"
    /\ UNCHANGED <<qvars, owes, srv_msg, up_enab, uvars, put, fvars>>

\* lis_getq up to the unlock.  An empty queue is armed.
Getq ==
    /\ srv = "getq"
    /\ IF q_first = <<>>
       THEN /\ q_flag' = q_flag \cup {"QWANTR", "QBACK"}
            /\ srv_msg' = NoMsg
            /\ UNCHANGED <<q_first, q_count, q_bandp>>
       ELSE rmv_msg /\ srv_msg' = Head(q_first)
    /\ srv' = "back"
    /\ UNCHANGED <<q_enab, owes, up_enab, uvars, put, fvars>>

\* lis_backenable called by getq: the test ...
BackTest ==
    /\ srv = "back"
    /\ srv' = IF MustBackenable THEN "clear"
              ELSE IF srv_msg = NoMsg THEN "idle" ELSE "msg"
    /\ UNCHANGED <<qvars, q_enab, owes, srv_msg, up_enab, uvars, put, fvars>>

\* ... the flags are cleared under the lock taken again ...
BackClear ==
    /\ srv = "clear"
    /\ q_flag' = q_flag \ {"QWANTW", "QBACK"}
    /\ srv' = "enable"
    /\ UNCHANGED <<q_first, q_count, q_bandp, q_enab, owes, srv_msg, up_enab, uvars,
                   put, fvars>>

\* ... and the queue behind is enabled.
BackEnable ==
    /\ srv = "enable"
    /\ up_enab' = TRUE
    /\ srv' = IF srv_msg = NoMsg THEN "idle" ELSE "msg"
    /\ UNCHANGED <<qvars, q_enab, owes, srv_msg, uvars, put, fvars>>

\* The message is passed on, ...
Consume ==
    /\ srv = "msg"
    /\ srv' = "getq" /\ srv_msg' = NoMsg
    /\ UNCHANGED <<qvars, q_enab, owes, up_enab, uvars, put, fvars>>

\* ... or goes back because the next queue is full: the service procedure
\* waits to be back-enabled itself.
PutBack ==
    /\ srv = "msg" /\ ~Hi(srv_msg)
    /\ putbq("srv", srv_msg)
    /\ srv' = "blocked" /\ srv_msg' = NoMsg
    /\ UNCHANGED <<q_enab, up_enab, uvars, put, fvars>>

BelowEnables ==
    /\ srv = "blocked"
    /\ q_enab' = TRUE /\ srv' = "idle"
    /\ UNCHANGED <<qvars, owes, srv_msg, up_enab, uvars, put, fvars>>

-----------------------------------------------------------------------------
(* The upstream service procedure                                          *)

UpStart ==
    /\ up = "idle" /\ up_enab
    /\ up_enab' = FALSE
    /\ IF up_msg = NoMsg
       THEN /\ sent < MaxUp
            /\ \E c \in UpClass : up_msg' = [id |-> sent + 1, class |-> c]
            /\ sent' = sent + 1
       ELSE UNCHANGED <<up_msg, sent>>
    /\ up' = "bcanput"
    /\ UNCHANGED <<qvars, q_enab, owes, svars, up_qp, put, fvars>>

\* lis_bcanput: the test, under the read lock.  A band structure may be made,
\* or reset, for it; the pointer to it (its place counted from the end, as new
\* ones are linked in front) is kept.
Bcanput ==
    LET fb   == IF Band(up_msg) = 0 THEN [bs |-> q_bandp, i |-> 0]
                ELSE find_qband(q_bandp, Band(up_msg))
        full == IF Band(up_msg) = 0 THEN "QFULL" \in q_flag
                ELSE "QB_FULL" \in fb.bs[fb.i].flag
    IN
    /\ up = "bcanput"
    /\ q_bandp' = fb.bs
    /\ up_qp' = IF full THEN Len(fb.bs) - fb.i ELSE 0
    /\ up' = IF full THEN "want" ELSE "putq"
    /\ UNCHANGED <<q_first, q_count, q_flag, q_enab, owes, svars, up_enab, up_msg,
                   sent, put, fvars>>

\* The queue was full: under the write lock, taken after the read lock is
\* released, the wish to write is noted.
BcanputWant ==
    /\ up = "want"
    /\ IF Band(up_msg) = 0
       THEN q_flag' = q_flag \cup {"QWANTW"} /\ UNCHANGED q_bandp
       ELSE /\ q_bandp' = [q_bandp EXCEPT ![Len(q_bandp) - up_qp].flag =
                              @ \cup {"QB_WANTW"}]
            /\ UNCHANGED q_flag
    /\ up' = "idle" /\ up_qp' = 0
    /\ UNCHANGED <<q_first, q_count, q_enab, owes, svars, up_enab, up_msg, sent, put,
                   fvars>>

\* There is room: the message is put, and the next one taken in the same call.
UpPutq ==
    /\ up = "putq"
    /\ putq("up", up_msg)
    /\ IF sent < MaxUp
       THEN /\ \E c \in UpClass : up_msg' = [id |-> sent + 1, class |-> c]
            /\ sent' = sent + 1 /\ up' = "bcanput"
       ELSE up_msg' = NoMsg /\ up' = "idle" /\ UNCHANGED sent
    /\ UNCHANGED <<q_enab, svars, up_enab, up_qp, put, fvars>>

\* An interrupt, or a put procedure, does not ask.
IntrPutq ==
    /\ put < MaxIntr
    /\ \E c \in IntrClass : putq("intr", [id |-> MaxUp + put + 1, class |-> c])
    /\ put' = put + 1
    /\ UNCHANGED <<q_enab, svars, up_enab, uvars, fvars>>

-----------------------------------------------------------------------------
(* flush_worker                                                            *)

\* Flush band k[1] (-1: all), everything or data only.
Flushed(k, m) ==
    /\ k[1] < 0 \/ Band(m) = k[1]
    /\ IF k[1] = 0 THEN ~Hi(m) ELSE k[2] \/ Data(m)

\* The messages of s that a flush of kind k leaves, in their order.
Retained(k, s) ==
    LET kept[n \in 0 .. Len(s)] ==
            IF n = 0 THEN <<>>
            ELSE IF Flushed(k, s[n]) THEN kept[n - 1] ELSE Append(kept[n - 1], s[n])
    IN kept[Len(s)]

\* The messages are taken away and the counts and flags cleared.  What will be
\* freed of them is nobody else's concern.
FlushTake ==
    /\ fl = "idle" /\ flushes < MaxFlush
    /\ \E k \in FlushKind :
          fl_list' = Retained(k, q_first)
    /\ fl' = "walk" /\ fl_flag' = q_flag
    /\ flushes' = flushes + 1
    /\ q_first' = <<>> /\ q_count' = 0
    /\ q_flag' = q_flag \ {"QFULL", "QWASFULL", "QWANTR", "QWANTW"}
    /\ q_bandp' = [i \in DOMAIN q_bandp |->
                      [q_bandp[i] EXCEPT !.first = NoMsg, !.count = 0,
                                         !.flag = @ \ {"QB_FULL"}]]
    /\ UNCHANGED <<q_enab, owes, svars, up_enab, uvars, put>>

\* The others are put back, one by one.
FlushRetain ==
    /\ fl = "walk" /\ fl_list # <<>>
    /\ putq("fl", Head(fl_list))
    /\ fl_list' = Tail(fl_list)
    /\ UNCHANGED <<q_enab, svars, up_enab, uvars, put, fl, fl_flag, flushes>>

FlushCheck ==
    /\ fl = "walk" /\ fl_list = <<>>
    /\ q_bandp' = [i \in DOMAIN q_bandp |->
                      [q_bandp[i] EXCEPT !.flag = BandFlag(q_bandp[i])]]
    /\ q_flag' = q_flag \cup {"QWANTR"}
                   \cup (UNION {BandPasses(q_bandp[i]) : i \in DOMAIN q_bandp})
                   \cup (IF "QWASFULL" \in fl_flag /\ q_count <= q_lowat
                         THEN {"QBACK", "QWANTW"} ELSE {})
    /\ fl' = "back" /\ fl_flag' = {}
    /\ UNCHANGED <<q_first, q_count, q_enab, owes, svars, up_enab, uvars, put,
                   fl_list, flushes>>

FlushBackTest ==
    /\ fl = "back"
    /\ fl' = IF MustBackenable THEN "clear" ELSE "arm"
    /\ UNCHANGED <<qvars, q_enab, owes, svars, up_enab, uvars, put, fl_list,
                   fl_flag, flushes>>

FlushBackClear ==
    /\ fl = "clear"
    /\ q_flag' = q_flag \ {"QWANTW", "QBACK"}
    /\ fl' = "enable"
    /\ UNCHANGED <<q_first, q_count, q_bandp, q_enab, owes, svars, up_enab, uvars,
                   put, fl_list, fl_flag, flushes>>

FlushBackEnable ==
    /\ fl = "enable"
    /\ up_enab' = TRUE /\ fl' = "arm"
    /\ UNCHANGED <<qvars, q_enab, owes, svars, uvars, put, fl_list, fl_flag,
                   flushes>>

FlushArm ==
    /\ fl = "arm"
    /\ owes' = [owes EXCEPT !["fl"] = "QWANTR" \in q_flag /\ q_first # <<>>]
    /\ fl' = "idle"
    /\ UNCHANGED <<qvars, q_enab, svars, up_enab, uvars, put, fl_list,
                   fl_flag, flushes>>

-----------------------------------------------------------------------------
SrvStep == SrvStart \/ Getq \/ BackTest \/ BackClear \/ BackEnable \/ Consume
           \/ PutBack \/ BelowEnables
UpStep  == UpStart \/ Bcanput \/ BcanputWant \/ UpPutq
FlStep  == FlushTake \/ FlushRetain \/ FlushCheck \/ FlushBackTest
           \/ FlushBackClear \/ FlushBackEnable \/ FlushArm

Next == \/ ~owes["srv"] /\ SrvStep
        \/ ~owes["up"] /\ UpStep
        \/ ~owes["intr"] /\ IntrPutq
        \/ ~owes["fl"] /\ FlStep
        \/ \E x \in Context : Qenable(x)

Spec == Init /\ [][Next]_vars

\* Scheduled service procedures run, a blocked one is enabled from below and
\* sooner or later passes its message on, a flush under way ends.
Fairness == /\ WF_vars(~owes["srv"] /\ SrvStep)
            /\ SF_vars(~owes["srv"] /\ Consume)
            /\ WF_vars(~owes["up"] /\ UpStep)
            /\ WF_vars(fl # "idle" /\ ~owes["fl"] /\ FlStep)
            /\ \A x \in Context : WF_vars(Qenable(x))

FairSpec == Spec /\ Fairness

-----------------------------------------------------------------------------
(* Properties                                                              *)

BandRec == [first : Msg \cup {NoMsg}, count : Nat, flag : SUBSET QBFlag]

TypeOK ==
    /\ q_first \in Seq(Msg) /\ q_count \in Nat /\ q_flag \in SUBSET Flag
    /\ q_bandp \in Seq(BandRec)
    /\ q_enab \in BOOLEAN /\ owes \in [Context -> BOOLEAN]
    /\ up_enab \in BOOLEAN
    /\ srv \in {"idle", "getq", "back", "clear", "enable", "msg", "blocked"}
    /\ srv_msg \in Msg \cup {NoMsg} /\ up_msg \in Msg \cup {NoMsg}
    /\ up \in {"idle", "bcanput", "want", "putq"} /\ up_qp \in Nat
    /\ sent \in 0 .. MaxUp /\ put \in 0 .. MaxIntr
    /\ fl \in {"idle", "walk", "back", "clear", "enable", "arm"}
    /\ fl_list \in Seq(Msg)
    /\ fl_flag \in SUBSET Flag /\ flushes \in 0 .. MaxFlush

\* The queue is sorted, priority messages first and then by band, whatever
\* putq, putbq and the re-queueing of a flush interleave.
QueueOrdered ==
    \A i, j \in DOMAIN q_first : i < j =>
        \/ Hi(q_first[i])
        \/ ~Hi(q_first[j]) /\ Band(q_first[i]) >= Band(q_first[j])

\* Within a class the messages come out in the order they were put: until a
\* flush puts retained messages behind new ones.
From(m) == m.id <= MaxUp
FifoInClass ==
    flushes = 0 =>
        \A i, j \in DOMAIN q_first :
            /\ i < j /\ From(q_first[i]) = From(q_first[j])
            /\ Hi(q_first[i]) = Hi(q_first[j])
            /\ Band(q_first[i]) = Band(q_first[j])
            => q_first[i].id < q_first[j].id

\* q_count and the band counts are what is on the queue, and the band
\* structures know where their bands begin, through resets and reuse.
Members(b) == {i \in DOMAIN q_first : InBand(q_first[i])
                                      /\ Band(q_first[i]) = b}
CountsExact ==
    /\ q_count = Cardinality({i \in DOMAIN q_first : ~InBand(q_first[i])})
    /\ \A qb \in {q_bandp[i] : i \in DOMAIN q_bandp} : qb.first # NoMsg =>
          LET ms == Members(Band(qb.first)) IN
          /\ qb.count = Cardinality(ms)
          /\ \E i \in ms : q_first[i] = qb.first /\ \A j \in ms : i <= j
    /\ \A b \in {1} : Members(b) # {} =>
          \E qb \in {q_bandp[i] : i \in DOMAIN q_bandp} :
              qb.first # NoMsg /\ Band(qb.first) = b

\* bcanput answers by the water marks: QFULL is there above the high-water
\* mark and gone below it; QB_FULL of a band in use exactly above it.
FullMeansFull ==
    /\ q_count > q_hiwat => "QFULL" \in q_flag
    /\ q_count < q_hiwat => "QFULL" \notin q_flag
    /\ \A qb \in {q_bandp[i] : i \in DOMAIN q_bandp} :
          "QB_FULL" \in qb.flag <=> qb.count > q_hiwat

\* No message is forgotten on the queue: somebody is about to look at it, or
\* its service procedure waits for the next queue.
NoMessageForgotten ==
    q_first # <<>> => \/ q_enab \/ (\E x \in Context : owes[x])
                      \/ srv # "idle"
                      \/ fl \in {"walk", "back", "clear", "enable", "arm"}

\* The order of the queue, whatever is put back and flushed.
InOrder == QueueOrdered /\ FifoInClass

\* What the queue says of its messages, and who knows of them.
Accounted == TypeOK /\ CountsExact /\ FullMeansFull /\ NoMessageForgotten

\* A writer that was refused, and whose wish to write was noted while the
\* queue, or the band, was still flow controlled, is enabled again: getq
\* hands the wish from the band to the queue and from there to the writer,
\* across the unlocked steps of lis_backenable.  (A flush may drop it.)
Refused == up = "idle" /\ up_msg # NoMsg /\ ~up_enab
Noted   == IF Band(up_msg) = 0 THEN {"QWANTW", "QWASFULL"} \subseteq q_flag
           ELSE \E i \in DOMAIN q_bandp :
                   /\ {"QB_WANTW", "QB_WASFULL"} \subseteq q_bandp[i].flag
                   /\ q_bandp[i].first # NoMsg
                   /\ Band(q_bandp[i].first) = Band(up_msg)
NotedIsServed == (Refused /\ Noted /\ flushes = 0) ~> (~Refused \/ flushes > 0)

\* Any writer that was refused is enabled again, unless a flush intervenes.
RefusedIsServed == (Refused /\ flushes = 0) ~> (~Refused \/ flushes > 0)
=============================================================================
