---------------------------- MODULE Multiplexor ----------------------------
(***************************************************************************)
(* Linking streams below a multiplexing driver (head/head.c): lis_i_link,  *)
(* lis_i_unlink, lis_unlink_all, and lis_doclose as far as it takes a      *)
(* multiplexor apart.                                                      *)
(*                                                                         *)
(* The lowers of a control stream form a list through their heads.  Each   *)
(* link and each unlink is put to the driver with an ioctl, for which the  *)
(* caller sleeps in the middle of its work on the list; the ioctls of one  *)
(* stream are kept apart by lis_lock_wioc, but a close, and an I_PUNLINK   *)
(* of everything, go through lists without it.  Closing a lower unlinks    *)
(* what is below the lower, so that the routines call each other.          *)
(*                                                                         *)
(* A step is what a call does from one sleep to the next.  All streams     *)
(* have the same major; the open count is kept as for kernels before 6.8.  *)
(***************************************************************************)
EXTENDS Integers, Sequences, FiniteSets, SequencesExt, Relation

CONSTANTS
  Proc,
  Stream,
  Null,
  MayLink,     \* the pairs <<control, lower>> that users link
  Cmds,        \* subset of {"I_LINK", "I_PLINK"}
  Does,        \* Does[p]: subset of {"link", "unlink", "close"}
  MaxNaks,     \* bound on refusals, late answers and failures of lis_set_q_sync
  MaxLinks,    \* bound on the links asked for
  MaxUnlinks   \* bound on the unlinks asked for

LinkAssumption == MayLink \subseteq Stream \X Stream /\ Null \notin Stream \cup Proc

VARIABLES
  files,                                \* the streams with an open file
  sd_opencnt, sd_linkcnt,
  STPLEX, STRCLOSE,                     \* the streams with that flag
  mx_hd, mx_next, mx_index, mx_cmd,     \* sd_mux of each stream
  muxid,                                \* static of new_muxid
  wioc,                                 \* wioc[s]: whose ioctl has the stream
  stack,                                \* stack[p]: the calls p is in
  links,                                \* the driver's links: <<control, index>>
  unlinks, naks,
  mishaps                               \* history: see Wild and Tolerated

counts == <<sd_opencnt, sd_linkcnt>>
flags == <<STPLEX, STRCLOSE>>
lists == <<mx_hd, mx_next, mx_index, mx_cmd, muxid>>
vars == <<files, counts, flags, lists, wioc, stack, links, unlinks, naks, mishaps>>

Init ==
  /\ files = Stream
  /\ sd_opencnt = [s \in Stream |-> 1]
  /\ sd_linkcnt = [s \in Stream |-> 0]
  /\ STPLEX = {} /\ STRCLOSE = {}
  /\ mx_hd = [s \in Stream |-> Null]
  /\ mx_next = [s \in Stream |-> Null]
  /\ mx_index = [s \in Stream |-> 0]
  /\ mx_cmd = [s \in Stream |-> "none"]
  /\ muxid = 0
  /\ wioc = [s \in Stream |-> Null]
  /\ stack = [p \in Proc |-> <<>>]
  /\ links = {} /\ unlinks = 0 /\ naks = 0 /\ mishaps = {}

---------------------------------------------------------------------------
(* Calls.  A frame has the parameters and local variables of a routine. *)

Frame(op, hd, hp, index, cmd, at) ==
  [op |-> op, hd |-> hd, hp |-> hp, index |-> index, cmd |-> cmd,
   prev |-> Null, next |-> Null, at |-> at]

Frames(p) == {stack[p][i] : i \in DOMAIN stack[p]}
Top(p) == Last(stack[p])
At(p, op, l) == stack[p] # <<>> /\ Top(p).op = op /\ Top(p).at = l

Continue(p, f) == stack' = [stack EXCEPT ![p] = Append(Front(@), f)]
Call(p, f, g) == stack' = [stack EXCEPT ![p] = Front(@) \o <<f, g>>]

\* The return of the first routine ends the ioctl: lis_unlock_wioc.
Return(p) ==
  /\ stack' = [stack EXCEPT ![p] = Front(@)]
  /\ wioc' = IF Len(stack[p]) = 1
               THEN [s \in Stream |-> IF wioc[s] = p THEN Null ELSE wioc[s]]
               ELSE wioc

\* Somebody other than p is half way through a change of the list of hd.
Busy(p, hd) == \E q \in Proc \ {p} : \E f \in Frames(q) :
                 f.op \in {"link", "unlink"} /\ f.hd = hd /\ f.at # "lock"

\* Mishaps after which the memory of the heads is no longer trusted: a lower
\* linked twice, a list changed by two at a time, a lower closed while it is
\* being linked.
Wild == {"twice", "together", "under"}

\* Mishaps that the routines take in their stride: the driver's refusal of an
\* I_PUNLINK is ignored, its answer comes too late, the lower's queues cannot be
\* given the driver's locks, the last file is closed as the last link goes.
Tolerated == {"ignored", "late", "unsynced", "leaked"}

Note(m) == mishaps' = mishaps \cup m
NoteIf(c, m) == Note(IF c THEN {m} ELSE {})

---------------------------------------------------------------------------
(* lis_strioctl.  A stream that is itself linked takes no ioctl; the test is *)
(* made before the caller waits for its turn.                               *)

Ioctl(p, hd, f) ==
  /\ stack[p] = <<>>
  /\ hd \in files /\ hd \notin STPLEX
  /\ stack' = [stack EXCEPT ![p] = <<f>>]

CallLink(p, hd, muxed, cmd) ==
  /\ muxed \in files
  /\ muxid + Cardinality({q \in Proc : At(q, "link", "lock")}) < MaxLinks
  /\ Ioctl(p, hd, Frame("link", hd, muxed, 0, cmd, "lock"))
  /\ UNCHANGED <<files, counts, flags, lists, wioc, links, unlinks, naks, mishaps>>

\* index: a number that has been returned by a link, or -1.
CallUnlink(p, hd, index, cmd) ==
  /\ unlinks < MaxUnlinks
  /\ unlinks' = unlinks + 1
  /\ Ioctl(p, hd, Frame(IF cmd = "I_PUNLINK" /\ index = -1 THEN "all" ELSE "unlink",
                        hd, Null, index, cmd, "lock"))
  /\ UNCHANGED <<files, counts, flags, lists, wioc, links, naks, mishaps>>

InUse(s) == \E q \in Proc :
  stack[q] # <<>> /\ Head(stack[q]).op # "close" /\ Head(stack[q]).hd = s

\* close(2).  The kernel closes a file when no call is using it.
CallClose(p, s) ==
  /\ stack[p] = <<>>
  /\ s \in files
  /\ ~ InUse(s)
  /\ files' = files \ {s}
  /\ stack' = [stack EXCEPT ![p] = <<Frame("close", s, Null, 0, "none", "start")>>]
  /\ UNCHANGED <<counts, flags, lists, wioc, links, unlinks, naks, mishaps>>

\* lis_lock_wioc: the caller waits for its turn, and goes on at once.
Locks(p, hd) == /\ wioc[hd] = Null
                /\ wioc' = [wioc EXCEPT ![hd] = p]

---------------------------------------------------------------------------
(* lis_i_link *)

\* lis_fd2str finds no stream once the file is closed.
LinkNoFile(p) ==
  /\ At(p, "link", "lock")
  /\ wioc[Top(p).hd] = Null
  /\ Top(p).hp \notin files
  /\ Return(p)
  /\ UNCHANGED <<files, counts, flags, lists, links, unlinks, naks, mishaps>>

\* str_link_mux; lis_await_qsched sleeps.  Nothing asks whether the lower is linked.
LinkMux(p) == LET f == Top(p) IN
  /\ At(p, "link", "lock")
  /\ Locks(p, f.hd)
  /\ f.hp \in files
  /\ mx_cmd' = [mx_cmd EXCEPT ![f.hp] = f.cmd]
  /\ mx_index' = [mx_index EXCEPT ![f.hp] = muxid + 1]
  /\ muxid' = muxid + 1
  /\ mx_next' = [mx_next EXCEPT ![f.hp] = mx_hd[f.hd]]
  /\ mx_hd' = [mx_hd EXCEPT ![f.hd] = f.hp]
  /\ Continue(p, [f EXCEPT !.at = "ask", !.index = muxid + 1])
  /\ Note((IF Busy(p, f.hd) THEN {"together"} ELSE {})
          \cup IF \/ f.hp \in STPLEX
                  \/ \E q \in Proc \ {p} : \E g \in Frames(q) :
                       g.op = "link" /\ g.hp = f.hp /\ g.at # "lock"
                 THEN {"twice"} ELSE {})
  /\ UNCHANGED <<files, counts, flags, links, unlinks, naks>>

\* The lower is marked and counted, and the driver is asked.
LinkAsk(p) == LET f == Top(p) IN
  /\ At(p, "link", "ask")
  /\ STPLEX' = STPLEX \cup {f.hp}
  /\ sd_opencnt' = [sd_opencnt EXCEPT ![f.hp] = @ + 1]
  /\ sd_linkcnt' = [sd_linkcnt EXCEPT ![f.hp] = @ + 1]
  /\ Continue(p, [f EXCEPT !.at = "answer"])
  /\ UNCHANGED <<files, STRCLOSE, lists, wioc, links, unlinks, naks, mishaps>>

LinkAccepted(p) == LET f == Top(p) IN
  /\ At(p, "link", "answer")
  /\ links' = links \cup {<<f.hd, f.index>>}
  /\ IF mx_cmd[f.hp] = "I_PLINK"
       THEN /\ sd_opencnt' = [sd_opencnt EXCEPT ![f.hd] = @ + 1]
            /\ sd_linkcnt' = [sd_linkcnt EXCEPT ![f.hd] = @ + 1]
       ELSE UNCHANGED counts
  /\ Return(p)
  /\ UNCHANGED <<files, flags, lists, unlinks, naks, mishaps>>

\* Mutant: the lower stays in the list.
UndoFlag(hd, muxed) ==
  /\ STPLEX' = STPLEX \ {muxed}
  /\ UNCHANGED <<STRCLOSE, mx_hd, mx_next, mx_index, mx_cmd, muxid>>

\* The driver, or lis_set_q_sync, fails once more.
Fails == naks < MaxNaks /\ naks' = naks + 1

\* error_rtn
UndoLink(hd, muxed) ==
  /\ STPLEX' = STPLEX \ {muxed}
  /\ mx_hd' = [mx_hd EXCEPT ![hd] = mx_next[muxed]]
  /\ mx_next' = [mx_next EXCEPT ![muxed] = Null]
  /\ UNCHANGED <<STRCLOSE, mx_index, mx_cmd, muxid>>

UndoCounts(muxed) ==
  /\ sd_opencnt' = [sd_opencnt EXCEPT ![muxed] = @ - 1]
  /\ sd_linkcnt' = [sd_linkcnt EXCEPT ![muxed] = @ - 1]

\* The driver refuses, or it has linked and its answer is late.
LinkRefused(p, late) == LET f == Top(p) IN
  /\ At(p, "link", "answer")
  /\ Fails
  /\ UndoCounts(f.hp)
  /\ UndoLink(f.hd, f.hp)
  /\ links' = IF late THEN links \cup {<<f.hd, f.index>>} ELSE links
  /\ Note((IF late THEN {"late"} ELSE {})
          \cup IF sd_opencnt[f.hp] = 1 THEN {"leaked"} ELSE {})
  /\ Return(p)
  /\ UNCHANGED <<files, unlinks>>

\* lis_set_q_sync fails after the driver has linked: the counts stay.
LinkUnsynced(p) == LET f == Top(p) IN
  /\ At(p, "link", "answer")
  /\ Fails
  /\ UndoLink(f.hd, f.hp)
  /\ links' = links \cup {<<f.hd, f.index>>}
  /\ Note({"unsynced"})
  /\ Return(p)
  /\ UNCHANGED <<files, counts, unlinks>>

---------------------------------------------------------------------------
(* lis_i_unlink *)

\* From lis_strioctl with the turn still to be waited for, otherwise at once.
UnlinkStart(p) == LET f == Top(p) IN
  /\ \/ At(p, "unlink", "lock") /\ Locks(p, f.hd)
     \/ At(p, "unlink", "start") /\ UNCHANGED wioc
  /\ Continue(p, [f EXCEPT !.at = "scan", !.hp = mx_hd[f.hd]])
  /\ NoteIf(Busy(p, f.hd), "together")
  /\ UNCHANGED <<files, counts, flags, lists, links, unlinks, naks>>

UnlinkDone(p) ==
  /\ At(p, "unlink", "scan")
  /\ Top(p).hp = Null
  /\ Return(p)
  /\ UNCHANGED <<files, counts, flags, lists, links, unlinks, naks, mishaps>>

\* An I_UNLINK leaves alone what was linked for good.
SkipThis(f) == \/ f.index >= 0 /\ mx_index[f.hp] # f.index
               \/ f.cmd = "I_UNLINK" /\ mx_cmd[f.hp] = "I_PLINK"

\* Skipped, or about to be put to the driver: lis_await_qsched sleeps.
UnlinkScan(p) == LET f == Top(p) IN
  /\ At(p, "unlink", "scan")
  /\ f.hp # Null
  /\ Continue(p, IF SkipThis(f)
                   THEN [f EXCEPT !.prev = f.hp, !.hp = mx_next[f.hp]]
                   ELSE [f EXCEPT !.at = "answer", !.next = mx_next[f.hp]])
  /\ UNCHANGED <<files, counts, flags, lists, wioc, links, unlinks, naks, mishaps>>

\* An I_UNLINK that is refused, or answered too late, leaves the lower linked.
UnlinkRefused(p, late) == LET f == Top(p) IN
  /\ At(p, "unlink", "answer")
  /\ f.cmd = "I_UNLINK" /\ Fails
  /\ links' = IF late THEN links \ {<<f.hd, mx_index[f.hp]>>} ELSE links
  /\ NoteIf(late, "late")
  /\ IF f.index < 0
       THEN /\ Continue(p, [f EXCEPT !.at = "scan", !.prev = f.hp, !.hp = f.next])
            /\ UNCHANGED wioc
       ELSE Return(p)
  /\ UNCHANGED <<files, counts, flags, lists, unlinks>>

Delink(f) ==
  /\ IF mx_hd[f.hd] = f.hp
       THEN /\ mx_hd' = [mx_hd EXCEPT ![f.hd] = mx_next[f.hp]]
            /\ mx_next' = [mx_next EXCEPT ![f.hp] = Null]
       ELSE /\ UNCHANGED mx_hd
            /\ mx_next' = [s \in Stream |-> CASE s = f.hp -> Null
                                              [] s = f.prev -> mx_next[f.hp]
                                              [] OTHER -> mx_next[s]]
  /\ STPLEX' = STPLEX \ {f.hp}
  /\ UNCHANGED <<STRCLOSE, mx_index, mx_cmd, muxid>>

\* What an I_PLINK has added to the control stream, if it is still counted there.
OpensOfHead(f) ==
  IF mx_cmd[f.hp] = "I_PLINK" /\ sd_opencnt[f.hd] > 0 THEN 1 ELSE 0

\* What is done with the lower: the next step acts upon this test of its count.
Delinked(p, f) ==
  CASE sd_opencnt[f.hp] = 1 -> Call(p, [f EXCEPT !.at = "next"],
                                       Frame("close", f.hp, Null, 0, "none", "start"))
    [] sd_opencnt[f.hp] > 1 -> Continue(p, [f EXCEPT !.at = "dec"])
    [] OTHER -> Continue(p, [f EXCEPT !.at = "next"])

UnlinkAccepted(p, refused) == LET f == Top(p) IN
  /\ At(p, "unlink", "answer")
  /\ IF refused THEN f.cmd = "I_PUNLINK" /\ Fails ELSE UNCHANGED naks
  /\ links' = IF refused THEN links ELSE links \ {<<f.hd, mx_index[f.hp]>>}
  /\ NoteIf(refused, "ignored")
  /\ Delink(f)
  /\ sd_opencnt' = [sd_opencnt EXCEPT ![f.hd] = @ - OpensOfHead(f)]
  /\ sd_linkcnt' = [sd_linkcnt EXCEPT ![f.hd] = @ - OpensOfHead(f), ![f.hp] = @ - 1]
  /\ Delinked(p, f)
  /\ UNCHANGED <<files, wioc, unlinks>>

UnlinkDec(p) == LET f == Top(p) IN
  /\ At(p, "unlink", "dec")
  /\ sd_opencnt' = [sd_opencnt EXCEPT ![f.hp] = @ - 1]
  /\ NoteIf(sd_opencnt[f.hp] = 1, "leaked")
  /\ Continue(p, [f EXCEPT !.at = "next"])
  /\ UNCHANGED <<files, sd_linkcnt, flags, lists, wioc, links, unlinks, naks>>

UnlinkNext(p) == LET f == Top(p) IN
  /\ At(p, "unlink", "next")
  /\ IF f.index >= 0
       THEN Return(p)
       ELSE /\ Continue(p, [f EXCEPT !.at = "scan", !.hp = f.next])
            /\ UNCHANGED wioc
  /\ UNCHANGED <<files, counts, flags, lists, links, unlinks, naks, mishaps>>

---------------------------------------------------------------------------
(* lis_unlink_all: every control stream of the major is opened, stripped and *)
(* closed again.  The order of the list of heads is that of their making,    *)
(* which is not modelled: any of them may come first.                        *)

AllLock(p) ==
  /\ At(p, "all", "lock")
  /\ Locks(p, Top(p).hd)
  /\ Continue(p, [Top(p) EXCEPT !.at = "start"])
  /\ UNCHANGED <<files, counts, flags, lists, links, unlinks, naks, mishaps>>

AllLook(p, hdp) == LET f == Top(p) IN
  /\ At(p, "all", "start")
  /\ mx_hd[hdp] # Null
  /\ sd_opencnt' = [sd_opencnt EXCEPT ![hdp] = @ + 1]
  /\ Call(p, [f EXCEPT !.at = "strip", !.hp = hdp],
             Frame("unlink", hdp, Null, -1, "I_PUNLINK", "start"))
  /\ UNCHANGED <<files, sd_linkcnt, flags, lists, wioc, links, unlinks, naks, mishaps>>

AllStrip(p) == LET f == Top(p) IN
  /\ At(p, "all", "strip")
  /\ mx_hd' = [mx_hd EXCEPT ![f.hp] = Null]
  /\ Call(p, [f EXCEPT !.at = "start"], Frame("close", f.hp, Null, 0, "none", "start"))
  /\ NoteIf(mx_hd[f.hp] # Null, "together")
  /\ UNCHANGED <<files, counts, flags, mx_next, mx_index, mx_cmd, muxid, wioc, links, unlinks, naks>>

AllDone(p) ==
  /\ At(p, "all", "start")
  /\ \A s \in Stream : mx_hd[s] = Null
  /\ Return(p)
  /\ UNCHANGED <<files, counts, flags, lists, links, unlinks, naks, mishaps>>

---------------------------------------------------------------------------
(* lis_doclose and, after the last close, close_action *)

OpensLeft(s) == IF sd_opencnt[s] > 0 THEN sd_opencnt[s] - 1 ELSE 0

CloseStart(p) == LET s == Top(p).hd IN
  /\ At(p, "close", "start")
  /\ sd_opencnt' = [sd_opencnt EXCEPT ![s] = OpensLeft(s)]
  /\ NoteIf(\E q \in Proc : \E f \in Frames(q) :
              f.op = "link" /\ f.hp = s /\ f.at = "ask", "under")
  /\ IF OpensLeft(s) > 0
       THEN /\ Return(p)
            /\ UNCHANGED STRCLOSE
       ELSE /\ STRCLOSE' = STRCLOSE \cup {s}
            /\ Continue(p, [Top(p) EXCEPT !.at = "lowers"])
            /\ UNCHANGED wioc
  /\ UNCHANGED <<files, sd_linkcnt, STPLEX, lists, links, unlinks, naks>>

\* A control stream: its lowers are unlinked, whatever the driver says.
CloseLowers(p) == LET f == Top(p) IN
  /\ At(p, "close", "lowers")
  /\ mx_hd[f.hd] # Null
  /\ Call(p, [f EXCEPT !.at = "end"], Frame("unlink", f.hd, Null, -1, "I_PUNLINK", "start"))
  /\ UNCHANGED <<files, counts, flags, lists, wioc, links, unlinks, naks, mishaps>>

CloseEnd(p) ==
  /\ \/ At(p, "close", "end")
     \/ At(p, "close", "lowers") /\ mx_hd[Top(p).hd] = Null
  /\ Return(p)
  /\ UNCHANGED <<files, counts, flags, lists, links, unlinks, naks, mishaps>>

---------------------------------------------------------------------------
Calls(p) ==
  \/ /\ "link" \in Does[p]
     /\ \E l \in MayLink, cmd \in Cmds : CallLink(p, l[1], l[2], cmd)
  \/ /\ "unlink" \in Does[p]
     /\ \E hd \in Stream, index \in {-1} \cup 1 .. muxid, cmd \in {"I_UNLINK", "I_PUNLINK"} :
          CallUnlink(p, hd, index, cmd)
  \/ /\ "close" \in Does[p]
     /\ \E s \in Stream : CallClose(p, s)

Step(p) ==
  \/ LinkNoFile(p) \/ LinkMux(p) \/ LinkAsk(p) \/ LinkAccepted(p)
  \/ \E late \in BOOLEAN : LinkRefused(p, late)
  \/ LinkUnsynced(p)
  \/ UnlinkStart(p) \/ UnlinkDone(p) \/ UnlinkScan(p)
  \/ \E b \in BOOLEAN : UnlinkRefused(p, b) \/ UnlinkAccepted(p, b)
  \/ UnlinkDec(p) \/ UnlinkNext(p)
  \/ AllLock(p)
  \/ \E s \in Stream : AllLook(p, s)
  \/ AllStrip(p) \/ AllDone(p)
  \/ CloseStart(p) \/ CloseLowers(p) \/ CloseEnd(p)

\* What follows a wild mishap is not modelled.
Next == /\ mishaps \cap Wild = {}
        /\ \E p \in Proc : Calls(p) \/ Step(p)

Spec == Init /\ [][Next]_vars

---------------------------------------------------------------------------
(* Properties *)

\* The lowers of hd, by way of mx_next: at most as many as there are streams.
Lower(hd) ==
  LET lower[n \in 0 .. Cardinality(Stream)] ==
        IF n = 0 THEN mx_hd[hd]
        ELSE IF lower[n - 1] = Null THEN Null ELSE mx_next[lower[n - 1]]
  IN lower
Lowers(hd) == Range(Lower(hd)) \ {Null}

BeingLinked == {f.hp : f \in {g \in UNION {Frames(p) : p \in Proc} :
                                g.op = "link" /\ g.at \in {"ask", "answer"}}}
Idle == \A p \in Proc : stack[p] = <<>>

\* Whatever calls are under way, a list of lowers ends, no stream is below two
\* others, and the streams marked STPLEX are those on a list, but for those whose
\* link is still being asked for (str_link_mux, the delinking in lis_i_unlink and
\* the undoing in lis_i_link, each before or after a sleep).
ListsHoldLinked ==
  mishaps \cap Wild = {} =>
    LET lowers == [hd \in Stream |-> Lowers(hd)] IN
    /\ \A hd \in Stream : Lower(hd)[Cardinality(Stream)] = Null
    /\ \A s \in Stream : Cardinality({hd \in Stream : s \in lowers[hd]}) <= 1
    /\ STPLEX \subseteq UNION Range(lowers)
    /\ UNION Range(lowers) \subseteq STPLEX \cup BeingLinked

PLinks(hd) == Cardinality({s \in Lowers(hd) : mx_cmd[s] = "I_PLINK"})
Linked(s) == IF s \in STPLEX THEN 1 ELSE 0
FileOf(s) == IF s \in files THEN 1 ELSE 0

\* When no call is under way a stream is open as often as it has a file, a link
\* above it and permanent links below it, and it has been closed for good just when
\* nothing is left: K_ATOMIC_INC and K_ATOMIC_DEC of sd_opencnt, sd_linkcnt, and
\* the closing of a lower by lis_i_unlink.
OpensCounted ==
  Idle /\ mishaps \subseteq {"ignored", "late"} =>
    \A s \in Stream :
      /\ sd_opencnt[s] = FileOf(s) + Linked(s) + PLinks(s)
      /\ sd_linkcnt[s] = Linked(s) + PLinks(s)
      /\ s \in STRCLOSE <=> sd_opencnt[s] = 0

\* When no call is under way the driver and the stream heads agree upon the links,
\* unless a refusal was ignored or an answer came too late (the ioctls that
\* lis_i_link and lis_i_unlink send, and what they do with the answer).
DriverAgrees ==
  Idle /\ mishaps \subseteq {"leaked"} =>
    links = UNION {{<<hd, mx_index[s]>> : s \in Lowers(hd)} : hd \in Stream}

\* Calls do not wait for each other in a circle, however the routines call each
\* other and whichever ioctls they hold (lis_lock_wioc): one of them can go on.  The
\* driver answers, or LIS_LNTIME runs out.
SomeCallGoesOn ==
  Idle \/ mishaps \cap Wild # {} \/ ENABLED (\E p \in Proc : Step(p))

\* No stream is below itself (the comment above str_mux_cycle: "fd3 has its STPLEX
\* flag set so the ioctl is disallowed").
NoCycle ==
  LET below == [x, y \in Stream |-> y \in Lowers(x)]
  IN Idle => \A s \in Stream : ~ TransitiveClosure(below, Stream)[s, s]
=============================================================================
