---------------------------- MODULE OpenCloseProofs ----------------------------
(***************************************************************************)
(* Opening and closing, for any number of processes, heads, devices and    *)
(* calls: the stream heads are sound, and sd_refcnt implements the         *)
(* reference count of an abstract object.                                  *)
(*                                                                         *)
(* The argument: lis_stdata_sem and each sd_opening have one holder        *)
(* (StdataHeld, OpeningHeld), so that a head that was found under          *)
(* lis_stdata_sem is not marked closed before it is counted (FoundLives).  *)
(* A head that is neither closed nor failed has somebody who keeps it      *)
(* (Kept): who has it open, opens it, or is about to close it.  Hence the  *)
(* one who finds sd_refcnt at 1 is the only one left, and no other comes   *)
(* (TearsDown); one who finds more leaves another behind, or two were      *)
(* giving the head back at the same time (LeavesOne).                      *)
(*                                                                         *)
(* And the put procedures that run while a module is pushed or popped, for *)
(* any number of putters, messages and any width of q_count: they take     *)
(* turns, and no message is lost, doubled or overtaken.                    *)
(*                                                                         *)
(* The argument (PInv): qs_nest counts the calls of the owner that are     *)
(* inside and nobody else has one (LockCounts), which needs to know what   *)
(* forms a task's stack can take (CallsSound) and that the driver is       *)
(* frozen while the module's messages are let go (ControlSound), and that  *)
(* nobody is past the test in a queue that is being opened, whose lock is  *)
(* given back but never taken (OpenSound).  What                           *)
(* lies between the head and the driver, in the order in which it will be  *)
(* delivered, is one sequence (Way): delivered, deferred on the driver, in *)
(* the changer's hand, deferred on the module.  No message is on it twice, *)
(* and of each sender they are in order (OrderSound); a putter's own       *)
(* message is its last and nothing of its own is behind it where it puts   *)
(* (Passed).  Every message sent is on the way, with a putter, or flushed  *)
(* (Placed).                                                               *)
(***************************************************************************)
EXTENDS MCCalls, FiniteSetTheorems, SequenceTheorems, TLAPS

\* Who holds lis_stdata_sem, and who the sd_opening of its head.
HasStdata(p)  == pc[p] \in {"search", "get", "adopt"}
InOpen   == {"recheck", "open_mods", "attach", "in_driver", "swap", "adopt", "autopush",
             "success"}
HasOpening(p) == \/ pc[p] \in InOpen \cup {"closing", "mark"}
                 \/ pc[p] = "error" /\ hd_locked[p]

StdataHeld  == /\ \A p, q \in Proc : HasStdata(p) /\ HasStdata(q) => p = q
               /\ \A p \in Proc : HasStdata(p) => lis_stdata_sem = 0
OpeningHeld == /\ \A p, q \in Proc :
                     HasOpening(p) /\ HasOpening(q) /\ head[p] = head[q] => p = q
               /\ \A p \in Proc : HasOpening(p) => sd_opening[head[p]] = 0

\* p gives its head back and will try again.
Retries(p) == pc[p] \in {"put", "dec"} /\ ret[p] = "start"

\* The local variables: hd_locked says who holds sd_opening, a call that has gone
\* past lis_lookup_stdata has a head and has been seen with it.
LocksNoted == \A p \in Proc :
    /\ pc[p] \in InOpen => hd_locked[p]
    /\ pc[p] \in {"start", "search", "get", "opening"} \/ Retries(p) => ~hd_locked[p]
HeadsKnown == \A p \in Proc :
    /\ head[p] = NoHead => /\ pc[p] \in {"idle", "start", "search", "error"}
                           /\ pc[p] = "error" => ~hd_locked[p]
    /\ head[p] # NoHead => p \in seen[head[p]]
    /\ pc[p] = "idle" => head[p] = NoHead

\* Memory that was not used yet is clean.
Clean == \A h \in Stdata : alloc[h] = "unborn" =>
    /\ \A p \in Proc : head[p] # h
    /\ sd_refcnt[h] = 0 /\ sd_opencnt[h] = 0 /\ closings[h] = 0 /\ seen[h] = {}
    /\ h \notin STRCLOSE /\ h \notin failed /\ h \notin overlapped

\* Somebody else has seen the head of p.
SeenByOther(p) == \E q \in Proc : q # p /\ q \in seen[head[p]]

\* What was found has changed only by another process, and whoever starts over has
\* lost the head to one.
LostToOther == \A p \in Proc :
    /\ pc[p] \in {"start", "search"} /\ head[p] # NoHead => SeenByOther(p)
    /\ Retries(p) => SeenByOther(p)
    /\ pc[p] \in {"get", "opening", "recheck"} =>
          /\ existing_head[p] => sd_dev[head[p]] = odev[p] \/ SeenByOther(p)
          /\ head[p] \in STRCLOSE => SeenByOther(p)
    /\ pc[p] \in {"last_open", "undo"} => head[p] \in failed
OverlapOfTwo ==
    /\ \A p, q \in Proc : pc[p] = "dec" /\ pc[q] = "dec" /\ head[p] = head[q] /\ p # q
                             => head[p] \in overlapped
    /\ \A h \in overlapped : \E p, q \in seen[h] : p # q

\* The heads an open can find differ in their device.
OneFound == \A g, h \in Stdata :
    /\ alloc[g] = "live" /\ g \notin STRCLOSE /\ alloc[h] = "live" /\ h \notin STRCLOSE
    /\ sd_dev[g] = sd_dev[h] /\ sd_dev[g] # Clone
    => g = h

Shape == /\ TypeOK /\ StdataHeld /\ OpeningHeld /\ LocksNoted /\ HeadsKnown /\ Clean
         /\ LostToOther /\ OverlapOfTwo /\ OneFound

-----------------------------------------------------------------------------
(* A head that is not shared after a failure                               *)

NoFile(h)    == \A p \in Proc : ~HasFile(p, h)
OnlyRef(p, h) == ret[p] # "opened" /\ \A q \in Proc : HoldsOpen(q, h) => q = p
Files(h)     == {p \in Proc : HasFile(p, h)}

\* Who keeps it from being closed.
Keeps(p, h) ==
    /\ head[p] = h
    /\ \/ pc[p] \in {"opening", "recheck"} /\ ~existing_head[p]
       \/ pc[p] \in (InOpen \ {"recheck"}) \cup {"error", "mark"}
       \/ HasFile(p, h)

RefsLive(h)    == \A p \in Proc : HoldsOpen(p, h) => alloc[h] = "live"
RefsCounted(h) == sd_refcnt[h] = Cardinality(References(h))
OpenCounted(h) == sd_opencnt[h] = Cardinality(Files(h))

FilesWhole(h) == \A p \in Proc :
    HasFile(p, h) => h \in driver /\ h \in sd_rq /\ h \notin STRCLOSE
OpensWhole(h) == \A p \in Proc : head[p] = h =>
    /\ pc[p] \in {"attach", "in_driver", "swap", "adopt", "autopush", "mark"} =>
          NoFile(h) /\ h \notin STRCLOSE
    /\ pc[p] \in {"in_driver", "swap", "adopt", "autopush", "success"} =>
          h \in driver /\ h \in sd_rq /\ h \notin STRCLOSE
    /\ pc[p] = "open_mods" => ~NoFile(h)

ClosedOnce(h) ==
    /\ closings[h] <= 1 /\ (h \notin STRCLOSE => closings[h] = 0)
    /\ \A p \in Proc : pc[p] = "close_action" /\ head[p] = h =>
          /\ h \in STRCLOSE /\ closings[h] = 0
          /\ \A q \in Proc : pc[q] = "close_action" /\ head[q] = h => q = p

Kept(h) == alloc[h] = "live" /\ h \notin STRCLOSE /\ h \notin failed
              => \E p \in Proc : Keeps(p, h)
FoundLives(h) == \A p \in Proc : pc[p] = "get" /\ head[p] = h =>
    alloc[h] = "live" /\ h \notin STRCLOSE /\ h \notin failed

TearsDown(h) == \A p \in Proc : pc[p] = "dec" /\ head[p] = h /\ tear_down[p] =>
    OnlyRef(p, h) /\ (h \in STRCLOSE \/ h \in failed)
LeavesOne(h) == \A p \in Proc : pc[p] = "dec" /\ head[p] = h /\ ~tear_down[p] =>
    ~OnlyRef(p, h) \/ h \in overlapped
LeftOver(h)  == alloc[h] = "live" /\ (\A p \in Proc : ~HoldsOpen(p, h)) => h \in overlapped

Sound(h) == /\ RefsLive(h) /\ RefsCounted(h) /\ OpenCounted(h) /\ FilesWhole(h)
            /\ OpensWhole(h) /\ ClosedOnce(h) /\ Kept(h) /\ FoundLives(h)
            /\ TearsDown(h) /\ LeavesOne(h) /\ LeftOver(h)

IInv == Shape /\ \A h \in Stdata : Shared(h) \/ Sound(h)

\* A step of process p.
Does(p) ==
    \/ (\E d \in Dev \cup {Clone} : Open(p, d)) \/ Interrupted(p)
    \/ Steps(p) \/ Close(p) \/ Call(p)


\* The others keep their local variables.
Others(p) == \A q \in Proc : q # p =>
    /\ pc'[q] = pc[q] /\ head'[q] = head[q] /\ ret'[q] = ret[q]
    /\ odev'[q] = odev[q] /\ existing_head'[q] = existing_head[q]
    /\ hd_locked'[q] = hd_locked[q] /\ tear_down'[q] = tear_down[q]

\* What each local variable and each field is defined for.
Domains ==
    /\ DOMAIN pc = Proc /\ DOMAIN head = Proc /\ DOMAIN ret = Proc /\ DOMAIN odev = Proc
    /\ DOMAIN existing_head = Proc /\ DOMAIN hd_locked = Proc /\ DOMAIN tear_down = Proc
    /\ DOMAIN alloc = Stdata /\ DOMAIN sd_refcnt = Stdata /\ DOMAIN sd_opencnt = Stdata
    /\ DOMAIN sd_dev = Stdata /\ DOMAIN sd_opening = Stdata /\ DOMAIN seen = Stdata
    /\ DOMAIN closings = Stdata
    /\ \A p \in Proc : /\ head[p] # NoHead => head[p] \in Stdata
                       /\ ret[p] \in {"idle", "start", "opened"}
    /\ \A h \in Stdata : sd_opening[h] = 0 \/ sd_opening[h] = 1

-----------------------------------------------------------------------------
(* What a step leaves alone                                                *)

\* A process changes only its own local variables.
LEMMA OthersKept ==
    ASSUME TypeOK, NEW p \in Proc, Does(p)
    PROVE  Others(p)
<1>d. /\ DOMAIN pc = Proc /\ DOMAIN head = Proc /\ DOMAIN ret = Proc /\ DOMAIN odev = Proc
      /\ DOMAIN existing_head = Proc /\ DOMAIN hd_locked = Proc /\ DOMAIN tear_down = Proc
  BY DEF TypeOK
<1>1. CASE (\E d \in Dev \cup {Clone} : Open(p, d)) \/ Interrupted(p) \/ DownSearch(p) \/ Allocate(p) \/ Lookup(p) \/ HeadGet(p)
  BY <1>d, <1>1 DEF Open, Goto, Interrupted, DownSearch, DownStdata, Allocate,
     NewHead, UpStdata, Lookup, HeadGet, Incr, Others, TypeOK, At, headVars,
     locals, history
<1>2. CASE GetOpeningSem(p) \/ Recheck(p) \/ OpenMods(p) \/ Attach(p) \/ DriverOpens(p) \/ DownAdopt(p)
  BY <1>d, <1>2 DEF GetOpeningSem, Decr, Goto, Recheck, LostRace, LostToClone,
     ReleaseOpening, Incr, PutThen, OpenMods, Attach, DriverOpens, DownAdopt,
     DownStdata, Others, TypeOK, At, headVars, locals, history
<1>3. CASE AdoptDev(p) \/ Autopush(p) \/ Success(p) \/ ErrorRtn(p) \/ LastOpen(p) \/ Undo(p)
  BY <1>d, <1>3 DEF AdoptDev, UpStdata, DevInUse, Goto, Autopush, Success, Incr,
     ReleaseOpening, ErrorRtn, HdLocked, Return, LastOpen, PutThen, Undo,
     Dismantle, Others, TypeOK, At, headVars, locals, history
<1>4. CASE HeadPutRead(p) \/ HeadPutDec(p) \/ CountClose(p) \/ MarkClose(p) \/ CloseAction(p) \/ CallReturns(p)
  BY <1>d, <1>4 DEF HeadPutRead, TearDown, Goto, HeadPutDec, Decr, Freed,
     Return, CountClose, LastClose, ReleaseOpening, Incr, PutThen, MarkClose,
     CloseAction, Dismantle, CallReturns, Others, TypeOK, At, headVars, locals,
     history
<1>5. CASE Close(p) \/ Call(p)
  BY <1>d, <1>5 DEF Close, Decr, Goto, Call, Incr, Others, TypeOK, At, headVars,
     locals, history
<1> QED
  BY <1>1, <1>2, <1>3, <1>4, <1>5 DEF Does, Steps

\* Every step keeps the types.
LEMMA TypeKept ==
    ASSUME IInv, NEW p \in Proc, Does(p)
    PROVE  TypeOK'
<1>0. TypeOK /\ StdataHeld /\ OpeningHeld /\ HeadsKnown
  BY  DEF IInv, Shape
<1>1. CASE Allocate(p)
  <2>1. PICK x \in Stdata : x \in Unused /\ NewHead(x)
             /\ sd_refcnt' = [sd_refcnt EXCEPT ![x] = 1]
             /\ sd_dev' = [sd_dev EXCEPT ![x] = odev[p]]
             /\ head' = [head EXCEPT ![p] = x]
             /\ seen' = [seen EXCEPT ![x] = @ \cup {p}]
    BY <1>1 DEF Allocate, Unused
  <2>2. lis_stdata_sem' \in 0 .. 1
    BY <1>0, <1>1 DEF Allocate, At, StdataHeld, HasStdata, UpStdata
  <2>3. /\ sd_refcnt' \in [Stdata -> Int] /\ sd_dev' \in [Stdata -> Dev \cup {Clone}]
        /\ head' \in [Proc -> Stdata \cup {NoHead}] /\ seen' \in [Stdata -> SUBSET Proc]
    BY <1>0, <2>1 DEF TypeOK
  <2>4. alloc' \in [Stdata -> {"unborn", "live", "freed"}] /\ sd_rq' \subseteq Stdata
    BY <1>0, <2>1 DEF TypeOK, NewHead
  <2> QED
    BY <1>0, <2>2, <2>3, <2>4, <1>1 DEF TypeOK, Labels, Allocate, Goto
<1>2. CASE Lookup(p)
  <2>1. PICK x \in Stdata : head' = [head EXCEPT ![p] = x]
                          /\ seen' = [seen EXCEPT ![x] = @ \cup {p}]
    BY <1>2 DEF Lookup, Found
  <2>2. head' \in [Proc -> Stdata \cup {NoHead}] /\ seen' \in [Stdata -> SUBSET Proc]
    BY <1>0, <2>1 DEF TypeOK
  <2> QED
    BY <1>0, <2>2, <1>2 DEF TypeOK, Labels, Lookup, Goto, headVars
<1>3. CASE GetOpeningSem(p)
  <2>1. sd_opening' \in [Stdata -> 0 .. 1]
    BY <1>0, <1>3 DEF TypeOK, GetOpeningSem, At, HeadsKnown, Decr
  <2>2. pc' \in [Proc -> Labels] /\ hd_locked' \in [Proc -> BOOLEAN]
    BY <1>0, <1>3 DEF TypeOK, Labels, GetOpeningSem, Goto, locals
  <2> QED
    BY <1>0, <2>1, <2>2, <1>3 DEF TypeOK, GetOpeningSem, locals, history
<1>4. CASE Recheck(p)
  <2>1. sd_opening[head[p]] = 0 /\ head[p] \in Stdata
    BY <1>0, <1>4 DEF TypeOK, Recheck, At, OpeningHeld, HasOpening, InOpen, HeadsKnown
  <2>2. ReleaseOpening(head[p]) => sd_opening' \in [Stdata -> 0 .. 1]
    BY <1>0, <2>1 DEF TypeOK, ReleaseOpening, Incr
  <2>3. pc' \in [Proc -> Labels] /\ ret' \in [Proc -> {"idle", "start", "opened"}]
    BY <1>0, <1>4 DEF TypeOK, Labels, Recheck, PutThen, Goto
  <2> QED
    BY <1>0, <2>2, <2>3, <1>4 DEF TypeOK, Recheck, history
<1>5. CASE DriverOpens(p)
  <2>1. ndev' \in [Proc -> Dev \cup {Clone}] /\ driver' \subseteq Stdata
    BY <1>0, <1>5 DEF TypeOK, DriverOpens
  <2>2. pc' \in [Proc -> Labels]
    BY <1>0, <1>5 DEF TypeOK, Labels, DriverOpens, Goto
  <2> QED
    BY <1>0, <2>1, <2>2, <1>5 DEF TypeOK, DriverOpens, history
<1>6. CASE AdoptDev(p)
  <2>1. pc' \in [Proc -> Labels] /\ sd_dev' \in [Stdata -> Dev \cup {Clone}]
    BY <1>0, <1>6 DEF TypeOK, Labels, AdoptDev, Goto
  <2>2. lis_stdata_sem' \in 0 .. 1
    BY <1>0, <1>6 DEF AdoptDev, At, StdataHeld, HasStdata, UpStdata
  <2> QED
    BY <1>0, <2>1, <2>2, <1>6 DEF TypeOK, AdoptDev, locals, history
<1>7. CASE Success(p)
  <2>1. sd_opening[head[p]] = 0 /\ head[p] \in Stdata
    BY <1>0, <1>7 DEF TypeOK, Success, At, OpeningHeld, HasOpening, InOpen, HeadsKnown
  <2>2. ReleaseOpening(head[p]) => sd_opening' \in [Stdata -> 0 .. 1]
    BY <1>0, <2>1 DEF TypeOK, ReleaseOpening, Incr
  <2>3. sd_opencnt' \in [Stdata -> Int]
    BY <1>0, <2>1, <1>7 DEF TypeOK, Success, Incr
  <2> QED
    BY <1>0, <2>2, <2>3, <1>7 DEF TypeOK, Labels, Success, Goto, locals, history
<1>8. CASE ErrorRtn(p)
  <2>1. pc' \in [Proc -> Labels] /\ failed' \subseteq Stdata
    BY <1>0, <1>8 DEF TypeOK, Labels, ErrorRtn, Goto
  <2>2. /\ head' \in [Proc -> Stdata \cup {NoHead}]
        /\ odev' \in [Proc -> Dev \cup {Clone}] /\ ndev' \in [Proc -> Dev \cup {Clone}]
        /\ existing_head' \in [Proc -> BOOLEAN] /\ hd_locked' \in [Proc -> BOOLEAN]
    BY <1>0, <1>8 DEF TypeOK, ErrorRtn, Return
  <2>3. sd_opening' \in [Stdata -> 0 .. 1]
    <3>1. HdLocked(p) => sd_opening[head[p]] = 0
      BY <1>0, <1>8 DEF ErrorRtn, At, OpeningHeld, HasOpening, HdLocked
    <3> QED
      BY <1>0, <3>1, <1>8 DEF TypeOK, ErrorRtn, ReleaseOpening, Incr
  <2> QED
    BY <1>0, <2>1, <2>2, <2>3, <1>8 DEF TypeOK, ErrorRtn
<1>9. CASE LastOpen(p)
  <2>1. pc' \in [Proc -> Labels] /\ ret' \in [Proc -> {"idle", "start", "opened"}]
    BY <1>0, <1>9 DEF TypeOK, Labels, LastOpen, PutThen, Goto
  <2> QED
    BY <1>0, <2>1, <1>9 DEF TypeOK, LastOpen, Dismantle, headVars, history
<1>10. CASE Undo(p)
  <2>1. pc' \in [Proc -> Labels] /\ ret' \in [Proc -> {"idle", "start", "opened"}]
    BY <1>0, <1>10 DEF TypeOK, Labels, Undo, PutThen, Goto
  <2> QED
    BY <1>0, <2>1, <1>10 DEF TypeOK, Undo, Dismantle, headVars, history
<1>11. CASE HeadPutDec(p)
  <2>1. head[p] \in Stdata
    BY <1>0, <1>11 DEF TypeOK, HeadPutDec, At, HeadsKnown
  <2>2. /\ sd_refcnt' \in [Stdata -> Int]
        /\ alloc' \in [Stdata -> {"unborn", "live", "freed"}]
        /\ tear_down' \in [Proc -> BOOLEAN]
    BY <1>0, <2>1, <1>11 DEF TypeOK, HeadPutDec, Decr, Freed
  <2>3. /\ head' \in [Proc -> Stdata \cup {NoHead}]
        /\ odev' \in [Proc -> Dev \cup {Clone}] /\ ndev' \in [Proc -> Dev \cup {Clone}]
        /\ existing_head' \in [Proc -> BOOLEAN] /\ hd_locked' \in [Proc -> BOOLEAN]
    BY <1>0, <1>11 DEF TypeOK, HeadPutDec, Return
  <2>4. pc' \in [Proc -> Labels]
    BY <1>0, <1>11 DEF TypeOK, Labels, HeadPutDec, Goto
  <2> QED
    BY <1>0, <2>2, <2>3, <2>4, <1>11 DEF TypeOK, HeadPutDec, history
<1>12. CASE CountClose(p)
  <2>1. sd_opening[head[p]] = 0 /\ head[p] \in Stdata
    BY <1>0, <1>12 DEF TypeOK, CountClose, At, OpeningHeld, HasOpening, InOpen, HeadsKnown
  <2>2. ReleaseOpening(head[p]) => sd_opening' \in [Stdata -> 0 .. 1]
    BY <1>0, <2>1 DEF TypeOK, ReleaseOpening, Incr
  <2>3. sd_opencnt' \in [Stdata -> Int]
    BY <1>0, <2>1, <1>12 DEF TypeOK, CountClose, Decr
  <2>4. pc' \in [Proc -> Labels] /\ ret' \in [Proc -> {"idle", "start", "opened"}]
    BY <1>0, <1>12 DEF TypeOK, Labels, CountClose, PutThen, Goto
  <2> QED
    BY <1>0, <2>2, <2>3, <2>4, <1>12 DEF TypeOK, CountClose, history
<1>13. CASE MarkClose(p)
  <2>1. sd_opening[head[p]] = 0 /\ head[p] \in Stdata
    BY <1>0, <1>13 DEF TypeOK, MarkClose, At, OpeningHeld, HasOpening, InOpen, HeadsKnown
  <2>2. ReleaseOpening(head[p]) => sd_opening' \in [Stdata -> 0 .. 1]
    BY <1>0, <2>1 DEF TypeOK, ReleaseOpening, Incr
  <2> QED
    BY <1>0, <2>1, <2>2, <1>13 DEF TypeOK, Labels, MarkClose, Goto, locals, history
<1>14. CASE Close(p)
  <2>1. sd_opening' \in [Stdata -> 0 .. 1]
    BY <1>0, <1>14 DEF TypeOK, Close, At, HeadsKnown, Decr
  <2>2. pc' \in [Proc -> Labels] /\ hd_locked' \in [Proc -> BOOLEAN]
    BY <1>0, <1>14 DEF TypeOK, Labels, Close, Goto, locals
  <2> QED
    BY <1>0, <2>1, <2>2, <1>14 DEF TypeOK, Close, locals, history
<1>15. CASE \E d \in Dev \cup {Clone} : Open(p, d)
  BY <1>0, <1>15 DEF Open, Goto, TypeOK, Labels, StdataHeld,
     HasStdata, OpeningHeld, HasOpening, InOpen, HeadsKnown,
     At, headVars, locals, history
<1>16. CASE Interrupted(p)
  BY <1>0, <1>16 DEF Interrupted, Goto, TypeOK, Labels, StdataHeld,
     HasStdata, OpeningHeld, HasOpening, InOpen, HeadsKnown,
     At, headVars, locals, history
<1>17. CASE DownSearch(p) \/ HeadGet(p)
  BY <1>0, <1>17 DEF DownSearch, DownStdata, Goto, HeadGet, Incr,
     UpStdata, TypeOK, Labels, StdataHeld, HasStdata, OpeningHeld, HasOpening,
     InOpen, HeadsKnown, At, headVars, locals, history
<1>18. CASE OpenMods(p) \/ Attach(p) \/ DownAdopt(p)
  BY <1>0, <1>18 DEF OpenMods, Goto, Attach, DownAdopt, DownStdata,
     TypeOK, Labels, StdataHeld, HasStdata, OpeningHeld, HasOpening, InOpen,
     HeadsKnown, At, headVars, locals, history
<1>19. CASE Autopush(p)
  BY <1>0, <1>19 DEF Autopush, Goto, TypeOK, Labels, StdataHeld,
     HasStdata, OpeningHeld, HasOpening, InOpen, HeadsKnown,
     At, headVars, locals, history
<1>20. CASE HeadPutRead(p)
  BY <1>0, <1>20 DEF HeadPutRead, TearDown, Goto, TypeOK, Labels,
     StdataHeld, HasStdata, OpeningHeld, HasOpening, InOpen, HeadsKnown,
     Domains, At, headVars, locals, history
<1>21. CASE CloseAction(p)
  <2>1. pc' \in [Proc -> Labels] /\ ret' \in [Proc -> {"idle", "start", "opened"}]
    BY <1>0, <1>21 DEF TypeOK, Labels, CloseAction, PutThen, Goto
  <2>2. driver' \subseteq Stdata /\ sd_rq' \subseteq Stdata
    BY <1>0, <1>21 DEF TypeOK, CloseAction, Dismantle
  <2>3. closings' \in [Stdata -> Nat]
    <3>1. closings \in [Stdata -> Nat]
      BY <1>0 DEF TypeOK
    <3>2. closings' = [closings EXCEPT ![head[p]] = closings[head[p]] + 1]
      BY <1>21 DEF CloseAction, Incr
    <3>3. head[p] \in Stdata
      BY <1>0, <1>21 DEF TypeOK, CloseAction, At, HeadsKnown
    <3> QED
      BY <3>1, <3>2, <3>3
  <2> QED
    BY <1>0, <2>1, <2>2, <2>3, <1>21 DEF TypeOK, CloseAction
<1>22. CASE CallReturns(p)
  BY <1>0, <1>22 DEF CallReturns, PutThen, Goto, TypeOK, Labels,
     StdataHeld, HasStdata, OpeningHeld, HasOpening, InOpen, HeadsKnown,
     Domains, At, headVars, locals, history
<1>23. CASE Call(p)
  BY <1>0, <1>23 DEF Call, Incr, Goto, TypeOK, Labels, StdataHeld,
     HasStdata, OpeningHeld, HasOpening, InOpen, HeadsKnown,
     At, headVars, locals, history
<1> QED
  BY <1>1, <1>2, <1>3, <1>4, <1>5, <1>6, <1>7, <1>8, <1>9, <1>10, <1>11, <1>12,
     <1>13, <1>14, <1>15, <1>16, <1>17, <1>18, <1>19, <1>20, <1>21, <1>22, <1>23
     DEF Does, Steps

\* What TypeOK says of the domains.
LEMMA TypeDomains == TypeOK => Domains
<1> QED
  BY DEF TypeOK, Domains

\* lis_head_get takes memory that was not used yet.
LEMMA Allocates ==
    ASSUME TypeOK, NEW p \in Proc, Allocate(p)
    PROVE  \E x \in Stdata :
              /\ alloc[x] = "unborn" /\ NewHead(x)
              /\ sd_refcnt' = [sd_refcnt EXCEPT ![x] = 1]
              /\ sd_dev' = [sd_dev EXCEPT ![x] = odev[p]]
              /\ head' = [head EXCEPT ![p] = x]
              /\ seen' = [seen EXCEPT ![x] = @ \cup {p}]
  BY DEF Allocate, Unused

\* lis_lookup_stdata finds a head that lives and was not closed.
LEMMA LooksUp ==
    ASSUME TypeOK, NEW p \in Proc, Lookup(p)
    PROVE  \E x \in Stdata :
              /\ alloc[x] = "live" /\ x \notin STRCLOSE /\ sd_dev[x] = odev[p]
              /\ head' = [head EXCEPT ![p] = x]
              /\ seen' = [seen EXCEPT ![x] = @ \cup {p}]
  BY DEF Lookup, Found

\* What has been seen and what has failed stays so.
LEMMA PastKept ==
    ASSUME TypeOK, NEW p \in Proc, Does(p), NEW h \in Stdata
    PROVE  seen[h] \subseteq seen'[h] /\ (h \in failed => h \in failed')
<1>1. CASE Allocate(p) \/ Lookup(p)
  <2>1. PICK x \in Stdata : seen' = [seen EXCEPT ![x] = @ \cup {p}]
    BY <1>1 DEF Allocate, Lookup, Found, Unused
  <2>2. failed' = failed
    BY <1>1 DEF Allocate, Lookup
  <2> QED
    BY <2>1, <2>2 DEF TypeOK
<1>2. CASE Interrupted(p) \/ ErrorRtn(p)
  BY <1>2 DEF Interrupted, ErrorRtn
<1>3. CASE ~Allocate(p) /\ ~Lookup(p) /\ ~Interrupted(p) /\ ~ErrorRtn(p)
  <2>1. seen' = seen /\ failed' = failed
    BY <1>3 DEF Does, Steps, Open, Goto, DownSearch, DownStdata, HeadGet, Incr,
       UpStdata, GetOpeningSem, Decr, Recheck, LostRace, LostToClone,
       ReleaseOpening, PutThen, OpenMods, Attach, DriverOpens, DownAdopt,
       AdoptDev, DevInUse, Autopush, Success, LastOpen, Undo, Dismantle,
       HeadPutRead, TearDown, HeadPutDec, Freed, Return, CountClose, LastClose,
       MarkClose, CloseAction, CallReturns, Close, Call, At, headVars, locals,
       history
  <2> QED
    BY <2>1
<1> QED
  BY <1>1, <1>2, <1>3

\* Two processes that have seen a head are more than one.
LEMMA TwoSeen ==
    ASSUME NEW S \in SUBSET Proc, NEW p \in S, NEW q \in S, p # q
    PROVE  Cardinality(S) > 1
<1>1. IsFiniteSet(S) /\ Cardinality(S) \in Nat
  BY ProcAssumption, FS_Subset, FS_CardinalityType
<1>2. Cardinality({p, q}) = 2
  <2>1. IsFiniteSet({p}) /\ Cardinality({p}) = 1
    BY FS_Singleton
  <2>2. {p, q} = {p} \cup {q} /\ q \notin {p}
    OBVIOUS
  <2> QED
    BY <2>1, <2>2, FS_AddElement
<1>3. {p, q} \in SUBSET S
  OBVIOUS
<1>4. Cardinality({p, q}) <= Cardinality(S)
  BY <1>1, <1>3, FS_Subset
<1> QED
  BY <1>1, <1>2, <1>4

\* A shared head stays so, and one that has failed without being shared has been
\* seen by one process.
LEMMA SharedKept ==
    ASSUME IInv, NEW p \in Proc, Does(p), NEW h \in Stdata, ~Shared(h)'
    PROVE  /\ ~Shared(h)
           /\ Sound(h)
           /\ h \in failed' => \A q, r \in seen'[h] : q = r
<1>0. TypeOK /\ TypeOK'
  BY TypeKept DEF IInv, Shape
<1>1. seen[h] \in SUBSET seen'[h] /\ seen'[h] \in SUBSET Proc /\ (h \in failed => h \in failed')
  BY <1>0, PastKept DEF TypeOK
<1>2. IsFiniteSet(seen'[h]) /\ Cardinality(seen'[h]) \in Nat
  BY <1>1, ProcAssumption, FS_Subset, FS_CardinalityType
<1>3. IsFiniteSet(seen[h]) /\ Cardinality(seen[h]) \in Nat
      /\ Cardinality(seen[h]) <= Cardinality(seen'[h])
  BY <1>1, <1>2, FS_Subset, FS_CardinalityType
<1>4. ~Shared(h)
  BY <1>1, <1>2, <1>3 DEF Shared
<1>5. ASSUME h \in failed', NEW q \in seen'[h], NEW r \in seen'[h], q # r
      PROVE  FALSE
  BY <1>1, <1>5, TwoSeen DEF Shared
<1> QED
  BY <1>4, <1>5 DEF IInv

-----------------------------------------------------------------------------
(* The semaphores and the local variables                                  *)

\* lis_stdata_sem has one holder.
LEMMA StdataKept ==
    ASSUME IInv, NEW p \in Proc, Does(p)
    PROVE  StdataHeld'
<1>0. TypeOK /\ StdataHeld
  BY  DEF IInv, Shape
<1>o. Others(p)
  BY <1>0, OthersKept
<1>d. Domains
  BY TypeDomains DEF IInv, Shape
<1>1. CASE Allocate(p)
  <2>1. HasStdata(p)
    BY <1>1 DEF Allocate, At, HasStdata
  <2>2. \A q \in Proc : ~HasStdata(q)'
    BY <1>0, <1>o, <1>d, <2>1, <1>1 DEF StdataHeld, HasStdata, Others, Domains, Allocate, Goto
  <2> QED
    BY <2>2 DEF StdataHeld
<1>2. CASE HeadGet(p)
  <2>1. HasStdata(p)
    BY <1>2 DEF HeadGet, At, HasStdata
  <2>2. \A q \in Proc : ~HasStdata(q)'
    BY <1>0, <1>o, <1>d, <2>1, <1>2 DEF StdataHeld, HasStdata, Others, Domains, HeadGet, Goto
  <2> QED
    BY <2>2 DEF StdataHeld
<1>3. CASE AdoptDev(p)
  <2>1. HasStdata(p)
    BY <1>3 DEF AdoptDev, At, HasStdata
  <2>2. \A q \in Proc : ~HasStdata(q)'
    BY <1>0, <1>o, <1>d, <2>1, <1>3 DEF StdataHeld, HasStdata, Others, Domains, AdoptDev, Goto
  <2> QED
    BY <2>2 DEF StdataHeld
<1>4. CASE (\E d \in Dev \cup {Clone} : Open(p, d)) \/ Interrupted(p) \/
     DownSearch(p) \/ Lookup(p) \/ GetOpeningSem(p) \/ Recheck(p) \/ OpenMods(p)
  BY <1>0, <1>o, <1>d, <1>4 DEF Open, Goto, Interrupted, DownSearch, DownStdata,
     Lookup, GetOpeningSem, Decr, Recheck, LostRace, LostToClone,
     ReleaseOpening, Incr, PutThen, OpenMods, TypeOK, StdataHeld, HasStdata,
     Domains, Others, At, headVars, locals, history
<1>5. CASE Attach(p) \/ DriverOpens(p) \/ DownAdopt(p) \/ Autopush(p) \/
     Success(p) \/ ErrorRtn(p) \/ LastOpen(p)
  BY <1>0, <1>o, <1>d, <1>5 DEF Attach, Goto, DriverOpens, DownAdopt,
     DownStdata, Autopush, Success, Incr, ReleaseOpening, ErrorRtn, HdLocked,
     Return, LastOpen, PutThen, TypeOK, StdataHeld, HasStdata, Domains, Others,
     At, headVars, locals, history
<1>6. CASE Undo(p) \/ HeadPutRead(p) \/ HeadPutDec(p) \/ CountClose(p) \/
     MarkClose(p) \/ CloseAction(p) \/ CallReturns(p)
  BY <1>0, <1>o, <1>d, <1>6 DEF Undo, Dismantle, PutThen, Goto, HeadPutRead,
     TearDown, HeadPutDec, Decr, Freed, Return, CountClose, LastClose,
     ReleaseOpening, Incr, MarkClose, CloseAction, CallReturns, TypeOK,
     StdataHeld, HasStdata, Domains, Others, At, headVars, locals, history
<1>7. CASE Close(p) \/ Call(p)
  BY <1>0, <1>o, <1>d, <1>7 DEF Close, Decr, Goto, Call, Incr, TypeOK,
     StdataHeld, HasStdata, Domains, Others, At, headVars, locals, history
<1> QED
  BY <1>1, <1>2, <1>3, <1>4, <1>5, <1>6, <1>7 DEF Does, Steps

\* So has each sd_opening.
LEMMA OpeningKept ==
    ASSUME IInv, NEW p \in Proc, Does(p)
    PROVE  OpeningHeld'
<1>0. TypeOK /\ OpeningHeld /\ LocksNoted /\ HeadsKnown /\ Clean
  BY  DEF IInv, Shape
<1>o. Others(p)
  BY <1>0, OthersKept
<1>d. Domains
  BY TypeDomains DEF IInv, Shape
<1>1. CASE GetOpeningSem(p)
  <2>1. /\ head[p] \in Stdata /\ sd_opening[head[p]] = 1
        /\ sd_opening' = [sd_opening EXCEPT ![head[p]] = 0]
    <3>1. head[p] \in Stdata
      BY <1>0, <1>d, <1>1 DEF GetOpeningSem, At, Domains, HeadsKnown
    <3>2. sd_opening[head[p]] = 1
      BY <1>d, <3>1, <1>1 DEF GetOpeningSem, Domains
    <3> QED
      BY <3>1, <3>2, <1>1 DEF GetOpeningSem, Decr
  <2>2. \A q \in Proc : HasOpening(q) => head[q] # head[p]
    BY <1>0, <2>1 DEF OpeningHeld
  <2>3. \A q \in Proc : q # p => /\ HasOpening(q)' => HasOpening(q)
                                  /\ head'[q] = head[q]
    BY <1>o DEF HasOpening, Others
  <2>4. head'[p] = head[p]
    BY <1>1 DEF GetOpeningSem, locals
  <2> QED
    BY <1>0, <1>d, <2>1, <2>2, <2>3, <2>4 DEF OpeningHeld, Domains, HasOpening, HeadsKnown, InOpen
<1>2. CASE Close(p)
  <2>1. /\ head[p] \in Stdata /\ sd_opening[head[p]] = 1
        /\ sd_opening' = [sd_opening EXCEPT ![head[p]] = 0]
    <3>1. head[p] \in Stdata
      BY <1>0, <1>d, <1>2 DEF Close, At, Domains, HeadsKnown
    <3>2. sd_opening[head[p]] = 1
      BY <1>d, <3>1, <1>2 DEF Close, Domains
    <3> QED
      BY <3>1, <3>2, <1>2 DEF Close, Decr
  <2>2. \A q \in Proc : HasOpening(q) => head[q] # head[p]
    BY <1>0, <2>1 DEF OpeningHeld
  <2>3. \A q \in Proc : q # p => /\ HasOpening(q)' => HasOpening(q)
                                  /\ head'[q] = head[q]
    BY <1>o DEF HasOpening, Others
  <2>4. head'[p] = head[p]
    BY <1>2 DEF Close, locals
  <2> QED
    BY <1>0, <1>d, <2>1, <2>2, <2>3, <2>4 DEF OpeningHeld, Domains, HasOpening, HeadsKnown, InOpen
<1>3. CASE (\E d \in Dev \cup {Clone} : Open(p, d)) \/ Interrupted(p) \/
     DownSearch(p) \/ Allocate(p) \/ Lookup(p) \/ HeadGet(p) \/ Recheck(p)
  BY <1>0, <1>o, <1>d, <1>3 DEF Open, Goto, Interrupted, DownSearch, DownStdata,
     Allocate, NewHead, UpStdata, Lookup, HeadGet, Incr, Recheck, LostRace,
     LostToClone, ReleaseOpening, PutThen, OpeningHeld, HasOpening, InOpen,
     LocksNoted, Retries, HeadsKnown, Domains, Others, At, headVars, locals,
     history
<1>4. CASE OpenMods(p) \/ Attach(p) \/ DriverOpens(p) \/ DownAdopt(p) \/
     AdoptDev(p) \/ Autopush(p) \/ Success(p)
  BY <1>0, <1>o, <1>d, <1>4 DEF OpenMods, Goto, Attach, DriverOpens, DownAdopt,
     DownStdata, AdoptDev, UpStdata, DevInUse, Autopush, Success, Incr,
     ReleaseOpening, OpeningHeld, HasOpening, InOpen, LocksNoted, Retries,
     HeadsKnown, Domains, Others, At, headVars, locals, history
<1>5. CASE ErrorRtn(p) \/ LastOpen(p) \/ Undo(p) \/ HeadPutRead(p) \/
     HeadPutDec(p) \/ CountClose(p) \/ MarkClose(p)
  BY <1>0, <1>o, <1>d, <1>5 DEF ErrorRtn, HdLocked, ReleaseOpening, Incr,
     Return, Goto, LastOpen, PutThen, Undo, Dismantle, HeadPutRead, TearDown,
     HeadPutDec, Decr, Freed, CountClose, LastClose, MarkClose, OpeningHeld,
     HasOpening, InOpen, LocksNoted, Retries, HeadsKnown, Domains, Others, At,
     headVars, locals, history
<1>6. CASE CloseAction(p) \/ CallReturns(p) \/ Call(p)
  BY <1>0, <1>o, <1>d, <1>6 DEF CloseAction, Dismantle, Incr, PutThen, Goto,
     CallReturns, Call, OpeningHeld, HasOpening, InOpen, LocksNoted, Retries,
     HeadsKnown, Domains, Others, At, headVars, locals, history
<1> QED
  BY <1>1, <1>2, <1>3, <1>4, <1>5, <1>6 DEF Does, Steps

\* hd_locked says who holds sd_opening.
LEMMA LocksKept ==
    ASSUME IInv, NEW p \in Proc, Does(p)
    PROVE  LocksNoted'
<1>0. TypeOK /\ LocksNoted
  BY  DEF IInv, Shape
<1>o. Others(p)
  BY <1>0, OthersKept
<1>d. Domains
  BY TypeDomains DEF IInv, Shape
<1>1. CASE (\E d \in Dev \cup {Clone} : Open(p, d)) \/ Interrupted(p) \/
     DownSearch(p) \/ Allocate(p) \/ Lookup(p) \/ HeadGet(p) \/ GetOpeningSem(p)
  BY <1>0, <1>o, <1>d, <1>1 DEF Open, Goto, Interrupted, DownSearch, DownStdata,
     Allocate, NewHead, UpStdata, Lookup, HeadGet, Incr, GetOpeningSem, Decr,
     LocksNoted, Retries, InOpen, Domains, Others, At, headVars, locals, history
<1>2. CASE Recheck(p) \/ OpenMods(p) \/ Attach(p) \/ DriverOpens(p) \/
     DownAdopt(p) \/ AdoptDev(p) \/ Autopush(p)
  BY <1>0, <1>o, <1>d, <1>2 DEF Recheck, LostRace, LostToClone, ReleaseOpening,
     Incr, PutThen, Goto, OpenMods, Attach, DriverOpens, DownAdopt, DownStdata,
     AdoptDev, UpStdata, DevInUse, Autopush, LocksNoted, Retries, InOpen,
     Domains, Others, At, headVars, locals, history
<1>3. CASE Success(p) \/ ErrorRtn(p) \/ LastOpen(p) \/ Undo(p)
  BY <1>0, <1>o, <1>d, <1>3 DEF Success, Incr, ReleaseOpening, Goto, ErrorRtn,
     HdLocked, Return, LastOpen, PutThen, Undo, Dismantle, LocksNoted, Retries,
     InOpen, Domains, Others, At, headVars, locals, history
<1>4. CASE HeadPutRead(p)
  BY <1>0, <1>o, <1>d, <1>4 DEF HeadPutRead, TearDown, Goto, LocksNoted,
     Retries, InOpen, Domains, Others, At, headVars, locals, history
<1>5. CASE HeadPutDec(p)
  BY <1>0, <1>o, <1>d, <1>5 DEF HeadPutDec, Decr, Freed, Return, Goto,
     LocksNoted, Retries, InOpen, Domains, Others, At, headVars, locals, history
<1>6. CASE CountClose(p)
  BY <1>0, <1>o, <1>d, <1>6 DEF CountClose, LastClose, ReleaseOpening, Incr,
     Decr, PutThen, Goto, LocksNoted, Retries, InOpen, Domains, Others, At,
     headVars, locals, history
<1>7. CASE MarkClose(p) \/ CloseAction(p) \/ CallReturns(p) \/ Close(p) \/
     Call(p)
  BY <1>0, <1>o, <1>d, <1>7 DEF MarkClose, ReleaseOpening, Incr, Goto,
     CloseAction, Dismantle, PutThen, CallReturns, Close, Decr, Call,
     LocksNoted, Retries, InOpen, Domains, Others, At, headVars, locals, history
<1> QED
  BY <1>1, <1>2, <1>3, <1>4, <1>5, <1>6, <1>7 DEF Does, Steps

\* Who has a head was seen with it.
LEMMA HeadsKept ==
    ASSUME IInv, NEW p \in Proc, Does(p)
    PROVE  HeadsKnown'
<1>0. TypeOK /\ HeadsKnown /\ LocksNoted
  BY  DEF IInv, Shape
<1>o. Others(p)
  BY <1>0, OthersKept
<1>d. Domains
  BY TypeDomains DEF IInv, Shape
<1>1. CASE Allocate(p)
  <2>1. PICK x \in Stdata : /\ head' = [head EXCEPT ![p] = x]
                          /\ seen' = [seen EXCEPT ![x] = @ \cup {p}]
    BY <1>0, <1>1, Allocates
  <2> QED
    BY <1>0, <1>o, <1>d, <2>1, HeadAssumption, <1>1 DEF HeadsKnown, LocksNoted, Domains, Others, Allocate, At, Goto
<1>2. CASE Lookup(p)
  <2>1. PICK x \in Stdata : /\ head' = [head EXCEPT ![p] = x]
                          /\ seen' = [seen EXCEPT ![x] = @ \cup {p}]
    BY <1>0, <1>2, LooksUp
  <2> QED
    BY <1>0, <1>o, <1>d, <2>1, HeadAssumption, <1>2 DEF HeadsKnown, LocksNoted, Domains, Others, Lookup, At, Goto
<1>3. CASE (\E d \in Dev \cup {Clone} : Open(p, d)) \/ Interrupted(p) \/
     DownSearch(p) \/ HeadGet(p) \/ GetOpeningSem(p) \/ Recheck(p) \/
     OpenMods(p)
  BY <1>0, <1>o, <1>d, <1>3 DEF Open, Goto, Interrupted, DownSearch, DownStdata,
     HeadGet, Incr, UpStdata, GetOpeningSem, Decr, Recheck, LostRace,
     LostToClone, ReleaseOpening, PutThen, OpenMods, HeadsKnown, LocksNoted,
     Retries, InOpen, Domains, Others, At, headVars, locals, history
<1>4. CASE Attach(p) \/ DriverOpens(p) \/ DownAdopt(p) \/ AdoptDev(p) \/
     Autopush(p) \/ Success(p) \/ ErrorRtn(p)
  BY <1>0, <1>o, <1>d, <1>4 DEF Attach, Goto, DriverOpens, DownAdopt,
     DownStdata, AdoptDev, UpStdata, DevInUse, Autopush, Success, Incr,
     ReleaseOpening, ErrorRtn, HdLocked, Return, HeadsKnown, LocksNoted,
     Retries, InOpen, Domains, Others, At, headVars, locals, history
<1>5. CASE LastOpen(p) \/ Undo(p) \/ HeadPutRead(p) \/ HeadPutDec(p) \/
     CountClose(p) \/ MarkClose(p) \/ CloseAction(p)
  BY <1>0, <1>o, <1>d, <1>5 DEF LastOpen, PutThen, Goto, Undo, Dismantle,
     HeadPutRead, TearDown, HeadPutDec, Decr, Freed, Return, CountClose,
     LastClose, ReleaseOpening, Incr, MarkClose, CloseAction, HeadsKnown,
     LocksNoted, Retries, InOpen, Domains, Others, At, headVars, locals, history
<1>6. CASE CallReturns(p) \/ Close(p) \/ Call(p)
  BY <1>0, <1>o, <1>d, <1>6 DEF CallReturns, PutThen, Goto, Close, Decr, Call,
     Incr, HeadsKnown, LocksNoted, Retries, InOpen, Domains, Others, At,
     headVars, locals, history
<1> QED
  BY <1>1, <1>2, <1>3, <1>4, <1>5, <1>6 DEF Does, Steps

\* Unused memory stays clean.
LEMMA CleanKept ==
    ASSUME IInv, NEW p \in Proc, Does(p)
    PROVE  Clean'
<1>0. TypeOK /\ Clean /\ HeadsKnown
  BY  DEF IInv, Shape
<1>o. Others(p)
  BY <1>0, OthersKept
<1>d. Domains
  BY TypeDomains DEF IInv, Shape
<1>1. CASE Lookup(p)
  <2>1. PICK x \in Stdata :
             /\ alloc[x] = "live" /\ x \notin STRCLOSE /\ sd_dev[x] = odev[p]
             /\ head' = [head EXCEPT ![p] = x]
             /\ seen' = [seen EXCEPT ![x] = @ \cup {p}]
    BY <1>0, <1>1, LooksUp
  <2> QED
    BY <1>0, <1>o, <1>d, <2>1, HeadAssumption, <1>1 DEF Clean, HeadsKnown, Others,
       Domains, Lookup, At, Goto, headVars
<1>2. CASE (\E d \in Dev \cup {Clone} : Open(p, d)) \/ Interrupted(p)
  BY <1>0, <1>o, HeadAssumption, <1>d, <1>2 DEF Open, Goto, Interrupted, Clean,
     HeadsKnown, Domains, Others, At, headVars, locals, history
<1>3. CASE Allocate(p)
  BY <1>0, <1>o, HeadAssumption, <1>d, <1>3 DEF Allocate, NewHead, UpStdata,
     Goto, Clean, HeadsKnown, Domains, Others, At, headVars, locals, history
<1>4. CASE HeadGet(p)
  BY <1>0, <1>o, HeadAssumption, <1>d, <1>4 DEF HeadGet, Incr, UpStdata, Goto,
     Clean, HeadsKnown, Domains, Others, At, headVars, locals, history
<1>5. CASE Success(p) \/ ErrorRtn(p) \/ HeadPutRead(p)
  BY <1>0, <1>o, HeadAssumption, <1>d, <1>5 DEF Success, Incr, ReleaseOpening,
     Goto, ErrorRtn, HdLocked, Return, HeadPutRead, TearDown, Clean, HeadsKnown,
     Domains, Others, At, headVars, locals, history
<1>6. CASE HeadPutDec(p) \/ CountClose(p) \/ MarkClose(p) \/ CloseAction(p) \/
     Call(p)
  BY <1>0, <1>o, HeadAssumption, <1>d, <1>6 DEF HeadPutDec, Decr, Freed, Return,
     Goto, CountClose, LastClose, ReleaseOpening, Incr, PutThen, MarkClose,
     CloseAction, Dismantle, Call, Clean, HeadsKnown, Domains, Others, At,
     headVars, locals, history
<1>7. CASE DownSearch(p) \/ GetOpeningSem(p) \/ Recheck(p) \/ OpenMods(p) \/
     Attach(p) \/ DriverOpens(p) \/ DownAdopt(p) \/ AdoptDev(p) \/ Autopush(p)
     \/ LastOpen(p) \/ Undo(p) \/ CallReturns(p) \/ Close(p)
  <2>1. UNCHANGED <<alloc, head, sd_refcnt, sd_opencnt, closings, seen, STRCLOSE, failed, overlapped>>
    BY <1>7 DEF DownSearch, DownStdata, Goto, GetOpeningSem, Decr, Recheck,
       LostRace, LostToClone, ReleaseOpening, Incr, PutThen, OpenMods, Attach,
       DriverOpens, DownAdopt, AdoptDev, UpStdata, DevInUse, Autopush, LastOpen,
       Undo, Dismantle, CallReturns, Close, At, headVars, locals, history
  <2> QED
    BY <1>0, <2>1 DEF Clean, HeadsKnown, Domains
<1> QED
  BY <1>1, <1>2, <1>3, <1>4, <1>5, <1>6, <1>7 DEF Does, Steps

\* A head is lost only to another process.
LEMMA LostKept ==
    ASSUME IInv, NEW p \in Proc, Does(p)
    PROVE  LostToOther'
<1>0. TypeOK /\ LostToOther /\ HeadsKnown /\ Clean
  BY  DEF IInv, Shape
<1>o. Others(p)
  BY <1>0, OthersKept
<1>d. Domains
  BY TypeDomains DEF IInv, Shape
<1>1. CASE Allocate(p)
  <2>1. PICK x \in Stdata :
             /\ alloc[x] = "unborn" /\ NewHead(x)
             /\ sd_refcnt' = [sd_refcnt EXCEPT ![x] = 1]
             /\ sd_dev' = [sd_dev EXCEPT ![x] = odev[p]]
             /\ head' = [head EXCEPT ![p] = x]
             /\ seen' = [seen EXCEPT ![x] = @ \cup {p}]
    BY <1>0, <1>1, Allocates
  <2> QED
    BY <1>0, <1>o, <1>d, <2>1, HeadAssumption, <1>1 DEF LostToOther, SeenByOther,
       Retries, HeadsKnown, Clean, NewHead, Others, Domains, Allocate, At, Goto
<1>2. CASE Lookup(p)
  <2>1. PICK x \in Stdata :
             /\ alloc[x] = "live" /\ x \notin STRCLOSE /\ sd_dev[x] = odev[p]
             /\ head' = [head EXCEPT ![p] = x]
             /\ seen' = [seen EXCEPT ![x] = @ \cup {p}]
    BY <1>0, <1>2, LooksUp
  <2> QED
    BY <1>0, <1>o, <1>d, <2>1, HeadAssumption, <1>2 DEF LostToOther, SeenByOther,
       Retries, HeadsKnown, Others, Domains, Lookup, At, Goto, headVars
<1>3. CASE (\E d \in Dev \cup {Clone} : Open(p, d)) \/ Interrupted(p) \/
     DownSearch(p) \/ HeadGet(p) \/ GetOpeningSem(p) \/ Recheck(p) \/
     OpenMods(p)
  BY <1>0, <1>o, HeadAssumption, <1>d, <1>3 DEF Open, Goto, Interrupted,
     DownSearch, DownStdata, HeadGet, Incr, UpStdata, GetOpeningSem, Decr,
     Recheck, LostRace, LostToClone, ReleaseOpening, PutThen, OpenMods,
     LostToOther, SeenByOther, Retries, HeadsKnown, InOpen, Domains, Others, At,
     headVars, locals, history
<1>4. CASE Attach(p) \/ DriverOpens(p) \/ DownAdopt(p) \/ AdoptDev(p) \/
     Autopush(p) \/ Success(p) \/ ErrorRtn(p)
  BY <1>0, <1>o, HeadAssumption, <1>d, <1>4 DEF Attach, Goto, DriverOpens,
     DownAdopt, DownStdata, AdoptDev, UpStdata, DevInUse, Autopush, Success,
     Incr, ReleaseOpening, ErrorRtn, HdLocked, Return, LostToOther, SeenByOther,
     Retries, HeadsKnown, InOpen, Domains, Others, At, headVars, locals, history
<1>5. CASE LastOpen(p) \/ Undo(p) \/ HeadPutRead(p) \/ HeadPutDec(p) \/
     CountClose(p) \/ MarkClose(p) \/ CloseAction(p)
  BY <1>0, <1>o, HeadAssumption, <1>d, <1>5 DEF LastOpen, PutThen, Goto, Undo,
     Dismantle, HeadPutRead, TearDown, HeadPutDec, Decr, Freed, Return,
     CountClose, LastClose, ReleaseOpening, Incr, MarkClose, CloseAction,
     LostToOther, SeenByOther, Retries, HeadsKnown, InOpen, Domains, Others, At,
     headVars, locals, history
<1>6. CASE CallReturns(p) \/ Close(p) \/ Call(p)
  BY <1>0, <1>o, HeadAssumption, <1>d, <1>6 DEF CallReturns, PutThen, Goto,
     Close, Decr, Call, Incr, LostToOther, SeenByOther, Retries, HeadsKnown,
     InOpen, Domains, Others, At, headVars, locals, history
<1> QED
  BY <1>1, <1>2, <1>3, <1>4, <1>5, <1>6 DEF Does, Steps

\* Overlapping returns are those of two processes.
LEMMA OverlapKept ==
    ASSUME IInv, NEW p \in Proc, Does(p)
    PROVE  OverlapOfTwo'
<1>0. TypeOK /\ OverlapOfTwo /\ HeadsKnown
  BY  DEF IInv, Shape
<1>o. Others(p)
  BY <1>0, OthersKept
<1>d. Domains
  BY TypeDomains DEF IInv, Shape
<1>1. CASE Allocate(p)
  <2>1. PICK x \in Stdata :
             /\ alloc[x] = "unborn" /\ NewHead(x)
             /\ sd_refcnt' = [sd_refcnt EXCEPT ![x] = 1]
             /\ sd_dev' = [sd_dev EXCEPT ![x] = odev[p]]
             /\ head' = [head EXCEPT ![p] = x]
             /\ seen' = [seen EXCEPT ![x] = @ \cup {p}]
    BY <1>0, <1>1, Allocates
  <2> QED
    BY <1>0, <1>o, <1>d, <2>1, HeadAssumption, <1>1 DEF OverlapOfTwo, NewHead,
       Others, Domains, Allocate, At, Goto
<1>2. CASE (\E d \in Dev \cup {Clone} : Open(p, d)) \/ Interrupted(p)
  BY <1>0, <1>o, HeadAssumption, <1>d, <1>2 DEF Open, Goto, Interrupted,
     OverlapOfTwo, HeadsKnown, Domains, Others, At, headVars, locals, history
<1>3. CASE DownSearch(p)
  BY <1>0, <1>o, HeadAssumption, <1>d, <1>3 DEF DownSearch, DownStdata, Goto,
     OverlapOfTwo, HeadsKnown, Domains, Others, At, headVars, locals, history
<1>4. CASE Lookup(p)
  BY <1>0, <1>o, HeadAssumption, <1>d, <1>4 DEF Lookup, Goto, OverlapOfTwo,
     HeadsKnown, Domains, Others, At, headVars, locals, history
<1>5. CASE HeadGet(p) \/ GetOpeningSem(p) \/ Recheck(p)
  BY <1>0, <1>o, HeadAssumption, <1>d, <1>5 DEF HeadGet, Incr, UpStdata, Goto,
     GetOpeningSem, Decr, Recheck, LostRace, LostToClone, ReleaseOpening,
     PutThen, OverlapOfTwo, HeadsKnown, Domains, Others, At, headVars, locals,
     history
<1>6. CASE OpenMods(p) \/ Attach(p) \/ DriverOpens(p) \/ DownAdopt(p) \/
     AdoptDev(p) \/ Autopush(p) \/ Success(p)
  BY <1>0, <1>o, HeadAssumption, <1>d, <1>6 DEF OpenMods, Goto, Attach,
     DriverOpens, DownAdopt, DownStdata, AdoptDev, UpStdata, DevInUse, Autopush,
     Success, Incr, ReleaseOpening, OverlapOfTwo, HeadsKnown, Domains, Others,
     At, headVars, locals, history
<1>7. CASE ErrorRtn(p) \/ LastOpen(p) \/ Undo(p) \/ HeadPutRead(p) \/
     HeadPutDec(p) \/ CountClose(p) \/ MarkClose(p)
  BY <1>0, <1>o, HeadAssumption, <1>d, <1>7 DEF ErrorRtn, HdLocked,
     ReleaseOpening, Incr, Return, Goto, LastOpen, PutThen, Undo, Dismantle,
     HeadPutRead, TearDown, HeadPutDec, Decr, Freed, CountClose, LastClose,
     MarkClose, OverlapOfTwo, HeadsKnown, Domains, Others, At, headVars, locals,
     history
<1>8. CASE CloseAction(p) \/ CallReturns(p) \/ Close(p) \/ Call(p)
  BY <1>0, <1>o, HeadAssumption, <1>d, <1>8 DEF CloseAction, Dismantle, Incr,
     PutThen, Goto, CallReturns, Close, Decr, Call, OverlapOfTwo, HeadsKnown,
     Domains, Others, At, headVars, locals, history
<1> QED
  BY <1>1, <1>2, <1>3, <1>4, <1>5, <1>6, <1>7, <1>8 DEF Does, Steps

\* A device has one stream that an open can find.
LEMMA OneFoundKept ==
    ASSUME IInv, NEW p \in Proc, Does(p)
    PROVE  OneFound'
<1>0. TypeOK /\ OneFound /\ Clean /\ HeadsKnown
  BY  DEF IInv, Shape
<1>o. Others(p)
  BY <1>0, OthersKept
<1>d. Domains
  BY TypeDomains DEF IInv, Shape
<1>1. CASE Allocate(p)
  <2>1. PICK x \in Stdata :
             /\ alloc[x] = "unborn" /\ NewHead(x)
             /\ sd_refcnt' = [sd_refcnt EXCEPT ![x] = 1]
             /\ sd_dev' = [sd_dev EXCEPT ![x] = odev[p]]
             /\ head' = [head EXCEPT ![p] = x]
             /\ seen' = [seen EXCEPT ![x] = @ \cup {p}]
    BY <1>0, <1>1, Allocates
  <2> QED
    BY <1>0, <1>o, <1>d, <2>1, HeadAssumption, <1>1 DEF OneFound, Clean, Found,
       NewHead, Others, Domains, Allocate, At, Goto
<1>2. CASE AdoptDev(p) \/ HeadPutDec(p) \/ MarkClose(p)
  BY <1>0, <1>o, <1>d, <1>2 DEF AdoptDev, UpStdata, DevInUse, Goto, HeadPutDec,
     Decr, Freed, Return, MarkClose, ReleaseOpening, Incr, OneFound, Clean,
     HeadsKnown, Found, Domains, Others, At, headVars, locals, history
<1>3. CASE (\E d \in Dev \cup {Clone} : Open(p, d)) \/ Interrupted(p) \/
     DownSearch(p) \/ Lookup(p) \/ HeadGet(p) \/ GetOpeningSem(p) \/ Recheck(p)
     \/ OpenMods(p) \/ Attach(p) \/ DriverOpens(p) \/ DownAdopt(p) \/
     Autopush(p) \/ Success(p) \/ ErrorRtn(p) \/ LastOpen(p) \/ Undo(p) \/
     HeadPutRead(p) \/ CountClose(p) \/ CloseAction(p) \/ CallReturns(p) \/
     Close(p) \/ Call(p)
  <2>1. UNCHANGED <<alloc, STRCLOSE, sd_dev>>
    BY <1>3 DEF Open, Goto, Interrupted, DownSearch, DownStdata, Lookup,
       HeadGet, Incr, UpStdata, GetOpeningSem, Decr, Recheck, LostRace,
       LostToClone, ReleaseOpening, PutThen, OpenMods, Attach, DriverOpens,
       DownAdopt, Autopush, Success, ErrorRtn, HdLocked, Return, LastOpen, Undo,
       Dismantle, HeadPutRead, TearDown, CountClose, LastClose, CloseAction,
       CallReturns, Close, Call, At, headVars, locals, history
  <2> QED
    BY <1>0, <2>1 DEF OneFound, Clean, HeadsKnown, Found, Domains
<1> QED
  BY <1>1, <1>2, <1>3 DEF Does, Steps

-----------------------------------------------------------------------------
(* What the counts say                                                     *)

\* sd_opencnt tells whether there are files, and whether one is the only one.
FilesKnown(h) ==
    /\ sd_opencnt[h] >= 1 <=> ~NoFile(h)
    /\ \A p \in Proc : HasFile(p, h) =>
          /\ sd_opencnt[h] > 0
          /\ sd_opencnt[h] <= 1 <=> \A q \in Proc : HasFile(q, h) => q = p

\* There are finitely many files.
LEMMA FilesFinite == \A h \in Stdata : IsFiniteSet(Files(h)) /\ Cardinality(Files(h)) \in Nat
<1> SUFFICES ASSUME NEW h \in Stdata
             PROVE  IsFiniteSet(Files(h)) /\ Cardinality(Files(h)) \in Nat
  OBVIOUS
<1>1. Files(h) \in SUBSET Proc
  BY DEF Files
<1>2. IsFiniteSet(Files(h))
  BY <1>1, ProcAssumption, FS_Subset
<1> QED
  BY <1>2, FS_CardinalityType

\* What sd_opencnt counts, FilesKnown reads from it.
LEMMA FilesAreKnown ==
    ASSUME NEW h \in Stdata, OpenCounted(h)
    PROVE  FilesKnown(h)
<1>0. sd_opencnt[h] = Cardinality(Files(h)) /\ IsFiniteSet(Files(h)) /\ sd_opencnt[h] \in Nat
  BY FilesFinite DEF OpenCounted
<1>1. sd_opencnt[h] = 0 <=> NoFile(h)
  <2>1. sd_opencnt[h] = 0 <=> Files(h) = {}
    BY <1>0, FS_EmptySet
  <2> QED
    BY <2>1 DEF Files, NoFile
<1>2. ASSUME NEW p \in Proc, HasFile(p, h)
      PROVE  /\ sd_opencnt[h] > 0
             /\ sd_opencnt[h] <= 1 <=> \A q \in Proc : HasFile(q, h) => q = p
  <2>1. p \in Files(h)
    BY <1>2 DEF Files
  <2>2. sd_opencnt[h] > 0
    BY <1>0, <1>1, <1>2 DEF NoFile
  <2>3. /\ IsFiniteSet(Files(h) \ {p})
        /\ Cardinality(Files(h) \ {p}) = sd_opencnt[h] - 1
    BY <1>0, <2>1, FS_RemoveElement
  <2>4. sd_opencnt[h] - 1 = 0 <=> Files(h) \ {p} = {}
    BY <2>3, FS_EmptySet
  <2>5. sd_opencnt[h] <= 1 <=> Files(h) \ {p} = {}
    BY <1>0, <2>2, <2>4
  <2> QED
    BY <2>2, <2>5 DEF Files
<1>3. sd_opencnt[h] >= 1 <=> ~NoFile(h)
  BY <1>0, <1>1
<1> QED
  BY <1>2, <1>3 DEF FilesKnown

\* And finitely many references.
LEMMA RefsFinite ==
    \A h \in Stdata : IsFiniteSet(References(h)) /\ Cardinality(References(h)) \in Nat
<1> SUFFICES ASSUME NEW h \in Stdata
             PROVE  IsFiniteSet(References(h)) /\ Cardinality(References(h)) \in Nat
  OBVIOUS
<1>1. IsFiniteSet({"open", "call"})
  <2>1. IsFiniteSet({"open"}) /\ IsFiniteSet({"call"})
    BY FS_Singleton
  <2>2. {"open", "call"} = {"open"} \cup {"call"}
    OBVIOUS
  <2> QED
    BY <2>1, <2>2, FS_Union
<1>2. IsFiniteSet(Proc \X {"open", "call"})
  BY <1>1, ProcAssumption, FS_Product
<1>3. References(h) \in SUBSET (Proc \X {"open", "call"})
  BY DEF References
<1>4. IsFiniteSet(References(h))
  BY <1>2, <1>3, FS_Subset
<1> QED
  BY <1>4, FS_CardinalityType

\* sd_refcnt is 1 for the one who has the only reference.
LEMMA OneReference ==
    ASSUME NEW h \in Stdata, RefsCounted(h), NEW p \in Proc, pc[p] = "put", head[p] = h
    PROVE  TearDown(h) <=> OnlyRef(p, h)
<1>1. <<p, "open">> \in References(h)
  BY DEF References, HoldsOpen
<1>2. IsFiniteSet(References(h) \ {<<p, "open">>})
      /\ Cardinality(References(h) \ {<<p, "open">>}) = sd_refcnt[h] - 1
      /\ sd_refcnt[h] \in Nat
  BY <1>1, RefsFinite, FS_RemoveElement DEF RefsCounted
<1>3. sd_refcnt[h] = 1 <=> References(h) \ {<<p, "open">>} = {}
  <2>1. sd_refcnt[h] - 1 = 0 <=> References(h) \ {<<p, "open">>} = {}
    BY <1>2, FS_EmptySet
  <2> QED
    BY <1>2, <2>1
<1>4. References(h) \ {<<p, "open">>} = {} <=> OnlyRef(p, h)
  <2>1. ASSUME OnlyRef(p, h), NEW x \in References(h), x # <<p, "open">>
        PROVE  FALSE
    BY <2>1 DEF OnlyRef, References, HoldsOpen, HoldsCall
  <2>2. ASSUME References(h) \ {<<p, "open">>} = {}
        PROVE  OnlyRef(p, h)
    <3>1. ret[p] # "opened"
      <4>1. ret[p] = "opened" => <<p, "call">> \in References(h)
        BY DEF References, HoldsCall
      <4> QED
        BY <2>2, <4>1
    <3>2. ASSUME NEW q \in Proc, HoldsOpen(q, h) PROVE q = p
      <4>1. <<q, "open">> \in References(h)
        BY <3>2 DEF References
      <4> QED
        BY <2>2, <4>1
    <3> QED
      BY <3>1, <3>2 DEF OnlyRef
  <2> QED
    BY <2>1, <2>2
<1> QED
  BY <1>3, <1>4 DEF TearDown

-----------------------------------------------------------------------------
(* A head that is not shared                                               *)

\* A head that somebody has open, or opens, is not freed.
LEMMA RefsLiveKept ==
    ASSUME IInv, NEW p \in Proc, Does(p), NEW h \in Stdata, ~Shared(h)'
    PROVE  RefsLive(h)'
<1>0. TypeOK /\ HeadsKnown /\ LostToOther /\ RefsLive(h) /\ FoundLives(h) /\
     TearsDown(h) /\ (h \in failed' => \A q, r \in seen'[h] : q = r)
  BY SharedKept DEF IInv, Shape, Sound
<1>o. Others(p)
  BY <1>0, OthersKept
<1>d. Domains
  BY TypeDomains DEF IInv, Shape
<1>1. CASE Interrupted(p)
  <2>1. ASSUME HoldsOpen(p, h)', ~HoldsOpen(p, h) PROVE FALSE
    <3>1. head[p] = h /\ pc[p] \in {"start", "search"} /\ h \in failed'
      BY <1>d, <2>1, HeadAssumption, <1>1
         DEF HoldsOpen, Domains, Interrupted, At, Goto, locals
    <3>2. SeenByOther(p) /\ p \in seen[h] /\ seen' = seen
      BY <1>0, <3>1, HeadAssumption, <1>1 DEF LostToOther, HeadsKnown, Interrupted
    <3> QED
      BY <1>0, <3>1, <3>2 DEF SeenByOther
  <2> QED
    BY <1>0, <1>o, <2>1, <1>1 DEF RefsLive, HoldsOpen, Others, Interrupted, headVars, locals
<1>2. CASE Allocate(p)
  <2>1. PICK x \in Stdata :
             /\ alloc[x] = "unborn" /\ NewHead(x)
             /\ sd_refcnt' = [sd_refcnt EXCEPT ![x] = 1]
             /\ sd_dev' = [sd_dev EXCEPT ![x] = odev[p]]
             /\ head' = [head EXCEPT ![p] = x]
             /\ seen' = [seen EXCEPT ![x] = @ \cup {p}]
    BY <1>0, <1>2, Allocates
  <2> QED
    BY <1>0, <1>o, <1>d, <2>1, HeadAssumption, <1>2 DEF RefsLive, HoldsOpen,
       NewHead, Others, Domains, Allocate, At, Goto
<1>3. CASE HeadGet(p)
  BY <1>0, <1>o, <1>d, <1>3
     DEF RefsLive, HoldsOpen, FoundLives, Others, Domains, HeadGet, At, Goto, locals
<1>4. CASE HeadPutDec(p)
  <2>1. CASE alloc'[h] = alloc[h]
    BY <1>0, <1>o, <1>d, <2>1, <1>4
       DEF RefsLive, HoldsOpen, Others, Domains, HeadPutDec, At, Goto, Return
  <2>2. CASE alloc'[h] # alloc[h]
    <3>1. tear_down[p] /\ head[p] = h /\ OnlyRef(p, h)
      BY <1>0, <1>d, <2>2, <1>4 DEF TearsDown, Domains, HeadPutDec, At, Freed
    <3>2. \A q \in Proc : ~HoldsOpen(q, h)'
      BY <1>o, <1>d, <3>1, HeadAssumption, <1>4
         DEF OnlyRef, HoldsOpen, Others, Domains, HeadPutDec, Goto, Return
    <3> QED
      BY <3>2 DEF RefsLive
  <2> QED
    BY <2>1, <2>2
<1>5. CASE (\E d \in Dev \cup {Clone} : Open(p, d)) \/ DownSearch(p) \/
     Lookup(p) \/ GetOpeningSem(p) \/ Recheck(p) \/ OpenMods(p) \/ Attach(p)
  BY <1>0, <1>o, <1>d, <1>5 DEF Open, Goto, DownSearch, DownStdata, Lookup,
     GetOpeningSem, Decr, Recheck, LostRace, LostToClone, ReleaseOpening, Incr,
     PutThen, OpenMods, Attach, RefsLive, HoldsOpen, HeadsKnown, Domains,
     Others, At, headVars, locals, history
<1>6. CASE DriverOpens(p) \/ DownAdopt(p) \/ AdoptDev(p) \/ Autopush(p) \/
     Success(p) \/ ErrorRtn(p) \/ LastOpen(p)
  BY <1>0, <1>o, <1>d, <1>6 DEF DriverOpens, Goto, DownAdopt, DownStdata,
     AdoptDev, UpStdata, DevInUse, Autopush, Success, Incr, ReleaseOpening,
     ErrorRtn, HdLocked, Return, LastOpen, PutThen, RefsLive, HoldsOpen,
     HeadsKnown, Domains, Others, At, headVars, locals, history
<1>7. CASE Undo(p) \/ HeadPutRead(p) \/ CountClose(p) \/ MarkClose(p) \/
     CloseAction(p) \/ CallReturns(p) \/ Close(p)
  BY <1>0, <1>o, <1>d, <1>7 DEF Undo, Dismantle, PutThen, Goto, HeadPutRead,
     TearDown, CountClose, LastClose, ReleaseOpening, Incr, Decr, MarkClose,
     CloseAction, CallReturns, Close, RefsLive, HoldsOpen, HeadsKnown, Domains,
     Others, At, headVars, locals, history
<1>8. CASE Call(p)
  BY <1>0, <1>o, <1>d, <1>8 DEF Call, Incr, Goto, RefsLive, HoldsOpen,
     HeadsKnown, Domains, Others, At, headVars, locals, history
<1> QED
  BY <1>1, <1>2, <1>3, <1>4, <1>5, <1>6, <1>7, <1>8 DEF Does, Steps

\* A head that was found is not closed and does not fail before it is counted.
LEMMA FoundLivesKept ==
    ASSUME IInv, NEW p \in Proc, Does(p), NEW h \in Stdata, ~Shared(h)'
    PROVE  FoundLives(h)'
<1>0. TypeOK /\ HeadsKnown /\ StdataHeld /\ LostToOther /\ OverlapOfTwo /\
     FoundLives(h) /\ TearsDown(h) /\ LeftOver(h) /\ RefsLive(h) /\ (h \in
     failed' => \A q, r \in seen'[h] : q = r)
  BY SharedKept DEF IInv, Shape, Sound
<1>o. Others(p)
  BY <1>0, OthersKept
<1>d. Domains
  BY TypeDomains DEF IInv, Shape
<1>1. CASE Interrupted(p)
  <2>1. ASSUME NEW q \in Proc, pc'[q] = "get", head'[q] = h, h \in failed'
        PROVE  FALSE
    <3>1. q # p /\ pc[q] = "get" /\ head[q] = h /\ h \notin failed
      BY <1>0, <1>o, <1>d, <2>1, <1>1
         DEF FoundLives, Others, Domains, Interrupted, Goto, locals
    <3>2. head[p] = h /\ seen' = seen
      BY <2>1, <3>1, <1>1 DEF Interrupted
    <3> QED
      BY <1>0, <2>1, <3>1, <3>2, HeadAssumption DEF HeadsKnown
  <2> QED
    BY <1>0, <1>o, <1>d, <2>1, <1>1
       DEF FoundLives, Others, Domains, Interrupted, Goto, locals, headVars
<1>2. CASE Allocate(p)
  <2>1. PICK x \in Stdata :
             /\ alloc[x] = "unborn" /\ NewHead(x)
             /\ sd_refcnt' = [sd_refcnt EXCEPT ![x] = 1]
             /\ sd_dev' = [sd_dev EXCEPT ![x] = odev[p]]
             /\ head' = [head EXCEPT ![p] = x]
             /\ seen' = [seen EXCEPT ![x] = @ \cup {p}]
    BY <1>0, <1>2, Allocates
  <2> QED
    BY <1>0, <1>o, <1>d, <2>1, HeadAssumption, <1>2 DEF FoundLives, NewHead,
       Others, Domains, Allocate, At, Goto
<1>3. CASE Lookup(p)
  <2>1. PICK x \in Stdata :
             /\ alloc[x] = "live" /\ x \notin STRCLOSE /\ sd_dev[x] = odev[p]
             /\ head' = [head EXCEPT ![p] = x]
             /\ seen' = [seen EXCEPT ![x] = @ \cup {p}]
    BY <1>0, <1>3, LooksUp
  <2>2. ASSUME x = h, h \in failed PROVE FALSE
    <3>1. seen[h] \subseteq {p} /\ failed' = failed
      BY <1>0, <1>d, <2>1, <2>2, <1>3 DEF Domains, Lookup
    <3>2. \A q \in Proc : ~HoldsOpen(q, h)
      BY <1>0, <2>2, <3>1, HeadAssumption, <1>3 DEF HeadsKnown, HoldsOpen, Lookup, At
    <3>3. h \in overlapped
      BY <1>0, <2>1, <2>2, <3>2 DEF LeftOver
    <3> QED
      BY <1>0, <3>1, <3>3 DEF OverlapOfTwo
  <2> QED
    BY <1>0, <1>o, <1>d, <2>1, <2>2, <1>3
       DEF FoundLives, Others, Domains, Lookup, Goto, headVars
<1>4. CASE ErrorRtn(p)
  <2>1. ASSUME NEW q \in Proc, pc'[q] = "get", head'[q] = h, h \in failed'
        PROVE  FALSE
    <3>1. q # p /\ pc[q] = "get" /\ head[q] = h /\ h \notin failed
      BY <1>0, <1>o, <1>d, <2>1, <1>4
         DEF FoundLives, Others, Domains, ErrorRtn, Return, Goto
    <3>2. head[p] = h /\ seen' = seen
      BY <2>1, <3>1, <1>4 DEF ErrorRtn
    <3> QED
      BY <1>0, <2>1, <3>1, <3>2, HeadAssumption DEF HeadsKnown
  <2> QED
    BY <1>0, <1>o, <1>d, <2>1, <1>4
       DEF FoundLives, Others, Domains, ErrorRtn, Return, Goto
<1>5. CASE HeadPutDec(p)
  <2>1. ASSUME alloc'[h] # alloc[h]
        PROVE  tear_down[p] /\ head[p] = h /\ (h \in STRCLOSE \/ h \in failed)
    BY <1>0, <1>d, <2>1, <1>5 DEF TearsDown, Domains, HeadPutDec, At, Freed
  <2> QED
    BY <1>0, <1>o, <1>d, <2>1, <1>5
       DEF FoundLives, Others, Domains, HeadPutDec, Goto, Return, history
<1>6. CASE MarkClose(p)
  <2>1. \A q \in Proc : pc[q] # "get"
    BY <1>0, <1>6 DEF StdataHeld, HasStdata, MarkClose
  <2> QED
    BY <1>o, <1>d, <2>1, <1>6 DEF FoundLives, Others, Domains, MarkClose, Goto
<1>7. CASE (\E d \in Dev \cup {Clone} : Open(p, d)) \/ DownSearch(p) \/
     HeadGet(p) \/ GetOpeningSem(p) \/ Recheck(p) \/ OpenMods(p) \/ Attach(p)
  BY <1>0, <1>o, <1>d, <1>7 DEF Open, Goto, DownSearch, DownStdata, HeadGet,
     Incr, UpStdata, GetOpeningSem, Decr, Recheck, LostRace, LostToClone,
     ReleaseOpening, PutThen, OpenMods, Attach, FoundLives, Domains, Others, At,
     headVars, locals, history
<1>8. CASE DriverOpens(p) \/ DownAdopt(p) \/ AdoptDev(p) \/ Autopush(p) \/
     Success(p) \/ LastOpen(p) \/ Undo(p)
  BY <1>0, <1>o, <1>d, <1>8 DEF DriverOpens, Goto, DownAdopt, DownStdata,
     AdoptDev, UpStdata, DevInUse, Autopush, Success, Incr, ReleaseOpening,
     LastOpen, PutThen, Undo, Dismantle, FoundLives, Domains, Others, At,
     headVars, locals, history
<1>9. CASE HeadPutRead(p) \/ CountClose(p) \/ CloseAction(p) \/ CallReturns(p)
     \/ Close(p) \/ Call(p)
  BY <1>0, <1>o, <1>d, <1>9 DEF HeadPutRead, TearDown, Goto, CountClose,
     LastClose, ReleaseOpening, Incr, Decr, PutThen, CloseAction, Dismantle,
     CallReturns, Close, Call, FoundLives, Domains, Others, At, headVars,
     locals, history
<1> QED
  BY <1>1, <1>2, <1>3, <1>4, <1>5, <1>6, <1>7, <1>8, <1>9 DEF Does, Steps

\* Who keeps a head keeps it on, or leaves that to another.
LEMMA KeepsOn ==
    ASSUME IInv, NEW p \in Proc, Does(p), NEW h \in Stdata, ~Shared(h)'
    PROVE  h \notin STRCLOSE' /\ h \notin failed' /\ Keeps(p, h) => \E q \in Proc : Keeps(q, h)'
<1>0. TypeOK /\ HeadsKnown /\ OpenCounted(h) /\ FilesKnown(h)
  BY SharedKept, FilesAreKnown DEF IInv, Shape, Sound
<1>o. Others(p)
  BY <1>0, OthersKept
<1>d. Domains
  BY TypeDomains DEF IInv, Shape
<1>1. CASE CountClose(p)
  <2>1. SUFFICES ASSUME Keeps(p, h) PROVE \E q \in Proc : Keeps(q, h)'
    OBVIOUS
  <2>2. HasFile(p, h) /\ head[p] = h
    BY <2>1, <1>1 DEF Keeps, HasFile, CountClose, At, InOpen
  <2>3. CASE \A r \in Proc : HasFile(r, h) => r = p
    <3>1. sd_opencnt[h] <= 1
      BY <1>0, <2>2, <2>3 DEF FilesKnown
    <3>2. Keeps(p, h)'
      BY <1>d, <2>2, <3>1, <1>1 DEF Keeps, Domains, CountClose, LastClose, Goto
    <3> QED
      BY <3>2
  <2>4. CASE \E r \in Proc : HasFile(r, h) /\ r # p
    <3>1. PICK r \in Proc : HasFile(r, h) /\ r # p
      BY <2>4
    <3>2. Keeps(r, h)'
      BY <1>o, <3>1 DEF Keeps, HasFile, Others
    <3> QED
      BY <3>2
  <2> QED
    BY <2>3, <2>4
<1>2. CASE (\E d \in Dev \cup {Clone} : Open(p, d)) \/ Interrupted(p) \/
     DownSearch(p) \/ Allocate(p) \/ Lookup(p) \/ HeadGet(p) \/ GetOpeningSem(p)
  BY <1>0, <1>o, HeadAssumption, <1>d, <1>2 DEF Open, Goto, Interrupted,
     DownSearch, DownStdata, Allocate, NewHead, UpStdata, Lookup, HeadGet, Incr,
     GetOpeningSem, Decr, Keeps, HasFile, InOpen, HeadsKnown, Domains, Others,
     At, headVars, locals, history
<1>3. CASE Recheck(p) \/ OpenMods(p) \/ Attach(p) \/ DriverOpens(p) \/
     DownAdopt(p) \/ AdoptDev(p) \/ Autopush(p)
  BY <1>0, <1>o, HeadAssumption, <1>d, <1>3 DEF Recheck, LostRace, LostToClone,
     ReleaseOpening, Incr, PutThen, Goto, OpenMods, Attach, DriverOpens,
     DownAdopt, DownStdata, AdoptDev, UpStdata, DevInUse, Autopush, Keeps,
     HasFile, InOpen, HeadsKnown, Domains, Others, At, headVars, locals, history
<1>4. CASE Success(p) \/ ErrorRtn(p) \/ LastOpen(p) \/ Undo(p) \/ HeadPutRead(p)
     \/ HeadPutDec(p) \/ MarkClose(p)
  BY <1>0, <1>o, HeadAssumption, <1>d, <1>4 DEF Success, Incr, ReleaseOpening,
     Goto, ErrorRtn, HdLocked, Return, LastOpen, PutThen, Undo, Dismantle,
     HeadPutRead, TearDown, HeadPutDec, Decr, Freed, MarkClose, Keeps, HasFile,
     InOpen, HeadsKnown, Domains, Others, At, headVars, locals, history
<1>5. CASE CloseAction(p) \/ CallReturns(p) \/ Close(p) \/ Call(p)
  BY <1>0, <1>o, HeadAssumption, <1>d, <1>5 DEF CloseAction, Dismantle, Incr,
     PutThen, Goto, CallReturns, Close, Decr, Call, Keeps, HasFile, InOpen,
     HeadsKnown, Domains, Others, At, headVars, locals, history
<1> QED
  BY <1>1, <1>2, <1>3, <1>4, <1>5 DEF Does, Steps

\* Somebody keeps a head that is neither closed nor failed.
LEMMA KeptKept ==
    ASSUME IInv, NEW p \in Proc, Does(p), NEW h \in Stdata, ~Shared(h)'
    PROVE  Kept(h)'
<1>0. TypeOK /\ HeadsKnown /\ Kept(h)
  BY SharedKept DEF IInv, Shape, Sound
<1>o. Others(p)
  BY <1>0, OthersKept
<1>d. Domains
  BY TypeDomains DEF IInv, Shape
<1>k. ASSUME NEW q \in Proc, Keeps(q, h), h \notin STRCLOSE', h \notin failed'
      PROVE  \E r \in Proc : Keeps(r, h)'
  <2>1. CASE q # p
    <3>1. Keeps(q, h)'
      BY <1>o, <1>k, <2>1 DEF Others, Keeps, HasFile
    <3> QED
      BY <3>1
  <2>2. CASE q = p
    BY <1>k, <2>2, KeepsOn
  <2> QED
    BY <2>1, <2>2
<1>1. CASE Allocate(p)
  <2>1. PICK x \in Stdata :
             /\ alloc[x] = "unborn" /\ NewHead(x)
             /\ sd_refcnt' = [sd_refcnt EXCEPT ![x] = 1]
             /\ sd_dev' = [sd_dev EXCEPT ![x] = odev[p]]
             /\ head' = [head EXCEPT ![p] = x]
             /\ seen' = [seen EXCEPT ![x] = @ \cup {p}]
    BY <1>0, <1>1, Allocates
  <2>2. CASE x = h
    <3>1. Keeps(p, h)'
      BY <1>d, <2>1, <2>2, <1>1 DEF Keeps, Domains, Allocate, Goto
    <3> QED
      BY <3>1 DEF Kept
  <2>3. CASE x # h
    <3>1. alloc'[h] = alloc[h] /\ STRCLOSE' = STRCLOSE /\ failed' = failed
      BY <1>d, <2>1, <2>3, <1>1 DEF Domains, Allocate, NewHead
    <3> QED
      BY <1>0, <1>k, <3>1 DEF Kept
  <2> QED
    BY <2>2, <2>3
<1>2. CASE Interrupted(p) \/ ErrorRtn(p) \/ HeadPutDec(p) \/ MarkClose(p)
  BY <1>0, <1>o, <1>d, <1>k, <1>2 DEF Interrupted, Goto, ErrorRtn, HdLocked,
     ReleaseOpening, Incr, Return, HeadPutDec, Decr, Freed, MarkClose, Kept,
     Domains, Others, At, headVars, locals, history
<1>3. CASE (\E d \in Dev \cup {Clone} : Open(p, d)) \/ DownSearch(p) \/
     Lookup(p) \/ HeadGet(p) \/ GetOpeningSem(p) \/ Recheck(p) \/ OpenMods(p) \/
     Attach(p) \/ DriverOpens(p) \/ DownAdopt(p) \/ AdoptDev(p) \/ Autopush(p)
     \/ Success(p) \/ LastOpen(p) \/ Undo(p) \/ HeadPutRead(p) \/ CountClose(p)
     \/ CloseAction(p) \/ CallReturns(p) \/ Close(p) \/ Call(p)
  <2>1. UNCHANGED <<alloc, STRCLOSE, failed>>
    BY <1>3 DEF Open, Goto, DownSearch, DownStdata, Lookup, HeadGet, Incr,
       UpStdata, GetOpeningSem, Decr, Recheck, LostRace, LostToClone,
       ReleaseOpening, PutThen, OpenMods, Attach, DriverOpens, DownAdopt,
       AdoptDev, DevInUse, Autopush, Success, LastOpen, Undo, Dismantle,
       HeadPutRead, TearDown, CountClose, LastClose, CloseAction, CallReturns,
       Close, Call, At, headVars, locals, history
  <2> QED
    BY <1>0, <2>1, <1>k DEF Kept, Domains
<1> QED
  BY <1>1, <1>2, <1>3 DEF Does, Steps

\* What an open file works on stays whole.
LEMMA FilesWholeKept ==
    ASSUME IInv, NEW p \in Proc, Does(p), NEW h \in Stdata, ~Shared(h)'
    PROVE  FilesWhole(h)'
<1>0. TypeOK /\ HeadsKnown /\ Clean /\ LostToOther /\ FilesWhole(h) /\
     OpensWhole(h) /\ ClosedOnce(h) /\ (h \in failed' => \A q, r \in seen'[h] :
     q = r)
  BY SharedKept DEF IInv, Shape, Sound
<1>o. Others(p)
  BY <1>0, OthersKept
<1>d. Domains
  BY TypeDomains DEF IInv, Shape
<1>1. CASE Allocate(p)
  <2>1. PICK x \in Stdata :
             /\ alloc[x] = "unborn" /\ NewHead(x)
             /\ sd_refcnt' = [sd_refcnt EXCEPT ![x] = 1]
             /\ sd_dev' = [sd_dev EXCEPT ![x] = odev[p]]
             /\ head' = [head EXCEPT ![p] = x]
             /\ seen' = [seen EXCEPT ![x] = @ \cup {p}]
    BY <1>0, <1>1, Allocates
  <2> QED
    BY <1>0, <1>o, <1>d, <2>1, HeadAssumption, <1>1 DEF FilesWhole, HasFile,
       NewHead, Others, Domains, Allocate, At, Goto
<1>2. CASE DriverOpens(p)
  BY <1>0, <1>o, <1>d, <1>2
     DEF FilesWhole, HasFile, OpensWhole, NoFile, HeadsKnown, Others, Domains, DriverOpens, At, Goto
<1>3. CASE Success(p)
  BY <1>0, <1>o, <1>d, <1>3 DEF FilesWhole, HasFile, OpensWhole, Others, Domains, Success, At, Goto, locals
<1>4. CASE Undo(p)
  <2>1. CASE head[p] = h
    <3>1. h \in failed' /\ seen' = seen
      BY <1>0, <2>1, <1>4 DEF LostToOther, Undo, At, history
    <3>2. \A q \in Proc : ~HasFile(q, h)'
      BY <1>0, <1>o, <1>d, <2>1, <3>1, HeadAssumption, <1>4
         DEF HasFile, HeadsKnown, Others, Domains, Undo, PutThen, Goto, At
    <3> QED
      BY <3>2 DEF FilesWhole
  <2>2. CASE head[p] # h
    BY <1>0, <1>o, <1>d, <2>2, <1>4
       DEF FilesWhole, HasFile, Others, Domains, Undo, PutThen, Goto, Dismantle
  <2> QED
    BY <2>1, <2>2
<1>5. CASE MarkClose(p)
  BY <1>0, <1>o, <1>d, <1>5
     DEF FilesWhole, HasFile, OpensWhole, NoFile, HeadsKnown, Others, Domains, MarkClose, At, Goto, locals
<1>6. CASE CloseAction(p)
  BY <1>0, <1>o, <1>d, <1>6
     DEF FilesWhole, HasFile, ClosedOnce, HeadsKnown, Others, Domains, CloseAction, At, PutThen, Goto, Dismantle
<1>7. CASE (\E d \in Dev \cup {Clone} : Open(p, d)) \/ Interrupted(p) \/
     DownSearch(p) \/ Lookup(p) \/ HeadGet(p) \/ GetOpeningSem(p) \/ Recheck(p)
  BY <1>0, <1>o, HeadAssumption, <1>d, <1>7 DEF Open, Goto, Interrupted,
     DownSearch, DownStdata, Lookup, HeadGet, Incr, UpStdata, GetOpeningSem,
     Decr, Recheck, LostRace, LostToClone, ReleaseOpening, PutThen, FilesWhole,
     HasFile, HeadsKnown, Domains, Others, At, headVars, locals, history
<1>8. CASE OpenMods(p) \/ Attach(p) \/ DownAdopt(p) \/ AdoptDev(p) \/
     Autopush(p) \/ ErrorRtn(p) \/ LastOpen(p)
  BY <1>0, <1>o, HeadAssumption, <1>d, <1>8 DEF OpenMods, Goto, Attach,
     DownAdopt, DownStdata, AdoptDev, UpStdata, DevInUse, Autopush, ErrorRtn,
     HdLocked, ReleaseOpening, Incr, Return, LastOpen, PutThen, FilesWhole,
     HasFile, HeadsKnown, Domains, Others, At, headVars, locals, history
<1>9. CASE HeadPutRead(p) \/ HeadPutDec(p) \/ CountClose(p) \/ CallReturns(p) \/
     Close(p) \/ Call(p)
  BY <1>0, <1>o, HeadAssumption, <1>d, <1>9 DEF HeadPutRead, TearDown, Goto,
     HeadPutDec, Decr, Freed, Return, CountClose, LastClose, ReleaseOpening,
     Incr, PutThen, CallReturns, Close, Call, FilesWhole, HasFile, HeadsKnown,
     Domains, Others, At, headVars, locals, history
<1> QED
  BY <1>1, <1>2, <1>3, <1>4, <1>5, <1>6, <1>7, <1>8, <1>9 DEF Does, Steps

\* Nobody disturbs who opens a stream.
LEMMA OpensWholeKept ==
    ASSUME IInv, NEW p \in Proc, Does(p), NEW h \in Stdata, ~Shared(h)'
    PROVE  OpensWhole(h)'
<1>0. TypeOK /\ HeadsKnown /\ Clean /\ LostToOther /\ OpeningHeld /\ LocksNoted
     /\ FilesWhole(h) /\ OpensWhole(h) /\ ClosedOnce(h) /\ FilesKnown(h) /\ (h
     \in failed' => \A q, r \in seen'[h] : q = r)
  BY SharedKept, FilesAreKnown DEF IInv, Shape, Sound
<1>o. Others(p)
  BY <1>0, OthersKept
<1>d. Domains
  BY TypeDomains DEF IInv, Shape
<1>1. CASE Allocate(p)
  <2>1. PICK x \in Stdata :
             /\ alloc[x] = "unborn" /\ NewHead(x)
             /\ sd_refcnt' = [sd_refcnt EXCEPT ![x] = 1]
             /\ sd_dev' = [sd_dev EXCEPT ![x] = odev[p]]
             /\ head' = [head EXCEPT ![p] = x]
             /\ seen' = [seen EXCEPT ![x] = @ \cup {p}]
    BY <1>0, <1>1, Allocates
  <2> QED
    BY <1>0, <1>o, <1>d, <2>1, HeadAssumption, <1>1 DEF OpensWhole, NoFile,
       HasFile, Clean, NewHead, Others, Domains, Allocate, At, Goto
<1>2. CASE Recheck(p)
  <2>1. CASE head[p] # h
    BY <1>0, <1>o, <1>d, <2>1, HeadAssumption, <1>2 DEF OpensWhole, NoFile,
       HasFile, Others, Domains, Recheck, LostRace, LostToClone, ReleaseOpening,
       Incr, PutThen, Goto, At, locals, history, headVars
  <2>2. CASE head[p] = h
    <3>1. /\ \A q \in Proc : HasFile(q, h)' <=> HasFile(q, h)
          /\ sd_opencnt[h] >= 1 <=> ~NoFile(h)
      BY <1>0, <1>o, <1>d, <1>2 DEF FilesKnown, HasFile, Others, Domains, Recheck, At, PutThen, Goto
    <3>2. NoFile(h)' <=> NoFile(h)
      BY <3>1 DEF NoFile
    <3> QED
      BY <1>0, <1>o, <1>d, <2>2, <3>1, <3>2, <1>2
         DEF OpensWhole, Others, Domains, Recheck, LostRace, At, PutThen, Goto
  <2> QED
    BY <2>1, <2>2
<1>3. CASE OpenMods(p)
  <2>1. \A q \in Proc : HasFile(q, h)' <=> HasFile(q, h)
    BY <1>o, <1>d, <1>3 DEF HasFile, Others, Domains, OpenMods, At, Goto, locals
  <2>2. NoFile(h)' <=> NoFile(h)
    BY <2>1 DEF NoFile
  <2>3. ~NoFile(h) => h \in driver /\ h \in sd_rq /\ h \notin STRCLOSE
    BY <1>0 DEF NoFile, FilesWhole
  <2> QED
    BY <1>0, <1>o, <1>d, <2>2, <2>3, <1>3
       DEF OpensWhole, Others, Domains, OpenMods, At, Goto, locals, headVars
<1>4. CASE DriverOpens(p)
  <2>1. CASE head[p] # h
    BY <1>0, <1>o, <1>d, <2>1, HeadAssumption, <1>4 DEF OpensWhole, NoFile,
       HasFile, Others, Domains, DriverOpens, Goto, At, locals, history,
       headVars
  <2>2. CASE head[p] = h
    <3>1. \A q \in Proc : q # p /\ head[q] = h => ~HasOpening(q)
      BY <1>0, <2>2, <1>4 DEF OpeningHeld, HasOpening, InOpen, DriverOpens, At
    <3>2. \A q \in Proc : q # p /\ head'[q] = h =>
             pc'[q] \notin {"attach", "in_driver", "swap", "adopt", "autopush", "mark",
                            "success", "open_mods"}
      BY <1>o, <3>1 DEF Others, HasOpening, InOpen
    <3> QED
      BY <1>0, <1>o, <1>d, <2>2, <3>2, <1>4 DEF OpensWhole, NoFile, HasFile,
         FilesKnown, FilesWhole, Others, Domains, DriverOpens, Goto, At, locals,
         history, headVars
  <2> QED
    BY <2>1, <2>2
<1>5. CASE Success(p)
  <2>1. CASE head[p] # h
    BY <1>0, <1>o, <1>d, <2>1, HeadAssumption, <1>5 DEF OpensWhole, NoFile,
       HasFile, Others, Domains, Success, Incr, ReleaseOpening, Goto, At,
       locals, history, headVars
  <2>2. CASE head[p] = h
    <3>1. \A q \in Proc : q # p /\ head[q] = h => ~HasOpening(q)
      BY <1>0, <2>2, <1>5 DEF OpeningHeld, HasOpening, InOpen, Success, At
    <3>2. \A q \in Proc : q # p /\ head'[q] = h =>
             pc'[q] \notin {"attach", "in_driver", "swap", "adopt", "autopush", "mark",
                            "success", "open_mods"}
      BY <1>o, <3>1 DEF Others, HasOpening, InOpen
    <3> QED
      BY <1>0, <1>o, <1>d, <2>2, <3>2, <1>5 DEF OpensWhole, NoFile, HasFile,
         FilesKnown, FilesWhole, Others, Domains, Success, Incr, ReleaseOpening,
         Goto, At, locals, history, headVars
  <2> QED
    BY <2>1, <2>2
<1>6. CASE Undo(p)
  <2>1. CASE head[p] # h
    BY <1>0, <1>o, <1>d, <2>1, HeadAssumption, <1>6 DEF OpensWhole, NoFile,
       HasFile, Others, Domains, Undo, Dismantle, PutThen, Goto, At, locals,
       history, headVars
  <2>2. CASE head[p] = h
    <3>1. h \in failed' /\ seen' = seen
      BY <1>0, <2>2, <1>6 DEF LostToOther, Undo, At, history
    <3>2. \A q \in Proc : q # p => head'[q] # h
      BY <1>0, <1>o, <2>2, <3>1, HeadAssumption, <1>6 DEF HeadsKnown, Others
    <3> QED
      BY <1>d, <3>2, <1>6 DEF OpensWhole, NoFile, HasFile, Domains, Undo, PutThen, Goto, At
  <2> QED
    BY <2>1, <2>2
<1>7. CASE CountClose(p)
  <2>1. CASE head[p] # h
    BY <1>0, <1>o, <1>d, <2>1, HeadAssumption, <1>7 DEF OpensWhole, NoFile,
       HasFile, Others, Domains, CountClose, LastClose, ReleaseOpening, Incr,
       Decr, PutThen, Goto, At, locals, history, headVars
  <2>2. CASE head[p] = h
    <3>1. \A q \in Proc : q # p /\ head[q] = h => ~HasOpening(q)
      BY <1>0, <2>2, <1>7 DEF OpeningHeld, HasOpening, InOpen, CountClose, At
    <3>2. \A q \in Proc : q # p /\ head'[q] = h =>
             pc'[q] \notin {"attach", "in_driver", "swap", "adopt", "autopush", "mark",
                            "success", "open_mods"}
      BY <1>o, <3>1 DEF Others, HasOpening, InOpen
    <3> QED
      BY <1>0, <1>o, <1>d, <2>2, <3>2, <1>7 DEF OpensWhole, NoFile, HasFile,
         FilesKnown, FilesWhole, Others, Domains, CountClose, LastClose,
         ReleaseOpening, Incr, Decr, PutThen, Goto, At, locals, history,
         headVars
  <2> QED
    BY <2>1, <2>2
<1>8. CASE MarkClose(p)
  <2>1. CASE head[p] # h
    BY <1>0, <1>o, <1>d, <2>1, HeadAssumption, <1>8 DEF OpensWhole, NoFile,
       HasFile, Others, Domains, MarkClose, ReleaseOpening, Incr, Goto, At,
       locals, history, headVars
  <2>2. CASE head[p] = h
    <3>1. \A q \in Proc : q # p /\ head[q] = h => ~HasOpening(q)
      BY <1>0, <2>2, <1>8 DEF OpeningHeld, HasOpening, InOpen, MarkClose, At
    <3>2. \A q \in Proc : q # p /\ head'[q] = h =>
             pc'[q] \notin {"attach", "in_driver", "swap", "adopt", "autopush", "mark",
                            "success", "open_mods"}
      BY <1>o, <3>1 DEF Others, HasOpening, InOpen
    <3> QED
      BY <1>0, <1>o, <1>d, <2>2, <3>2, <1>8 DEF OpensWhole, NoFile, HasFile,
         FilesKnown, FilesWhole, Others, Domains, MarkClose, ReleaseOpening,
         Incr, Goto, At, locals, history, headVars
  <2> QED
    BY <2>1, <2>2
<1>9. CASE CloseAction(p)
  <2>1. CASE head[p] # h
    BY <1>0, <1>o, <1>d, <2>1, HeadAssumption, <1>9 DEF OpensWhole, NoFile,
       HasFile, Others, Domains, CloseAction, Dismantle, Incr, PutThen, Goto,
       At, locals, history, headVars
  <2>2. CASE head[p] = h
    <3>1. h \in STRCLOSE /\ (\A q \in Proc : ~HasFile(q, h))
      BY <1>0, <2>2, <1>9 DEF ClosedOnce, FilesWhole, CloseAction, At
    <3> QED
      BY <1>0, <1>o, <1>d, <3>1, <1>9
         DEF OpensWhole, NoFile, HasFile, Others, Domains, CloseAction, PutThen, Goto, At
  <2> QED
    BY <2>1, <2>2
<1>10. CASE (\E d \in Dev \cup {Clone} : Open(p, d)) \/ Interrupted(p) \/
     DownSearch(p) \/ Lookup(p) \/ HeadGet(p) \/ GetOpeningSem(p) \/ Attach(p)
  BY <1>0, <1>o, HeadAssumption, <1>d, <1>10 DEF Open, Goto, Interrupted,
     DownSearch, DownStdata, Lookup, HeadGet, Incr, UpStdata, GetOpeningSem,
     Decr, Attach, OpensWhole, NoFile, HasFile, HeadsKnown, Domains, Others, At,
     headVars, locals, history
<1>11. CASE DownAdopt(p) \/ AdoptDev(p) \/ Autopush(p) \/ ErrorRtn(p) \/
     LastOpen(p) \/ HeadPutRead(p) \/ HeadPutDec(p)
  BY <1>0, <1>o, HeadAssumption, <1>d, <1>11 DEF DownAdopt, DownStdata, Goto,
     AdoptDev, UpStdata, DevInUse, Autopush, ErrorRtn, HdLocked, ReleaseOpening,
     Incr, Return, LastOpen, PutThen, HeadPutRead, TearDown, HeadPutDec, Decr,
     Freed, OpensWhole, NoFile, HasFile, HeadsKnown, Domains, Others, At,
     headVars, locals, history
<1>12. CASE CallReturns(p) \/ Close(p) \/ Call(p)
  BY <1>0, <1>o, HeadAssumption, <1>d, <1>12 DEF CallReturns, PutThen, Goto,
     Close, Decr, Call, Incr, OpensWhole, NoFile, HasFile, HeadsKnown, Domains,
     Others, At, headVars, locals, history
<1> QED
  BY <1>1, <1>2, <1>3, <1>4, <1>5, <1>6, <1>7, <1>8, <1>9, <1>10, <1>11, <1>12
     DEF Does, Steps

\* A stream is dismantled once by close.
LEMMA ClosedOnceKept ==
    ASSUME IInv, NEW p \in Proc, Does(p), NEW h \in Stdata, ~Shared(h)'
    PROVE  ClosedOnce(h)'
<1>0. TypeOK /\ HeadsKnown /\ OpensWhole(h) /\ ClosedOnce(h)
  BY SharedKept DEF IInv, Shape, Sound
<1>o. Others(p)
  BY <1>0, OthersKept
<1>d. Domains
  BY TypeDomains DEF IInv, Shape
<1>1. CASE MarkClose(p)
  BY <1>0, <1>o, <1>d, <1>1
     DEF ClosedOnce, OpensWhole, HeadsKnown, Others, Domains, MarkClose, At, Goto, locals, history
<1>2. CASE (\E d \in Dev \cup {Clone} : Open(p, d)) \/ Interrupted(p) \/
     DownSearch(p) \/ Allocate(p) \/ Lookup(p) \/ HeadGet(p) \/ GetOpeningSem(p)
  BY <1>0, <1>o, HeadAssumption, <1>d, <1>2 DEF Open, Goto, Interrupted,
     DownSearch, DownStdata, Allocate, NewHead, UpStdata, Lookup, HeadGet, Incr,
     GetOpeningSem, Decr, ClosedOnce, HeadsKnown, Domains, Others, At, headVars,
     locals, history
<1>3. CASE Recheck(p) \/ OpenMods(p) \/ Attach(p) \/ DriverOpens(p) \/
     DownAdopt(p) \/ AdoptDev(p) \/ Autopush(p)
  BY <1>0, <1>o, HeadAssumption, <1>d, <1>3 DEF Recheck, LostRace, LostToClone,
     ReleaseOpening, Incr, PutThen, Goto, OpenMods, Attach, DriverOpens,
     DownAdopt, DownStdata, AdoptDev, UpStdata, DevInUse, Autopush, ClosedOnce,
     HeadsKnown, Domains, Others, At, headVars, locals, history
<1>4. CASE Success(p) \/ ErrorRtn(p) \/ LastOpen(p) \/ Undo(p) \/ HeadPutRead(p)
     \/ HeadPutDec(p) \/ CountClose(p)
  BY <1>0, <1>o, HeadAssumption, <1>d, <1>4 DEF Success, Incr, ReleaseOpening,
     Goto, ErrorRtn, HdLocked, Return, LastOpen, PutThen, Undo, Dismantle,
     HeadPutRead, TearDown, HeadPutDec, Decr, Freed, CountClose, LastClose,
     ClosedOnce, HeadsKnown, Domains, Others, At, headVars, locals, history
<1>5. CASE CloseAction(p) \/ CallReturns(p) \/ Close(p) \/ Call(p)
  BY <1>0, <1>o, HeadAssumption, <1>d, <1>5 DEF CloseAction, Dismantle, Incr,
     PutThen, Goto, CallReturns, Close, Decr, Call, ClosedOnce, HeadsKnown,
     Domains, Others, At, headVars, locals, history
<1> QED
  BY <1>1, <1>2, <1>3, <1>4, <1>5 DEF Does, Steps

\* Nobody takes up a head that is about to be freed.
LEMMA HoldsNoMore ==
    ASSUME IInv, NEW p \in Proc, Does(p), NEW h \in Stdata, ~Shared(h)'
    PROVE  \A q \in Proc : q # p /\ pc[q] = "dec" /\ head[q] = h /\ tear_down[q] => (HoldsOpen(p, h)' => HoldsOpen(p, h))
<1>0. TypeOK /\ HeadsKnown /\ Clean /\ LostToOther /\ RefsLive(h) /\
     FoundLives(h) /\ TearsDown(h) /\ (h \in failed' => \A q, r \in seen'[h] : q
     = r)
  BY SharedKept DEF IInv, Shape, Sound
<1>o. Others(p)
  BY <1>0, OthersKept
<1>d. Domains
  BY TypeDomains DEF IInv, Shape
<1>1. CASE Interrupted(p)
  <2>1. ASSUME HoldsOpen(p, h)', ~HoldsOpen(p, h) PROVE FALSE
    <3>1. head[p] = h /\ pc[p] \in {"start", "search"} /\ h \in failed'
      BY <1>d, <2>1, HeadAssumption, <1>1
         DEF HoldsOpen, Domains, Interrupted, At, Goto, locals
    <3>2. SeenByOther(p) /\ p \in seen[h] /\ seen' = seen
      BY <1>0, <3>1, HeadAssumption, <1>1 DEF LostToOther, HeadsKnown, Interrupted
    <3> QED
      BY <1>0, <3>1, <3>2 DEF SeenByOther
  <2> QED
    BY <2>1
<1>2. CASE Allocate(p)
  <2>1. PICK x \in Stdata :
             /\ alloc[x] = "unborn" /\ NewHead(x)
             /\ sd_refcnt' = [sd_refcnt EXCEPT ![x] = 1]
             /\ sd_dev' = [sd_dev EXCEPT ![x] = odev[p]]
             /\ head' = [head EXCEPT ![p] = x]
             /\ seen' = [seen EXCEPT ![x] = @ \cup {p}]
    BY <1>0, <1>2, Allocates
  <2> QED
    BY <1>0, <1>o, <1>d, <2>1, HeadAssumption, <1>2 DEF HoldsOpen, Clean, NewHead,
       Others, Domains, Allocate, At, Goto
<1>3. CASE HeadGet(p)
  BY <1>0, <1>d, <1>3 DEF FoundLives, TearsDown, HoldsOpen, Domains, HeadGet, At, Goto, locals
<1>4. CASE (\E d \in Dev \cup {Clone} : Open(p, d)) \/ DownSearch(p) \/
     Lookup(p) \/ GetOpeningSem(p) \/ Recheck(p) \/ OpenMods(p) \/ Attach(p)
  BY <1>0, <1>o, HeadAssumption, <1>d, <1>4 DEF Open, Goto, DownSearch,
     DownStdata, Lookup, GetOpeningSem, Decr, Recheck, LostRace, LostToClone,
     ReleaseOpening, Incr, PutThen, OpenMods, Attach, HoldsOpen, HeadsKnown,
     Domains, Others, At, headVars, locals, history
<1>5. CASE DriverOpens(p) \/ DownAdopt(p) \/ AdoptDev(p) \/ Autopush(p) \/
     Success(p) \/ ErrorRtn(p) \/ LastOpen(p)
  BY <1>0, <1>o, HeadAssumption, <1>d, <1>5 DEF DriverOpens, Goto, DownAdopt,
     DownStdata, AdoptDev, UpStdata, DevInUse, Autopush, Success, Incr,
     ReleaseOpening, ErrorRtn, HdLocked, Return, LastOpen, PutThen, HoldsOpen,
     HeadsKnown, Domains, Others, At, headVars, locals, history
<1>6. CASE Undo(p) \/ HeadPutRead(p) \/ HeadPutDec(p) \/ CountClose(p) \/
     MarkClose(p) \/ CloseAction(p) \/ CallReturns(p)
  BY <1>0, <1>o, HeadAssumption, <1>d, <1>6 DEF Undo, Dismantle, PutThen, Goto,
     HeadPutRead, TearDown, HeadPutDec, Decr, Freed, Return, CountClose,
     LastClose, ReleaseOpening, Incr, MarkClose, CloseAction, CallReturns,
     HoldsOpen, HeadsKnown, Domains, Others, At, headVars, locals, history
<1>7. CASE Close(p) \/ Call(p)
  BY <1>0, <1>o, HeadAssumption, <1>d, <1>7 DEF Close, Decr, Goto, Call, Incr,
     HoldsOpen, HeadsKnown, Domains, Others, At, headVars, locals, history
<1> QED
  BY <1>1, <1>2, <1>3, <1>4, <1>5, <1>6, <1>7 DEF Does, Steps

\* Who frees a head was the last to hold it, and nobody comes any more.
LEMMA TearsDownKept ==
    ASSUME IInv, NEW p \in Proc, Does(p), NEW h \in Stdata, ~Shared(h)'
    PROVE  TearsDown(h)'
<1>0. TypeOK /\ HeadsKnown /\ RefsLive(h) /\ RefsCounted(h) /\ Kept(h) /\
     TearsDown(h) /\ (h \in failed => h \in failed')
  BY SharedKept, PastKept DEF IInv, Shape, Sound
<1>o. Others(p)
  BY <1>0, OthersKept
<1>d. Domains
  BY TypeDomains DEF IInv, Shape
<1>r. ASSUME NEW q \in Proc, q # p, pc[q] = "dec", head[q] = h, tear_down[q]
      PROVE  OnlyRef(q, h)'
  <2>1. OnlyRef(q, h) /\ (HoldsOpen(p, h)' => HoldsOpen(p, h))
    BY <1>0, <1>r, HoldsNoMore DEF TearsDown
  <2> QED
    BY <1>o, <1>r, <2>1 DEF OnlyRef, HoldsOpen, Others
<1>s. h \in STRCLOSE => h \in STRCLOSE'
  BY DEF Does, Steps, Open, Goto, Interrupted, DownSearch, DownStdata,
     Allocate, NewHead, UpStdata, Lookup, HeadGet, Incr, GetOpeningSem, Decr,
     Recheck, LostRace, LostToClone, ReleaseOpening, PutThen, OpenMods, Attach,
     DriverOpens, DownAdopt, AdoptDev, DevInUse, Autopush, Success, ErrorRtn,
     HdLocked, Return, LastOpen, Undo, Dismantle, HeadPutRead, TearDown,
     HeadPutDec, Freed, CountClose, LastClose, MarkClose, CloseAction,
     CallReturns, Close, Call, At, headVars, locals, history
<1>1. CASE HeadPutRead(p)
  <2>1. CASE head[p] = h /\ TearDown(h)
    <3>1. OnlyRef(p, h) /\ HoldsOpen(p, h)
      BY <1>0, <2>1, OneReference, <1>1 DEF HeadPutRead, At, HoldsOpen
    <3>2. \A q \in Proc : ~Keeps(q, h)
      <4>1. ASSUME NEW q \in Proc, Keeps(q, h) PROVE FALSE
        <5>1. HoldsOpen(q, h)
          BY <4>1 DEF Keeps, HasFile, HoldsOpen, InOpen
        <5>2. q = p
          BY <3>1, <5>1 DEF OnlyRef
        <5> QED
          BY <2>1, <3>1, <4>1, <5>2, <1>1 DEF Keeps, HasFile, OnlyRef, InOpen, HeadPutRead, At
      <4> QED
        BY <4>1
    <3>3. h \in STRCLOSE \/ h \in failed
      BY <1>0, <3>1, <3>2 DEF Kept, RefsLive
    <3>4. OnlyRef(p, h)'
      BY <1>o, <1>d, <3>1, <1>1 DEF OnlyRef, HoldsOpen, Others, Domains, HeadPutRead, Goto
    <3> QED
      BY <1>r, <1>o, <3>3, <3>4, <1>1 DEF TearsDown, Others, HeadPutRead, headVars
  <2>2. CASE ~(head[p] = h /\ TearDown(h))
    BY <1>0, <1>r, <1>o, <1>d, <2>2, <1>1
       DEF TearsDown, Others, Domains, HeadPutRead, Goto, headVars
  <2> QED
    BY <2>1, <2>2
<1>2. CASE (\E d \in Dev \cup {Clone} : Open(p, d)) \/ Interrupted(p) \/
     DownSearch(p) \/ Allocate(p) \/ Lookup(p) \/ HeadGet(p) \/ GetOpeningSem(p)
  BY <1>0, <1>o, HeadAssumption, <1>d, <1>r, <1>s, <1>2 DEF Open, Goto,
     Interrupted, DownSearch, DownStdata, Allocate, NewHead, UpStdata, Lookup,
     HeadGet, Incr, GetOpeningSem, Decr, TearsDown, HeadsKnown, Domains, Others,
     At, headVars, locals, history
<1>3. CASE Recheck(p) \/ OpenMods(p) \/ Attach(p) \/ DriverOpens(p) \/
     DownAdopt(p) \/ AdoptDev(p) \/ Autopush(p)
  BY <1>0, <1>o, HeadAssumption, <1>d, <1>r, <1>s, <1>3 DEF Recheck, LostRace,
     LostToClone, ReleaseOpening, Incr, PutThen, Goto, OpenMods, Attach,
     DriverOpens, DownAdopt, DownStdata, AdoptDev, UpStdata, DevInUse, Autopush,
     TearsDown, HeadsKnown, Domains, Others, At, headVars, locals, history
<1>4. CASE Success(p) \/ ErrorRtn(p) \/ LastOpen(p) \/ Undo(p) \/ HeadPutDec(p)
     \/ CountClose(p) \/ MarkClose(p)
  BY <1>0, <1>o, HeadAssumption, <1>d, <1>r, <1>s, <1>4 DEF Success, Incr,
     ReleaseOpening, Goto, ErrorRtn, HdLocked, Return, LastOpen, PutThen, Undo,
     Dismantle, HeadPutDec, Decr, Freed, CountClose, LastClose, MarkClose,
     TearsDown, HeadsKnown, Domains, Others, At, headVars, locals, history
<1>5. CASE CloseAction(p) \/ CallReturns(p) \/ Close(p) \/ Call(p)
  BY <1>0, <1>o, HeadAssumption, <1>d, <1>r, <1>s, <1>5 DEF CloseAction,
     Dismantle, Incr, PutThen, Goto, CallReturns, Close, Decr, Call, TearsDown,
     HeadsKnown, Domains, Others, At, headVars, locals, history
<1> QED
  BY <1>1, <1>2, <1>3, <1>4, <1>5 DEF Does, Steps

\* lis_head_put is the only way to drop the reference of an open.
LEMMA ReferenceDropped ==
    ASSUME IInv, NEW p \in Proc, Does(p), NEW h \in Stdata, ~Shared(h)'
    PROVE  HoldsOpen(p, h) /\ ~HoldsOpen(p, h)' => (HeadPutDec(p) /\ ret[p] # "opened")
<1>0. TypeOK /\ HeadsKnown
  BY SharedKept DEF IInv, Shape, Sound
<1>o. Others(p)
  BY <1>0, OthersKept
<1>d. Domains
  BY TypeDomains DEF IInv, Shape
<1>1. CASE (\E d \in Dev \cup {Clone} : Open(p, d)) \/ Interrupted(p) \/
     DownSearch(p) \/ Allocate(p) \/ Lookup(p) \/ HeadGet(p) \/ GetOpeningSem(p)
  BY <1>0, <1>o, HeadAssumption, <1>d, <1>1 DEF Open, Goto, Interrupted,
     DownSearch, DownStdata, Allocate, NewHead, UpStdata, Lookup, HeadGet, Incr,
     GetOpeningSem, Decr, HoldsOpen, HeadsKnown, Domains, Others, At, headVars,
     locals, history
<1>2. CASE Recheck(p) \/ OpenMods(p) \/ Attach(p) \/ DriverOpens(p) \/
     DownAdopt(p) \/ AdoptDev(p) \/ Autopush(p)
  BY <1>0, <1>o, HeadAssumption, <1>d, <1>2 DEF Recheck, LostRace, LostToClone,
     ReleaseOpening, Incr, PutThen, Goto, OpenMods, Attach, DriverOpens,
     DownAdopt, DownStdata, AdoptDev, UpStdata, DevInUse, Autopush, HoldsOpen,
     HeadsKnown, Domains, Others, At, headVars, locals, history
<1>3. CASE Success(p) \/ ErrorRtn(p) \/ LastOpen(p) \/ Undo(p) \/ HeadPutRead(p)
     \/ HeadPutDec(p) \/ CountClose(p)
  BY <1>0, <1>o, HeadAssumption, <1>d, <1>3 DEF Success, Incr, ReleaseOpening,
     Goto, ErrorRtn, HdLocked, Return, LastOpen, PutThen, Undo, Dismantle,
     HeadPutRead, TearDown, HeadPutDec, Decr, Freed, CountClose, LastClose,
     HoldsOpen, HeadsKnown, Domains, Others, At, headVars, locals, history
<1>4. CASE MarkClose(p) \/ CloseAction(p) \/ CallReturns(p) \/ Close(p) \/
     Call(p)
  BY <1>0, <1>o, HeadAssumption, <1>d, <1>4 DEF MarkClose, ReleaseOpening, Incr,
     Goto, CloseAction, Dismantle, PutThen, CallReturns, Close, Decr, Call,
     HoldsOpen, HeadsKnown, Domains, Others, At, headVars, locals, history
<1> QED
  BY <1>1, <1>2, <1>3, <1>4 DEF Does, Steps

\* Who does not free the head leaves another behind.
LEMMA LeavesOneKept ==
    ASSUME IInv, NEW p \in Proc, Does(p), NEW h \in Stdata, ~Shared(h)'
    PROVE  LeavesOne(h)'
<1>0. TypeOK /\ HeadsKnown /\ OverlapOfTwo /\ RefsCounted(h) /\ LeavesOne(h)
  BY SharedKept DEF IInv, Shape, Sound
<1>o. Others(p)
  BY <1>0, OthersKept
<1>d. Domains
  BY TypeDomains DEF IInv, Shape
<1>r. ASSUME NEW q \in Proc, q # p, pc[q] = "dec", head[q] = h, ~OnlyRef(q, h)
      PROVE  ~OnlyRef(q, h)' \/ h \in overlapped
  <2>1. CASE ret[q] = "opened"
    BY <1>o, <1>r, <2>1 DEF OnlyRef, Others
  <2>2. CASE \E r \in Proc : HoldsOpen(r, h) /\ r # q
    <3>1. PICK r \in Proc : HoldsOpen(r, h) /\ r # q
      BY <2>2
    <3>2. CASE HoldsOpen(r, h)'
      BY <3>1, <3>2 DEF OnlyRef
    <3>3. CASE ~HoldsOpen(r, h)'
      <4>1. r = p
        BY <1>o, <3>1, <3>3 DEF HoldsOpen, Others
      <4>2. pc[p] = "dec" /\ head[p] = h
        BY <3>1, <3>3, <4>1, ReferenceDropped DEF HeadPutDec, At, HoldsOpen
      <4> QED
        BY <1>0, <1>r, <4>2 DEF OverlapOfTwo
    <3> QED
      BY <3>2, <3>3
  <2> QED
    BY <1>r, <2>1, <2>2 DEF OnlyRef
<1>1. CASE HeadPutRead(p)
  <2>1. \A q \in Proc : HoldsOpen(q, h)' <=> HoldsOpen(q, h)
    BY <1>o, <1>d, <1>1 DEF HoldsOpen, Others, Domains, HeadPutRead, At, Goto
  <2>2. OnlyRef(p, h)' <=> OnlyRef(p, h)
    BY <2>1, <1>1 DEF OnlyRef, HeadPutRead
  <2>3. ASSUME head[p] = h, ~TearDown(h)
        PROVE  ~OnlyRef(p, h)'
    BY <1>0, <2>2, <2>3, OneReference, <1>1 DEF HeadPutRead, At
  <2>4. overlapped \subseteq overlapped'
    BY <1>1 DEF HeadPutRead
  <2> QED
    BY <1>0, <1>r, <1>o, <1>d, <2>3, <2>4, <1>1
       DEF LeavesOne, Others, Domains, HeadPutRead, Goto
<1>2. CASE (\E d \in Dev \cup {Clone} : Open(p, d)) \/ Interrupted(p) \/
     DownSearch(p) \/ Allocate(p) \/ Lookup(p) \/ HeadGet(p) \/ GetOpeningSem(p)
  BY <1>0, <1>o, HeadAssumption, <1>d, <1>r, <1>2 DEF Open, Goto, Interrupted,
     DownSearch, DownStdata, Allocate, NewHead, UpStdata, Lookup, HeadGet, Incr,
     GetOpeningSem, Decr, LeavesOne, HeadsKnown, Domains, Others, At, headVars,
     locals, history
<1>3. CASE Recheck(p) \/ OpenMods(p) \/ Attach(p) \/ DriverOpens(p) \/
     DownAdopt(p) \/ AdoptDev(p) \/ Autopush(p)
  BY <1>0, <1>o, HeadAssumption, <1>d, <1>r, <1>3 DEF Recheck, LostRace,
     LostToClone, ReleaseOpening, Incr, PutThen, Goto, OpenMods, Attach,
     DriverOpens, DownAdopt, DownStdata, AdoptDev, UpStdata, DevInUse, Autopush,
     LeavesOne, HeadsKnown, Domains, Others, At, headVars, locals, history
<1>4. CASE Success(p) \/ ErrorRtn(p) \/ LastOpen(p) \/ Undo(p) \/ HeadPutDec(p)
     \/ CountClose(p) \/ MarkClose(p)
  BY <1>0, <1>o, HeadAssumption, <1>d, <1>r, <1>4 DEF Success, Incr,
     ReleaseOpening, Goto, ErrorRtn, HdLocked, Return, LastOpen, PutThen, Undo,
     Dismantle, HeadPutDec, Decr, Freed, CountClose, LastClose, MarkClose,
     LeavesOne, HeadsKnown, Domains, Others, At, headVars, locals, history
<1>5. CASE CloseAction(p) \/ CallReturns(p) \/ Close(p) \/ Call(p)
  BY <1>0, <1>o, HeadAssumption, <1>d, <1>r, <1>5 DEF CloseAction, Dismantle,
     Incr, PutThen, Goto, CallReturns, Close, Decr, Call, LeavesOne, HeadsKnown,
     Domains, Others, At, headVars, locals, history
<1> QED
  BY <1>1, <1>2, <1>3, <1>4, <1>5 DEF Does, Steps

\* A head is left over only where two gave it back at the same time.
LEMMA LeftOverKept ==
    ASSUME IInv, NEW p \in Proc, Does(p), NEW h \in Stdata, ~Shared(h)'
    PROVE  LeftOver(h)'
<1>0. TypeOK /\ HeadsKnown /\ LeavesOne(h) /\ LeftOver(h)
  BY SharedKept DEF IInv, Shape, Sound
<1>o. Others(p)
  BY <1>0, OthersKept
<1>d. Domains
  BY TypeDomains DEF IInv, Shape
<1>1. CASE Allocate(p)
  <2>1. PICK x \in Stdata :
             /\ alloc[x] = "unborn" /\ NewHead(x)
             /\ sd_refcnt' = [sd_refcnt EXCEPT ![x] = 1]
             /\ sd_dev' = [sd_dev EXCEPT ![x] = odev[p]]
             /\ head' = [head EXCEPT ![p] = x]
             /\ seen' = [seen EXCEPT ![x] = @ \cup {p}]
    BY <1>0, <1>1, Allocates
  <2> QED
    BY <1>0, <1>o, <1>d, <2>1, HeadAssumption, <1>1 DEF LeftOver, HoldsOpen,
       NewHead, Others, Domains, Allocate, At, Goto
<1>2. CASE HeadPutDec(p)
  <2>1. ASSUME alloc'[h] = "live", \A q \in Proc : ~HoldsOpen(q, h)'
        PROVE  h \in overlapped
    <3>1. \A q \in Proc : HoldsOpen(q, h) => q = p
      BY <1>o, <2>1 DEF HoldsOpen, Others
    <3>2. CASE HoldsOpen(p, h)
      <4>1. ret[p] # "opened" /\ pc[p] = "dec" /\ head[p] = h
        BY <2>1, <3>2, ReferenceDropped, <1>2 DEF HeadPutDec, At, HoldsOpen
      <4>2. ~tear_down[p]
        BY <1>d, <2>1, <4>1, <1>2 DEF Domains, HeadPutDec, Freed
      <4> QED
        BY <1>0, <3>1, <4>1, <4>2 DEF LeavesOne, OnlyRef
    <3>3. CASE ~HoldsOpen(p, h)
      <4>1. alloc[h] = "live"
        BY <1>d, <2>1, <1>2 DEF Domains, HeadPutDec, Freed
      <4> QED
        BY <1>0, <3>1, <3>3, <4>1 DEF LeftOver
    <3> QED
      BY <3>2, <3>3
  <2>2. overlapped' = overlapped
    BY <1>2 DEF HeadPutDec, history
  <2> QED
    BY <2>1, <2>2 DEF LeftOver
<1>3. CASE (\E d \in Dev \cup {Clone} : Open(p, d)) \/ Interrupted(p) \/
     DownSearch(p) \/ Lookup(p) \/ HeadGet(p) \/ GetOpeningSem(p) \/ Recheck(p)
  BY <1>0, <1>o, HeadAssumption, <1>d, <1>3 DEF Open, Goto, Interrupted,
     DownSearch, DownStdata, Lookup, HeadGet, Incr, UpStdata, GetOpeningSem,
     Decr, Recheck, LostRace, LostToClone, ReleaseOpening, PutThen, LeftOver,
     HoldsOpen, HeadsKnown, Domains, Others, At, headVars, locals, history
<1>4. CASE OpenMods(p) \/ Attach(p) \/ DriverOpens(p) \/ DownAdopt(p) \/
     AdoptDev(p) \/ Autopush(p) \/ Success(p)
  BY <1>0, <1>o, HeadAssumption, <1>d, <1>4 DEF OpenMods, Goto, Attach,
     DriverOpens, DownAdopt, DownStdata, AdoptDev, UpStdata, DevInUse, Autopush,
     Success, Incr, ReleaseOpening, LeftOver, HoldsOpen, HeadsKnown, Domains,
     Others, At, headVars, locals, history
<1>5. CASE ErrorRtn(p) \/ LastOpen(p) \/ Undo(p) \/ HeadPutRead(p) \/
     CountClose(p) \/ MarkClose(p) \/ CloseAction(p)
  BY <1>0, <1>o, HeadAssumption, <1>d, <1>5 DEF ErrorRtn, HdLocked,
     ReleaseOpening, Incr, Return, Goto, LastOpen, PutThen, Undo, Dismantle,
     HeadPutRead, TearDown, CountClose, LastClose, Decr, MarkClose, CloseAction,
     LeftOver, HoldsOpen, HeadsKnown, Domains, Others, At, headVars, locals,
     history
<1>6. CASE CallReturns(p) \/ Close(p) \/ Call(p)
  BY <1>0, <1>o, HeadAssumption, <1>d, <1>6 DEF CallReturns, PutThen, Goto,
     Close, Decr, Call, Incr, LeftOver, HoldsOpen, HeadsKnown, Domains, Others,
     At, headVars, locals, history
<1> QED
  BY <1>1, <1>2, <1>3, <1>4, <1>5, <1>6 DEF Does, Steps

-----------------------------------------------------------------------------
(* Every step adds a reference, drops one, or leaves them alone             *)

\* The abstract object has a holder less, one more, or is created.
RefsSame(h) == /\ References(h)' = References(h) /\ sd_refcnt'[h] = sd_refcnt[h]
               /\ alloc'[h] = alloc[h]
RefsNew(p, h) == /\ alloc[h] = "unborn" /\ alloc'[h] = "live"
                 /\ References(h) = {} /\ References(h)' = {<<p, "open">>}
                 /\ sd_refcnt'[h] = 1
RefsMore(p, h) == \E u \in {"open", "call"} :
    /\ alloc[h] = "live" /\ alloc'[h] = "live" /\ References(h) # {}
    /\ <<p, u>> \notin References(h)
    /\ References(h)' = References(h) \cup {<<p, u>>}
    /\ sd_refcnt'[h] = sd_refcnt[h] + 1
RefsFewer(p, h) == \E u \in {"open", "call"} :
    /\ alloc[h] = "live"
    /\ \/ alloc'[h] = "live"
       \/ alloc'[h] = "freed" /\ References(h) = {<<p, u>>}
    /\ <<p, u>> \in References(h)
    /\ References(h)' = References(h) \ {<<p, u>>}
    /\ sd_refcnt'[h] = sd_refcnt[h] - 1

\* The references are those of the open calls and those of the other calls.
LEMMA RefsAre ==
    ASSUME NEW h \in Stdata, NEW x
    PROVE  /\ x \in References(h) <=>
                \E q \in Proc : \/ x = <<q, "open">> /\ HoldsOpen(q, h)
                                \/ x = <<q, "call">> /\ HoldsCall(q, h)
           /\ x \in References(h)' <=>
                \E q \in Proc : \/ x = <<q, "open">> /\ HoldsOpen(q, h)'
                                \/ x = <<q, "call">> /\ HoldsCall(q, h)'
  BY DEF References

\* References stay the same when nobody's holdings change.
LEMMA RefsStay ==
    ASSUME NEW h \in Stdata,
           \A q \in Proc : /\ HoldsOpen(q, h)' <=> HoldsOpen(q, h)
                           /\ HoldsCall(q, h)' <=> HoldsCall(q, h)
    PROVE  References(h)' = References(h)
  BY DEF References

\* Only p changes what it holds of h.
HoldsSame(q, h) == /\ HoldsOpen(q, h)' <=> HoldsOpen(q, h)
                   /\ HoldsCall(q, h)' <=> HoldsCall(q, h)
OthersHold(p, h) == \A q \in Proc : q # p => HoldsSame(q, h)

\* What is taken is added to the references, what is given back is removed.
LEMMA OpenTaken ==
    ASSUME NEW p \in Proc, NEW h \in Stdata, OthersHold(p, h),
           ~HoldsOpen(p, h), HoldsOpen(p, h)', HoldsCall(p, h)' <=> HoldsCall(p, h)
    PROVE  /\ <<p, "open">> \notin References(h)
           /\ References(h)' = References(h) \cup {<<p, "open">>}
<1>1. <<p, "open">> \notin References(h)
  BY RefsAre
<1>2. ASSUME NEW x PROVE x \in References(h)' <=> x \in References(h) \cup {<<p, "open">>}
  <2>1. CASE x \in References(h) \cup {<<p, "open">>}
    BY <2>1, RefsAre DEF OthersHold, HoldsSame
  <2>2. CASE x \in References(h)'
    BY <2>2, RefsAre DEF OthersHold, HoldsSame
  <2> QED
    BY <2>1, <2>2
<1> QED
  BY <1>1, <1>2

\* The same for the reference of a call,
LEMMA CallTaken ==
    ASSUME NEW p \in Proc, NEW h \in Stdata, OthersHold(p, h),
           ~HoldsCall(p, h), HoldsCall(p, h)', HoldsOpen(p, h)' <=> HoldsOpen(p, h)
    PROVE  /\ <<p, "call">> \notin References(h)
           /\ References(h)' = References(h) \cup {<<p, "call">>}
<1>1. <<p, "call">> \notin References(h)
  BY RefsAre
<1>2. ASSUME NEW x PROVE x \in References(h)' <=> x \in References(h) \cup {<<p, "call">>}
  <2>1. CASE x \in References(h) \cup {<<p, "call">>}
    BY <2>1, RefsAre DEF OthersHold, HoldsSame
  <2>2. CASE x \in References(h)'
    BY <2>2, RefsAre DEF OthersHold, HoldsSame
  <2> QED
    BY <2>1, <2>2
<1> QED
  BY <1>1, <1>2

\* and for a reference given back.
LEMMA OpenDropped ==
    ASSUME NEW p \in Proc, NEW h \in Stdata, OthersHold(p, h),
           HoldsOpen(p, h), ~HoldsOpen(p, h)', HoldsCall(p, h)' <=> HoldsCall(p, h)
    PROVE  /\ <<p, "open">> \in References(h)
           /\ References(h)' = References(h) \ {<<p, "open">>}
<1>1. <<p, "open">> \in References(h)
  BY RefsAre
<1>2. ASSUME NEW x PROVE x \in References(h)' <=> x \in References(h) \ {<<p, "open">>}
  <2>1. CASE x \in References(h) \ {<<p, "open">>}
    BY <2>1, RefsAre DEF OthersHold, HoldsSame
  <2>2. CASE x \in References(h)'
    BY <2>2, RefsAre DEF OthersHold, HoldsSame
  <2> QED
    BY <2>1, <2>2
<1> QED
  BY <1>1, <1>2

\* The same for that of a call.
LEMMA CallDropped ==
    ASSUME NEW p \in Proc, NEW h \in Stdata, OthersHold(p, h),
           HoldsCall(p, h), ~HoldsCall(p, h)', HoldsOpen(p, h)' <=> HoldsOpen(p, h)
    PROVE  /\ <<p, "call">> \in References(h)
           /\ References(h)' = References(h) \ {<<p, "call">>}
<1>1. <<p, "call">> \in References(h)
  BY RefsAre
<1>2. ASSUME NEW x PROVE x \in References(h)' <=> x \in References(h) \ {<<p, "call">>}
  <2>1. CASE x \in References(h) \ {<<p, "call">>}
    BY <2>1, RefsAre DEF OthersHold, HoldsSame
  <2>2. CASE x \in References(h)'
    BY <2>2, RefsAre DEF OthersHold, HoldsSame
  <2> QED
    BY <2>1, <2>2
<1> QED
  BY <1>1, <1>2

\* The other steps take no reference and drop none.
LEMMA HoldingsKept ==
    ASSUME IInv, NEW p \in Proc, Does(p), NEW h \in Stdata, ~Shared(h)'
    PROVE  Allocate(p) \/ HeadGet(p) \/ HeadPutDec(p) \/ Call(p) \/ ((HoldsOpen(p, h)' <=> HoldsOpen(p, h)) /\ (HoldsCall(p, h)' <=> HoldsCall(p, h)))
<1>0. TypeOK /\ HeadsKnown /\ Clean /\ LostToOther /\ RefsLive(h) /\
     FoundLives(h) /\ Kept(h) /\ TearsDown(h) /\ (h \in failed' => \A q, r \in
     seen'[h] : q = r)
  BY SharedKept DEF IInv, Shape, Sound
<1>o. Others(p)
  BY <1>0, OthersKept
<1>d. Domains
  BY TypeDomains DEF IInv, Shape
<1>1. CASE Interrupted(p)
  <2>1. ~HoldsCall(p, h) /\ ~HoldsCall(p, h)'
    BY <1>d, <1>1 DEF HoldsCall, Domains, Interrupted, At, Goto
  <2>2. HoldsOpen(p, h) => HoldsOpen(p, h)'
    BY <1>d, <1>1 DEF HoldsOpen, Domains, Interrupted, At, Goto, locals
  <2>3. ASSUME HoldsOpen(p, h)', ~HoldsOpen(p, h) PROVE FALSE
    <3>1. head[p] = h /\ pc[p] \in {"start", "search"} /\ h \in failed'
      BY <1>d, <2>3, HeadAssumption, <1>1
         DEF HoldsOpen, Domains, Interrupted, At, Goto, locals
    <3>2. SeenByOther(p) /\ p \in seen[h] /\ seen' = seen
      BY <1>0, <3>1, HeadAssumption, <1>1 DEF LostToOther, HeadsKnown, Interrupted
    <3> QED
      BY <1>0, <3>1, <3>2 DEF SeenByOther
  <2> QED
    BY <2>1, <2>2, <2>3
<1>2. CASE (\E d \in Dev \cup {Clone} : Open(p, d)) \/ DownSearch(p) \/
     Allocate(p) \/ Lookup(p) \/ HeadGet(p) \/ GetOpeningSem(p) \/ Recheck(p)
  BY <1>0, <1>o, HeadAssumption, <1>d, <1>2 DEF Open, Goto, DownSearch,
     DownStdata, Allocate, NewHead, UpStdata, Lookup, HeadGet, Incr,
     GetOpeningSem, Decr, Recheck, LostRace, LostToClone, ReleaseOpening,
     PutThen, HoldsOpen, HoldsCall, HeadsKnown, Domains, Others, At, headVars,
     locals, history
<1>3. CASE OpenMods(p) \/ Attach(p) \/ DriverOpens(p) \/ DownAdopt(p) \/
     AdoptDev(p) \/ Autopush(p) \/ Success(p)
  BY <1>0, <1>o, HeadAssumption, <1>d, <1>3 DEF OpenMods, Goto, Attach,
     DriverOpens, DownAdopt, DownStdata, AdoptDev, UpStdata, DevInUse, Autopush,
     Success, Incr, ReleaseOpening, HoldsOpen, HoldsCall, HeadsKnown, Domains,
     Others, At, headVars, locals, history
<1>4. CASE ErrorRtn(p) \/ LastOpen(p) \/ Undo(p) \/ HeadPutRead(p) \/
     HeadPutDec(p) \/ CountClose(p) \/ MarkClose(p)
  BY <1>0, <1>o, HeadAssumption, <1>d, <1>4 DEF ErrorRtn, HdLocked,
     ReleaseOpening, Incr, Return, Goto, LastOpen, PutThen, Undo, Dismantle,
     HeadPutRead, TearDown, HeadPutDec, Decr, Freed, CountClose, LastClose,
     MarkClose, HoldsOpen, HoldsCall, HeadsKnown, Domains, Others, At, headVars,
     locals, history
<1>5. CASE CloseAction(p) \/ CallReturns(p) \/ Close(p) \/ Call(p)
  BY <1>0, <1>o, HeadAssumption, <1>d, <1>5 DEF CloseAction, Dismantle, Incr,
     PutThen, Goto, CallReturns, Close, Decr, Call, HoldsOpen, HoldsCall,
     HeadsKnown, Domains, Others, At, headVars, locals, history
<1> QED
  BY <1>1, <1>2, <1>3, <1>4, <1>5 DEF Does, Steps

\* What a step does to the references of a head, it does to sd_refcnt.
LEMMA RefsStep ==
    ASSUME IInv, NEW p \in Proc, Does(p), NEW h \in Stdata, ~Shared(h)'
    PROVE  RefsSame(h) \/ RefsNew(p, h) \/ RefsMore(p, h) \/ RefsFewer(p, h)
<1>0. TypeOK /\ HeadsKnown /\ Clean /\ LostToOther /\ RefsLive(h) /\
     FoundLives(h) /\ Kept(h) /\ TearsDown(h) /\ (h \in failed' => \A q, r \in
     seen'[h] : q = r)
  BY SharedKept DEF IInv, Shape, Sound
<1>o. Others(p)
  BY <1>0, OthersKept
<1>d. Domains
  BY TypeDomains DEF IInv, Shape
<1>1. CASE Allocate(p)
  <2>1. PICK x \in Stdata :
             /\ alloc[x] = "unborn" /\ NewHead(x)
             /\ sd_refcnt' = [sd_refcnt EXCEPT ![x] = 1]
             /\ sd_dev' = [sd_dev EXCEPT ![x] = odev[p]]
             /\ head' = [head EXCEPT ![p] = x]
             /\ seen' = [seen EXCEPT ![x] = @ \cup {p}]
    BY <1>0, <1>1, Allocates
  <2>2. pc[p] = "search" /\ pc'[p] = "opening"
    BY <1>d, <1>1 DEF Allocate, At, Domains, Goto
  <2>3. CASE x = h
    <3>1. \A q \in Proc : head[q] # h
      BY <1>0, <2>1, <2>3 DEF Clean
    <3>2. \A q \in Proc : q # p => ~HoldsOpen(q, h)' /\ ~HoldsCall(q, h)'
      BY <1>o, <3>1 DEF Others, HoldsOpen, HoldsCall
    <3>3. HoldsOpen(p, h)' /\ ~HoldsCall(p, h)'
      BY <1>d, <2>1, <2>2, <2>3 DEF HoldsOpen, HoldsCall, Domains
    <3>4. References(h)' = {<<p, "open">>}
      BY <3>2, <3>3 DEF References
    <3>5. References(h) = {}
      BY <3>1 DEF References, HoldsOpen, HoldsCall
    <3> QED
      BY <1>d, <2>1, <2>3, <3>4, <3>5 DEF RefsNew, NewHead, Domains
  <2>4. CASE x # h
    <3>1. \A q \in Proc : /\ HoldsOpen(q, h)' <=> HoldsOpen(q, h)
                          /\ HoldsCall(q, h)' <=> HoldsCall(q, h)
      BY <1>o, <1>d, <2>1, <2>2, <2>4 DEF Others, HoldsOpen, HoldsCall, Domains
    <3>2. sd_refcnt'[h] = sd_refcnt[h] /\ alloc'[h] = alloc[h]
      BY <1>d, <2>1, <2>4 DEF Domains, NewHead
    <3> QED
      BY <3>1, <3>2, RefsStay DEF RefsSame
  <2> QED
    BY <2>3, <2>4
<1>2. CASE HeadGet(p)
  <2>1. pc[p] = "get" /\ pc'[p] = "opening" /\ head' = head /\ ret' = ret
    BY <1>d, <1>2 DEF HeadGet, At, Domains, Goto, locals
  <2>2. CASE head[p] = h
    <3>1. alloc[h] = "live" /\ alloc'[h] = "live" /\ References(h) # {}
      <4>1. PICK q \in Proc : Keeps(q, h)
        BY <1>0, <2>1, <2>2 DEF FoundLives, Kept
      <4>2. HoldsOpen(q, h)
        BY <4>1 DEF Keeps, HasFile, HoldsOpen, InOpen
      <4>3. <<q, "open">> \in References(h)
        BY <4>2, RefsAre
      <4>4. alloc[h] = "live" /\ alloc' = alloc
        BY <1>0, <2>1, <2>2, <1>2 DEF FoundLives, HeadGet
      <4> QED
        BY <4>3, <4>4
    <3>2. ~HoldsOpen(p, h) /\ HoldsOpen(p, h)' /\ ~HoldsCall(p, h) /\ ~HoldsCall(p, h)'
      BY <2>1, <2>2 DEF HoldsOpen, HoldsCall
    <3>3. \A q \in Proc : q # p => /\ HoldsOpen(q, h)' <=> HoldsOpen(q, h)
                                   /\ HoldsCall(q, h)' <=> HoldsCall(q, h)
      BY <1>o DEF Others, HoldsOpen, HoldsCall
    <3>4. /\ <<p, "open">> \notin References(h)
          /\ References(h)' = References(h) \cup {<<p, "open">>}
      BY <3>2, <3>3, OpenTaken DEF OthersHold, HoldsSame
    <3>5. sd_refcnt'[h] = sd_refcnt[h] + 1
      BY <1>d, <2>2, <1>2 DEF Domains, HeadGet, Incr
    <3> QED
      BY <3>1, <3>4, <3>5 DEF RefsMore
  <2>3. CASE head[p] # h
    <3>1. \A q \in Proc : /\ HoldsOpen(q, h)' <=> HoldsOpen(q, h)
                          /\ HoldsCall(q, h)' <=> HoldsCall(q, h)
      BY <1>o, <2>1, <2>3 DEF Others, HoldsOpen, HoldsCall
    <3>2. sd_refcnt'[h] = sd_refcnt[h] /\ alloc' = alloc
      BY <1>d, <2>3, <1>2 DEF Domains, HeadGet, Incr
    <3> QED
      BY <3>1, <3>2, RefsStay DEF RefsSame
  <2> QED
    BY <2>2, <2>3
<1>3. CASE HeadPutDec(p)
  <2>1. pc[p] = "dec" /\ pc'[p] = ret[p] /\ ret' = ret
    BY <1>d, <1>3 DEF HeadPutDec, At, Domains, Goto
  <2>2. CASE head[p] = h
    <3>1. alloc[h] = "live"
      BY <1>0, <2>1, <2>2 DEF RefsLive, HoldsOpen
    <3>6. \/ alloc'[h] = "live"
          \/ alloc'[h] = "freed" /\ ret[p] # "opened" /\ References(h) = {<<p, "open">>}
      <4>1. CASE tear_down[p]
        <5>1. OnlyRef(p, h) /\ HoldsOpen(p, h)
          BY <1>0, <2>1, <2>2, <4>1 DEF TearsDown, HoldsOpen
        <5>2. ASSUME NEW x PROVE x \in References(h) <=> x = <<p, "open">>
          <6>1. \A q \in Proc : /\ HoldsOpen(q, h) <=> q = p
                             /\ ~HoldsCall(q, h)
            BY <2>1, <5>1 DEF OnlyRef, HoldsOpen, HoldsCall
          <6> QED
            BY <6>1, RefsAre
        <5>3. alloc'[h] = "freed"
          BY <1>d, <2>2, <4>1, <1>3 DEF Domains, HeadPutDec, Freed
        <5> QED
          BY <5>1, <5>2, <5>3 DEF OnlyRef
      <4>2. CASE ~tear_down[p]
        BY <3>1, <4>2, <1>3 DEF HeadPutDec
      <4> QED
        BY <4>1, <4>2
    <3>2. sd_refcnt'[h] = sd_refcnt[h] - 1
      BY <1>d, <2>2, <1>3 DEF Domains, HeadPutDec, Decr
    <3>3. \A q \in Proc : q # p => /\ HoldsOpen(q, h)' <=> HoldsOpen(q, h)
                                   /\ HoldsCall(q, h)' <=> HoldsCall(q, h)
      BY <1>o DEF Others, HoldsOpen, HoldsCall
    <3>4. CASE ret[p] = "opened"
      <4>1. HoldsOpen(p, h) /\ HoldsOpen(p, h)' /\ HoldsCall(p, h) /\ ~HoldsCall(p, h)'
        BY <2>1, <2>2, <3>4, <1>3 DEF HoldsOpen, HoldsCall, HeadPutDec
      <4>2. /\ <<p, "call">> \in References(h)
            /\ References(h)' = References(h) \ {<<p, "call">>}
        BY <3>3, <4>1, CallDropped DEF OthersHold, HoldsSame
      <4> QED
        BY <3>1, <3>2, <3>4, <3>6, <4>2 DEF RefsFewer
    <3>5. CASE ret[p] # "opened"
      <4>1. HoldsOpen(p, h) /\ ~HoldsOpen(p, h)' /\ ~HoldsCall(p, h) /\ ~HoldsCall(p, h)'
        BY <1>d, <2>1, <2>2, <3>5 DEF HoldsOpen, HoldsCall, Domains
      <4>2. /\ <<p, "open">> \in References(h)
            /\ References(h)' = References(h) \ {<<p, "open">>}
        BY <3>3, <4>1, OpenDropped DEF OthersHold, HoldsSame
      <4> QED
        BY <3>1, <3>2, <3>5, <3>6, <4>2 DEF RefsFewer
    <3> QED
      BY <3>4, <3>5
  <2>3. CASE head[p] # h
    <3>1. head'[p] # h
      BY <1>d, <2>3, HeadAssumption, <1>3 DEF HeadPutDec, Return, Domains
    <3>2. \A q \in Proc : /\ HoldsOpen(q, h)' <=> HoldsOpen(q, h)
                          /\ HoldsCall(q, h)' <=> HoldsCall(q, h)
      BY <1>o, <2>3, <3>1 DEF Others, HoldsOpen, HoldsCall
    <3>3. sd_refcnt'[h] = sd_refcnt[h] /\ alloc'[h] = alloc[h]
      BY <1>d, <2>3, <1>3 DEF Domains, HeadPutDec, Decr, Freed
    <3> QED
      BY <3>2, <3>3, RefsStay DEF RefsSame
  <2> QED
    BY <2>2, <2>3
<1>4. CASE Call(p)
  <2>1. pc[p] = "opened" /\ pc'[p] = "call" /\ head' = head /\ ret' = ret
    BY <1>d, <1>4 DEF Call, At, Domains, Goto, locals
  <2>2. CASE head[p] = h
    <3>1. alloc[h] = "live" /\ alloc'[h] = "live" /\ References(h) # {}
      <4>1. HoldsOpen(p, h)
        BY <2>1, <2>2 DEF HoldsOpen
      <4>2. <<p, "open">> \in References(h)
        BY <4>1, RefsAre
      <4>3. alloc[h] = "live" /\ alloc' = alloc
        BY <1>0, <4>1, <1>4 DEF RefsLive, Call
      <4> QED
        BY <4>2, <4>3
    <3>2. HoldsOpen(p, h) /\ HoldsOpen(p, h)' /\ ~HoldsCall(p, h) /\ HoldsCall(p, h)'
      BY <2>1, <2>2 DEF HoldsOpen, HoldsCall
    <3>3. \A q \in Proc : q # p => /\ HoldsOpen(q, h)' <=> HoldsOpen(q, h)
                                   /\ HoldsCall(q, h)' <=> HoldsCall(q, h)
      BY <1>o DEF Others, HoldsOpen, HoldsCall
    <3>4. /\ <<p, "call">> \notin References(h)
          /\ References(h)' = References(h) \cup {<<p, "call">>}
      BY <3>2, <3>3, CallTaken DEF OthersHold, HoldsSame
    <3>5. sd_refcnt'[h] = sd_refcnt[h] + 1
      BY <1>d, <2>2, <1>4 DEF Domains, Call, Incr
    <3> QED
      BY <3>1, <3>4, <3>5 DEF RefsMore
  <2>3. CASE head[p] # h
    <3>1. \A q \in Proc : /\ HoldsOpen(q, h)' <=> HoldsOpen(q, h)
                          /\ HoldsCall(q, h)' <=> HoldsCall(q, h)
      BY <1>o, <2>1, <2>3 DEF Others, HoldsOpen, HoldsCall
    <3>2. sd_refcnt'[h] = sd_refcnt[h] /\ alloc' = alloc
      BY <1>d, <2>3, <1>4 DEF Domains, Call, Incr
    <3> QED
      BY <3>1, <3>2, RefsStay DEF RefsSame
  <2> QED
    BY <2>2, <2>3
<1>5. CASE ~Allocate(p) /\ ~HeadGet(p) /\ ~HeadPutDec(p) /\ ~Call(p)
  <2>1. \A q \in Proc : /\ HoldsOpen(q, h)' <=> HoldsOpen(q, h)
                        /\ HoldsCall(q, h)' <=> HoldsCall(q, h)
    BY <1>o, <1>5, HoldingsKept DEF Others, HoldsOpen, HoldsCall
  <2>2. sd_refcnt' = sd_refcnt /\ alloc' = alloc
    BY <1>5 DEF Does, Steps, Open, Goto, Interrupted, DownSearch, DownStdata,
       Lookup, GetOpeningSem, Decr, Recheck, LostRace, LostToClone,
       ReleaseOpening, Incr, PutThen, OpenMods, Attach, DriverOpens, DownAdopt,
       AdoptDev, UpStdata, DevInUse, Autopush, Success, ErrorRtn, HdLocked,
       Return, LastOpen, Undo, Dismantle, HeadPutRead, TearDown, CountClose,
       LastClose, MarkClose, CloseAction, CallReturns, Close, At, headVars,
       locals, history
  <2> QED
    BY <2>1, <2>2, RefsStay DEF RefsSame
<1> QED
  BY <1>1, <1>2, <1>3, <1>4, <1>5

\* sd_refcnt counts the references.
LEMMA RefsCountedKept ==
    ASSUME IInv, NEW p \in Proc, Does(p), NEW h \in Stdata, ~Shared(h)'
    PROVE  RefsCounted(h)'
<1>0. RefsCounted(h) /\ IsFiniteSet(References(h)) /\ Cardinality(References(h)) \in Nat
  BY SharedKept, RefsFinite DEF Sound
<1>1. CASE RefsSame(h)
  BY <1>0, <1>1 DEF RefsCounted, RefsSame
<1>2. CASE RefsNew(p, h)
  <2>1. Cardinality({<<p, "open">>}) = 1
    BY FS_Singleton
  <2> QED
    BY <1>2, <2>1 DEF RefsCounted, RefsNew
<1>3. CASE RefsMore(p, h)
  <2>1. PICK u \in {"open", "call"} :
           /\ <<p, u>> \notin References(h)
           /\ References(h)' = References(h) \cup {<<p, u>>}
           /\ sd_refcnt'[h] = sd_refcnt[h] + 1
    BY <1>3 DEF RefsMore
  <2>2. Cardinality(References(h) \cup {<<p, u>>}) = Cardinality(References(h)) + 1
    BY <1>0, <2>1, FS_AddElement
  <2> QED
    BY <1>0, <2>1, <2>2 DEF RefsCounted
<1>4. CASE RefsFewer(p, h)
  <2>1. PICK u \in {"open", "call"} :
           /\ <<p, u>> \in References(h)
           /\ References(h)' = References(h) \ {<<p, u>>}
           /\ sd_refcnt'[h] = sd_refcnt[h] - 1
    BY <1>4 DEF RefsFewer
  <2>2. Cardinality(References(h) \ {<<p, u>>}) = Cardinality(References(h)) - 1
    BY <1>0, <2>1, FS_RemoveElement
  <2> QED
    BY <1>0, <2>1, <2>2 DEF RefsCounted
<1> QED
  BY <1>1, <1>2, <1>3, <1>4, RefsStep

\* sd_opencnt counts the files: lis_stropen adds one, lis_doclose removes one.
FilesSame(h) == Files(h)' = Files(h) /\ sd_opencnt'[h] = sd_opencnt[h]
FilesMore(p, h) == /\ p \notin Files(h) /\ Files(h)' = Files(h) \cup {p}
                   /\ sd_opencnt'[h] = sd_opencnt[h] + 1
FilesFewer(p, h) == /\ p \in Files(h) /\ Files(h)' = Files(h) \ {p}
                    /\ sd_opencnt'[h] = sd_opencnt[h] - 1

\* Only these two change who has a file.
LEMMA FileKept ==
    ASSUME IInv, NEW p \in Proc, Does(p), NEW h \in Stdata, ~Shared(h)'
    PROVE  Success(p) \/ CountClose(p) \/ (HasFile(p, h)' <=> HasFile(p, h))
<1>0. TypeOK /\ HeadsKnown /\ Clean
  BY SharedKept DEF IInv, Shape, Sound
<1>o. Others(p)
  BY <1>0, OthersKept
<1>d. Domains
  BY TypeDomains DEF IInv, Shape
<1>1. CASE Allocate(p)
  <2>1. PICK x \in Stdata :
             /\ alloc[x] = "unborn" /\ NewHead(x)
             /\ sd_refcnt' = [sd_refcnt EXCEPT ![x] = 1]
             /\ sd_dev' = [sd_dev EXCEPT ![x] = odev[p]]
             /\ head' = [head EXCEPT ![p] = x]
             /\ seen' = [seen EXCEPT ![x] = @ \cup {p}]
    BY <1>0, <1>1, Allocates
  <2> QED
    BY <1>0, <1>o, <1>d, <2>1, HeadAssumption, <1>1 DEF HasFile, NewHead, Others,
       Domains, Allocate, At, Goto
<1>2. CASE Lookup(p)
  <2>1. PICK x \in Stdata :
             /\ alloc[x] = "live" /\ x \notin STRCLOSE /\ sd_dev[x] = odev[p]
             /\ head' = [head EXCEPT ![p] = x]
             /\ seen' = [seen EXCEPT ![x] = @ \cup {p}]
    BY <1>0, <1>2, LooksUp
  <2> QED
    BY <1>0, <1>o, <1>d, <2>1, HeadAssumption, <1>2 DEF HasFile, Others, Domains,
       Lookup, At, Goto, headVars
<1>3. CASE (\E d \in Dev \cup {Clone} : Open(p, d)) \/ Interrupted(p) \/
     DownSearch(p) \/ HeadGet(p) \/ GetOpeningSem(p) \/ Recheck(p) \/
     OpenMods(p)
  BY <1>0, <1>o, HeadAssumption, <1>d, <1>3 DEF Open, Goto, Interrupted,
     DownSearch, DownStdata, HeadGet, Incr, UpStdata, GetOpeningSem, Decr,
     Recheck, LostRace, LostToClone, ReleaseOpening, PutThen, OpenMods, HasFile,
     HeadsKnown, Domains, Others, At, headVars, locals, history
<1>4. CASE Attach(p) \/ DriverOpens(p) \/ DownAdopt(p) \/ AdoptDev(p) \/
     Autopush(p) \/ Success(p) \/ ErrorRtn(p)
  BY <1>0, <1>o, HeadAssumption, <1>d, <1>4 DEF Attach, Goto, DriverOpens,
     DownAdopt, DownStdata, AdoptDev, UpStdata, DevInUse, Autopush, Success,
     Incr, ReleaseOpening, ErrorRtn, HdLocked, Return, HasFile, HeadsKnown,
     Domains, Others, At, headVars, locals, history
<1>5. CASE LastOpen(p) \/ Undo(p) \/ HeadPutRead(p) \/ HeadPutDec(p) \/
     CountClose(p) \/ MarkClose(p) \/ CloseAction(p)
  BY <1>0, <1>o, HeadAssumption, <1>d, <1>5 DEF LastOpen, PutThen, Goto, Undo,
     Dismantle, HeadPutRead, TearDown, HeadPutDec, Decr, Freed, Return,
     CountClose, LastClose, ReleaseOpening, Incr, MarkClose, CloseAction,
     HasFile, HeadsKnown, Domains, Others, At, headVars, locals, history
<1>6. CASE CallReturns(p) \/ Close(p) \/ Call(p)
  BY <1>0, <1>o, HeadAssumption, <1>d, <1>6 DEF CallReturns, PutThen, Goto,
     Close, Decr, Call, Incr, HasFile, HeadsKnown, Domains, Others, At,
     headVars, locals, history
<1> QED
  BY <1>1, <1>2, <1>3, <1>4, <1>5, <1>6 DEF Does, Steps

\* What a step does to the files of a head, it does to sd_opencnt.
LEMMA FilesStep ==
    ASSUME IInv, NEW p \in Proc, Does(p), NEW h \in Stdata, ~Shared(h)'
    PROVE  FilesSame(h) \/ FilesMore(p, h) \/ FilesFewer(p, h)
<1>0. TypeOK /\ HeadsKnown /\ OpenCounted(h) /\ FilesKnown(h)
  BY SharedKept, FilesAreKnown DEF IInv, Shape, Sound
<1>o. Others(p)
  BY <1>0, OthersKept
<1>d. Domains
  BY TypeDomains DEF IInv, Shape
<1>1. CASE Success(p)
  <2>1. \A q \in Proc : q # p => (HasFile(q, h)' <=> HasFile(q, h))
    BY <1>o DEF HasFile, Others
  <2>2. CASE head[p] = h
    <3>1. ~HasFile(p, h) /\ HasFile(p, h)'
      BY <1>d, <2>2, <1>1 DEF HasFile, Domains, Success, At, Goto, PutThen, locals
    <3>2. sd_opencnt'[h] = sd_opencnt[h] + 1
      BY <1>0, <1>d, <2>2, <3>1, <1>1 DEF Domains, Success, Incr, Decr, FilesKnown
    <3>3. p \notin Files(h) /\ Files(h)' = Files(h) \cup {p}
      BY <2>1, <3>1 DEF Files
    <3> QED
      BY <3>2, <3>3 DEF FilesMore
  <2>3. CASE head[p] # h
    <3>1. HasFile(p, h)' <=> HasFile(p, h)
      BY <1>d, <2>3, <1>1 DEF HasFile, Domains, Success, At, Goto, locals
    <3>2. sd_opencnt'[h] = sd_opencnt[h]
      BY <1>d, <2>3, <1>1 DEF Domains, Success, Incr, Decr
    <3> QED
      BY <2>1, <3>1, <3>2 DEF Files, FilesSame
  <2> QED
    BY <2>2, <2>3
<1>2. CASE CountClose(p)
  <2>1. \A q \in Proc : q # p => (HasFile(q, h)' <=> HasFile(q, h))
    BY <1>o DEF HasFile, Others
  <2>2. CASE head[p] = h
    <3>1. HasFile(p, h) /\ ~HasFile(p, h)'
      BY <1>d, <2>2, <1>2 DEF HasFile, Domains, CountClose, At, Goto, PutThen, locals
    <3>2. sd_opencnt'[h] = sd_opencnt[h] - 1
      BY <1>0, <1>d, <2>2, <3>1, <1>2 DEF Domains, CountClose, Incr, Decr, FilesKnown
    <3>3. p \in Files(h) /\ Files(h)' = Files(h) \ {p}
      BY <2>1, <3>1 DEF Files
    <3> QED
      BY <3>2, <3>3 DEF FilesFewer
  <2>3. CASE head[p] # h
    <3>1. HasFile(p, h)' <=> HasFile(p, h)
      BY <1>d, <2>3, <1>2 DEF HasFile, Domains, CountClose, At, Goto, locals
    <3>2. sd_opencnt'[h] = sd_opencnt[h]
      BY <1>d, <2>3, <1>2 DEF Domains, CountClose, Incr, Decr
    <3> QED
      BY <2>1, <3>1, <3>2 DEF Files, FilesSame
  <2> QED
    BY <2>2, <2>3
<1>3. CASE ~Success(p) /\ ~CountClose(p)
  <2>1. \A q \in Proc : HasFile(q, h)' <=> HasFile(q, h)
    BY <1>o, <1>3, FileKept DEF Others, HasFile
  <2>2. sd_opencnt' = sd_opencnt
    BY <1>3 DEF Does, Steps, Open, Goto, Interrupted, DownSearch, DownStdata,
       Allocate, NewHead, UpStdata, Lookup, HeadGet, Incr, GetOpeningSem, Decr,
       Recheck, LostRace, LostToClone, ReleaseOpening, PutThen, OpenMods,
       Attach, DriverOpens, DownAdopt, AdoptDev, DevInUse, Autopush, ErrorRtn,
       HdLocked, Return, LastOpen, Undo, Dismantle, HeadPutRead, TearDown,
       HeadPutDec, Freed, MarkClose, CloseAction, CallReturns, Close, Call, At,
       headVars, locals, history
  <2> QED
    BY <2>1, <2>2 DEF Files, FilesSame
<1> QED
  BY <1>1, <1>2, <1>3

\* So sd_opencnt stays the number of files.
LEMMA OpenCountedKept ==
    ASSUME IInv, NEW p \in Proc, Does(p), NEW h \in Stdata, ~Shared(h)'
    PROVE  OpenCounted(h)'
<1>0. OpenCounted(h) /\ IsFiniteSet(Files(h)) /\ Cardinality(Files(h)) \in Nat
  BY SharedKept, FilesFinite DEF Sound
<1>1. CASE FilesSame(h)
  BY <1>0, <1>1 DEF OpenCounted, FilesSame
<1>2. CASE FilesMore(p, h)
  <2>1. Cardinality(Files(h) \cup {p}) = Cardinality(Files(h)) + 1
    BY <1>0, <1>2, FS_AddElement DEF FilesMore
  <2> QED
    BY <1>0, <1>2, <2>1 DEF OpenCounted, FilesMore
<1>3. CASE FilesFewer(p, h)
  <2>1. Cardinality(Files(h) \ {p}) = Cardinality(Files(h)) - 1
    BY <1>0, <1>3, FS_RemoveElement DEF FilesFewer
  <2> QED
    BY <1>0, <1>3, <2>1 DEF OpenCounted, FilesFewer
<1> QED
  BY <1>1, <1>2, <1>3, FilesStep

-----------------------------------------------------------------------------
(* The invariant                                                           *)

\* A step that changes nothing keeps the invariant,
LEMMA Stutters == IInv /\ UNCHANGED vars => IInv'
<1> SUFFICES ASSUME IInv, UNCHANGED vars PROVE IInv'
  OBVIOUS
<1>1. UNCHANGED <<lis_stdata_sem, alloc, sd_refcnt, sd_opencnt, sd_dev, sd_opening, STRCLOSE,
                  driver, sd_rq, pc, head, odev, ndev, existing_head, hd_locked, tear_down,
                  ret, opens, uses, failed, seen, overlapped, closings>>
  BY DEF vars, headVars, locals, history
<1>2. Shape'
  <2>1. TypeOK' /\ StdataHeld' /\ OpeningHeld'
    BY <1>1 DEF IInv, Shape, TypeOK, StdataHeld, HasStdata, OpeningHeld, HasOpening
  <2>2. LocksNoted' /\ HeadsKnown' /\ Clean'
    BY <1>1 DEF IInv, Shape, LocksNoted, Retries, HeadsKnown, Clean
  <2>3. LostToOther' /\ OverlapOfTwo' /\ OneFound'
    BY <1>1 DEF IInv, Shape, LostToOther, SeenByOther, Retries, OverlapOfTwo, OneFound
  <2> QED
    BY <2>1, <2>2, <2>3 DEF Shape
<1>3. ASSUME NEW h \in Stdata, ~Shared(h)'
      PROVE  Sound(h)'
  <2>0. Sound(h)
    BY <1>1, <1>3 DEF IInv, Shared
  <2>1. References(h)' = References(h) /\ Files(h)' = Files(h)
    BY <1>1 DEF References, HoldsOpen, HoldsCall, Files, HasFile
  <2>2. RefsLive(h)' /\ RefsCounted(h)' /\ OpenCounted(h)'
    BY <1>1, <2>0, <2>1 DEF Sound, RefsLive, HoldsOpen, RefsCounted, OpenCounted
  <2>3. FilesWhole(h)' /\ OpensWhole(h)' /\ ClosedOnce(h)' /\ FoundLives(h)'
    BY <1>1, <2>0 DEF Sound, FilesWhole, OpensWhole, ClosedOnce, FoundLives, NoFile, HasFile
  <2>4. Kept(h)' /\ TearsDown(h)' /\ LeavesOne(h)' /\ LeftOver(h)'
    BY <1>1, <2>0 DEF Sound, Kept, Keeps, HasFile, TearsDown, LeavesOne, LeftOver, OnlyRef,
       HoldsOpen
  <2> QED
    BY <2>2, <2>3, <2>4 DEF Sound
<1> QED
  BY <1>2, <1>3 DEF IInv

\* it holds at first,
LEMMA InitHolds == Init => IInv
<1> SUFFICES ASSUME Init PROVE IInv
  OBVIOUS
<1>1. TypeOK
  BY HeadAssumption DEF Init, TypeOK, Labels
<1>2. /\ StdataHeld /\ OpeningHeld /\ LocksNoted /\ HeadsKnown /\ Clean
      /\ LostToOther /\ OverlapOfTwo /\ OneFound
  BY HeadAssumption DEF Init, StdataHeld, HasStdata, OpeningHeld, HasOpening, InOpen, LocksNoted,
     Retries, HeadsKnown, Clean, LostToOther, SeenByOther, OverlapOfTwo, OneFound
<1>3. ASSUME NEW h \in Stdata
      PROVE  Sound(h)
  <2>1. \A p \in Proc : pc[p] = "idle" /\ head[p] # h
    BY HeadAssumption DEF Init
  <2>2. /\ alloc[h] = "unborn" /\ sd_refcnt[h] = 0 /\ sd_opencnt[h] = 0
        /\ closings[h] = 0 /\ h \notin STRCLOSE
    BY DEF Init
  <2>3. References(h) = {}
    BY <2>1 DEF References, HoldsOpen, HoldsCall
  <2>4. Files(h) = {}
    BY <2>1 DEF Files, HasFile
  <2>5. RefsCounted(h) /\ OpenCounted(h)
    BY <2>2, <2>3, <2>4, FS_EmptySet DEF RefsCounted, OpenCounted
  <2>6. /\ RefsLive(h) /\ FilesWhole(h) /\ OpensWhole(h) /\ ClosedOnce(h) /\ Kept(h)
        /\ FoundLives(h) /\ TearsDown(h) /\ LeavesOne(h) /\ LeftOver(h)
    BY <2>1, <2>2 DEF RefsLive, FilesWhole, OpensWhole, ClosedOnce, Kept, FoundLives, TearsDown,
       LeavesOne, LeftOver, HoldsOpen, HasFile
  <2> QED
    BY <2>5, <2>6 DEF Sound
<1> QED
  BY <1>1, <1>2, <1>3 DEF IInv, Shape

\* every step of a process keeps it,
LEMMA StepsKeep == ASSUME IInv, NEW p \in Proc, Does(p) PROVE IInv'
<1>1. Shape'
  BY TypeKept, StdataKept, OpeningKept, LocksKept, HeadsKept, CleanKept, LostKept, OverlapKept,
     OneFoundKept DEF Shape
<1>2. ASSUME NEW h \in Stdata, ~Shared(h)'
      PROVE  Sound(h)'
  <2>1. RefsLive(h)' /\ RefsCounted(h)' /\ OpenCounted(h)'
    BY <1>2, RefsLiveKept, RefsCountedKept, OpenCountedKept
  <2>2. FilesWhole(h)' /\ OpensWhole(h)' /\ ClosedOnce(h)'
    BY <1>2, FilesWholeKept, OpensWholeKept, ClosedOnceKept
  <2>3. Kept(h)' /\ FoundLives(h)' /\ TearsDown(h)'
    BY <1>2, KeptKept, FoundLivesKept, TearsDownKept
  <2>4. LeavesOne(h)' /\ LeftOver(h)'
    BY <1>2, LeavesOneKept, LeftOverKept
  <2> QED
    BY <2>1, <2>2, <2>3, <2>4 DEF Sound
<1> QED
  BY <1>1, <1>2 DEF IInv

\* and there are no other steps:
LEMMA NextDoes == Next => \E p \in Proc : Does(p)
  BY DEF Next, Does

\* the invariant is inductive,
LEMMA IInvKept == IInv /\ [Next]_vars => IInv'
<1>1. IInv /\ Next => IInv'
  BY NextDoes, StepsKeep
<1> QED
  BY <1>1, Stutters

\* and holds always.
LEMMA IInvAlways == Spec => []IInv
<1> QED
  BY InitHolds, IInvKept, PTL DEF Spec

\* The invariant says what the heads promise.
LEMMA IInvIsSound == IInv => HeadsSound
<1> SUFFICES ASSUME IInv PROVE HeadsSound
  OBVIOUS
<1>1. TypeOK
  BY DEF IInv, Shape
<1>2. RefsBalanced
  <2>1. ASSUME NEW h \in Stdata, ~Shared(h)
        PROVE  /\ References(h) # {} => alloc[h] = "live"
               /\ sd_refcnt[h] = Cardinality(References(h))
               /\ sd_opencnt[h] = Cardinality({p \in Proc : HasFile(p, h)})
    <3>1. RefsLive(h) /\ RefsCounted(h) /\ OpenCounted(h)
      BY <2>1 DEF IInv, Sound
    <3>2. ASSUME NEW x \in References(h) PROVE alloc[h] = "live"
      <4>1. PICK q \in Proc : HoldsOpen(q, h) \/ HoldsCall(q, h)
        BY <3>2, RefsAre
      <4>2. HoldsOpen(q, h)
        BY <4>1 DEF HoldsOpen, HoldsCall
      <4> QED
        BY <3>1, <4>2 DEF RefsLive
    <3> QED
      BY <3>1, <3>2 DEF RefsCounted, OpenCounted, Files
  <2> QED
    BY <2>1 DEF RefsBalanced
<1>3. OpenedIsWhole
  BY DEF IInv, Sound, FilesWhole, ClosedOnce, OpenedIsWhole
<1>4. OneStreamPerDev
  <2>1. ASSUME NEW d \in Dev
        PROVE  Cardinality(Found(d, NoHead)) <= 1
    <3>1. \A g, h \in Found(d, NoHead) : g = h
      BY DeviceAssumption DEF Found, IInv, Shape, OneFound
    <3>2. CASE Found(d, NoHead) = {}
      BY <3>2, FS_EmptySet
    <3>3. CASE \E h \in Found(d, NoHead) : TRUE
      <4>1. PICK h \in Found(d, NoHead) : TRUE
        BY <3>3
      <4>2. Found(d, NoHead) = {h}
        BY <3>1, <4>1
      <4> QED
        BY <4>2, FS_Singleton
    <3> QED
      BY <3>2, <3>3
  <2> QED
    BY <2>1 DEF OneStreamPerDev
<1>5. LeftOnlyByOverlap
  <2>1. ASSUME NEW h \in Stdata, alloc[h] = "live", References(h) = {}, ~Shared(h)
        PROVE  h \in overlapped
    <3>1. \A p \in Proc : ~HoldsOpen(p, h)
      BY <2>1, RefsAre
    <3> QED
      BY <2>1, <3>1 DEF IInv, Sound, LeftOver
  <2> QED
    BY <2>1 DEF LeftOnlyByOverlap
<1> QED
  BY <1>1, <1>2, <1>3, <1>4, <1>5 DEF HeadsSound

\* The stream heads are sound, whoever opens, closes and interrupts: for any number of
\* processes, heads and devices, a head that anyone may touch is not freed, sd_refcnt and
\* sd_opencnt say who holds it, an open file works on a whole stream, a stream is closed
\* once, and a device has one stream (lis_stropen, lis_doclose, lis_head_get, lis_head_put).
THEOREM HeadsAreSound == Spec => []HeadsSound
<1> QED
  BY IInvAlways, IInvIsSound, PTL

-----------------------------------------------------------------------------
(* sd_refcnt implements the count of an abstract object                    *)

\* The head a step of p is about.
Subject(p) == IF pc[p] = "search" THEN head'[p] ELSE head[p]
HeadSame(h) == /\ alloc'[h] = alloc[h] /\ seen'[h] = seen[h] /\ (h \in failed' <=> h \in failed)
               /\ \A q \in Proc : HoldsSame(q, h)

\* No other head gains a reference or loses one.
LEMMA OnlySubject ==
    ASSUME IInv, NEW p \in Proc, Does(p), NEW h \in Stdata
    PROVE  h = Subject(p) \/ ((HoldsOpen(p, h)' <=> HoldsOpen(p, h)) /\ (HoldsCall(p, h)' <=> HoldsCall(p, h)))
<1>0. TypeOK /\ HeadsKnown
  BY DEF IInv, Shape
<1>o. Others(p)
  BY <1>0, OthersKept
<1>d. Domains
  BY TypeDomains DEF IInv, Shape
<1>1. CASE (\E d \in Dev \cup {Clone} : Open(p, d)) \/ Interrupted(p) \/
     DownSearch(p) \/ Allocate(p) \/ Lookup(p) \/ HeadGet(p) \/ GetOpeningSem(p)
  BY <1>0, <1>o, HeadAssumption, <1>d, <1>1 DEF Open, Goto, Interrupted,
     DownSearch, DownStdata, Allocate, NewHead, UpStdata, Lookup, HeadGet, Incr,
     GetOpeningSem, Decr, HoldsOpen, HoldsCall, HeadsKnown, Subject, Domains,
     Others, At, headVars, locals, history
<1>2. CASE Recheck(p) \/ OpenMods(p) \/ Attach(p) \/ DriverOpens(p) \/
     DownAdopt(p) \/ AdoptDev(p) \/ Autopush(p)
  BY <1>0, <1>o, HeadAssumption, <1>d, <1>2 DEF Recheck, LostRace, LostToClone,
     ReleaseOpening, Incr, PutThen, Goto, OpenMods, Attach, DriverOpens,
     DownAdopt, DownStdata, AdoptDev, UpStdata, DevInUse, Autopush, HoldsOpen,
     HoldsCall, HeadsKnown, Subject, Domains, Others, At, headVars, locals,
     history
<1>3. CASE Success(p) \/ ErrorRtn(p) \/ LastOpen(p) \/ Undo(p) \/ HeadPutRead(p)
     \/ HeadPutDec(p) \/ CountClose(p)
  BY <1>0, <1>o, HeadAssumption, <1>d, <1>3 DEF Success, Incr, ReleaseOpening,
     Goto, ErrorRtn, HdLocked, Return, LastOpen, PutThen, Undo, Dismantle,
     HeadPutRead, TearDown, HeadPutDec, Decr, Freed, CountClose, LastClose,
     HoldsOpen, HoldsCall, HeadsKnown, Subject, Domains, Others, At, headVars,
     locals, history
<1>4. CASE MarkClose(p) \/ CloseAction(p) \/ CallReturns(p) \/ Close(p) \/
     Call(p)
  BY <1>0, <1>o, HeadAssumption, <1>d, <1>4 DEF MarkClose, ReleaseOpening, Incr,
     Goto, CloseAction, Dismantle, PutThen, CallReturns, Close, Decr, Call,
     HoldsOpen, HoldsCall, HeadsKnown, Subject, Domains, Others, At, headVars,
     locals, history
<1> QED
  BY <1>1, <1>2, <1>3, <1>4 DEF Does, Steps

\* Nor does it change otherwise.
LEMMA SubjectOnly ==
    ASSUME IInv, NEW p \in Proc, Does(p), NEW h \in Stdata
    PROVE  h = Subject(p) \/ (alloc'[h] = alloc[h] /\ seen'[h] = seen[h] /\ (h \in failed' <=> h \in failed))
<1>0. TypeOK /\ HeadsKnown
  BY DEF IInv, Shape
<1>o. Others(p)
  BY <1>0, OthersKept
<1>d. Domains
  BY TypeDomains DEF IInv, Shape
<1>1. CASE Allocate(p)
  <2>1. PICK x \in Stdata :
             /\ alloc[x] = "unborn" /\ NewHead(x)
             /\ sd_refcnt' = [sd_refcnt EXCEPT ![x] = 1]
             /\ sd_dev' = [sd_dev EXCEPT ![x] = odev[p]]
             /\ head' = [head EXCEPT ![p] = x]
             /\ seen' = [seen EXCEPT ![x] = @ \cup {p}]
    BY <1>0, <1>1, Allocates
  <2> QED
    BY <1>0, <1>o, <1>d, <2>1, HeadAssumption, <1>1 DEF Subject, NewHead, Others,
       Domains, Allocate, At, Goto
<1>2. CASE Lookup(p)
  <2>1. PICK x \in Stdata :
             /\ alloc[x] = "live" /\ x \notin STRCLOSE /\ sd_dev[x] = odev[p]
             /\ head' = [head EXCEPT ![p] = x]
             /\ seen' = [seen EXCEPT ![x] = @ \cup {p}]
    BY <1>0, <1>2, LooksUp
  <2> QED
    BY <1>0, <1>o, <1>d, <2>1, HeadAssumption, <1>2 DEF Subject, Others, Domains,
       Lookup, At, Goto, headVars
<1>3. CASE (\E d \in Dev \cup {Clone} : Open(p, d)) \/ Interrupted(p) \/
     DownSearch(p) \/ HeadGet(p) \/ GetOpeningSem(p) \/ Recheck(p) \/
     OpenMods(p)
  BY <1>0, <1>o, HeadAssumption, <1>d, <1>3 DEF Open, Goto, Interrupted,
     DownSearch, DownStdata, HeadGet, Incr, UpStdata, GetOpeningSem, Decr,
     Recheck, LostRace, LostToClone, ReleaseOpening, PutThen, OpenMods,
     HeadsKnown, Subject, Domains, Others, At, headVars, locals, history
<1>4. CASE Attach(p) \/ DriverOpens(p) \/ DownAdopt(p) \/ AdoptDev(p) \/
     Autopush(p) \/ Success(p) \/ ErrorRtn(p)
  BY <1>0, <1>o, HeadAssumption, <1>d, <1>4 DEF Attach, Goto, DriverOpens,
     DownAdopt, DownStdata, AdoptDev, UpStdata, DevInUse, Autopush, Success,
     Incr, ReleaseOpening, ErrorRtn, HdLocked, Return, HeadsKnown, Subject,
     Domains, Others, At, headVars, locals, history
<1>5. CASE LastOpen(p) \/ Undo(p) \/ HeadPutRead(p) \/ HeadPutDec(p) \/
     CountClose(p) \/ MarkClose(p) \/ CloseAction(p)
  BY <1>0, <1>o, HeadAssumption, <1>d, <1>5 DEF LastOpen, PutThen, Goto, Undo,
     Dismantle, HeadPutRead, TearDown, HeadPutDec, Decr, Freed, Return,
     CountClose, LastClose, ReleaseOpening, Incr, MarkClose, CloseAction,
     HeadsKnown, Subject, Domains, Others, At, headVars, locals, history
<1>6. CASE CallReturns(p) \/ Close(p) \/ Call(p)
  BY <1>0, <1>o, HeadAssumption, <1>d, <1>6 DEF CallReturns, PutThen, Goto,
     Close, Decr, Call, Incr, HeadsKnown, Subject, Domains, Others, At,
     headVars, locals, history
<1> QED
  BY <1>1, <1>2, <1>3, <1>4, <1>5, <1>6 DEF Does, Steps

\* What the abstract object of h is.
Lives == [h \in Stdata |-> Life(h)]
Holds == [h \in Stdata |-> Holders(h)]

\* A head that is not the subject of the step is the same abstract object.
LEMMA ObjectsStay ==
    ASSUME IInv, NEW p \in Proc, Does(p), NEW h \in Stdata, h # Subject(p)
    PROVE  Life(h)' = Life(h) /\ Holders(h)' = Holders(h)
<1>1. alloc'[h] = alloc[h] /\ (Shared(h)' <=> Shared(h))
  BY SubjectOnly DEF Shared
<1>2. References(h)' = References(h)
  <2>1. Others(p)
    BY OthersKept DEF IInv, Shape
  <2>2. \A q \in Proc : /\ HoldsOpen(q, h)' <=> HoldsOpen(q, h)
                        /\ HoldsCall(q, h)' <=> HoldsCall(q, h)
    BY <2>1, OnlySubject DEF Others, HoldsOpen, HoldsCall
  <2> QED
    BY <2>2, RefsStay
<1>3. Life(h)' = Life(h)
  BY <1>1 DEF Life
<1> QED
  BY <1>2, <1>3 DEF Holders

\* A head once shared stays so.
LEMMA SharedStays ==
    ASSUME IInv, NEW p \in Proc, Does(p), NEW h \in Stdata, Shared(h)
    PROVE  Shared(h)'
<1>1. ~Shared(h)' => ~Shared(h)
  BY SharedKept
<1> QED
  BY <1>1

\* A reference is held by a process, for an open or a call.
LEMMA HoldersAre ==
    \A h \in Stdata : References(h) \subseteq Proc \X {"open", "call"}
  BY DEF References

\* One step of the abstract object of the subject.
ObjectStep(h) ==
    \/ Life(h)' = Life(h) /\ Holders(h)' = Holders(h)
    \/ Life(h) # "abandoned" /\ Life(h)' = "abandoned" /\ Holders(h)' = {}
    \/ \E u \in Proc \X {"open", "call"} :
          \/ Life(h) = "unborn" /\ Life(h)' = "live" /\ Holders(h)' = {u}
          \/ /\ Life(h) = "live" /\ Life(h)' = "live" /\ Holders(h) # {} /\ u \notin Holders(h)
             /\ Holders(h)' = Holders(h) \cup {u}
          \/ /\ Life(h) = "live" /\ Life(h)' = "live" /\ u \in Holders(h)
             /\ Holders(h)' = Holders(h) \ {u}
          \/ Life(h) = "live" /\ Life(h)' = "dead" /\ Holders(h) = {u} /\ Holders(h)' = {}

\* What a step does to a head is a step of its abstract object.
LEMMA SubjectSteps ==
    ASSUME IInv, NEW p \in Proc, Does(p), NEW h \in Stdata
    PROVE  ObjectStep(h)
<1>1. CASE Shared(h)
  <2>1. Life(h) = "abandoned" /\ Life(h)' = "abandoned"
    BY <1>1, SharedStays DEF Life
  <2> QED
    BY <2>1 DEF ObjectStep, Holders
<1>2. CASE ~Shared(h) /\ Shared(h)'
  <2>1. Life(h) # "abandoned"
    <3>1. alloc[h] # "abandoned"
      BY DEF IInv, Shape, TypeOK
    <3> QED
      BY <1>2, <3>1 DEF Life
  <2>2. Life(h)' = "abandoned"
    BY <1>2 DEF Life
  <2> QED
    BY <2>1, <2>2 DEF ObjectStep, Holders
<1>3. CASE ~Shared(h) /\ ~Shared(h)'
  <2>1. /\ Life(h) = IF alloc[h] = "freed" THEN "dead" ELSE alloc[h]
        /\ Life(h)' = IF alloc'[h] = "freed" THEN "dead" ELSE alloc'[h]
    BY <1>3 DEF Life
  <2>2. CASE RefsSame(h)
    <3>1. Life(h)' = Life(h)
      BY <2>1, <2>2 DEF RefsSame
    <3>2. Holders(h)' = Holders(h)
      BY <2>2, <3>1 DEF RefsSame, Holders
    <3> QED
      BY <3>1, <3>2 DEF ObjectStep
  <2>3. CASE RefsNew(p, h)
    <3>1. Life(h) = "unborn" /\ Life(h)' = "live" /\ Holders(h)' = {<<p, "open">>}
      BY <2>1, <2>3 DEF RefsNew, Holders
    <3> QED
      BY <3>1 DEF ObjectStep
  <2>4. CASE RefsMore(p, h)
    <3>1. PICK u \in {"open", "call"} :
             /\ alloc[h] = "live" /\ alloc'[h] = "live" /\ References(h) # {}
             /\ <<p, u>> \notin References(h)
             /\ References(h)' = References(h) \cup {<<p, u>>}
      BY <2>4 DEF RefsMore
    <3>2. /\ Life(h) = "live" /\ Life(h)' = "live"
          /\ Holders(h) = References(h) /\ Holders(h)' = References(h)'
      BY <2>1, <3>1 DEF Holders
    <3>3. <<p, u>> \in Proc \X {"open", "call"}
      OBVIOUS
    <3> QED
      BY <3>1, <3>2, <3>3 DEF ObjectStep
  <2>5. CASE RefsFewer(p, h)
    <3>1. PICK u \in {"open", "call"} :
             /\ alloc[h] = "live"
             /\ \/ alloc'[h] = "live"
                \/ alloc'[h] = "freed" /\ References(h) = {<<p, u>>}
             /\ <<p, u>> \in References(h)
             /\ References(h)' = References(h) \ {<<p, u>>}
      BY <2>5 DEF RefsFewer
    <3>2. Life(h) = "live" /\ Holders(h) = References(h) /\ <<p, u>> \in Proc \X {"open", "call"}
      BY <2>1, <3>1 DEF Holders
    <3>3. CASE alloc'[h] = "live"
      <4>1. Life(h)' = "live" /\ Holders(h)' = References(h)'
        BY <2>1, <3>3 DEF Holders
      <4> QED
        BY <3>1, <3>2, <4>1 DEF ObjectStep
    <3>4. CASE alloc'[h] = "freed" /\ References(h) = {<<p, u>>}
      <4>1. Life(h)' = "dead" /\ Holders(h)' = {}
        BY <2>1, <3>4 DEF Holders
      <4> QED
        BY <3>2, <3>4, <4>1 DEF ObjectStep
    <3> QED
      BY <3>1, <3>3, <3>4
  <2> QED
    BY <1>3, <2>2, <2>3, <2>4, <2>5, RefsStep
<1> QED
  BY <1>1, <1>2, <1>3

\* A step of opening and closing is one step of one object, or none.
LEMMA StepImplements ==
    ASSUME IInv, NEW p \in Proc, Does(p)
    PROVE  Abstract!Next \/ (Lives' = Lives /\ Holds' = Holds)
<1>1. CASE \A h \in Stdata : h # Subject(p)
  <2>1. \A h \in Stdata : Life(h)' = Life(h) /\ Holders(h)' = Holders(h)
    BY <1>1, ObjectsStay
  <2> QED
    BY <2>1 DEF Lives, Holds
<1>2. CASE \E h \in Stdata : h = Subject(p)
  <2>1. PICK s \in Stdata : s = Subject(p)
    BY <1>2
  <2>2. \A h \in Stdata : h # s => Life(h)' = Life(h) /\ Holders(h)' = Holders(h)
    BY <2>1, ObjectsStay
  <2>3. ObjectStep(s)
    BY SubjectSteps
  <2>4. /\ Lives' = [Lives EXCEPT ![s] = Life(s)'] /\ Lives[s] = Life(s)
        /\ Holds' = [Holds EXCEPT ![s] = Holders(s)'] /\ Holds[s] = Holders(s)
    BY <2>2 DEF Lives, Holds
  <2>5. CASE Life(s)' = Life(s) /\ Holders(s)' = Holders(s)
    BY <2>2, <2>5 DEF Lives, Holds
  <2>6. CASE Life(s) # "abandoned" /\ Life(s)' = "abandoned" /\ Holders(s)' = {}
    <3>1. Abstract!Abandon(s)
      BY <2>4, <2>6 DEF Abstract!Abandon, Lives, Holds
    <3> QED
      BY <3>1 DEF Abstract!Next
  <2>7. ASSUME NEW u \in Proc \X {"open", "call"},
               Life(s) = "unborn" /\ Life(s)' = "live" /\ Holders(s)' = {u}
        PROVE  Abstract!Next
    <3>1. Abstract!Create(s, u)
      BY <2>4, <2>7 DEF Abstract!Create, Lives, Holds
    <3> QED
      BY <3>1 DEF Abstract!Next
  <2>8. ASSUME NEW u \in Proc \X {"open", "call"},
               /\ Life(s) = "live" /\ Life(s)' = "live"
               /\ Holders(s) # {} /\ u \notin Holders(s)
               /\ Holders(s)' = Holders(s) \cup {u}
        PROVE  Abstract!Next
    <3>1. Lives' = Lives
      BY <2>2, <2>8 DEF Lives
    <3>2. Abstract!Acquire(s, u)
      BY <2>4, <2>8, <3>1 DEF Abstract!Acquire, Lives, Holds
    <3> QED
      BY <3>2 DEF Abstract!Next
  <2>9. ASSUME NEW u \in Proc \X {"open", "call"},
               /\ Life(s) = "live" /\ Life(s)' = "live" /\ u \in Holders(s)
               /\ Holders(s)' = Holders(s) \ {u}
        PROVE  Abstract!Next
    <3>1. Lives' = Lives
      BY <2>2, <2>9 DEF Lives
    <3>2. Abstract!Release(s, u)
      BY <2>4, <2>9, <3>1 DEF Abstract!Release, Lives, Holds
    <3> QED
      BY <3>2 DEF Abstract!Next
  <2>10. ASSUME NEW u \in Proc \X {"open", "call"},
                Life(s) = "live" /\ Life(s)' = "dead" /\ Holders(s) = {u} /\ Holders(s)' = {}
         PROVE  Abstract!Next
    <3>1. Abstract!Destroy(s, u)
      BY <2>4, <2>10 DEF Abstract!Destroy, Lives, Holds
    <3> QED
      BY <3>1 DEF Abstract!Next
  <2> QED
    BY <2>3, <2>5, <2>6, <2>7, <2>8, <2>9, <2>10 DEF ObjectStep
<1> QED
  BY <1>1, <1>2

\* Unused heads are objects not yet born.
LEMMA InitImplements == Init => Abstract!Init
<1> SUFFICES ASSUME Init PROVE Abstract!Init
  OBVIOUS
<1>1. ASSUME NEW h \in Stdata PROVE Life(h) = "unborn" /\ Holders(h) = {}
  <2>1. alloc[h] = "unborn" /\ h \notin failed
    BY DEF Init
  <2> QED
    BY <2>1 DEF Life, Holders, Shared
<1> QED
  BY <1>1 DEF Abstract!Init

\* Where nothing changes no object changes.
LEMMA StutterImplements == UNCHANGED vars => Lives' = Lives /\ Holds' = Holds
<1> SUFFICES ASSUME UNCHANGED vars PROVE Lives' = Lives /\ Holds' = Holds
  OBVIOUS
<1>1. \A h \in Stdata : Life(h)' = Life(h) /\ Holders(h)' = Holders(h)
  BY DEF vars, headVars, locals, history, Life, Holders, Shared, References, HoldsOpen, HoldsCall
<1> QED
  BY <1>1 DEF Lives, Holds

\* sd_refcnt implements the reference count of an abstract object, for any number of
\* processes and heads: a head is created once, held by opens and calls, taken up only while
\* somebody else holds it, and freed by who holds it last (lis_head_get, lis_head_put).
THEOREM HeadsAreCounted == Spec => IsCounted
<1>1. ASSUME IInv, [Next]_vars
      PROVE  [Abstract!Next]_<<[h \in Stdata |-> Life(h)], [h \in Stdata |-> Holders(h)]>>
  <2>1. Abstract!Next \/ (Lives' = Lives /\ Holds' = Holds)
    BY <1>1, NextDoes, StepImplements, StutterImplements
  <2> QED
    BY <2>1 DEF Lives, Holds
<1> QED
  BY <1>1, IInvAlways, InitImplements, PTL DEF Spec, IsCounted, Abstract!Spec

-----------------------------------------------------------------------------
(* Put procedures: the invariant of PutSync                              *)

\* The operators that an instance takes from the standard modules are these.
LEMMA SameCardinality == ASSUME NEW S PROVE P!Cardinality(S) = Cardinality(S)
BY DEF P!Cardinality, Cardinality

\* What a putter has in a call, and the forms that the stack of a task takes.
PutFlags == {"QFROZEN", "QOPENING", "QDEFERRING", "QPROCSOFF"}
PutLabels == {"test", "lock", "put", "unlock"}
Fr(l, q, m, d) == [at |-> l, q |-> q, m |-> m, deferring |-> d]
Mine(t) == <<t, sent[t]>>
Lowest(m, d) == Fr("unlock", "mod", m, d)

Forms(t, l, q, m, d, e) ==
  \/ stack[t] = <<Fr(l, q, m, d)>>
  \/ q = "drv" /\ d = FALSE /\ stack[t] = <<Fr(l, q, m, d), Lowest(m, e)>>

PutterCalls(t) ==
  stack[t] # <<>> =>
    /\ sent[t] \in 1 .. PerPutter
    /\ \E l \in PutLabels, q \in P!Queue : Forms(t, l, q, Mine(t), FALSE, FALSE)

ChangerCalls ==
  stack[Changer] # <<>> =>
    /\ cpc = "deferring"
    /\ \E m \in P!Msg :
         \/ \E l \in PutLabels : stack[Changer] = <<Fr(l, Head(todo), m, TRUE)>>
         \/ /\ Head(todo) = "mod"
            /\ stack[Changer] = <<Fr("test", "drv", m, FALSE), Lowest(m, TRUE)>>

CallsSound == /\ DOMAIN stack = P!Task
              /\ \A t \in Proc : PutterCalls(t)
              /\ ChangerCalls

PutTypes ==
  /\ change \in {"push", "pop"} /\ option \in {"none", "queue", "global"}
  /\ q_flag \in [P!Queue -> SUBSET PutFlags]
  /\ q_defer \in [P!Queue -> Seq(P!Msg)] /\ q_count \in [P!Queue -> Int]
  /\ qs_sem \in [P!Sync -> Int] /\ qs_nest \in [P!Sync -> Int]
  /\ qs_taskp \in [P!Sync -> P!Task \cup {NoTask}]
  /\ consumed \in [P!Task -> BOOLEAN]
  /\ sent \in [Proc -> 0 .. PerPutter]
  /\ delivered \in Seq(P!Msg) /\ flushed \subseteq P!Msg
  /\ clogged \in BOOLEAN /\ late \in BOOLEAN

\* Where the changer is, and what the queues look like there.
Settled == {"thaw", "deferred", "deferring"}
Unpopped == {"start", "freeze", "off", "procsoff", "closed", "unlink"}
Unpushed == {"start", "freeze", "attach"}

ChangerAt ==
  /\ todo \in {<<>>, <<"drv">>, <<"mod", "drv">>}
  /\ change = "push" => cpc \in Unpushed \cup Settled \cup {"end"}
  /\ change = "pop"  => cpc \in Unpopped \cup {"free", "end"} \cup Settled
  /\ cpc \in Settled \cup {"freeze"} => todo # <<>>
  /\ change = "pop" /\ cpc \in Settled => todo = <<"drv">>
  /\ change = "push" /\ cpc = "freeze" => todo = <<"drv">>

Links ==
  /\ DOMAIN q_next = P!Queue \cup {"head"}
  /\ q_next["mod"] = "drv" /\ q_next["drv"] = "none"
  /\ q_next["head"] = IF cpc \in (IF change = "push" THEN Settled \cup {"end"} ELSE Unpopped)
                        THEN "mod" ELSE "drv"

FlagsSet ==
  /\ "QPROCSOFF" \notin q_flag["drv"]
  /\ "QPROCSOFF" \in q_flag["mod"] => change = "pop"
  /\ cpc = "deferring" => "QDEFERRING" \in q_flag[Head(todo)]
  /\ cpc \in {"deferred", "deferring"} =>
       q_flag[Head(todo)] \cap {"QFROZEN", "QOPENING"} = {}
  /\ change = "push" /\ cpc \in Settled /\ Head(todo) = "mod" => "QFROZEN" \in q_flag["drv"]
  /\ change = "push" /\ cpc = "attach" => "QFROZEN" \in q_flag["drv"]

\* Before it is pushed nobody knows the module.
Unknown ==
  change = "push" /\ cpc \in Unpushed =>
    /\ q_defer["mod"] = <<>>
    /\ \A t \in Proc : \A i \in DOMAIN stack[t] : stack[t][i].q = "drv"

ControlSound == ChangerAt /\ Links /\ FlagsSet /\ Unknown

\* Who comes to a queue that is being opened waits before its lock, so that what is
\* given back has been taken.
NotEntered(st) == \A i \in DOMAIN st : st[i].q = "mod" => st[i].at = "test"
OpenSound ==
  /\ "QOPENING" \notin q_flag["drv"]
  /\ "QOPENING" \in q_flag["mod"] =>
       /\ change = "push" /\ cpc = "thaw" /\ Head(todo) = "mod"
       /\ \A t \in Proc : NotEntered(stack[t])

\* How often task t has locked s, and that the lock says so.
One(b) == IF b THEN 1 ELSE 0
LockedBy(st, s) ==
  One(st # <<>> /\ st[1].at \in {"put", "unlock"} /\ P!SyncOf(st[1].q) = s)
  + One(Len(st) = 2 /\ P!SyncOf("mod") = s)
Alone(t, s) == t = Changer /\ cpc \in {"procsoff", "unlink"} /\ P!SyncOf("mod") = s
Nests(t, s) == LockedBy(stack[t], s) + One(Alone(t, s))

LockCounts ==
  option # "none" =>
    \A s \in P!Sync :
      /\ qs_nest[s] >= 0
      /\ qs_sem[s] = IF qs_nest[s] = 0 THEN 1 ELSE 0
      /\ qs_nest[s] = 0 <=> qs_taskp[s] = NoTask
      /\ \A t \in P!Task : Nests(t, s) = IF qs_taskp[s] = t THEN qs_nest[s] ELSE 0

\* The messages between the head and the driver, in the order in which they will come.
HandNow(st) == IF st # <<>> /\ st[1].at # "unlock" THEN <<st[1].m>> ELSE <<>>
HasInHand(t, m) == HandNow(stack[t]) = <<m>>
HandSeq == HandNow(stack[Changer])
FromMod == todo # <<>> /\ Head(todo) = "mod"
AboveDrv == IF FromMod THEN HandSeq ELSE <<>>
InDrv == IF FromMod THEN q_defer["drv"] ELSE HandSeq \o q_defer["drv"]
Coming == IF change = "pop" THEN <<>> ELSE q_defer["mod"]
Way(e) == (delivered \o InDrv) \o (AboveDrv \o e)

Differ == {p \in P!Msg \X P!Msg : p[1] # p[2]}
Less == {p \in P!Msg \X P!Msg : p[1][1] = p[2][1] => p[1][2] < p[2][2]}
Ordered(R, s) == \A i, j \in DOMAIN s : i < j => <<s[i], s[j]>> \in R

Elems(s) == {s[i] : i \in DOMAIN s}
NotOf(t, s) == \A x \in Elems(s) : x[1] # t
MyLast(t, S) == \A x \in S : x[1] = t => x[2] < sent[t]

\* What a task has in hand is the last it has sent, and from a certain place on none of
\* its messages is behind it.
Passed(t) ==
  stack[t] # <<>> /\ P!Top(t).at # "unlock" =>
    /\ MyLast(t, Elems(Way(q_defer["mod"]))) /\ MyLast(t, flushed)
    /\ P!Top(t).q = "drv" \/ P!Top(t).at # "test" => NotOf(t, AboveDrv \o Coming)
    /\ P!Top(t).q = "drv" /\ P!Top(t).at # "test" => NotOf(t, InDrv)

OrderSound ==
  /\ Ordered(Differ, Way(q_defer["mod"])) /\ Ordered(Less, Way(Coming))
  /\ \A m \in flushed : m \notin Elems(Way(q_defer["mod"]))
  /\ \A t \in Proc : Passed(t)

Somewhere(m) ==
  \/ \E t \in P!Task : HasInHand(t, m)
  \/ m \in P!Deferred("mod") \cup P!Deferred("drv") \cup P!Got \cup flushed

Placed ==
  /\ \A m \in P!Msg : m[2] <= sent[m[1]] <=> Somewhere(m)
  /\ ~clogged => \A q \in P!Queue : q_count[q] = Len(q_defer[q]) % Width

PInv == /\ PutTypes /\ CallsSound /\ ControlSound /\ OpenSound /\ LockCounts
        /\ OrderSound /\ Placed

LEMMA Ends ==
    /\ \A f : <<f>> # <<>> /\ <<f>>[1] = f /\ Len(<<f>>) = 1 /\ Tail(<<f>>) = <<>>
    /\ \A f, g : /\ <<f, g>> # <<>> /\ <<f, g>>[1] = f /\ <<f, g>>[2] = g
                 /\ Len(<<f, g>>) = 2 /\ Tail(<<f, g>>) = <<g>>
    /\ \A f, h : [<<f>> EXCEPT ![1] = h] = <<h>>
    /\ \A f, g, h : [<<f, g>> EXCEPT ![1] = h] = <<h, g>>
    /\ \A f, g : <<f, g>> \o <<>> = <<f, g>>
    /\ Len(<<>>) = 0
OBVIOUS

LEMMA FrIs ==
    \A l, q, m, d, k : /\ Fr(l, q, m, d).at = l /\ Fr(l, q, m, d).q = q
                       /\ Fr(l, q, m, d).m = m /\ Fr(l, q, m, d).deferring = d
                       /\ [Fr(l, q, m, d) EXCEPT !.at = k] = Fr(k, q, m, d)
                       /\ [Fr(l, q, m, d) EXCEPT !.q = k] = Fr(l, k, m, d)
BY DEF Fr

LEMMA TaskIs == Changer \in P!Task /\ Changer \notin Proc /\ NoTask \notin P!Task
                /\ \A t \in Proc : t \in P!Task
BY Assumptions DEF P!TasksAssumption, P!Task

LEMMA MineIs == ASSUME PutTypes, NEW t \in Proc, sent[t] \in 1 .. PerPutter PROVE Mine(t) \in P!Msg
BY DEF PutTypes, Mine, P!Msg

\* What a step of task t makes of its stack.
LEMMA Goes ==
    ASSUME NEW t \in P!Task, NEW l, CallsSound, P!Goto(t, l)
    PROVE  /\ DOMAIN stack' = P!Task /\ \A u \in P!Task \ {t} : stack'[u] = stack[u]
           /\ \A k, q, m, d : stack[t] = <<Fr(k, q, m, d)>> => stack'[t] = <<Fr(l, q, m, d)>>
           /\ \A k, q, m, d, g : stack[t] = <<Fr(k, q, m, d), g>>
                => stack'[t] = <<Fr(l, q, m, d), g>>
BY Ends, FrIs DEF CallsSound, P!Goto

LEMMA Comes ==
    ASSUME NEW t \in P!Task, NEW c, CallsSound, P!Returns(t, c)
    PROVE  /\ DOMAIN stack' = P!Task /\ \A u \in P!Task \ {t} : stack'[u] = stack[u]
           /\ \A f : stack[t] = <<f>> => stack'[t] = <<>>
           /\ \A f, g : stack[t] = <<f, g>> => stack'[t] = <<g>>
<1>1. /\ DOMAIN stack' = P!Task /\ \A u \in P!Task \ {t} : stack'[u] = stack[u]
      /\ stack'[t] = Tail(stack[t])
  BY DEF CallsSound, P!Returns
<1>2. ASSUME NEW f, stack[t] = <<f>> PROVE stack'[t] = <<>>
  <2>1. stack'[t] = Tail(<<f>>)
    BY <1>1, <1>2
  <2> QED
    BY <2>1, Ends
<1>3. ASSUME NEW f, NEW g, stack[t] = <<f, g>> PROVE stack'[t] = <<g>>
  <2>1. stack'[t] = Tail(<<f, g>>)
    BY <1>1, <1>3
  <2> QED
    BY <2>1, Ends
<1> QED
  BY <1>1, <1>2, <1>3

LEMMA PutterForms ==
    ASSUME CallsSound, PutTypes, NEW t \in Proc, stack[t] # <<>>
    PROVE  /\ sent[t] \in 1 .. PerPutter /\ Mine(t) \in P!Msg
           /\ \E l \in PutLabels, q \in P!Queue : Forms(t, l, q, Mine(t), FALSE, FALSE)
BY MineIs DEF CallsSound, PutterCalls, Forms, P!Queue

LEMMA ChangerForms ==
    ASSUME CallsSound, stack[Changer] # <<>>
    PROVE  /\ cpc = "deferring"
           /\ \E m \in P!Msg :
                \/ \E l \in PutLabels : stack[Changer] = <<Fr(l, Head(todo), m, TRUE)>>
                \/ Head(todo) = "mod"
                   /\ stack[Changer] = <<Fr("test", "drv", m, FALSE), Lowest(m, TRUE)>>
BY DEF CallsSound, ChangerCalls

LEMMA FormTop ==
    ASSUME NEW t, NEW l, NEW q, NEW m, NEW d, NEW e, Forms(t, l, q, m, d, e)
    PROVE  /\ P!Top(t).at = l /\ P!Top(t).q = q /\ P!Top(t).m = m /\ P!Top(t).deferring = d
           /\ stack[t] # <<>>
BY Ends, FrIs DEF Forms, P!Top

LEMMA TodoIs == ASSUME ChangerAt, todo # <<>> PROVE Head(todo) \in P!Queue
BY DEF ChangerAt, P!Queue

LEMMA SomeForm ==
    ASSUME PutTypes, CallsSound, ChangerAt, NEW t \in P!Task, stack[t] # <<>>
    PROVE  \E l \in PutLabels, q \in P!Queue, m \in P!Msg, d, e \in BOOLEAN :
             /\ Forms(t, l, q, m, d, e)
             /\ t \in Proc => m = Mine(t) /\ d = FALSE /\ e = FALSE
             /\ t = Changer => e = TRUE /\ (d = TRUE => stack[t] = <<Fr(l, q, m, d)>>)
<1>1. CASE t \in Proc
  BY <1>1, PutterForms, TaskIs
<1>2. CASE t = Changer
  <2>1. PICK m \in P!Msg :
          \/ \E l \in PutLabels : stack[Changer] = <<Fr(l, Head(todo), m, TRUE)>>
          \/ Head(todo) = "mod"
             /\ stack[Changer] = <<Fr("test", "drv", m, FALSE), Lowest(m, TRUE)>>
    BY <1>2, ChangerForms
  <2>2. cpc = "deferring" /\ todo # <<>> /\ Head(todo) \in P!Queue
    BY <1>2, ChangerForms, TodoIs DEF ChangerAt, Settled
  <2>3. CASE \E l \in PutLabels : stack[Changer] = <<Fr(l, Head(todo), m, TRUE)>>
    BY <2>2, <2>3, <1>2, TaskIs DEF Forms
  <2>4. CASE stack[Changer] = <<Fr("test", "drv", m, FALSE), Lowest(m, TRUE)>>
    <3>1. Forms(t, "test", "drv", m, FALSE, TRUE)
      BY <2>4, <1>2 DEF Forms
    <3> QED
      BY <3>1, <1>2, TaskIs DEF PutLabels, P!Queue
  <2> QED
    BY <2>1, <2>3, <2>4
<1> QED
  BY <1>1, <1>2 DEF P!Task

LEMMA GoesForm ==
    ASSUME NEW t \in P!Task, NEW l, CallsSound, P!Goto(t, l),
           NEW k, NEW q, NEW m, NEW d, NEW e, Forms(t, k, q, m, d, e)
    PROVE  Forms(t, l, q, m, d, e)'
BY Goes DEF Forms

LEMMA CallsOfPutter ==
    ASSUME CallsSound, NEW t \in Proc, DOMAIN stack' = P!Task,
           \A u \in P!Task \ {t} : stack'[u] = stack[u], UNCHANGED <<cpc, todo>>,
           \A u \in Proc \ {t} : sent'[u] = sent[u], PutterCalls(t)'
    PROVE  CallsSound'
<1>1. ASSUME NEW u \in Proc PROVE PutterCalls(u)'
  <2>1. CASE u = t
    BY <2>1
  <2>2. CASE u # t
    BY <2>2, TaskIs DEF CallsSound, PutterCalls, Forms, Mine
  <2> QED
    BY <2>1, <2>2
<1>2. ChangerCalls'
  BY TaskIs DEF CallsSound, ChangerCalls
<1> QED
  BY <1>1, <1>2 DEF CallsSound

LEMMA CallsOfChanger ==
    ASSUME CallsSound, DOMAIN stack' = P!Task, \A u \in P!Task \ {Changer} : stack'[u] = stack[u],
           UNCHANGED sent, ChangerCalls'
    PROVE  CallsSound'
BY TaskIs DEF CallsSound, PutterCalls, Forms, Mine

LEMMA CallsRest ==
    ASSUME CallsSound, UNCHANGED <<stack, sent>>, stack[Changer] = <<>>
    PROVE  CallsSound'
BY DEF CallsSound, PutterCalls, ChangerCalls, Forms, Mine

\* The steps of a call, and what they make of its stack.
Calm == UNCHANGED <<cpc, todo, change, option, sent>>

\* The changer has called the module's put procedure, and the driver is frozen.
AboveFrozen == \E m \in P!Msg : stack[Changer] = <<Fr("test", "drv", m, FALSE), Lowest(m, TRUE)>>

LEMMA AboveIs == AboveFrozen => P!Top(Changer).at = "test" /\ P!Top(Changer).q = "drv"
                                 /\ P!Top(Changer).deferring = FALSE /\ stack[Changer] # <<>>
<1> SUFFICES ASSUME AboveFrozen
             PROVE  /\ P!Top(Changer).at = "test" /\ P!Top(Changer).q = "drv"
                    /\ P!Top(Changer).deferring = FALSE /\ stack[Changer] # <<>>
  OBVIOUS
<1>1. PICK m \in P!Msg : stack[Changer] = <<Fr("test", "drv", m, FALSE), Lowest(m, TRUE)>>
  BY DEF AboveFrozen
<1>2. P!Top(Changer) = Fr("test", "drv", m, FALSE) /\ stack[Changer] # <<>>
  BY <1>1, Ends DEF P!Top
<1> QED
  BY <1>2 DEF Fr

LEMMA AboveWaits ==
    ASSUME CallsSound, ControlSound, PutTypes, AboveFrozen
    PROVE  /\ Head(todo) = "mod" /\ cpc = "deferring" /\ change = "push"
           /\ "QFROZEN" \in q_flag["drv"]
<1>1. PICK m \in P!Msg : stack[Changer] = <<Fr("test", "drv", m, FALSE), Lowest(m, TRUE)>>
  BY DEF AboveFrozen
<1>2. \A l, q, n, d : stack[Changer] # <<Fr(l, q, n, d)>>
  BY <1>1, Ends
<1>3. Head(todo) = "mod" /\ cpc = "deferring"
  BY <1>1, <1>2, AboveIs, ChangerForms
<1>4. change = "push"
  BY <1>3, Ends DEF ControlSound, ChangerAt, Settled, PutTypes
<1> QED
  BY <1>3, <1>4 DEF ControlSound, FlagsSet, Settled

LEMMA MovesSound ==
    ASSUME PutTypes, CallsSound, ChangerAt, Calm, NEW t \in P!Task, NEW l \in PutLabels,
           P!Goto(t, l), stack[t] # <<>>, t = Changer => ~AboveFrozen
    PROVE  CallsSound'
<1>1. stack[t] # <<>>
  OBVIOUS
<1>2. CASE t \in Proc
  <2>1. PICK i \in PutLabels, q \in P!Queue : Forms(t, i, q, Mine(t), FALSE, FALSE)
    BY <1>1, <1>2, PutterForms
  <2>2. Forms(t, l, q, Mine(t), FALSE, FALSE)'
    BY <2>1, GoesForm DEF Calm, Mine
  <2>3. PutterCalls(t)'
    BY <2>2, <1>1, <1>2, PutterForms DEF Calm, PutterCalls
  <2> QED
    BY <2>3, <1>2, Goes, CallsOfPutter DEF Calm
<1>3. CASE t = Changer
  <2>1. PICK m \in P!Msg :
          \/ \E i \in PutLabels : stack[Changer] = <<Fr(i, Head(todo), m, TRUE)>>
          \/ Head(todo) = "mod"
             /\ stack[Changer] = <<Fr("test", "drv", m, FALSE), Lowest(m, TRUE)>>
    BY <1>1, <1>3, ChangerForms
  <2>2. ~(stack[Changer] = <<Fr("test", "drv", m, FALSE), Lowest(m, TRUE)>>)
    BY <1>3 DEF AboveFrozen
  <2>3. stack'[Changer] = <<Fr(l, Head(todo), m, TRUE)>>
    <3>1. PICK i \in PutLabels : stack[Changer] = <<Fr(i, Head(todo), m, TRUE)>>
      BY <2>1, <2>2
    <3>2. \A j, q, n, d : stack[Changer] = <<Fr(j, q, n, d)>>
            => stack'[Changer] = <<Fr(l, q, n, d)>>
      BY <1>3, Goes
    <3> QED
      BY <3>1, <3>2
  <2>4. ChangerCalls'
    BY <2>3, <1>1, <1>3, ChangerForms DEF ChangerCalls, Calm
  <2> QED
    BY <2>4, <1>3, Goes, CallsOfChanger DEF Calm
<1> QED
  BY <1>2, <1>3 DEF P!Task

LEMMA ReturnsSound ==
    ASSUME CallsSound, Calm, NEW t \in P!Task, NEW c, P!Returns(t, c), stack[t] # <<>>, PutTypes
    PROVE  CallsSound'
<1>1. CASE t \in Proc
  <2>1. PICK l \in PutLabels, q \in P!Queue : Forms(t, l, q, Mine(t), FALSE, FALSE)
    BY <1>1, PutterForms
  <2>2. CASE stack[t] = <<Fr(l, q, Mine(t), FALSE)>>
    <3>1. stack'[t] = <<>>
      BY <2>2, Comes
    <3>2. PutterCalls(t)'
      BY <3>1 DEF PutterCalls
    <3> QED
      BY <3>2, <1>1, Comes, CallsOfPutter DEF Calm
  <2>3. CASE stack[t] = <<Fr(l, q, Mine(t), FALSE), Lowest(Mine(t), FALSE)>>
    <3>1. stack'[t] = <<Fr("unlock", "mod", Mine(t), FALSE)>>
      BY <2>3, Comes DEF Lowest
    <3>2. Forms(t, "unlock", "mod", Mine(t), FALSE, FALSE)'
      BY <3>1 DEF Forms, Mine, Calm
    <3>3. PutterCalls(t)'
      BY <3>2, <1>1, PutterForms DEF PutterCalls, PutLabels, P!Queue, Calm
    <3> QED
      BY <3>3, <1>1, Comes, CallsOfPutter DEF Calm
  <2> QED
    BY <2>1, <2>2, <2>3 DEF Forms
<1>2. CASE t = Changer
  <2>1. PICK m \in P!Msg :
          \/ \E i \in PutLabels : stack[Changer] = <<Fr(i, Head(todo), m, TRUE)>>
          \/ Head(todo) = "mod"
             /\ stack[Changer] = <<Fr("test", "drv", m, FALSE), Lowest(m, TRUE)>>
    BY <1>2, ChangerForms
  <2>2. CASE \E i \in PutLabels : stack[Changer] = <<Fr(i, Head(todo), m, TRUE)>>
    <3>1. stack'[Changer] = <<>>
      BY <2>2, <1>2, Comes
    <3>2. ChangerCalls'
      BY <3>1 DEF ChangerCalls
    <3> QED
      BY <3>2, <1>2, Comes, CallsOfChanger DEF Calm
  <2>3. CASE Head(todo) = "mod"
             /\ stack[Changer] = <<Fr("test", "drv", m, FALSE), Lowest(m, TRUE)>>
    <3>1. stack'[Changer] = <<Fr("unlock", "mod", m, TRUE)>>
      BY <2>3, <1>2, Comes DEF Lowest
    <3>2. ChangerCalls'
      BY <3>1, <2>3, <1>2, ChangerForms DEF ChangerCalls, Calm, PutLabels
    <3> QED
      BY <3>2, <1>2, Comes, CallsOfChanger DEF Calm
  <2> QED
    BY <2>1, <2>2, <2>3
<1> QED
  BY <1>1, <1>2 DEF P!Task

LEMMA SidesMove ==
    ASSUME NEW t, NEW m, NEW d, stack[t] = <<Fr("test", "mod", m, d)>>, q_next["mod"] = "drv",
           stack'[t] = [stack[t] EXCEPT ![1].q = q_next[@]]
    PROVE  stack'[t] = <<Fr("test", "drv", m, d)>>
<1> DEFINE g == Fr("test", "mod", m, d)
<1>1. stack[t] = <<g>> /\ stack[t][1] = g
  BY Ends
<1>2. g.q = "mod"
  BY FrIs
<1>3. [g EXCEPT !.q = "drv"] = Fr("test", "drv", m, d)
  BY FrIs
<1> HIDE DEF g
<1>4. stack'[t] = [<<g>> EXCEPT ![1] = [g EXCEPT !.q = q_next[g.q]]]
  BY <1>1
<1>5. stack'[t] = [<<g>> EXCEPT ![1] = [g EXCEPT !.q = "drv"]]
  BY <1>2, <1>4
<1> QED
  BY <1>3, <1>5, Ends

LEMMA PassOnIs ==
    ASSUME PutTypes, CallsSound, ControlSound, NEW t \in P!Task, P!PassOn(t)
    PROVE  /\ t \in Proc /\ change = "pop" /\ sent[t] \in 1 .. PerPutter /\ Mine(t) \in P!Msg
           /\ DOMAIN stack' = P!Task /\ \A u \in P!Task \ {t} : stack'[u] = stack[u]
           /\ stack[t] = <<Fr("test", "mod", Mine(t), FALSE)>>
           /\ stack'[t] = <<Fr("test", "drv", Mine(t), FALSE)>>
<1> DEFINE f == P!Top(t)
<1>1. /\ stack[t] # <<>> /\ f.at = "test" /\ "QPROCSOFF" \in q_flag[f.q]
      /\ DOMAIN stack' = P!Task /\ \A u \in P!Task \ {t} : stack'[u] = stack[u]
      /\ stack'[t] = [stack[t] EXCEPT ![1].q = q_next[@]]
  BY DEF P!PassOn, P!In, CallsSound
<1>0. stack[t] # <<>>
  BY <1>1
<1>2. f.q \in P!Queue
  <2>1. PICK l \in PutLabels, q \in P!Queue, m \in P!Msg, d, e \in BOOLEAN :
           /\ Forms(t, l, q, m, d, e)
           /\ t \in Proc => m = Mine(t) /\ d = FALSE /\ e = FALSE
           /\ t = Changer => e = TRUE /\ (d = TRUE => stack[t] = <<Fr(l, q, m, d)>>)
    BY <1>0, SomeForm DEF ControlSound
  <2> QED
    BY <2>1, FormTop
<1>3. f.q = "mod" /\ change = "pop"
  BY <1>1, <1>2 DEF ControlSound, FlagsSet, P!Queue
<1>4. t # Changer
  <2> SUFFICES ASSUME t = Changer PROVE FALSE
    OBVIOUS
  <2>1. cpc = "deferring" /\ todo = <<"drv">> /\ Head(todo) = "drv"
    BY <1>1, <1>3, ChangerForms DEF ControlSound, ChangerAt, Settled
  <2>2. PICK m \in P!Msg : \E l \in PutLabels : stack[Changer] = <<Fr(l, "drv", m, TRUE)>>
    <3>1. stack[Changer] # <<>> /\ Head(todo) # "mod"
      BY <1>0, <2>1
    <3>2. \E m \in P!Msg : \E l \in PutLabels : stack[Changer] = <<Fr(l, Head(todo), m, TRUE)>>
      BY <3>1, ChangerForms
    <3> QED
      BY <2>1, <3>2
  <2> QED
    BY <2>2, <1>3, Ends DEF P!Top, Fr
<1>5. t \in Proc
  BY <1>4 DEF P!Task
<1>6. PICK l \in PutLabels, q \in P!Queue : Forms(t, l, q, Mine(t), FALSE, FALSE)
  BY <1>1, <1>5, PutterForms
<1>7. l = "test" /\ q = "mod"
  <2>1. P!Top(t).at = l /\ P!Top(t).q = q
    BY <1>6, FormTop
  <2> QED
    BY <2>1, <1>1, <1>3
<1>8. stack[t] = <<Fr("test", "mod", Mine(t), FALSE)>>
  BY <1>6, <1>7 DEF Forms
<1>9. stack'[t] = <<Fr("test", "drv", Mine(t), FALSE)>>
  <2> DEFINE no == FALSE
             m == Mine(t)
  <2>1. stack'[t] = [stack[t] EXCEPT ![1].q = q_next[@]]
    BY <1>1
  <2>2. q_next["mod"] = "drv"
    BY DEF ControlSound, Links
  <2>3. stack[t] = <<Fr("test", "mod", m, no)>>
    BY <1>8
  <2> HIDE DEF no, m
  <2>4. stack'[t] = <<Fr("test", "drv", m, no)>>
    BY <2>1, <2>2, <2>3, SidesMove
  <2> QED
    BY <2>4 DEF no, m
<1> QED
  BY <1>1, <1>3, <1>5, <1>8, <1>9, PutterForms

LEMMA PutProcIs ==
    ASSUME PutTypes, CallsSound, ControlSound, NEW t \in P!Task, P!PutProc(t)
    PROVE  \E l \in {"put"}, q \in P!Queue, m \in P!Msg, d, e \in BOOLEAN :
             /\ Forms(t, l, q, m, d, e) /\ (t \in Proc => m = Mine(t) /\ d = FALSE /\ e = FALSE)
             /\ t = Changer => e = TRUE /\ d = TRUE /\ stack[t] = <<Fr(l, q, m, d)>>
             /\ DOMAIN stack' = P!Task /\ \A u \in P!Task \ {t} : stack'[u] = stack[u]
             /\ q = "mod" => /\ stack[t] = <<Fr("put", "mod", m, d)>>
                             /\ stack'[t] = <<Fr("test", "drv", m, FALSE), Lowest(m, d)>>
                             /\ UNCHANGED delivered
             /\ q = "drv" => P!Goto(t, "unlock") /\ delivered' = Append(delivered, m)
<1>1. stack[t] # <<>> /\ P!Top(t).at = "put"
  BY DEF P!PutProc, P!In
<1>2. PICK l \in PutLabels, q \in P!Queue, m \in P!Msg, d, e \in BOOLEAN :
         /\ Forms(t, l, q, m, d, e)
         /\ t \in Proc => m = Mine(t) /\ d = FALSE /\ e = FALSE
         /\ t = Changer => e = TRUE /\ (d = TRUE => stack[t] = <<Fr(l, q, m, d)>>)
  BY <1>1, SomeForm DEF ControlSound
<1>3. l = "put" /\ P!Top(t).q = q /\ P!Top(t).m = m
  BY <1>1, <1>2, FormTop
<1>4. t = Changer => d = TRUE
  <2> SUFFICES ASSUME t = Changer PROVE d = TRUE
    OBVIOUS
  <2>1. PICK n \in P!Msg :
          \/ \E i \in PutLabels : stack[Changer] = <<Fr(i, Head(todo), n, TRUE)>>
          \/ Head(todo) = "mod"
             /\ stack[Changer] = <<Fr("test", "drv", n, FALSE), Lowest(n, TRUE)>>
    BY <1>1, ChangerForms
  <2>2. CASE \E i \in PutLabels : stack[Changer] = <<Fr(i, Head(todo), n, TRUE)>>
    <3>1. PICK i \in PutLabels : stack[Changer] = <<Fr(i, Head(todo), n, TRUE)>>
      BY <2>2
    <3>2. P!Top(t).deferring = TRUE
      <4>1. P!Top(t) = Fr(i, Head(todo), n, TRUE)
        BY <3>1, Ends DEF P!Top
      <4> QED
        BY <4>1 DEF Fr
    <3>3. P!Top(t).deferring = d
      BY <1>2, FormTop
    <3> QED
      BY <3>2, <3>3
  <2>3. CASE stack[Changer] = <<Fr("test", "drv", n, FALSE), Lowest(n, TRUE)>>
    BY <2>3, <1>1, Ends DEF P!Top, Fr
  <2> QED
    BY <2>1, <2>2, <2>3
<1>5. ASSUME q = "mod"
      PROVE  /\ stack[t] = <<Fr("put", "mod", m, d)>>
             /\ stack'[t] = <<Fr("test", "drv", m, FALSE), Lowest(m, d)>>
             /\ UNCHANGED delivered
             /\ DOMAIN stack' = P!Task /\ \A u \in P!Task \ {t} : stack'[u] = stack[u]
  <2>1. stack[t] = <<Fr("put", "mod", m, d)>>
    BY <1>2, <1>3, <1>5 DEF Forms
  <2>2. P!Top(t) = Fr("put", "mod", m, d)
    BY <2>1, Ends DEF P!Top
  <2>3. q_next[P!Top(t).q] = "drv"
    BY <1>3, <1>5 DEF ControlSound, Links
  <2>4. /\ UNCHANGED delivered
        /\ stack' = [stack EXCEPT ![t] = <<P!Call("drv", m, FALSE),
                         [P!Top(t) EXCEPT !.at = "unlock"]>> \o Tail(@)]
    BY <2>3, <1>3 DEF P!PutProc
  <2>5. [P!Top(t) EXCEPT !.at = "unlock"] = Lowest(m, d)
    BY <2>2 DEF Fr, Lowest
  <2>6. P!Call("drv", m, FALSE) = Fr("test", "drv", m, FALSE)
    BY DEF P!Call, Fr
  <2>7. Tail(stack[t]) = <<>>
    BY <2>1, Ends
  <2>8. /\ DOMAIN stack' = P!Task /\ \A u \in P!Task \ {t} : stack'[u] = stack[u]
        /\ stack'[t] = <<Fr("test", "drv", m, FALSE), Lowest(m, d)>> \o <<>>
    BY <2>4, <2>5, <2>6, <2>7 DEF CallsSound
  <2>9. stack'[t] = <<Fr("test", "drv", m, FALSE), Lowest(m, d)>>
    BY <2>8, Ends
  <2> QED
    BY <2>1, <2>4, <2>8, <2>9
<1>6. ASSUME q = "drv"
      PROVE  /\ P!Goto(t, "unlock") /\ delivered' = Append(delivered, m)
             /\ DOMAIN stack' = P!Task /\ \A u \in P!Task \ {t} : stack'[u] = stack[u]
  <2>1. P!Goto(t, "unlock") /\ delivered' = Append(delivered, m)
    BY <1>3, <1>6 DEF P!PutProc, ControlSound, Links
  <2> QED
    BY <2>1, Goes
<1> QED
  BY <1>2, <1>3, <1>4, <1>5, <1>6 DEF P!Queue

LEMMA FormOne ==
    ASSUME NEW t, NEW l, NEW q, NEW m, NEW d, NEW e, stack'[t] = <<Fr(l, q, m, d)>>
    PROVE  Forms(t, l, q, m, d, e)'
BY DEF Forms

LEMMA FormTwo ==
    ASSUME NEW t, NEW l, NEW m, stack'[t] = <<Fr(l, "drv", m, FALSE), Lowest(m, FALSE)>>
    PROVE  Forms(t, l, "drv", m, FALSE, FALSE)'
BY DEF Forms

LEMMA PutIs ==
    ASSUME PutTypes, CallsSound, ControlSound, NEW t \in Proc, P!Put(t)
    PROVE  /\ stack[t] = <<>> /\ sent' = [sent EXCEPT ![t] = sent[t] + 1]
           /\ sent'[t] \in 1 .. PerPutter /\ sent'[t] = sent[t] + 1
           /\ \A u \in Proc \ {t} : sent'[u] = sent[u]
           /\ DOMAIN stack' = P!Task /\ \A u \in P!Task \ {t} : stack'[u] = stack[u]
           /\ stack'[t] = <<Fr("test", q_next["head"], Mine(t)', FALSE)>>
           /\ q_next["head"] \in P!Queue
<1>1. PerPutter \in Nat
  BY Assumptions DEF P!PutSyncBounds
<1>2. sent[t] \in Nat /\ sent[t] < PerPutter /\ DOMAIN sent = Proc
  BY DEF PutTypes, P!Put
<1>3. sent' = [sent EXCEPT ![t] = sent[t] + 1]
  BY DEF P!Put
<1>4. sent'[t] = sent[t] + 1 /\ \A u \in Proc \ {t} : sent'[u] = sent[u]
  BY <1>2, <1>3
<1>5. stack' = [stack EXCEPT ![t] = <<P!Call(q_next["head"], <<t, sent[t] + 1>>, FALSE)>>]
  BY DEF P!Put
<1>6. /\ DOMAIN stack' = P!Task /\ \A u \in P!Task \ {t} : stack'[u] = stack[u]
      /\ stack'[t] = <<P!Call(q_next["head"], <<t, sent[t] + 1>>, FALSE)>>
  BY <1>5, TaskIs DEF CallsSound
<1>7. P!Call(q_next["head"], <<t, sent[t] + 1>>, FALSE)
        = Fr("test", q_next["head"], Mine(t)', FALSE)
  BY <1>4 DEF P!Call, Fr, Mine
<1>8. q_next["head"] \in P!Queue
  BY DEF ControlSound, Links, P!Queue
<1>9. stack'[t] = <<Fr("test", q_next["head"], Mine(t)', FALSE)>>
  BY <1>6, <1>7
<1>10. stack[t] = <<>> /\ sent'[t] \in 1 .. PerPutter
  BY <1>1, <1>2, <1>4 DEF P!Put
<1> QED
  BY <1>3, <1>4, <1>6, <1>8, <1>9, <1>10

LEMMA TakeDeferredIs ==
    ASSUME PutTypes, CallsSound, ControlSound, P!TakeDeferred
    PROVE  /\ stack[Changer] = <<>> /\ cpc = "deferring" /\ todo # <<>> /\ Head(todo) \in P!Queue
           /\ q_defer[Head(todo)] # <<>> /\ Head(q_defer[Head(todo)]) \in P!Msg
           /\ q_defer' = [q_defer EXCEPT ![Head(todo)] = Tail(q_defer[Head(todo)])]
           /\ DOMAIN stack' = P!Task /\ \A u \in P!Task \ {Changer} : stack'[u] = stack[u]
           /\ stack'[Changer] = <<Fr("test", Head(todo), Head(q_defer[Head(todo)]), TRUE)>>
<1>1. stack[Changer] = <<>> /\ cpc = "deferring"
  BY DEF P!TakeDeferred, P!C
<1>2. todo # <<>> /\ Head(todo) \in P!Queue
  BY <1>1, TodoIs DEF ControlSound, ChangerAt, Settled
<1> DEFINE q == Head(todo)
<1>3. q_defer[q] # <<>> /\ q_defer' = [q_defer EXCEPT ![q] = Tail(@)]
  BY DEF P!TakeDeferred
<1>4. q_defer[q] \in Seq(P!Msg)
  BY <1>2 DEF PutTypes
<1>5. Head(q_defer[q]) \in P!Msg
  BY <1>3, <1>4, HeadTailProperties
<1>6. stack' = [stack EXCEPT ![Changer] = <<P!Call(q, Head(q_defer[q]), TRUE)>>]
  BY DEF P!TakeDeferred
<1>7. P!Call(q, Head(q_defer[q]), TRUE) = Fr("test", q, Head(q_defer[q]), TRUE)
  BY DEF P!Call, Fr
<1> HIDE DEF q
<1>8. /\ DOMAIN stack' = P!Task /\ \A u \in P!Task \ {Changer} : stack'[u] = stack[u]
      /\ stack'[Changer] = <<Fr("test", q, Head(q_defer[q]), TRUE)>>
  BY <1>6, <1>7, TaskIs DEF CallsSound
<1> QED
  BY <1>1, <1>2, <1>3, <1>5, <1>8 DEF q

LEMMA PassIs ==
    ASSUME PutTypes, CallsSound, ControlSound, NEW t \in P!Task, P!Pass(t)
    PROVE  stack[t] # <<>> /\ P!Top(t).at = "test" /\ (t = Changer => ~AboveFrozen)
<1>1. stack[t] # <<>> /\ P!Top(t).at = "test" /\ ~P!MustWait(P!Top(t))
  BY DEF P!Pass, P!In
<1>2. ASSUME t = Changer, AboveFrozen PROVE FALSE
  <2>1. "QFROZEN" \in q_flag["drv"] /\ P!Top(t).q = "drv"
    BY <1>2, AboveWaits, AboveIs
  <2> QED
    BY <1>1, <2>1 DEF P!MustWait, P!Obstacles
<1> QED
  BY <1>1, <1>2

\* Where a call is at another place than the test, it is not that one.
LEMMA PastTest ==
    ASSUME NEW t, NEW l, P!In(t, l), l # "test"
    PROVE  stack[t] # <<>> /\ (t = Changer => ~AboveFrozen)
BY AboveIs DEF P!In

Puts(t) == P!PutSteps(t) \/ (t \in Proc /\ P!Put(t))

LEMMA CallsKeptByPuts ==
    ASSUME PutTypes, CallsSound, ControlSound, NEW t \in P!Task, Puts(t)
    PROVE  CallsSound'
<1>1. CASE P!PassOn(t)
  <2>1. Calm
    BY <1>1 DEF P!PassOn, Calm, P!changer
  <2>2. Mine(t)' = Mine(t)
    BY <2>1 DEF Calm, Mine
  <2>3. Forms(t, "test", "drv", Mine(t), FALSE, FALSE)'
    BY <1>1, <2>2, PassOnIs DEF Forms
  <2>4. PutterCalls(t)'
    BY <1>1, <2>1, <2>3, PassOnIs DEF PutterCalls, PutLabels, P!Queue, Calm
  <2> QED
    BY <1>1, <2>1, <2>4, PassOnIs, CallsOfPutter DEF Calm
<1>2. CASE P!Defer(t)
  BY <1>2, ReturnsSound DEF P!Defer, Calm, P!changer, P!In
<1>3. CASE P!Pass(t)
  <2>1. Calm /\ P!Goto(t, "lock")
    BY <1>3 DEF P!Pass, Calm, P!changer
  <2> QED
    BY <2>1, <1>3, PassIs, MovesSound DEF PutLabels, ControlSound
<1>4. CASE P!Lock(t)
  <2>1. Calm /\ P!Goto(t, "put") /\ P!In(t, "lock")
    BY <1>4 DEF P!Lock, Calm, P!changer
  <2>2. stack[t] # <<>> /\ (t = Changer => ~AboveFrozen)
    BY <2>1, PastTest
  <2> QED
    BY <2>1, <2>2, MovesSound DEF PutLabels, ControlSound
<1>5. CASE P!PutProc(t)
  <2>1. Calm
    BY <1>5 DEF P!PutProc, Calm, P!changer
  <2>2. PICK l \in {"put"}, q \in P!Queue, m \in P!Msg, d, e \in BOOLEAN :
             /\ Forms(t, l, q, m, d, e) /\ (t \in Proc => m = Mine(t) /\ d = FALSE /\ e = FALSE)
             /\ t = Changer => e = TRUE /\ d = TRUE /\ stack[t] = <<Fr(l, q, m, d)>>
             /\ DOMAIN stack' = P!Task /\ \A u \in P!Task \ {t} : stack'[u] = stack[u]
             /\ q = "mod" => /\ stack[t] = <<Fr("put", "mod", m, d)>>
                             /\ stack'[t] = <<Fr("test", "drv", m, FALSE), Lowest(m, d)>>
                             /\ UNCHANGED delivered
             /\ q = "drv" => P!Goto(t, "unlock") /\ delivered' = Append(delivered, m)
    BY <1>5, PutProcIs
  <2>3. CASE q = "drv"
    <3>1. stack[t] # <<>> /\ (t = Changer => ~AboveFrozen)
      BY <1>5, PastTest DEF P!PutProc
    <3> QED
      BY <2>1, <2>2, <2>3, <3>1, MovesSound DEF PutLabels, ControlSound
  <2>4. CASE q = "mod"
    <3>1. CASE t \in Proc
      <4>1. stack'[t] = <<Fr("test", "drv", Mine(t)', FALSE), Lowest(Mine(t)', FALSE)>>
        BY <2>1, <2>2, <2>4, <3>1 DEF Calm, Mine
      <4>2. Forms(t, "test", "drv", Mine(t), FALSE, FALSE)'
        BY <4>1 DEF Forms
      <4>3. sent'[t] \in 1 .. PerPutter
        BY <2>1, <2>2, <3>1, PutterForms, FormTop DEF Calm
      <4>4. PutterCalls(t)'
        BY <4>2, <4>3 DEF PutterCalls, PutLabels, P!Queue
      <4> QED
        BY <4>4, <2>1, <2>2, <3>1, CallsOfPutter DEF Calm
    <3>2. CASE t = Changer
      <4>1. stack[Changer] = <<Fr("put", "mod", m, TRUE)>>
        BY <2>2, <2>4, <3>2
      <4>2. cpc = "deferring" /\ Head(todo) = "mod"
        <5>1. P!Top(Changer) = Fr("put", "mod", m, TRUE) /\ stack[Changer] # <<>>
          BY <4>1, Ends DEF P!Top
        <5>2. P!Top(Changer).q = "mod"
          BY <5>1 DEF Fr
        <5>3. PICK n \in P!Msg :
                \/ \E i \in PutLabels : stack[Changer] = <<Fr(i, Head(todo), n, TRUE)>>
                \/ Head(todo) = "mod"
                   /\ stack[Changer] = <<Fr("test", "drv", n, FALSE), Lowest(n, TRUE)>>
          BY <5>1, ChangerForms
        <5>4. CASE \E i \in PutLabels : stack[Changer] = <<Fr(i, Head(todo), n, TRUE)>>
          <6>0. PICK i \in PutLabels : stack[Changer] = <<Fr(i, Head(todo), n, TRUE)>>
            BY <5>4
          <6>1. P!Top(Changer) = Fr(i, Head(todo), n, TRUE)
            BY <6>0, Ends DEF P!Top
          <6>2. Head(todo) = "mod"
            BY <6>1, <5>2 DEF Fr
          <6> QED
            BY <6>2, <5>1, ChangerForms
        <5> QED
          BY <5>1, <5>3, <5>4, ChangerForms
      <4>3. stack'[Changer] = <<Fr("test", "drv", m, FALSE), Lowest(m, TRUE)>>
        BY <2>2, <2>4, <3>2
      <4>4. ChangerCalls'
        BY <4>2, <4>3, <2>1 DEF ChangerCalls, Calm
      <4> QED
        BY <4>4, <2>1, <2>2, <3>2, CallsOfChanger DEF Calm
    <3> QED
      BY <3>1, <3>2 DEF P!Task
  <2> QED
    BY <2>2, <2>3, <2>4 DEF P!Queue
<1>6. CASE P!Unlock(t)
  BY <1>6, ReturnsSound DEF P!Unlock, Calm, P!changer, P!In
<1>7. CASE t \in Proc /\ P!Put(t)
  <2>1. UNCHANGED <<cpc, todo>>
    BY <1>7 DEF P!Put, P!changer
  <2>2. PICK q \in P!Queue : q = q_next["head"]
    BY <1>7, PutIs
  <2>3. stack'[t] = <<Fr("test", q, Mine(t)', FALSE)>> /\ sent'[t] \in 1 .. PerPutter
    BY <1>7, <2>2, PutIs
  <2>4. Forms(t, "test", q, Mine(t), FALSE, FALSE)'
    BY <2>3 DEF Forms
  <2>5. PutterCalls(t)'
    BY <2>3, <2>4 DEF PutterCalls, PutLabels
  <2> QED
    BY <1>7, <2>1, <2>5, PutIs, CallsOfPutter
<1> QED
  BY <1>1, <1>2, <1>3, <1>4, <1>5, <1>6, <1>7 DEF Puts, P!PutSteps

LEMMA CallsKeptByChange ==
    ASSUME PutTypes, CallsSound, ControlSound, P!Begin \/ P!ChangeSteps
    PROVE  CallsSound'
<1>1. CASE P!TakeDeferred
  <2>1. UNCHANGED <<cpc, todo, sent>>
    BY <1>1 DEF P!TakeDeferred, P!changer
  <2>2. ChangerCalls'
    BY <1>1, <2>1, TakeDeferredIs DEF ChangerCalls, PutLabels
  <2> QED
    BY <1>1, <2>1, <2>2, TakeDeferredIs, CallsOfChanger
<1>2. CASE ~P!TakeDeferred
  <2>1. UNCHANGED <<stack, sent>> /\ stack[Changer] = <<>>
    BY <1>2 DEF P!ChangeSteps, P!Begin, P!Freeze, P!Attach, P!LockOff, P!ProcsOff, P!LockClosed,
          P!Unlink, P!Free, P!Thaw, P!NothingDeferred, P!StartDeferred, P!EndDeferred, P!C
  <2> QED
    BY <2>1, CallsRest
<1> QED
  BY <1>1, <1>2

LEMMA TopTypes ==
    ASSUME PutTypes, CallsSound, ControlSound, NEW t \in P!Task, stack[t] # <<>>
    PROVE  P!Top(t).q \in P!Queue /\ P!Top(t).m \in P!Msg /\ P!Top(t).at \in PutLabels
<1>1. PICK l \in PutLabels, q \in P!Queue, m \in P!Msg, d, e \in BOOLEAN :
         /\ Forms(t, l, q, m, d, e)
         /\ t \in Proc => m = Mine(t) /\ d = FALSE /\ e = FALSE
         /\ t = Changer => e = TRUE /\ (d = TRUE => stack[t] = <<Fr(l, q, m, d)>>)
  BY SomeForm DEF ControlSound
<1> QED
  BY <1>1, FormTop

LEMMA SyncIs == ASSUME NEW q \in P!Queue PROVE P!SyncOf(q) \in P!Sync
BY DEF P!SyncOf, P!Sync, P!Queue

LEMMA LockTypes ==
    ASSUME PutTypes, NEW t \in P!Task, NEW s \in P!Sync, P!LockSync(t, s)
    PROVE  /\ qs_sem' \in [P!Sync -> Int] /\ qs_nest' \in [P!Sync -> Int]
           /\ qs_taskp' \in [P!Sync -> P!Task \cup {NoTask}]
<1>1. CASE option = "none"
  BY <1>1 DEF PutTypes, P!LockSync, P!sync
<1>2. CASE option # "none"
  <2>1. /\ qs_nest' = [qs_nest EXCEPT ![s] = @ + 1] /\ qs_taskp' = [qs_taskp EXCEPT ![s] = t]
        /\ qs_sem' = qs_sem \/ qs_sem' = [qs_sem EXCEPT ![s] = @ - 1]
    BY <1>2 DEF P!LockSync
  <2> QED
    BY <2>1 DEF PutTypes
<1> QED
  BY <1>1, <1>2

LEMMA LockQTypes ==
    ASSUME PutTypes, NEW t \in P!Task, NEW q \in P!Queue, P!LockQ(t, q)
    PROVE  /\ qs_sem' \in [P!Sync -> Int] /\ qs_nest' \in [P!Sync -> Int]
           /\ qs_taskp' \in [P!Sync -> P!Task \cup {NoTask}]
<1>1. CASE UNCHANGED P!sync
  BY <1>1 DEF PutTypes, P!sync
<1>2. CASE P!LockSync(t, P!SyncOf(q))
  BY <1>2, SyncIs, LockTypes
<1> QED
  BY <1>1, <1>2 DEF P!LockQ

LEMMA UnlockTypes ==
    ASSUME PutTypes, NEW t \in P!Task, NEW s \in P!Sync, P!UnlockQ(t, s)
    PROVE  /\ qs_sem' \in [P!Sync -> Int] /\ qs_nest' \in [P!Sync -> Int]
           /\ qs_taskp' \in [P!Sync -> P!Task \cup {NoTask}]
<1>1. CASE option = "none"
  BY <1>1 DEF PutTypes, P!UnlockQ, P!sync
<1>2. CASE option # "none"
  <2> DEFINE n == IF qs_taskp[s] = t THEN qs_nest[s] - 1 ELSE qs_nest[s]
  <2>1. /\ qs_nest' = [qs_nest EXCEPT ![s] = n]
        /\ qs_taskp' = IF n = 0 THEN [qs_taskp EXCEPT ![s] = NoTask] ELSE qs_taskp
        /\ qs_sem' = IF n = 0 THEN [qs_sem EXCEPT ![s] = @ + 1] ELSE qs_sem
    BY <1>2 DEF P!UnlockQ
  <2>2. n \in Int
    BY DEF PutTypes
  <2> HIDE DEF n
  <2> QED
    BY <2>1, <2>2 DEF PutTypes
<1> QED
  BY <1>1, <1>2

LEMMA DeferTypes ==
    ASSUME PutTypes, NEW q \in P!Queue, NEW m \in P!Msg, NEW retry \in BOOLEAN,
             P!DeferMsg(q, m, retry)
    PROVE  /\ q_defer' \in [P!Queue -> Seq(P!Msg)] /\ q_count' \in [P!Queue -> Int]
           /\ q_defer' = [q_defer EXCEPT ![q] = IF retry THEN <<m>> \o @ ELSE @ \o <<m>>]
<1>1. q_defer[q] \in Seq(P!Msg) /\ <<m>> \in Seq(P!Msg)
  BY DEF PutTypes
<1>2. <<m>> \o q_defer[q] \in Seq(P!Msg) /\ q_defer[q] \o <<m>> \in Seq(P!Msg)
  BY <1>1, ConcatProperties
<1>3. Append(q_defer[q], m) = q_defer[q] \o <<m>>
  BY <1>1, AppendIsConcat
<1>4. (q_count[q] + 1) % Width \in Int
  BY Assumptions DEF P!PutSyncBounds, PutTypes
<1>5. CASE retry
  <2>1. q_defer' = [q_defer EXCEPT ![q] = <<m>> \o q_defer[q]] /\ UNCHANGED q_count
    BY <1>5 DEF P!DeferMsg
  <2> QED
    BY <2>1, <1>2, <1>5 DEF PutTypes
<1>6. CASE ~retry
  <2>1. /\ q_defer' = [q_defer EXCEPT ![q] = q_defer[q] \o <<m>>]
        /\ q_count' = [q_count EXCEPT ![q] = (q_count[q] + 1) % Width]
    BY <1>3, <1>6 DEF P!DeferMsg
  <2> QED
    BY <2>1, <1>2, <1>4, <1>6 DEF PutTypes
<1> QED
  BY <1>5, <1>6

LEMMA TypesRest ==
    ASSUME PutTypes, UNCHANGED <<change, option, P!queues, P!sync, consumed, sent, P!ghost>>
    PROVE  PutTypes'
BY DEF PutTypes, P!queues, P!sync, P!ghost

LEMMA TypesKeptByPuts ==
    ASSUME PutTypes, CallsSound, ControlSound, NEW t \in P!Task, Puts(t)
    PROVE  PutTypes'
<1>1. CASE P!PassOn(t) \/ P!Pass(t)
  BY <1>1, TypesRest DEF P!PassOn, P!Pass
<1>2. CASE P!Defer(t)
  <2>1. /\ P!Top(t).q \in P!Queue /\ P!Top(t).m \in P!Msg
    BY <1>2, TopTypes DEF P!Defer, P!In
  <2>2. PICK retry \in BOOLEAN : retry = P!Top(t).deferring
    <3>1. PICK l \in PutLabels, q \in P!Queue, m \in P!Msg, d, e \in BOOLEAN :
             /\ Forms(t, l, q, m, d, e)
             /\ t \in Proc => m = Mine(t) /\ d = FALSE /\ e = FALSE
             /\ t = Changer => e = TRUE /\ (d = TRUE => stack[t] = <<Fr(l, q, m, d)>>)
      BY <1>2, SomeForm DEF ControlSound, P!Defer, P!In
    <3> QED
      BY <3>1, FormTop
  <2>3. P!DeferMsg(P!Top(t).q, P!Top(t).m, retry)
    BY <1>2, <2>2 DEF P!Defer
  <2>4. q_defer' \in [P!Queue -> Seq(P!Msg)] /\ q_count' \in [P!Queue -> Int]
    BY <2>1, <2>3, DeferTypes
  <2>5. consumed' \in [P!Task -> BOOLEAN] /\ clogged' \in BOOLEAN
    BY <1>2 DEF P!Defer, P!Returns, PutTypes
  <2> QED
    BY <1>2, <2>4, <2>5 DEF PutTypes, P!Defer, P!sync
<1>3. CASE P!Lock(t)
  <2>1. P!Top(t).q \in P!Queue
    BY <1>3, TopTypes DEF P!Lock, P!In
  <2>2. P!LockQ(t, P!Top(t).q)
    BY <1>3 DEF P!Lock
  <2> QED
    BY <1>3, <2>1, <2>2, LockQTypes DEF PutTypes, P!Lock, P!queues, P!ghost
<1>4. CASE P!PutProc(t)
  <2>1. P!Top(t).m \in P!Msg
    BY <1>4, TopTypes DEF P!PutProc, P!In
  <2>2. delivered' \in Seq(P!Msg)
    <3>1. delivered' = delivered \/ delivered' = Append(delivered, P!Top(t).m)
      BY <1>4 DEF P!PutProc
    <3>2. delivered \in Seq(P!Msg)
      BY DEF PutTypes
    <3> QED
      BY <2>1, <3>1, <3>2, AppendProperties
  <2> QED
    BY <1>4, <2>2 DEF PutTypes, P!PutProc, P!queues, P!sync
<1>5. CASE P!Unlock(t)
  <2>1. P!Top(t).q \in P!Queue
    BY <1>5, TopTypes DEF P!Unlock, P!In
  <2>2. P!UnlockQ(t, P!SyncOf(P!Top(t).q)) /\ P!SyncOf(P!Top(t).q) \in P!Sync
    BY <1>5, <2>1, SyncIs DEF P!Unlock
  <2>3. consumed' \in [P!Task -> BOOLEAN]
    BY <1>5 DEF P!Unlock, P!Returns, PutTypes
  <2> QED
    BY <1>5, <2>2, <2>3, UnlockTypes DEF PutTypes, P!Unlock, P!queues, P!ghost
<1>6. CASE t \in Proc /\ P!Put(t)
  <2>1. sent' \in [Proc -> 0 .. PerPutter]
    <3>1. /\ sent' = [sent EXCEPT ![t] = sent[t] + 1]
          /\ sent'[t] \in 1 .. PerPutter /\ sent'[t] = sent[t] + 1
      BY <1>6, PutIs
    <3>2. sent[t] + 1 \in 0 .. PerPutter
      BY <3>1, Assumptions DEF P!PutSyncBounds
    <3> QED
      BY <3>1, <3>2 DEF PutTypes
  <2> QED
    BY <1>6, <2>1 DEF PutTypes, P!Put, P!queues, P!sync, P!ghost
<1> QED
  BY <1>1, <1>2, <1>3, <1>4, <1>5, <1>6 DEF Puts, P!PutSteps

LEMMA FlagTypes ==
    ASSUME PutTypes, NEW q \in P!Queue, NEW F \in SUBSET PutFlags,
           q_flag' = [q_flag EXCEPT ![q] = F]
    PROVE  q_flag' \in [P!Queue -> SUBSET PutFlags]
BY DEF PutTypes

\* The steps of the changer that set flags.
LEMMA FlagsMove ==
    ASSUME PutTypes, ControlSound, P!Freeze \/ P!Attach \/ P!ProcsOff \/ P!Thaw
             \/ P!StartDeferred \/ P!EndDeferred
    PROVE  q_flag' \in [P!Queue -> SUBSET PutFlags]
<1>0. "mod" \in P!Queue /\ (todo # <<>> => Head(todo) \in P!Queue)
  BY TodoIs DEF P!Queue, ControlSound
<1>1. \A q \in P!Queue : q_flag[q] \in SUBSET PutFlags
  BY DEF PutTypes
<1>2. CASE P!Freeze
  BY <1>0, <1>1, <1>2, FlagTypes DEF P!Freeze, PutFlags
<1>3. CASE P!Attach
  BY <1>0, <1>3, FlagTypes DEF P!Attach, PutFlags
<1>4. CASE P!ProcsOff
  BY <1>0, <1>1, <1>4, FlagTypes DEF P!ProcsOff, PutFlags
<1>5. CASE P!Thaw
  BY <1>0, <1>1, <1>5, FlagTypes DEF P!Thaw, PutFlags
<1>6. CASE P!StartDeferred
  <2>1. todo # <<>>
    BY <1>6 DEF P!StartDeferred, P!C, ControlSound, ChangerAt, Settled
  <2> QED
    BY <1>0, <1>1, <1>6, <2>1, FlagTypes DEF P!StartDeferred, PutFlags
<1>7. CASE P!EndDeferred
  <2>1. todo # <<>>
    BY <1>7 DEF P!EndDeferred, P!C, ControlSound, ChangerAt, Settled
  <2> QED
    BY <1>0, <1>1, <1>7, <2>1, FlagTypes DEF P!EndDeferred, PutFlags
<1> QED
  BY <1>2, <1>3, <1>4, <1>5, <1>6, <1>7

LEMMA TypesKeptByChange ==
    ASSUME PutTypes, CallsSound, ControlSound, P!Begin \/ P!ChangeSteps
    PROVE  PutTypes'
<1>1. CASE P!Begin \/ P!NothingDeferred
  BY <1>1, TypesRest DEF P!Begin, P!NothingDeferred
<1>2. CASE P!Freeze \/ P!Attach \/ P!Thaw \/ P!EndDeferred
  <2>1. q_flag' \in [P!Queue -> SUBSET PutFlags]
    BY <1>2, FlagsMove
  <2> QED
    BY <1>2, <2>1 DEF PutTypes, P!Freeze, P!Attach, P!Thaw, P!EndDeferred, P!sync, P!ghost
<1>3. CASE P!StartDeferred
  <2>1. q_flag' \in [P!Queue -> SUBSET PutFlags]
    BY <1>3, FlagsMove
  <2> QED
    BY <1>3, <2>1, TaskIs DEF PutTypes, P!StartDeferred, P!sync, P!ghost
<1>4. Changer \in P!Task /\ "mod" \in P!Queue /\ P!SyncOf("mod") \in P!Sync
  BY TaskIs, SyncIs DEF P!Queue
<1>5. CASE P!LockOff \/ P!LockClosed
  <2>1. P!LockQ(Changer, "mod")
    BY <1>5 DEF P!LockOff, P!LockClosed
  <2> QED
    BY <1>4, <1>5, <2>1, LockQTypes DEF PutTypes, P!LockOff, P!LockClosed, P!queues, P!ghost
<1>6. CASE P!ProcsOff
  <2>1. q_flag' \in [P!Queue -> SUBSET PutFlags]
    BY <1>6, FlagsMove
  <2>2. P!UnlockQ(Changer, P!SyncOf("mod"))
    BY <1>6 DEF P!ProcsOff
  <2> QED
    BY <1>4, <1>6, <2>1, <2>2, UnlockTypes DEF PutTypes, P!ProcsOff, P!ghost
<1>7. CASE P!Unlink
  <2>1. P!UnlockQ(Changer, P!SyncOf("mod"))
    BY <1>7 DEF P!Unlink
  <2> QED
    BY <1>4, <1>7, <2>1, UnlockTypes DEF PutTypes, P!Unlink, P!ghost
<1>8. CASE P!Free
  <2>1. "mod" \in P!Queue /\ q_defer["mod"] \in Seq(P!Msg)
    BY DEF P!Queue, PutTypes
  <2>2. {q_defer["mod"][i] : i \in DOMAIN q_defer["mod"]} \subseteq P!Msg
    BY <2>1
  <2>3. flushed' \subseteq P!Msg /\ late' \in BOOLEAN
    BY <1>8, <2>2 DEF P!Free, PutTypes
  <2>4. q_defer' \in [P!Queue -> Seq(P!Msg)] /\ q_count' \in [P!Queue -> Int]
    BY <1>8, <2>1 DEF P!Free, PutTypes
  <2> QED
    BY <1>8, <2>3, <2>4 DEF PutTypes, P!Free, P!sync
<1>9. CASE P!TakeDeferred
  <2> DEFINE q == Head(todo)
  <2>1. q \in P!Queue /\ q_defer[q] # <<>> /\ q_defer' = [q_defer EXCEPT ![q] = Tail(q_defer[q])]
    BY <1>9, TakeDeferredIs
  <2>2. Tail(q_defer[q]) \in Seq(P!Msg)
    BY <2>1, HeadTailProperties DEF PutTypes
  <2>3. q_count' = [q_count EXCEPT ![q] = (@ - 1) % Width]
    BY <1>9 DEF P!TakeDeferred
  <2> HIDE DEF q
  <2>4. (q_count[q] - 1) % Width \in Int
    BY <2>1, Assumptions DEF P!PutSyncBounds, PutTypes
  <2>5. q_defer' \in [P!Queue -> Seq(P!Msg)] /\ q_count' \in [P!Queue -> Int]
    BY <2>1, <2>2, <2>3, <2>4 DEF PutTypes
  <2> QED
    BY <1>9, <2>5 DEF PutTypes, P!TakeDeferred, P!sync, P!ghost
<1> QED
  BY <1>1, <1>2, <1>3, <1>5, <1>6, <1>7, <1>8, <1>9 DEF P!ChangeSteps

LEMMA ControlKeptByPuts ==
    ASSUME PutTypes, CallsSound, ControlSound, NEW t \in P!Task, Puts(t)
    PROVE  ControlSound'
<1>1. UNCHANGED <<change, option, q_next, q_flag, cpc, todo>>
  BY DEF Puts, P!PutSteps, P!PassOn, P!Defer, P!Pass, P!Lock, P!PutProc, P!Unlock, P!Put,
        P!queues, P!changer
<1>2. ChangerAt' /\ Links' /\ FlagsSet'
  BY <1>1 DEF ControlSound, ChangerAt, Links, FlagsSet
<1>3. ASSUME change = "push", cpc \in Unpushed
      PROVE  /\ q_defer'["mod"] = <<>>
             /\ \A u \in Proc : \A i \in DOMAIN stack'[u] : stack'[u][i].q = "drv"
  <2>1. /\ q_defer["mod"] = <<>> /\ \A u \in Proc : \A i \in DOMAIN stack[u] : stack[u][i].q = "drv"
        /\ q_next["head"] = "drv"
    BY <1>3 DEF ControlSound, Unknown, Links, Unpushed, Settled
  <2>2. stack[Changer] = <<>>
    BY <1>3, ChangerForms DEF Unpushed
  <2>3. t \in Proc
    <3> SUFFICES ASSUME t = Changer PROVE FALSE
      BY DEF P!Task
    <3> QED
      BY <2>2, TaskIs DEF Puts, P!PutSteps, P!PassOn, P!Defer, P!Pass, P!Lock, P!PutProc,
            P!Unlock, P!In
  <2>4. stack[t] # <<>> => P!Top(t).q = "drv"
    <3> SUFFICES ASSUME stack[t] # <<>> PROVE P!Top(t).q = "drv"
      OBVIOUS
    <3>1. PICK l \in PutLabels, q \in P!Queue : Forms(t, l, q, Mine(t), FALSE, FALSE)
      BY <2>3, PutterForms
    <3>2. 1 \in DOMAIN stack[t]
      <4> DEFINE f == Fr(l, q, Mine(t), FALSE)
                 g == Lowest(Mine(t), FALSE)
      <4>1. stack[t] = <<f>> \/ stack[t] = <<f, g>>
        BY <3>1 DEF Forms
      <4> HIDE DEF f, g
      <4>2. DOMAIN <<f>> = {1} /\ DOMAIN <<f, g>> = {1, 2}
        OBVIOUS
      <4> QED
        BY <4>1, <4>2
    <3> QED
      BY <2>1, <2>3, <3>2 DEF P!Top
  <2>5. stack[t] # <<>> => \E l, m, d : stack[t] = <<Fr(l, "drv", m, d)>>
    <3> SUFFICES ASSUME stack[t] # <<>>
                 PROVE  \E l, m, d : stack[t] = <<Fr(l, "drv", m, d)>>
      OBVIOUS
    <3>1. PICK l \in PutLabels, q \in P!Queue : Forms(t, l, q, Mine(t), FALSE, FALSE)
      BY <2>3, PutterForms
    <3>2. q = "drv"
      BY <2>4, <3>1, FormTop
    <3>3. CASE stack[t] = <<Fr(l, "drv", Mine(t), FALSE), Lowest(Mine(t), FALSE)>>
      <4>1. 2 \in DOMAIN stack[t] /\ stack[t][2] = Lowest(Mine(t), FALSE)
        BY <3>3, Ends
      <4> QED
        BY <4>1, <2>1, <2>3 DEF Lowest, Fr
    <3> QED
      BY <3>1, <3>2, <3>3 DEF Forms
  <2>6. /\ q_defer'["mod"] = <<>> /\ \A u \in P!Task \ {t} : stack'[u] = stack[u]
        /\ stack'[t] = <<>> \/ \E l, m, d : stack'[t] = <<Fr(l, "drv", m, d)>>
    <3>1. CASE P!PassOn(t)
      BY <3>1, <1>3, PassOnIs
    <3>2. CASE P!Defer(t)
      <4>1. stack[t] # <<>> /\ P!Top(t).q = "drv" /\ P!Returns(t, FALSE)
        BY <2>4, <3>2 DEF P!Defer, P!In
      <4>2. UNCHANGED q_defer \/ \E s : q_defer' = [q_defer EXCEPT !["drv"] = s]
        BY <4>1, <3>2 DEF P!Defer, P!DeferMsg
      <4>3. q_defer'["mod"] = <<>>
        BY <4>2, <2>1 DEF PutTypes, P!Queue
      <4> QED
        BY <4>1, <4>3, <2>5, Comes
    <3>3. CASE P!Pass(t)
      <4>1. stack[t] # <<>> /\ P!Goto(t, "lock") /\ UNCHANGED q_defer
        BY <3>3 DEF P!Pass, P!In, P!queues
      <4>2. PICK l, m, d : stack[t] = <<Fr(l, "drv", m, d)>>
        BY <4>1, <2>5
      <4> QED
        BY <4>1, <4>2, <2>1, Goes
    <3>4. CASE P!Lock(t)
      <4>1. stack[t] # <<>> /\ P!Goto(t, "put") /\ UNCHANGED q_defer
        BY <3>4 DEF P!Lock, P!In, P!queues
      <4>2. PICK l, m, d : stack[t] = <<Fr(l, "drv", m, d)>>
        BY <4>1, <2>5
      <4> QED
        BY <4>1, <4>2, <2>1, Goes
    <3>5. CASE P!PutProc(t)
      <4>1. stack[t] # <<>> /\ UNCHANGED q_defer
        BY <3>5 DEF P!PutProc, P!In, P!queues
      <4>2. P!Goto(t, "unlock")
        BY <3>5, <4>1, <2>4 DEF P!PutProc, ControlSound, Links
      <4>3. PICK l, m, d : stack[t] = <<Fr(l, "drv", m, d)>>
        BY <4>1, <2>5
      <4> QED
        BY <4>1, <4>2, <4>3, <2>1, Goes
    <3>6. CASE P!Unlock(t)
      <4>1. stack[t] # <<>> /\ P!Returns(t, TRUE) /\ UNCHANGED q_defer
        BY <3>6 DEF P!Unlock, P!In, P!queues
      <4> QED
        BY <4>1, <2>1, <2>5, Comes
    <3>7. CASE t \in Proc /\ P!Put(t)
      <4>1. stack'[t] = <<Fr("test", q_next["head"], Mine(t)', FALSE)>> /\ UNCHANGED q_defer
        BY <3>7, PutIs DEF P!Put, P!queues
      <4>2. stack'[t] = <<Fr("test", "drv", Mine(t)', FALSE)>>
        BY <4>1, <2>1
      <4>3. \E l, m, d : stack'[t] = <<Fr(l, "drv", m, d)>>
        BY <4>2
      <4> QED
        BY <4>1, <4>3, <3>7, <2>1, PutIs
    <3> QED
      BY <3>1, <3>2, <3>3, <3>4, <3>5, <3>6, <3>7 DEF Puts, P!PutSteps
  <2>7. \A i \in DOMAIN stack'[t] : stack'[t][i].q = "drv"
    <3>1. CASE stack'[t] = <<>>
      BY <3>1
    <3>2. CASE \E l, m, d : stack'[t] = <<Fr(l, "drv", m, d)>>
      <4>1. PICK l, m, d : stack'[t] = <<Fr(l, "drv", m, d)>>
        BY <3>2
      <4>2. DOMAIN stack'[t] = {1} /\ stack'[t][1] = Fr(l, "drv", m, d)
        BY <4>1
      <4> QED
        BY <4>2, FrIs
    <3> QED
      BY <2>6, <3>1, <3>2
  <2> QED
    BY <2>1, <2>6, <2>7, TaskIs
<1> QED
  BY <1>1, <1>2, <1>3 DEF ControlSound, Unknown

LEMMA ControlKeptByChange ==
    ASSUME PutTypes, CallsSound, ControlSound, P!Begin \/ P!ChangeSteps
    PROVE  ControlSound'
<1>1. change' = change /\ option' = option
  BY DEF P!ChangeSteps, P!Begin, P!Freeze, P!Attach, P!LockOff, P!ProcsOff, P!LockClosed,
        P!Unlink, P!Free, P!Thaw, P!NothingDeferred, P!StartDeferred, P!TakeDeferred, P!EndDeferred
<1>2. ChangerAt /\ Links /\ FlagsSet /\ Unknown /\ change \in {"push", "pop"}
      /\ q_flag \in [P!Queue -> SUBSET PutFlags]
  BY DEF ControlSound, PutTypes
<1>3. /\ Head(<<"drv">>) = "drv" /\ Head(<<"mod", "drv">>) = "mod"
      /\ Tail(<<"drv">>) = <<>> /\ Tail(<<"mod", "drv">>) = <<"drv">>
      /\ <<"drv">> # <<>> /\ <<"mod", "drv">> # <<>> /\ <<"drv">> # <<"mod", "drv">>
  OBVIOUS
<1>4. ASSUME UNCHANGED <<q_defer, stack>>, cpc' \in Unpushed => cpc \in Unpushed
      PROVE  Unknown'
  BY <1>1, <1>2, <1>4 DEF Unknown
<1>5. CASE P!Begin
  BY <1>1, <1>2, <1>3, <1>4, <1>5 DEF P!Begin, P!C, P!Then, ControlSound, ChangerAt, Links,
        FlagsSet, Settled, Unpopped, Unpushed, P!ChainFrom, P!queues
<1>6. CASE P!Freeze
  BY <1>1, <1>2, <1>3, <1>4, <1>6 DEF P!Freeze, P!C, P!Then, ControlSound, ChangerAt, Links,
        FlagsSet, Settled, Unpopped, Unpushed, P!Queue
<1>7. CASE P!Attach
  BY <1>1, <1>2, <1>3, <1>7 DEF P!Attach, P!C, P!Then, ControlSound, ChangerAt, Links, FlagsSet,
      Settled, Unpopped, Unpushed, P!ChainFrom, P!Queue, Unknown
<1>8. CASE P!LockOff \/ P!LockClosed
  BY <1>1, <1>2, <1>3, <1>4, <1>8 DEF P!LockOff, P!LockClosed, P!C, P!Then, ControlSound,
        ChangerAt, Links, FlagsSet, Settled, Unpopped, Unpushed, P!queues
<1>9. CASE P!ProcsOff
  BY <1>1, <1>2, <1>3, <1>4, <1>9 DEF P!ProcsOff, P!C, P!Then, ControlSound, ChangerAt, Links,
      FlagsSet, Settled, Unpopped, Unpushed, P!Queue
<1>10. CASE P!Unlink
  BY <1>1, <1>2, <1>3, <1>4, <1>10 DEF P!Unlink, P!C, P!Then, ControlSound, ChangerAt, Links,
      FlagsSet, Settled, Unpopped, Unpushed, P!Queue
<1>11. CASE P!Free
  BY <1>1, <1>2, <1>3, <1>11 DEF P!Free, P!C, P!Then, ControlSound, ChangerAt, Links,
      FlagsSet, Settled, Unpopped, Unpushed, P!Queue, P!ChainFrom, Unknown
<1>12. CASE P!Thaw
  BY <1>1, <1>2, <1>3, <1>4, <1>12 DEF P!Thaw, P!C, P!Then, ControlSound, ChangerAt, Links,
      FlagsSet, Settled, Unpopped, Unpushed, P!Queue
<1>13. CASE P!NothingDeferred
  BY <1>1, <1>2, <1>3, <1>4, <1>13 DEF P!NothingDeferred, P!Done, P!C, P!Then, ControlSound,
        ChangerAt, Links, FlagsSet, Settled, Unpopped, Unpushed, P!Queue, P!queues
<1>14. CASE P!StartDeferred
  BY <1>1, <1>2, <1>3, <1>4, <1>14 DEF P!StartDeferred, P!C, P!Then, ControlSound, ChangerAt, Links,
      FlagsSet, Settled, Unpopped, Unpushed, P!Queue
<1>15. CASE P!TakeDeferred
  BY <1>1, <1>2, <1>3, <1>15 DEF P!TakeDeferred, P!C, ControlSound, ChangerAt, Links, Unknown,
      FlagsSet, Settled, Unpopped, Unpushed, P!Queue, P!changer
<1>16. CASE P!EndDeferred
  BY <1>1, <1>2, <1>3, <1>4, <1>16 DEF P!EndDeferred, P!Done, P!C, P!Then, ControlSound,
        ChangerAt, Links, FlagsSet, Settled, Unpopped, Unpushed, P!Queue
<1> QED
  BY <1>5, <1>6, <1>7, <1>8, <1>9, <1>10, <1>11, <1>12, <1>13, <1>14, <1>15, <1>16 DEF P!ChangeSteps

LEMMA LockedForms ==
    /\ \A l, q, m, d, s : LockedBy(<<Fr(l, q, m, d)>>, s)
         = One(l \in {"put", "unlock"} /\ P!SyncOf(q) = s)
    /\ \A l, q, m, d, n, e, s :
         LockedBy(<<Fr(l, q, m, d), Lowest(n, e)>>, s)
           = One(l \in {"put", "unlock"} /\ P!SyncOf(q) = s) + One(P!SyncOf("mod") = s)
    /\ \A s : LockedBy(<<>>, s) = 0
<1>1. ASSUME NEW l, NEW q, NEW m, NEW d, NEW s
      PROVE  LockedBy(<<Fr(l, q, m, d)>>, s) = One(l \in {"put", "unlock"} /\ P!SyncOf(q) = s)
  <2> DEFINE f == Fr(l, q, m, d)
  <2>1. f.at = l /\ f.q = q
    BY FrIs
  <2> HIDE DEF f
  <2>2. LockedBy(<<f>>, s) = One(f.at \in {"put", "unlock"} /\ P!SyncOf(f.q) = s)
    BY Ends DEF LockedBy, One
  <2> QED
    BY <2>1, <2>2 DEF f
<1>2. ASSUME NEW l, NEW q, NEW m, NEW d, NEW n, NEW e, NEW s
      PROVE  LockedBy(<<Fr(l, q, m, d), Lowest(n, e)>>, s)
               = One(l \in {"put", "unlock"} /\ P!SyncOf(q) = s) + One(P!SyncOf("mod") = s)
  <2> DEFINE f == Fr(l, q, m, d)
             g == Lowest(n, e)
  <2>1. f.at = l /\ f.q = q
    BY FrIs
  <2> HIDE DEF f, g
  <2>2. LockedBy(<<f, g>>, s) = One(f.at \in {"put", "unlock"} /\ P!SyncOf(f.q) = s)
                                   + One(P!SyncOf("mod") = s)
    BY Ends DEF LockedBy, One
  <2> QED
    BY <2>1, <2>2 DEF f, g
<1>3. ASSUME NEW s PROVE LockedBy(<<>>, s) = 0
  BY Ends DEF LockedBy, One
<1> QED
  BY <1>1, <1>2, <1>3

LEMMA LockedIsNat == \A st, s : LockedBy(st, s) \in Nat
BY DEF LockedBy, One

LEMMA LocksRest ==
    ASSUME LockCounts, UNCHANGED <<option, P!sync>>,
           \A t \in P!Task, s \in P!Sync : Nests(t, s)' = Nests(t, s)
    PROVE  LockCounts'
BY DEF LockCounts, P!sync

LEMMA LocksTaken ==
    ASSUME LockCounts, PutTypes, NEW t \in P!Task, NEW y \in P!Sync, P!LockSync(t, y),
           option' = option,
           Nests(t, y)' = Nests(t, y) + 1,
           \A u \in P!Task, s \in P!Sync : u # t \/ s # y => Nests(u, s)' = Nests(u, s)
    PROVE  LockCounts'
<1> SUFFICES ASSUME option # "none", NEW s \in P!Sync
             PROVE  /\ qs_nest'[s] >= 0
                    /\ qs_sem'[s] = IF qs_nest'[s] = 0 THEN 1 ELSE 0
                    /\ qs_nest'[s] = 0 <=> qs_taskp'[s] = NoTask
                    /\ \A u \in P!Task : Nests(u, s)' = IF qs_taskp'[s] = u THEN qs_nest'[s] ELSE 0
  BY DEF LockCounts
<1>1. /\ qs_nest[s] >= 0 /\ qs_nest[s] \in Int /\ qs_sem[s] \in Int
      /\ qs_sem[s] = IF qs_nest[s] = 0 THEN 1 ELSE 0
      /\ qs_nest[s] = 0 <=> qs_taskp[s] = NoTask
      /\ \A u \in P!Task : Nests(u, s) = IF qs_taskp[s] = u THEN qs_nest[s] ELSE 0
  BY DEF LockCounts, PutTypes
<1>2. /\ qs_taskp[y] = t \/ qs_sem[y] > 0
      /\ qs_nest' = [qs_nest EXCEPT ![y] = @ + 1]
      /\ qs_taskp' = [qs_taskp EXCEPT ![y] = t]
      /\ qs_sem' = IF qs_taskp[y] = t THEN qs_sem ELSE [qs_sem EXCEPT ![y] = @ - 1]
      /\ DOMAIN qs_nest = P!Sync /\ DOMAIN qs_taskp = P!Sync /\ DOMAIN qs_sem = P!Sync
  BY DEF P!LockSync, PutTypes
<1>3. CASE s # y
  <2>1. qs_nest'[s] = qs_nest[s] /\ qs_taskp'[s] = qs_taskp[s] /\ qs_sem'[s] = qs_sem[s]
    BY <1>2, <1>3
  <2> QED
    BY <2>1, <1>1, <1>3
<1>4. CASE s = y
  <2>1. qs_nest'[s] = qs_nest[s] + 1 /\ qs_taskp'[s] = t
    BY <1>2, <1>4
  <2>2. qs_taskp[s] = t => qs_sem'[s] = qs_sem[s] /\ qs_nest[s] # 0
    BY <1>1, <1>2, <1>4, TaskIs
  <2>3. qs_taskp[s] # t => qs_sem'[s] = 0 /\ qs_nest[s] = 0 /\ qs_taskp[s] = NoTask
    BY <1>1, <1>2, <1>4
  <2>4. qs_sem'[s] = 0
    BY <1>1, <2>2, <2>3
  <2>5. Nests(t, s)' = qs_nest'[s]
    BY <1>1, <1>4, <2>1, <2>3
  <2>6. ASSUME NEW u \in P!Task, u # t PROVE Nests(u, s)' = 0
    BY <1>1, <1>4, <2>3, <2>6, TaskIs
  <2> QED
    BY <1>1, <2>1, <2>4, <2>5, <2>6, TaskIs
<1> QED
  BY <1>3, <1>4

LEMMA LocksFreed ==
    ASSUME LockCounts, PutTypes, NEW t \in P!Task, NEW y \in P!Sync, P!UnlockQ(t, y),
           option' = option,
           Nests(t, y) >= 1, Nests(t, y)' = Nests(t, y) - 1,
           \A u \in P!Task, s \in P!Sync : u # t \/ s # y => Nests(u, s)' = Nests(u, s)
    PROVE  LockCounts'
<1> SUFFICES ASSUME option # "none", NEW s \in P!Sync
             PROVE  /\ qs_nest'[s] >= 0
                    /\ qs_sem'[s] = IF qs_nest'[s] = 0 THEN 1 ELSE 0
                    /\ qs_nest'[s] = 0 <=> qs_taskp'[s] = NoTask
                    /\ \A u \in P!Task : Nests(u, s)' = IF qs_taskp'[s] = u THEN qs_nest'[s] ELSE 0
  BY DEF LockCounts
<1>1. /\ qs_nest[s] >= 0 /\ qs_nest[s] \in Int /\ qs_sem[s] \in Int
      /\ qs_sem[s] = IF qs_nest[s] = 0 THEN 1 ELSE 0
      /\ qs_nest[s] = 0 <=> qs_taskp[s] = NoTask
      /\ \A u \in P!Task : Nests(u, s) = IF qs_taskp[s] = u THEN qs_nest[s] ELSE 0
  BY DEF LockCounts, PutTypes
<1>0. qs_taskp[y] = t /\ qs_nest[y] >= 1 /\ qs_nest[y] \in Int
  BY DEF LockCounts, PutTypes
<1> DEFINE n == qs_nest[y] - 1
<1>2. /\ qs_nest' = [qs_nest EXCEPT ![y] = n]
      /\ qs_taskp' = IF n = 0 THEN [qs_taskp EXCEPT ![y] = NoTask] ELSE qs_taskp
      /\ qs_sem' = IF n = 0 THEN [qs_sem EXCEPT ![y] = @ + 1] ELSE qs_sem
      /\ DOMAIN qs_nest = P!Sync /\ DOMAIN qs_taskp = P!Sync /\ DOMAIN qs_sem = P!Sync
  BY <1>0 DEF P!UnlockQ, PutTypes
<1>3. CASE s # y
  <2>1. qs_nest'[s] = qs_nest[s] /\ qs_taskp'[s] = qs_taskp[s] /\ qs_sem'[s] = qs_sem[s]
    BY <1>2, <1>3
  <2> QED
    BY <2>1, <1>1, <1>3
<1>4. CASE s = y
  <2>1. qs_nest'[s] = n /\ n = qs_nest[s] - 1 /\ qs_sem[s] = 0 /\ qs_taskp[s] = t
    BY <1>0, <1>1, <1>2, <1>4
  <2>2. /\ n = 0 => qs_taskp'[s] = NoTask /\ qs_sem'[s] = 1
        /\ n # 0 => qs_taskp'[s] = t /\ qs_sem'[s] = 0
    BY <1>1, <1>2, <1>4, <2>1
  <2>3. Nests(t, s)' = n
    BY <1>1, <1>4, <2>1
  <2>4. ASSUME NEW u \in P!Task, u # t PROVE Nests(u, s)' = 0
    BY <1>1, <1>4, <2>1, <2>4, TaskIs
  <2>5. n >= 0 /\ n \in Int
    BY <1>0
  <2> HIDE DEF n
  <2> QED
    BY <2>1, <2>2, <2>3, <2>4, <2>5, TaskIs
<1> QED
  BY <1>3, <1>4

LEMMA NestsNext ==
    ASSUME option' = option
    PROVE  \A u, s : Nests(u, s)' = LockedBy(stack'[u], s) + One(Alone(u, s)')
<1>1. \A q : P!SyncOf(q)' = P!SyncOf(q)
  BY DEF P!SyncOf
<1> QED
  BY <1>1 DEF Nests, LockedBy, One

LEMMA NestsIs == \A u, s : Nests(u, s) = LockedBy(stack[u], s) + One(Alone(u, s))
BY DEF Nests

LEMMA AloneSame == ASSUME option' = option, cpc' = cpc PROVE \A u, s : Alone(u, s)' <=> Alone(u, s)
BY DEF Alone, P!SyncOf

LEMMA OneIs == \A b : One(b) \in {0, 1}
BY DEF One

Holding(l, q, s) == One(l \in {"put", "unlock"} /\ P!SyncOf(q) = s)

LEMMA LockedGoes ==
    ASSUME CallsSound, NEW t \in P!Task, NEW l, P!Goto(t, l),
           NEW k, NEW q, NEW m, NEW d, NEW e, Forms(t, k, q, m, d, e), NEW s
    PROVE  LockedBy(stack'[t], s) = LockedBy(stack[t], s) - Holding(k, q, s) + Holding(l, q, s)
<1>1. CASE stack[t] = <<Fr(k, q, m, d)>>
  <2>1. stack'[t] = <<Fr(l, q, m, d)>>
    BY <1>1, Goes
  <2>2. LockedBy(stack[t], s) = Holding(k, q, s) /\ LockedBy(stack'[t], s) = Holding(l, q, s)
    BY <1>1, <2>1, LockedForms DEF Holding
  <2> QED
    BY <2>2, OneIs DEF Holding
<1>2. CASE stack[t] = <<Fr(k, q, m, d), Lowest(m, e)>>
  <2>1. stack'[t] = <<Fr(l, q, m, d), Lowest(m, e)>>
    BY <1>2, Goes
  <2>2. /\ LockedBy(stack[t], s) = Holding(k, q, s) + One(P!SyncOf("mod") = s)
        /\ LockedBy(stack'[t], s) = Holding(l, q, s) + One(P!SyncOf("mod") = s)
    BY <1>2, <2>1, LockedForms DEF Holding
  <2>3. One(P!SyncOf("mod") = s) \in Int /\ Holding(k, q, s) \in Int /\ Holding(l, q, s) \in Int
    BY OneIs DEF Holding
  <2> QED
    BY <2>2, <2>3
<1> QED
  BY <1>1, <1>2 DEF Forms

LEMMA LockedReturns ==
    ASSUME CallsSound, NEW t \in P!Task, NEW c, P!Returns(t, c),
           NEW k, NEW q, NEW m, NEW d, NEW e, Forms(t, k, q, m, d, e), NEW s
    PROVE  LockedBy(stack'[t], s) = LockedBy(stack[t], s) - Holding(k, q, s)
<1>1. CASE stack[t] = <<Fr(k, q, m, d)>>
  <2>1. stack'[t] = <<>>
    BY <1>1, Comes
  <2>2. LockedBy(stack[t], s) = Holding(k, q, s) /\ LockedBy(stack'[t], s) = 0
    BY <1>1, <2>1, LockedForms DEF Holding
  <2> QED
    BY <2>2, OneIs DEF Holding
<1>2. CASE stack[t] = <<Fr(k, q, m, d), Lowest(m, e)>>
  <2>1. stack'[t] = <<Fr("unlock", "mod", m, e)>>
    BY <1>2, Comes DEF Lowest
  <2>2. /\ LockedBy(stack[t], s) = Holding(k, q, s) + One(P!SyncOf("mod") = s)
        /\ LockedBy(stack'[t], s) = Holding("unlock", "mod", s)
    BY <1>2, <2>1, LockedForms DEF Holding
  <2>3. Holding("unlock", "mod", s) = One(P!SyncOf("mod") = s)
    BY DEF Holding, One
  <2>4. One(P!SyncOf("mod") = s) \in Int /\ Holding(k, q, s) \in Int
    BY OneIs DEF Holding
  <2> QED
    BY <2>2, <2>3, <2>4
<1> QED
  BY <1>1, <1>2 DEF Forms

LEMMA LocksStay ==
    ASSUME LockCounts, NEW t \in P!Task, UNCHANGED <<option, cpc, P!sync>>,
           \A u \in P!Task \ {t} : stack'[u] = stack[u],
           \A s \in P!Sync : LockedBy(stack'[t], s) = LockedBy(stack[t], s)
    PROVE  LockCounts'
<1>1. \A u \in P!Task, s \in P!Sync : Nests(u, s)' = Nests(u, s)
  BY NestsNext, NestsIs, AloneSame DEF One
<1> QED
  BY <1>1, LocksRest

LEMMA LockedAtTest ==
    /\ \A q, m, d, s : LockedBy(<<Fr("test", q, m, d)>>, s) = 0
    /\ \A q, m, d, n, e, s : LockedBy(<<Fr("test", q, m, d), Lowest(n, e)>>, s)
         = One(P!SyncOf("mod") = s)
BY LockedForms, OneIs DEF One

LEMMA EnteredIs ==
    /\ NotEntered(<<>>)
    /\ \A l, q, m, d : NotEntered(<<Fr(l, q, m, d)>>) <=> (q = "mod" => l = "test")
    /\ \A f, m, e : ~NotEntered(<<f, Lowest(m, e)>>)
BY FrIs, Ends DEF NotEntered, Lowest

\* While the module is being opened no putter is in it, and the changer is in no call.
LEMMA OpeningIs ==
    ASSUME PutTypes, CallsSound, ControlSound, OpenSound, "QOPENING" \in q_flag["mod"],
           NEW t \in P!Task, stack[t] # <<>>
    PROVE  /\ t \in Proc
           /\ \E l \in PutLabels, q \in P!Queue, m \in P!Msg, d, e \in BOOLEAN :
                /\ Forms(t, l, q, m, d, e) /\ stack[t] = <<Fr(l, q, m, d)>>
                /\ q = "mod" => l = "test"
<1>1. t \in Proc
  BY DEF OpenSound, CallsSound, ChangerCalls, P!Task
<1>2. PICK l \in PutLabels, q \in P!Queue, m \in P!Msg, d, e \in BOOLEAN :
         /\ Forms(t, l, q, m, d, e)
         /\ t \in Proc => m = Mine(t) /\ d = FALSE /\ e = FALSE
         /\ t = Changer => e = TRUE /\ (d = TRUE => stack[t] = <<Fr(l, q, m, d)>>)
  BY SomeForm DEF ControlSound
<1>3. NotEntered(stack[t])
  BY <1>1 DEF OpenSound
<1>4. stack[t] = <<Fr(l, q, m, d)>>
  BY <1>2, <1>3, EnteredIs DEF Forms
<1> QED
  BY <1>1, <1>2, <1>3, <1>4, EnteredIs

\* So lis_lockq takes what it is asked for.
LEMMA LockIsTaken ==
    ASSUME PutTypes, CallsSound, ControlSound, OpenSound, NEW t \in P!Task, P!Lock(t)
    PROVE  P!LockSync(t, P!SyncOf(P!Top(t).q))
<1>1. P!LockQ(t, P!Top(t).q) /\ stack[t] # <<>> /\ P!Top(t).at = "lock"
  BY DEF P!Lock, P!In
<1>2. P!Top(t).q \in P!Queue
  BY <1>1, TopTypes
<1>3. "QOPENING" \notin q_flag[P!Top(t).q]
  <2>1. CASE P!Top(t).q = "drv"
    BY <2>1 DEF OpenSound
  <2>2. ASSUME P!Top(t).q = "mod", "QOPENING" \in q_flag["mod"] PROVE FALSE
    <3>1. PICK l \in PutLabels, q \in P!Queue, m \in P!Msg, d, e \in BOOLEAN :
             Forms(t, l, q, m, d, e) /\ (q = "mod" => l = "test")
      BY <1>1, <2>2, OpeningIs
    <3> QED
      BY <1>1, <2>2, <3>1, FormTop
  <2> QED
    BY <1>2, <2>1, <2>2 DEF P!Queue
<1> QED
  BY <1>1, <1>3 DEF P!LockQ

LEMMA OpenKeptByPuts ==
    ASSUME PutTypes, CallsSound, ControlSound, OpenSound, NEW t \in P!Task, Puts(t)
    PROVE  OpenSound'
<1>0. UNCHANGED <<change, q_flag, cpc, todo>>
  BY DEF Puts, P!PutSteps, P!PassOn, P!Defer, P!Pass, P!Lock, P!PutProc, P!Unlock, P!Put,
         P!queues, P!changer
<1> SUFFICES ASSUME "QOPENING" \in q_flag["mod"]
             PROVE  \A u \in Proc : NotEntered(stack'[u])
  BY <1>0 DEF OpenSound
<1>1. \A u \in Proc : NotEntered(stack[u])
  BY DEF OpenSound
<1>2. CASE t \in Proc /\ P!Put(t)
  <2>1. /\ \A u \in P!Task \ {t} : stack'[u] = stack[u]
        /\ stack'[t] = <<Fr("test", q_next["head"], Mine(t)', FALSE)>>
    BY <1>2, PutIs
  <2>2. NotEntered(stack'[t])
    BY <2>1, EnteredIs
  <2> QED
    BY <1>1, <2>1, <2>2, TaskIs
<1>3. CASE P!PutSteps(t)
  <2>0. stack[t] # <<>>
    BY <1>3 DEF P!PutSteps, P!PassOn, P!Defer, P!Pass, P!Lock, P!PutProc, P!Unlock, P!In
  <2>1. PICK l \in PutLabels, q \in P!Queue, m \in P!Msg, d, e \in BOOLEAN :
             /\ Forms(t, l, q, m, d, e) /\ stack[t] = <<Fr(l, q, m, d)>>
             /\ q = "mod" => l = "test"
    BY <2>0, OpeningIs
  <2>2. P!Top(t).at = l /\ P!Top(t).q = q /\ P!Top(t).deferring = d
    BY <2>1, FormTop
  <2>3. ASSUME NEW k, P!Goto(t, k), q # "mod" PROVE \A u \in Proc : NotEntered(stack'[u])
    <3>1. stack'[t] = <<Fr(k, q, m, d)>> /\ \A u \in P!Task \ {t} : stack'[u] = stack[u]
      BY <2>1, <2>3, Goes
    <3>2. NotEntered(stack'[t])
      BY <2>3, <3>1, EnteredIs
    <3> QED
      BY <1>1, <3>1, <3>2, TaskIs
  <2>4. ASSUME NEW c, P!Returns(t, c) PROVE \A u \in Proc : NotEntered(stack'[u])
    <3>1. stack'[t] = <<>> /\ \A u \in P!Task \ {t} : stack'[u] = stack[u]
      BY <2>1, <2>4, Comes
    <3> QED
      BY <1>1, <3>1, TaskIs, EnteredIs
  <2>5. CASE P!PassOn(t)
    BY <2>5, PassOnIs DEF OpenSound
  <2>6. CASE P!Pass(t)
    <3>1. P!Goto(t, "lock") /\ ~P!MustWait(P!Top(t))
      BY <2>6 DEF P!Pass
    <3>2. q # "mod"
      BY <2>2, <3>1 DEF P!MustWait, P!Obstacles
    <3> QED
      BY <2>3, <3>1, <3>2
  <2>7. CASE P!Lock(t)
    BY <2>1, <2>2, <2>3, <2>7 DEF P!Lock, P!In
  <2>8. CASE P!PutProc(t)
    <3>1. l = "put" /\ q # "mod"
      BY <2>1, <2>2, <2>8 DEF P!PutProc, P!In
    <3>2. q_next[P!Top(t).q] = "none"
      BY <2>2, <3>1 DEF ControlSound, Links, P!Queue
    <3>3. P!Goto(t, "unlock")
      BY <2>8, <3>2 DEF P!PutProc
    <3> QED
      BY <2>3, <3>1, <3>3
  <2>9. CASE P!Defer(t) \/ P!Unlock(t)
    BY <2>4, <2>9 DEF P!Defer, P!Unlock
  <2> QED
    BY <1>3, <2>5, <2>6, <2>7, <2>8, <2>9 DEF P!PutSteps
<1> QED
  BY <1>2, <1>3 DEF Puts

LEMMA OpenKeptByChange ==
    ASSUME PutTypes, CallsSound, ControlSound, OpenSound, P!Begin \/ P!ChangeSteps
    PROVE  OpenSound'
<1>0. q_flag \in [P!Queue -> SUBSET PutFlags] /\ "mod" \in P!Queue /\ "drv" \in P!Queue
  BY DEF PutTypes, P!Queue
<1>1. CASE P!Attach
  <2>1. /\ cpc = "attach" /\ cpc' = "thaw" /\ todo' = <<"mod", "drv">>
        /\ q_flag' = [q_flag EXCEPT !["mod"] = {"QOPENING"}] /\ UNCHANGED <<change, stack>>
    BY <1>1 DEF P!Attach, P!C, P!Then, P!ChainFrom
  <2>2. change = "push"
    BY <2>1 DEF PutTypes, ControlSound, ChangerAt, Unpopped, Settled
  <2>3. ASSUME NEW t \in Proc PROVE NotEntered(stack[t])
    BY <2>1, <2>2 DEF ControlSound, Unknown, Unpushed, NotEntered
  <2>4. "QOPENING" \notin q_flag'["drv"] /\ Head(todo') = "mod"
    BY <1>0, <2>1 DEF OpenSound
  <2> QED
    BY <2>1, <2>2, <2>3, <2>4 DEF OpenSound
<1>2. CASE P!Thaw
  <2>1. /\ todo # <<>> /\ q_flag' = [q_flag EXCEPT ![Head(todo)] = @ \ {"QOPENING", "QFROZEN"}]
    BY <1>2 DEF P!Thaw
  <2>2. "QOPENING" \notin q_flag'["drv"] /\ "QOPENING" \notin q_flag'["mod"]
    BY <1>0, <2>1 DEF OpenSound
  <2> QED
    BY <2>2 DEF OpenSound
<1>3. CASE ~P!Attach /\ ~P!Thaw
  <2>1. cpc # "thaw"
    BY <1>3 DEF P!Begin, P!ChangeSteps, P!Freeze, P!LockOff, P!ProcsOff, P!LockClosed, P!Unlink,
          P!Free, P!NothingDeferred, P!StartDeferred, P!TakeDeferred, P!EndDeferred, P!C
  <2>2. "QOPENING" \notin q_flag["drv"] /\ "QOPENING" \notin q_flag["mod"]
    BY <2>1 DEF OpenSound
  <2>3. \/ UNCHANGED q_flag
        \/ \E q, f : f # "QOPENING" /\ q_flag' = [q_flag EXCEPT ![q] = @ \cup {f}]
        \/ \E q, f : q_flag' = [q_flag EXCEPT ![q] = @ \ {f}]
    <3>1. CASE P!Freeze \/ P!ProcsOff \/ P!StartDeferred
      BY <3>1 DEF P!Freeze, P!ProcsOff, P!StartDeferred
    <3>2. CASE P!EndDeferred
      BY <3>2 DEF P!EndDeferred
    <3>3. CASE UNCHANGED q_flag
      BY <3>3
    <3> QED
      BY <1>3, <3>1, <3>2, <3>3 DEF P!Begin, P!ChangeSteps, P!LockOff, P!LockClosed, P!Unlink,
            P!Free, P!NothingDeferred, P!TakeDeferred, P!queues
  <2>4. "QOPENING" \notin q_flag'["drv"] /\ "QOPENING" \notin q_flag'["mod"]
    BY <1>0, <2>2, <2>3
  <2> QED
    BY <2>4 DEF OpenSound
<1> QED
  BY <1>1, <1>2, <1>3

LEMMA LocksKeptByPuts ==
    ASSUME PutTypes, CallsSound, ControlSound, OpenSound, LockCounts, NEW t \in P!Task, Puts(t)
    PROVE  LockCounts'
<1>0. UNCHANGED <<option, cpc>>
  BY DEF Puts, P!PutSteps, P!PassOn, P!Defer, P!Pass, P!Lock, P!PutProc, P!Unlock, P!Put, P!changer
<1>1. CASE P!PassOn(t)
  <2> DEFINE no == FALSE
             m == Mine(t)
  <2>0. stack[t] = <<Fr("test", "mod", m, no)>> /\ stack'[t] = <<Fr("test", "drv", m, no)>>
    BY <1>1, PassOnIs
  <2> HIDE DEF no, m
  <2>1. \A s : LockedBy(stack'[t], s) = LockedBy(stack[t], s)
    BY <2>0, LockedAtTest
  <2> QED
    BY <1>0, <1>1, <2>1, PassOnIs, LocksStay DEF P!PassOn
<1>2. CASE t \in Proc /\ P!Put(t)
  <2> DEFINE no == FALSE
             m == Mine(t)'
  <2>0. stack[t] = <<>> /\ stack'[t] = <<Fr("test", q_next["head"], m, no)>>
    BY <1>2, PutIs
  <2> HIDE DEF no, m
  <2>1. \A s : LockedBy(stack'[t], s) = LockedBy(stack[t], s)
    BY <2>0, LockedAtTest, LockedForms
  <2> QED
    BY <1>0, <1>2, <2>1, PutIs, LocksStay DEF P!Put
<1>3. CASE P!PutProc(t)
  <2>1. PICK l \in {"put"}, q \in P!Queue, m \in P!Msg, d, e \in BOOLEAN :
             /\ Forms(t, l, q, m, d, e) /\ (t \in Proc => m = Mine(t) /\ d = FALSE /\ e = FALSE)
             /\ t = Changer => e = TRUE /\ d = TRUE /\ stack[t] = <<Fr(l, q, m, d)>>
             /\ DOMAIN stack' = P!Task /\ \A u \in P!Task \ {t} : stack'[u] = stack[u]
             /\ q = "mod" => /\ stack[t] = <<Fr("put", "mod", m, d)>>
                             /\ stack'[t] = <<Fr("test", "drv", m, FALSE), Lowest(m, d)>>
                             /\ UNCHANGED delivered
             /\ q = "drv" => P!Goto(t, "unlock") /\ delivered' = Append(delivered, m)
    BY <1>3, PutProcIs
  <2>2. ASSUME NEW s PROVE LockedBy(stack'[t], s) = LockedBy(stack[t], s)
    <3>1. CASE q = "mod"
      <4> DEFINE no == FALSE
      <4>1. /\ stack[t] = <<Fr("put", "mod", m, d)>>
            /\ stack'[t] = <<Fr("test", "drv", m, no), Lowest(m, d)>>
        BY <2>1, <3>1
      <4> HIDE DEF no
      <4>2. /\ LockedBy(stack[t], s) = Holding("put", "mod", s)
            /\ LockedBy(stack'[t], s) = One(P!SyncOf("mod") = s)
        BY <4>1, LockedAtTest, LockedForms DEF Holding
      <4> QED
        BY <4>2 DEF Holding, One
    <3>2. CASE q = "drv"
      <4>1. P!Goto(t, "unlock") /\ Forms(t, "put", q, m, d, e)
        BY <2>1, <3>2
      <4>2. LockedBy(stack'[t], s)
              = LockedBy(stack[t], s) - Holding("put", q, s) + Holding("unlock", q, s)
        BY <4>1, LockedGoes
      <4>3. Holding("put", q, s) = Holding("unlock", q, s) /\ Holding("put", q, s) \in Int
        BY DEF Holding, One
      <4> QED
        BY <4>2, <4>3, LockedIsNat
    <3> QED
      BY <3>1, <3>2 DEF P!Queue
  <2> QED
    BY <1>0, <1>3, <2>1, <2>2, LocksStay DEF P!PutProc
<1>4. CASE P!Defer(t) \/ P!Pass(t) \/ P!Lock(t) \/ P!Unlock(t)
  <2>1. stack[t] # <<>>
    BY <1>4 DEF P!Defer, P!Pass, P!Lock, P!Unlock, P!In
  <2>2. PICK l \in PutLabels, q \in P!Queue, m \in P!Msg, d, e \in BOOLEAN :
         /\ Forms(t, l, q, m, d, e)
         /\ t \in Proc => m = Mine(t) /\ d = FALSE /\ e = FALSE
         /\ t = Changer => e = TRUE /\ (d = TRUE => stack[t] = <<Fr(l, q, m, d)>>)
    BY <2>1, SomeForm DEF ControlSound
  <2>3. P!Top(t).at = l /\ P!Top(t).q = q
    BY <2>2, FormTop
  <2>4. CASE P!Defer(t)
    <3>1. l = "test" /\ P!Returns(t, FALSE) /\ UNCHANGED P!sync
      BY <2>3, <2>4 DEF P!Defer, P!In
    <3>2. ASSUME NEW s PROVE LockedBy(stack'[t], s) = LockedBy(stack[t], s)
      <4>1. LockedBy(stack'[t], s) = LockedBy(stack[t], s) - Holding(l, q, s)
        BY <3>1, <2>2, LockedReturns
      <4>2. Holding(l, q, s) = 0
        BY <3>1 DEF Holding, One
      <4> QED
        BY <4>1, <4>2, LockedIsNat
    <3> QED
      BY <1>0, <3>1, <3>2, Comes, LocksStay
  <2>5. CASE P!Pass(t)
    <3>1. l = "test" /\ P!Goto(t, "lock") /\ UNCHANGED P!sync
      BY <2>3, <2>5 DEF P!Pass, P!In
    <3>2. ASSUME NEW s PROVE LockedBy(stack'[t], s) = LockedBy(stack[t], s)
      <4>1. LockedBy(stack'[t], s)
              = LockedBy(stack[t], s) - Holding(l, q, s) + Holding("lock", q, s)
        BY <3>1, <2>2, LockedGoes
      <4>2. Holding(l, q, s) = 0 /\ Holding("lock", q, s) = 0
        BY <3>1 DEF Holding, One
      <4> QED
        BY <4>1, <4>2, LockedIsNat
    <3> QED
      BY <1>0, <3>1, <3>2, Goes, LocksStay
  <2>6. CASE P!Lock(t)
    <3>0. PICK y \in P!Sync : y = P!SyncOf(q)
      BY SyncIs
    <3>1. l = "lock" /\ P!Goto(t, "put") /\ P!LockSync(t, y)
      BY <2>3, <2>6, <3>0, LockIsTaken DEF P!Lock, P!In
    <3>2. ASSUME NEW s
          PROVE  LockedBy(stack'[t], s) = LockedBy(stack[t], s) + One(y = s)
      <4>1. LockedBy(stack'[t], s) = LockedBy(stack[t], s) - Holding(l, q, s) + Holding("put", q, s)
        BY <3>1, <2>2, LockedGoes
      <4>2. Holding(l, q, s) = 0 /\ Holding("put", q, s) = One(y = s)
        BY <3>0, <3>1 DEF Holding, One
      <4> QED
        BY <4>1, <4>2, LockedIsNat, OneIs
    <3>3. \A u \in P!Task \ {t} : stack'[u] = stack[u]
      BY <3>1, Goes
    <3>4. \A u, s : One(Alone(u, s)') = One(Alone(u, s)) /\ One(Alone(u, s)) \in Nat
      BY <1>0, AloneSame DEF One
    <3>5. Nests(t, y)' = Nests(t, y) + 1
      <4>1. One(y = y) = 1
        BY DEF One
      <4>2. Nests(t, y)' = LockedBy(stack'[t], y) + One(Alone(t, y)')
        BY <1>0, NestsNext
      <4>3. Nests(t, y) = LockedBy(stack[t], y) + One(Alone(t, y))
        BY NestsIs
      <4>4. LockedBy(stack'[t], y) = LockedBy(stack[t], y) + 1
        BY <3>2, <4>1
      <4>5. One(Alone(t, y)') = One(Alone(t, y)) /\ One(Alone(t, y)) \in Nat
        BY <3>4
      <4>6. LockedBy(stack[t], y) \in Nat /\ LockedBy(stack'[t], y) \in Nat
        BY LockedIsNat
      <4> QED
        BY <4>2, <4>3, <4>4, <4>5, <4>6
    <3>6. ASSUME NEW u \in P!Task, NEW s \in P!Sync, u # t \/ s # y
          PROVE  Nests(u, s)' = Nests(u, s)
      <4>1. LockedBy(stack'[u], s) = LockedBy(stack[u], s)
        <5>1. CASE u # t
          BY <3>3, <5>1
        <5>2. CASE u = t
          <6>1. One(y = s) = 0
            BY <3>6, <5>2 DEF One
          <6> QED
            BY <3>2, <5>2, <6>1, LockedIsNat
        <5> QED
          BY <5>1, <5>2
      <4> QED
        BY <1>0, <3>4, <4>1, NestsNext, NestsIs
    <3> QED
      BY <1>0, <3>1, <3>5, <3>6, LocksTaken
  <2>7. CASE P!Unlock(t)
    <3>0. PICK y \in P!Sync : y = P!SyncOf(q)
      BY SyncIs
    <3>1. l = "unlock" /\ P!Returns(t, TRUE) /\ P!UnlockQ(t, y)
      BY <2>3, <2>7, <3>0 DEF P!Unlock, P!In
    <3>2. ASSUME NEW s
          PROVE  LockedBy(stack'[t], s) = LockedBy(stack[t], s) - One(y = s)
      <4>1. LockedBy(stack'[t], s) = LockedBy(stack[t], s) - Holding(l, q, s)
        BY <3>1, <2>2, LockedReturns
      <4>2. Holding(l, q, s) = One(y = s)
        BY <3>0, <3>1 DEF Holding, One
      <4> QED
        BY <4>1, <4>2
    <3>3. \A u \in P!Task \ {t} : stack'[u] = stack[u]
      BY <3>1, Comes
    <3>4. \A u, s : One(Alone(u, s)') = One(Alone(u, s)) /\ One(Alone(u, s)) \in Nat
      BY <1>0, AloneSame DEF One
    <3>5. Nests(t, y)' = Nests(t, y) - 1 /\ Nests(t, y) >= 1
      <4>1. One(y = y) = 1
        BY DEF One
      <4>2. Nests(t, y)' = LockedBy(stack'[t], y) + One(Alone(t, y)')
        BY <1>0, NestsNext
      <4>3. Nests(t, y) = LockedBy(stack[t], y) + One(Alone(t, y))
        BY NestsIs
      <4>4. LockedBy(stack'[t], y) = LockedBy(stack[t], y) - 1
        BY <3>2, <4>1
      <4>5. One(Alone(t, y)') = One(Alone(t, y)) /\ One(Alone(t, y)) \in Nat
        BY <3>4
      <4>6. LockedBy(stack[t], y) \in Nat /\ LockedBy(stack'[t], y) \in Nat
        BY LockedIsNat
      <4> QED
        BY <4>2, <4>3, <4>4, <4>5, <4>6
    <3>6. ASSUME NEW u \in P!Task, NEW s \in P!Sync, u # t \/ s # y
          PROVE  Nests(u, s)' = Nests(u, s)
      <4>1. LockedBy(stack'[u], s) = LockedBy(stack[u], s)
        <5>1. CASE u # t
          BY <3>3, <5>1
        <5>2. CASE u = t
          <6>1. One(y = s) = 0
            BY <3>6, <5>2 DEF One
          <6> QED
            BY <3>2, <5>2, <6>1, LockedIsNat
        <5> QED
          BY <5>1, <5>2
      <4> QED
        BY <1>0, <3>4, <4>1, NestsNext, NestsIs
    <3> QED
      BY <1>0, <3>1, <3>5, <3>6, LocksFreed
  <2> QED
    BY <1>4, <2>4, <2>5, <2>6, <2>7
<1> QED
  BY <1>1, <1>2, <1>3, <1>4 DEF Puts, P!PutSteps

\* The changer takes the lock of the module, or gives it up.
LEMMA LocksKeptByTurns ==
    ASSUME PutTypes, LockCounts, UNCHANGED <<option, stack>>,
           \/ P!LockSync(Changer, P!SyncOf("mod")) /\ cpc \notin {"procsoff", "unlink"}
                                            /\ cpc' \in {"procsoff", "unlink"}
           \/ P!UnlockQ(Changer, P!SyncOf("mod")) /\ cpc \in {"procsoff", "unlink"}
                                              /\ cpc' \notin {"procsoff", "unlink"}
    PROVE  LockCounts'
<1>1. PICK y \in P!Sync : y = P!SyncOf("mod")
  BY SyncIs DEF P!Queue
<1>2. \A u, s : Nests(u, s)' = LockedBy(stack[u], s) + One(Alone(u, s)')
  BY NestsNext
<1>3. \A u, s : u # Changer \/ s # y => ~Alone(u, s) /\ ~Alone(u, s)'
  BY <1>1 DEF Alone, P!SyncOf
<1>4. \A u, s : u # Changer \/ s # y => Nests(u, s)' = Nests(u, s)
  BY <1>2, <1>3, NestsIs DEF One
<1>5. LockedBy(stack[Changer], y) \in Nat
  BY LockedIsNat
<1>6. CASE P!LockSync(Changer, P!SyncOf("mod")) /\ cpc \notin {"procsoff", "unlink"}
           /\ cpc' \in {"procsoff", "unlink"}
  <2>1. One(Alone(Changer, y)) = 0 /\ One(Alone(Changer, y)') = 1
    BY <1>1, <1>6 DEF Alone, One, P!SyncOf
  <2>2. Nests(Changer, y)' = LockedBy(stack[Changer], y) + 1
          /\ Nests(Changer, y) = LockedBy(stack[Changer], y) + 0
    BY <1>2, <2>1, NestsIs
  <2>3. Nests(Changer, y)' = Nests(Changer, y) + 1
    BY <1>5, <2>2
  <2> QED
    BY <1>1, <1>4, <1>6, <2>3, TaskIs, LocksTaken
<1>7. CASE P!UnlockQ(Changer, P!SyncOf("mod")) /\ cpc \in {"procsoff", "unlink"}
           /\ cpc' \notin {"procsoff", "unlink"}
  <2>1. One(Alone(Changer, y)) = 1 /\ One(Alone(Changer, y)') = 0
    BY <1>1, <1>7 DEF Alone, One, P!SyncOf
  <2>2. Nests(Changer, y)' = LockedBy(stack[Changer], y) + 0
          /\ Nests(Changer, y) = LockedBy(stack[Changer], y) + 1
    BY <1>2, <2>1, NestsIs
  <2>3. Nests(Changer, y)' = Nests(Changer, y) - 1 /\ Nests(Changer, y) >= 1
    BY <1>5, <2>2
  <2> QED
    BY <1>1, <1>4, <1>7, <2>3, TaskIs, LocksFreed
<1> QED
  BY <1>6, <1>7

LEMMA LocksKeptByChange ==
    ASSUME PutTypes, CallsSound, ControlSound, OpenSound, LockCounts, P!Begin \/ P!ChangeSteps
    PROVE  LockCounts'
<1>1. CASE P!LockOff \/ P!LockClosed \/ P!ProcsOff \/ P!Unlink
  <2>1. CASE P!LockOff \/ P!LockClosed
    <3>1. cpc \notin {"thaw", "procsoff", "unlink"} /\ cpc' \in {"procsoff", "unlink"}
          /\ P!LockQ(Changer, "mod") /\ UNCHANGED <<option, stack>>
      BY <2>1 DEF P!LockOff, P!LockClosed, P!C, P!Then
    <3>2. P!LockSync(Changer, P!SyncOf("mod"))
      BY <3>1 DEF P!LockQ, OpenSound
    <3> QED
      BY <3>1, <3>2, LocksKeptByTurns
  <2>2. CASE P!ProcsOff \/ P!Unlink
    BY <2>2, LocksKeptByTurns DEF P!ProcsOff, P!Unlink, P!C, P!Then
  <2> QED
    BY <1>1, <2>1, <2>2
<1>2. CASE P!Begin \/ P!Freeze \/ P!Attach \/ P!Free \/ P!Thaw \/ P!NothingDeferred
             \/ P!StartDeferred \/ P!EndDeferred
  <2>1. /\ UNCHANGED <<option, P!sync, stack>>
        /\ cpc \notin {"procsoff", "unlink"} /\ cpc' \notin {"procsoff", "unlink"}
    BY <1>2 DEF P!Begin, P!Freeze, P!Attach, P!Free, P!Thaw, P!NothingDeferred, P!StartDeferred,
          P!EndDeferred, P!Done, P!C, P!Then
  <2>2. \A u, s : ~Alone(u, s) /\ ~Alone(u, s)'
    BY <2>1 DEF Alone
  <2>3. \A u \in P!Task, s \in P!Sync : Nests(u, s)' = Nests(u, s)
    BY <2>1, <2>2, NestsNext, NestsIs DEF One
  <2> QED
    BY <2>1, <2>3, LocksRest
<1>3. CASE P!TakeDeferred
  <2>1. UNCHANGED <<option, cpc, P!sync>>
    BY <1>3 DEF P!TakeDeferred, P!changer
  <2> DEFINE m == Head(q_defer[Head(todo)])
             yes == TRUE
  <2>2. /\ stack[Changer] = <<>> /\ \A u \in P!Task \ {Changer} : stack'[u] = stack[u]
        /\ stack'[Changer] = <<Fr("test", Head(todo), m, yes)>>
    BY <1>3, TakeDeferredIs
  <2> HIDE DEF m, yes
  <2>3. \A s \in P!Sync : LockedBy(stack'[Changer], s) = LockedBy(stack[Changer], s)
    BY <2>2, LockedAtTest, LockedForms
  <2> QED
    BY <2>1, <2>2, <2>3, TaskIs, LocksStay
<1> QED
  BY <1>1, <1>2, <1>3 DEF P!ChangeSteps

LEMMA ElemsOf ==
    /\ Elems(<<>>) = {}
    /\ \A x : Elems(<<x>>) = {x}
    /\ \A s, t \in Seq(P!Msg) : Elems(s \o t) = Elems(s) \cup Elems(t)
    /\ \A s \in Seq(P!Msg) : Elems(s) \subseteq P!Msg
    /\ \A s \in Seq(P!Msg) : s # <<>> => Elems(s) = {Head(s)} \cup Elems(Tail(s))
<1>1. Elems(<<>>) = {} /\ \A x : Elems(<<x>>) = {x}
  BY DEF Elems
<1>2. ASSUME NEW s \in Seq(P!Msg), NEW t \in Seq(P!Msg) PROVE Elems(s \o t) = Elems(s) \cup Elems(t)
  <2>1. /\ DOMAIN (s \o t) = 1 .. Len(s) + Len(t) /\ DOMAIN s = 1 .. Len(s)
             /\ DOMAIN t = 1 .. Len(t)
        /\ Len(s) \in Nat /\ Len(t) \in Nat
        /\ \A i \in 1 .. Len(s) + Len(t) : (s \o t)[i] = IF i <= Len(s) THEN s[i] ELSE t[i - Len(s)]
    BY ConcatProperties
  <2>2. ASSUME NEW x \in Elems(s \o t) PROVE x \in Elems(s) \cup Elems(t)
    <3>1. PICK i \in 1 .. Len(s) + Len(t) : x = (s \o t)[i]
      BY <2>1 DEF Elems
    <3>2. CASE i <= Len(s)
      BY <2>1, <3>1, <3>2 DEF Elems
    <3>3. CASE i > Len(s)
      <4>1. i - Len(s) \in DOMAIN t /\ x = t[i - Len(s)]
        BY <2>1, <3>1, <3>3
      <4> QED
        BY <4>1 DEF Elems
    <3> QED
      BY <2>1, <3>1, <3>2, <3>3
  <2>3. ASSUME NEW x \in Elems(s) PROVE x \in Elems(s \o t)
    <3>1. PICK i \in 1 .. Len(s) : x = s[i]
      BY <2>1, <2>3 DEF Elems
    <3>2. i \in 1 .. Len(s) + Len(t) /\ (s \o t)[i] = x
      BY <2>1, <3>1
    <3> QED
      BY <2>1, <3>2 DEF Elems
  <2>4. ASSUME NEW x \in Elems(t) PROVE x \in Elems(s \o t)
    <3>1. PICK i \in 1 .. Len(t) : x = t[i]
      BY <2>1, <2>4 DEF Elems
    <3>2. i + Len(s) \in 1 .. Len(s) + Len(t) /\ (s \o t)[i + Len(s)] = x
      BY <2>1, <3>1
    <3> QED
      BY <2>1, <3>2 DEF Elems
  <2> QED
    BY <2>2, <2>3, <2>4
<1>3. ASSUME NEW s \in Seq(P!Msg) PROVE Elems(s) \subseteq P!Msg
  BY DEF Elems
<1>4. ASSUME NEW s \in Seq(P!Msg), s # <<>> PROVE Elems(s) = {Head(s)} \cup Elems(Tail(s))
  <2>1. Head(s) \in P!Msg /\ Tail(s) \in Seq(P!Msg)
    BY <1>4, HeadTailProperties
  <2>2. s = <<Head(s)>> \o Tail(s)
    BY <1>4, <2>1
  <2>3. <<Head(s)>> \in Seq(P!Msg)
    BY <2>1
  <2>4. Elems(<<Head(s)>> \o Tail(s)) = Elems(<<Head(s)>>) \cup Elems(Tail(s))
    BY <2>1, <2>3, <1>2
  <2> QED
    BY <2>2, <2>4, <1>1
<1> QED
  BY <1>1, <1>2, <1>3, <1>4

LEMMA Inserted ==
    ASSUME NEW R, NEW s \in Seq(P!Msg), NEW t \in Seq(P!Msg), NEW x \in P!Msg, Ordered(R, s \o t),
           \A y \in Elems(s) : <<y, x>> \in R, \A y \in Elems(t) : <<x, y>> \in R
    PROVE  Ordered(R, (s \o <<x>>) \o t)
<1> DEFINE r == (s \o <<x>>) \o t
           o == s \o t
           m == Len(s)
           n == Len(t)
<1>1. /\ m \in Nat /\ n \in Nat /\ DOMAIN s = 1 .. m /\ DOMAIN t = 1 .. n
      /\ DOMAIN o = 1 .. m + n /\ DOMAIN r = 1 .. m + 1 + n
  <2>1. <<x>> \in Seq(P!Msg) /\ Len(<<x>>) = 1
    OBVIOUS
  <2>2. s \o <<x>> \in Seq(P!Msg) /\ Len(s \o <<x>>) = m + 1
    BY <2>1, ConcatProperties
  <2> QED
    BY <2>2, ConcatProperties
<1>2. \A i \in 1 .. m + n : o[i] = IF i <= m THEN s[i] ELSE t[i - m]
  BY ConcatProperties
<1>3. \A i \in 1 .. m + 1 + n : 
        r[i] = IF i <= m THEN s[i] ELSE IF i = m + 1 THEN x ELSE t[i - (m + 1)]
  <2>1. <<x>> \in Seq(P!Msg) /\ Len(<<x>>) = 1 /\ <<x>>[1] = x
    OBVIOUS
  <2>2. /\ s \o <<x>> \in Seq(P!Msg) /\ Len(s \o <<x>>) = m + 1
        /\ \A i \in 1 .. m + 1 : (s \o <<x>>)[i] = IF i <= m THEN s[i] ELSE <<x>>[i - m]
    BY <2>1, ConcatProperties
  <2>3. \A i \in 1 .. m + 1 : (s \o <<x>>)[i] = IF i <= m THEN s[i] ELSE x
    BY <1>1, <2>1, <2>2
  <2>4. \A i \in 1 .. m + 1 + n : r[i] = IF i <= m + 1 THEN (s \o <<x>>)[i] ELSE t[i - (m + 1)]
    BY <2>2, ConcatProperties
  <2> HIDE DEF r, m, n
  <2> QED
    BY <1>1, <2>3, <2>4
<1>4. \A i, j \in 1 .. m + n : i < j => <<o[i], o[j]>> \in R
  BY <1>1 DEF Ordered
<1>5. \A i \in 1 .. m : <<s[i], x>> \in R
  BY <1>1 DEF Elems
<1>6. \A i \in 1 .. n : <<x, t[i]>> \in R
  BY <1>1 DEF Elems
<1> HIDE DEF r, o, m, n
<1>7. ASSUME NEW i \in 1 .. m + 1 + n, NEW j \in 1 .. m + 1 + n, i < j PROVE <<r[i], r[j]>> \in R
  <2> DEFINE ii == IF i <= m THEN i ELSE i - 1
             jj == IF j <= m THEN j ELSE j - 1
  <2>1. CASE i = m + 1
    <3>1. r[i] = x /\ r[j] = t[j - (m + 1)] /\ j - (m + 1) \in 1 .. n
      BY <1>1, <1>3, <1>7, <2>1
    <3> QED
      BY <3>1, <1>6
  <2>2. CASE j = m + 1
    <3>1. r[j] = x /\ r[i] = s[i] /\ i \in 1 .. m
      BY <1>1, <1>3, <1>7, <2>2
    <3> QED
      BY <3>1, <1>5
  <2>3. CASE i # m + 1 /\ j # m + 1
    <3>1. ii \in 1 .. m + n /\ jj \in 1 .. m + n /\ ii < jj
      BY <1>1, <1>7, <2>3
    <3>2. r[i] = o[ii]
      BY <1>1, <1>2, <1>3, <2>3
    <3>3. r[j] = o[jj]
      BY <1>1, <1>2, <1>3, <2>3
    <3> HIDE DEF ii, jj
    <3> QED
      BY <3>1, <3>2, <3>3, <1>4
  <2> QED
    BY <2>1, <2>2, <2>3
<1> QED
  BY <1>1, <1>7 DEF Ordered, r

LEMMA OrderedParts ==
    ASSUME NEW R, NEW s \in Seq(P!Msg), NEW t \in Seq(P!Msg), Ordered(R, s \o t)
    PROVE  /\ Ordered(R, s) /\ Ordered(R, t)
           /\ \A x \in Elems(s), y \in Elems(t) : <<x, y>> \in R
<1> DEFINE o == s \o t
           m == Len(s)
           n == Len(t)
<1>1. /\ m \in Nat /\ n \in Nat /\ DOMAIN s = 1 .. m /\ DOMAIN t = 1 .. n /\ DOMAIN o = 1 .. m + n
      /\ \A i \in 1 .. m + n : o[i] = IF i <= m THEN s[i] ELSE t[i - m]
  BY ConcatProperties
<1>2. \A i, j \in 1 .. m + n : i < j => <<o[i], o[j]>> \in R
  BY <1>1 DEF Ordered
<1>3. ASSUME NEW i \in 1 .. m PROVE i \in 1 .. m + n /\ o[i] = s[i]
  <2> HIDE DEF o, m, n
  <2> QED
    BY <1>1
<1>4. ASSUME NEW i \in 1 .. n PROVE m + i \in 1 .. m + n /\ o[m + i] = t[i]
  <2> HIDE DEF o, m, n
  <2>1. m + i \in 1 .. m + n /\ ~(m + i <= m) /\ (m + i) - m = i
    BY <1>1
  <2> QED
    BY <1>1, <2>1
<1> HIDE DEF o, m, n
<1>5. Ordered(R, s)
  BY <1>1, <1>2, <1>3 DEF Ordered
<1>6. ASSUME NEW i \in 1 .. n, NEW j \in 1 .. n, i < j PROVE <<t[i], t[j]>> \in R
  <2>1. m + i < m + j
    BY <1>1, <1>6
  <2> QED
    BY <2>1, <1>2, <1>4
<1>7. ASSUME NEW i \in 1 .. m, NEW j \in 1 .. n PROVE <<s[i], t[j]>> \in R
  <2>1. i < m + j
    BY <1>1
  <2> QED
    BY <2>1, <1>2, <1>3, <1>4
<1> QED
  BY <1>1, <1>5, <1>6, <1>7 DEF Ordered, Elems

LEMMA HandForms ==
    /\ HandNow(<<>>) = <<>>
    /\ \A l, q, m, d : HandNow(<<Fr(l, q, m, d)>>) = IF l = "unlock" THEN <<>> ELSE <<m>>
    /\ \A l, q, m, d, g : HandNow(<<Fr(l, q, m, d), g>>) = IF l = "unlock" THEN <<>> ELSE <<m>>
<1>1. ASSUME NEW l, NEW q, NEW m, NEW d
      PROVE  HandNow(<<Fr(l, q, m, d)>>) = IF l = "unlock" THEN <<>> ELSE <<m>>
  <2> DEFINE f == Fr(l, q, m, d)
  <2>1. f.at = l /\ f.m = m
    BY FrIs
  <2> HIDE DEF f
  <2>2. <<f>> # <<>> /\ <<f>>[1] = f
    BY Ends
  <2> QED
    BY <2>1, <2>2 DEF HandNow, f
<1>2. ASSUME NEW l, NEW q, NEW m, NEW d, NEW g
      PROVE  HandNow(<<Fr(l, q, m, d), g>>) = IF l = "unlock" THEN <<>> ELSE <<m>>
  <2> DEFINE f == Fr(l, q, m, d)
  <2>1. f.at = l /\ f.m = m
    BY FrIs
  <2> HIDE DEF f
  <2>2. <<f, g>> # <<>> /\ <<f, g>>[1] = f
    BY Ends
  <2> QED
    BY <2>1, <2>2 DEF HandNow, f
<1> QED
  BY <1>1, <1>2 DEF HandNow

LEMMA HandThere ==
    /\ \A q, m, d : HandNow(<<Fr("test", q, m, d)>>) = <<m>>
    /\ \A q, m, d, g : HandNow(<<Fr("test", q, m, d), g>>) = <<m>>
    /\ \A q, m, d : HandNow(<<Fr("unlock", q, m, d)>>) = <<>>
<1>1. /\ \A q, m, d : HandNow(<<Fr("test", q, m, d)>>) = IF "test" = "unlock" THEN <<>> ELSE <<m>>
      /\ \A q, m, d, g : HandNow(<<Fr("test", q, m, d), g>>)
                               = IF "test" = "unlock" THEN <<>> ELSE <<m>>
      /\ \A q, m, d : HandNow(<<Fr("unlock", q, m, d)>>)
                            = IF "unlock" = "unlock" THEN <<>> ELSE <<m>>
  BY HandForms, Zenon
<1> QED
  BY <1>1

LEMMA HandOf ==
    ASSUME NEW t, NEW l, NEW q, NEW m, NEW d, NEW e, Forms(t, l, q, m, d, e)
    PROVE  HandNow(stack[t]) = IF l = "unlock" THEN <<>> ELSE <<m>>
<1> DEFINE g == Lowest(m, e)
<1>1. stack[t] = <<Fr(l, q, m, d)>> \/ stack[t] = <<Fr(l, q, m, d), g>>
  BY DEF Forms
<1>2. /\ HandNow(<<Fr(l, q, m, d)>>) = IF l = "unlock" THEN <<>> ELSE <<m>>
      /\ HandNow(<<Fr(l, q, m, d), g>>) = IF l = "unlock" THEN <<>> ELSE <<m>>
  BY HandForms
<1> HIDE DEF g
<1> QED
  BY <1>1, <1>2

LEMMA HandOfNext ==
    ASSUME NEW t, NEW l, NEW q, NEW m, NEW d, NEW e, Forms(t, l, q, m, d, e)'
    PROVE  HandNow(stack'[t]) = IF l = "unlock" THEN <<>> ELSE <<m>>
<1> DEFINE g == Lowest(m, e)
<1>1. stack'[t] = <<Fr(l, q, m, d)>> \/ stack'[t] = <<Fr(l, q, m, d), g>>
  BY DEF Forms
<1>2. /\ HandNow(<<Fr(l, q, m, d)>>) = IF l = "unlock" THEN <<>> ELSE <<m>>
      /\ HandNow(<<Fr(l, q, m, d), g>>) = IF l = "unlock" THEN <<>> ELSE <<m>>
  BY HandForms
<1> HIDE DEF g
<1> QED
  BY <1>1, <1>2

LEMMA HandTypes ==
    ASSUME PutTypes, CallsSound, ControlSound
    PROVE  /\ HandSeq \in Seq(P!Msg) /\ InDrv \in Seq(P!Msg) /\ AboveDrv \in Seq(P!Msg)
           /\ Coming \in Seq(P!Msg) /\ delivered \in Seq(P!Msg)
           /\ q_defer["mod"] \in Seq(P!Msg) /\ q_defer["drv"] \in Seq(P!Msg)
           /\ \A x : x \in Elems(InDrv)
                <=> x \in Elems(q_defer["drv"]) \/ (~FromMod /\ x \in Elems(HandSeq))
           /\ \A x : x \in Elems(AboveDrv) <=> FromMod /\ x \in Elems(HandSeq)
<1>1. /\ delivered \in Seq(P!Msg) /\ q_defer["mod"] \in Seq(P!Msg) /\ q_defer["drv"] \in Seq(P!Msg)
      /\ <<>> \in Seq(P!Msg)
  BY DEF PutTypes, P!Queue
<1>2. HandSeq \in Seq(P!Msg)
  <2>1. CASE stack[Changer] = <<>>
    BY <2>1, HandForms, <1>1 DEF HandSeq
  <2>2. CASE stack[Changer] # <<>>
    <3>1. PICK l \in PutLabels, q \in P!Queue, m \in P!Msg, d, e \in BOOLEAN :
             /\ Forms(Changer, l, q, m, d, e)
             /\ Changer \in Proc => m = Mine(Changer) /\ d = FALSE /\ e = FALSE
             /\ Changer = Changer => e = TRUE /\ (d = TRUE => stack[Changer] = <<Fr(l, q, m, d)>>)
      BY <2>2, SomeForm, TaskIs DEF ControlSound
    <3>2. HandSeq = <<>> \/ HandSeq = <<m>>
      BY <3>1, HandOf DEF HandSeq
    <3>3. <<m>> \in Seq(P!Msg)
      BY <3>1
    <3> QED
      BY <3>2, <3>3, <1>1
  <2> QED
    BY <2>1, <2>2
<1>3. HandSeq \o q_defer["drv"] \in Seq(P!Msg)
  BY <1>1, <1>2, ConcatProperties
<1>4. \A x : x \in Elems(HandSeq \o q_defer["drv"])
        <=> x \in Elems(q_defer["drv"]) \/ x \in Elems(HandSeq)
  BY <1>1, <1>2, ElemsOf
<1> QED
  BY <1>1, <1>2, <1>3, <1>4, ElemsOf DEF InDrv, AboveDrv, Coming

LEMMA WayTypes ==
    ASSUME PutTypes, CallsSound, ControlSound, NEW e \in Seq(P!Msg)
    PROVE  /\ delivered \o InDrv \in Seq(P!Msg) /\ AboveDrv \o e \in Seq(P!Msg)
                /\ Way(e) \in Seq(P!Msg)
           /\ \A x : x \in Elems(Way(e))
                <=> \/ x \in Elems(delivered) \/ x \in Elems(q_defer["drv"])
                                             \/ x \in Elems(HandSeq) \/ x \in Elems(e)
           /\ \A x : x \in Elems(AboveDrv \o e) <=> x \in Elems(AboveDrv) \/ x \in Elems(e)
<1>1. delivered \o InDrv \in Seq(P!Msg) /\ AboveDrv \o e \in Seq(P!Msg)
  BY HandTypes, ConcatProperties
<1>2. Way(e) \in Seq(P!Msg)
  BY <1>1, ConcatProperties DEF Way
<1>3. /\ \A x : x \in Elems(delivered \o InDrv) <=> x \in Elems(delivered) \/ x \in Elems(InDrv)
      /\ \A x : x \in Elems(AboveDrv \o e) <=> x \in Elems(AboveDrv) \/ x \in Elems(e)
  BY HandTypes, ElemsOf
<1>4. \A x : x \in Elems(Way(e)) <=> x \in Elems(delivered \o InDrv) \/ x \in Elems(AboveDrv \o e)
  <2> DEFINE a == delivered \o InDrv
             b == AboveDrv \o e
  <2>1. a \in Seq(P!Msg) /\ b \in Seq(P!Msg) /\ Way(e) = a \o b
    BY <1>1 DEF Way
  <2> HIDE DEF a, b
  <2>2. Elems(Way(e)) = Elems(a) \cup Elems(b)
    BY <2>1, ElemsOf
  <2> QED
    BY <2>2 DEF a, b
<1> QED
  BY <1>1, <1>2, <1>3, <1>4, HandTypes

\* With nothing in the changer's hand.
LEMMA WayAtRest ==
    ASSUME PutTypes, CallsSound, ControlSound, HandSeq = <<>>
    PROVE  InDrv = q_defer["drv"] /\ AboveDrv = <<>>
BY HandTypes, ConcatEmptySeq DEF InDrv, AboveDrv

LEMMA HandAtRest == stack[Changer] = <<>> => HandSeq = <<>>
BY HandForms DEF HandSeq

LEMMA OrderMoves ==
    ASSUME OrderSound, PutTypes, CallsSound, ControlSound,
           Way(q_defer["mod"])' = Way(q_defer["mod"]), Way(Coming)' = Way(Coming),
           UNCHANGED <<flushed, sent>>, \A t \in Proc : stack'[t] = stack[t],
           Elems(AboveDrv \o Coming)' \subseteq Elems(AboveDrv \o Coming),
           Elems(InDrv)' \subseteq Elems(InDrv) \cup Elems(AboveDrv \o Coming)
    PROVE  OrderSound'
<1>1. Ordered(Differ, Way(q_defer["mod"]))' /\ Ordered(Less, Way(Coming))'
  BY DEF OrderSound, Ordered, Differ, Less
<1>2. Elems(Way(q_defer["mod"]))' = Elems(Way(q_defer["mod"]))
  BY DEF Elems
<1>3. \A m \in flushed' : m \notin Elems(Way(q_defer["mod"]))'
  BY <1>2 DEF OrderSound
<1>4. ASSUME NEW t \in Proc PROVE Passed(t)'
  <2> SUFFICES ASSUME stack'[t] # <<>>, P!Top(t)'.at # "unlock"
               PROVE  /\ MyLast(t, Elems(Way(q_defer["mod"])))' /\ MyLast(t, flushed)'
                      /\ P!Top(t)'.q = "drv" \/ P!Top(t)'.at # "test"
                           => NotOf(t, AboveDrv \o Coming)'
                      /\ P!Top(t)'.q = "drv" /\ P!Top(t)'.at # "test" => NotOf(t, InDrv)'
    BY DEF Passed
  <2>1. stack[t] # <<>> /\ P!Top(t)' = P!Top(t)
    BY DEF P!Top
  <2>2. /\ MyLast(t, Elems(Way(q_defer["mod"]))) /\ MyLast(t, flushed)
        /\ P!Top(t).q = "drv" \/ P!Top(t).at # "test" => NotOf(t, AboveDrv \o Coming)
        /\ P!Top(t).q = "drv" /\ P!Top(t).at # "test" => NotOf(t, InDrv)
    BY <2>1 DEF OrderSound, Passed
  <2>3. MyLast(t, Elems(Way(q_defer["mod"])))' /\ MyLast(t, flushed)'
    BY <1>2, <2>2 DEF MyLast
  <2>4. NotOf(t, AboveDrv \o Coming) => NotOf(t, AboveDrv \o Coming)'
    BY DEF NotOf
  <2>5. NotOf(t, AboveDrv \o Coming) /\ NotOf(t, InDrv) => NotOf(t, InDrv)'
    BY DEF NotOf
  <2> QED
    BY <2>1, <2>2, <2>3, <2>4, <2>5
<1> QED
  BY <1>1, <1>3, <1>4 DEF OrderSound

\* The changer's steps between calls.
LEMMA OrderRests ==
    ASSUME OrderSound, PutTypes, CallsSound, ControlSound, PutTypes', CallsSound', ControlSound',
           stack[Changer] = <<>>, UNCHANGED <<change, q_defer, stack, sent, delivered, flushed>>
    PROVE  OrderSound'
<1>1. HandSeq = <<>> /\ HandSeq' = <<>>
  BY HandForms DEF HandSeq
<1>2. InDrv = q_defer["drv"] /\ AboveDrv = <<>>
  BY <1>1, WayAtRest
<1>3. InDrv' = q_defer["drv"] /\ AboveDrv' = <<>>
  <2>1. (<<>> \o q_defer["drv"]) = q_defer["drv"]
    BY HandTypes, ConcatEmptySeq
  <2> QED
    BY <1>1, <2>1 DEF InDrv, AboveDrv
<1>4. Coming' = Coming
  BY DEF Coming
<1>5. Way(q_defer["mod"])' = Way(q_defer["mod"]) /\ Way(Coming)' = Way(Coming)
  BY <1>2, <1>3, <1>4 DEF Way
<1>6. Elems(AboveDrv \o Coming)' = Elems(AboveDrv \o Coming) /\ Elems(InDrv)' = Elems(InDrv)
  BY <1>2, <1>3, <1>4 DEF Elems
<1> QED
  BY <1>5, <1>6, OrderMoves

PutBase == PutTypes /\ CallsSound /\ ControlSound

LEMMA OrderSame ==
    ASSUME OrderSound, PutBase, UNCHANGED <<delivered, q_defer, todo, change, flushed, sent>>,
           HandSeq' = HandSeq, \A t \in Proc : stack'[t] = stack[t]
    PROVE  OrderSound'
<1>1. InDrv' = InDrv /\ AboveDrv' = AboveDrv /\ Coming' = Coming
  BY DEF InDrv, AboveDrv, Coming, FromMod
<1>2. Way(q_defer["mod"])' = Way(q_defer["mod"]) /\ Way(Coming)' = Way(Coming)
  BY <1>1 DEF Way
<1>3. Elems(AboveDrv \o Coming)' = Elems(AboveDrv \o Coming) /\ Elems(InDrv)' = Elems(InDrv)
  BY <1>1 DEF Elems
<1> QED
  BY <1>2, <1>3, OrderMoves DEF PutBase

LEMMA TakenFirst == ASSUME NEW s \in Seq(P!Msg), s # <<>>
                    PROVE  Head(s) \in P!Msg /\ Tail(s) \in Seq(P!Msg) /\ <<Head(s)>> \o Tail(s) = s
BY HeadTailProperties

LEMMA OrderOfTake ==
    ASSUME OrderSound, PutBase, PutBase', P!TakeDeferred
    PROVE  OrderSound'
<1> DEFINE q == Head(todo)
           h == Head(q_defer[q])
<1>1. /\ stack[Changer] = <<>> /\ cpc = "deferring" /\ todo # <<>> /\ q \in P!Queue
      /\ q_defer[q] # <<>> /\ h \in P!Msg
      /\ q_defer' = [q_defer EXCEPT ![q] = Tail(q_defer[q])]
      /\ \A u \in P!Task \ {Changer} : stack'[u] = stack[u]
      /\ stack'[Changer] = <<Fr("test", q, h, TRUE)>>
  BY TakeDeferredIs DEF PutBase
<1>2. UNCHANGED <<delivered, todo, change, flushed, sent>>
  BY DEF P!TakeDeferred, P!changer, P!ghost
<1>3. HandSeq = <<>> /\ HandSeq' = <<h>>
  <2> DEFINE yes == TRUE
  <2>1. stack'[Changer] = <<Fr("test", q, h, yes)>>
    BY <1>1
  <2> HIDE DEF yes, q, h
  <2>2. HandNow(stack'[Changer]) = <<h>>
    BY <2>1, HandThere
  <2> QED
    BY <1>1, <2>2, HandAtRest DEF HandSeq
<1>4. /\ DOMAIN q_defer = P!Queue /\ q_defer["mod"] \in Seq(P!Msg) /\ q_defer["drv"] \in Seq(P!Msg)
      /\ <<>> \o q_defer["mod"] = q_defer["mod"] /\ <<>> \o q_defer["drv"] = q_defer["drv"]
  BY HandTypes, ConcatEmptySeq DEF PutBase, PutTypes
<1>5. InDrv = q_defer["drv"] /\ AboveDrv = <<>>
  BY <1>3, WayAtRest DEF PutBase
<1>6. CASE q = "drv"
  <2>1. q_defer'["mod"] = q_defer["mod"] /\ q_defer'["drv"] = Tail(q_defer["drv"])
    BY <1>1, <1>4, <1>6 DEF P!Queue
  <2>2. <<h>> \o Tail(q_defer["drv"]) = q_defer["drv"]
    BY <1>1, <1>4, <1>6, TakenFirst
  <2>3. ~FromMod' /\ InDrv' = q_defer["drv"] /\ AboveDrv' = <<>> /\ Coming' = Coming
    BY <1>2, <1>3, <1>6, <2>1, <2>2 DEF FromMod, InDrv, AboveDrv, Coming
  <2>4. Way(q_defer["mod"])' = Way(q_defer["mod"]) /\ Way(Coming)' = Way(Coming)
    BY <1>2, <1>5, <2>1, <2>3 DEF Way
  <2>5. Elems(AboveDrv \o Coming)' = Elems(AboveDrv \o Coming) /\ Elems(InDrv)' = Elems(InDrv)
    BY <1>5, <2>3 DEF Elems
  <2> QED
    BY <1>1, <1>2, <2>4, <2>5, TaskIs, OrderMoves DEF PutBase
<1>7. CASE q = "mod"
  <2>1. q_defer'["drv"] = q_defer["drv"] /\ q_defer'["mod"] = Tail(q_defer["mod"])
    BY <1>1, <1>4, <1>7 DEF P!Queue
  <2>2. <<h>> \o Tail(q_defer["mod"]) = q_defer["mod"]
    BY <1>1, <1>4, <1>7, TakenFirst
  <2>3. FromMod' /\ InDrv' = q_defer["drv"] /\ AboveDrv' = <<h>>
    BY <1>1, <1>2, <1>3, <1>7, <2>1 DEF FromMod, InDrv, AboveDrv
  <2>4. change = "push"
    BY <1>1, <1>7, Ends DEF PutBase, ControlSound, ChangerAt, Settled, PutTypes
  <2>5. Coming = q_defer["mod"] /\ Coming' = Tail(q_defer["mod"])
    BY <1>2, <2>1, <2>4 DEF Coming
  <2>6. (AboveDrv \o q_defer["mod"])' = q_defer["mod"] /\ (AboveDrv \o Coming)' = q_defer["mod"]
        /\ AboveDrv \o q_defer["mod"] = q_defer["mod"] /\ AboveDrv \o Coming = q_defer["mod"]
    BY <1>4, <1>5, <2>1, <2>2, <2>3, <2>5
  <2>7. Way(q_defer["mod"])' = Way(q_defer["mod"]) /\ Way(Coming)' = Way(Coming)
    BY <1>2, <1>5, <2>3, <2>6 DEF Way
  <2>8. Elems(AboveDrv \o Coming)' = Elems(AboveDrv \o Coming) /\ Elems(InDrv)' = Elems(InDrv)
    BY <1>5, <2>3, <2>6 DEF Elems
  <2> QED
    BY <1>1, <1>2, <2>7, <2>8, TaskIs, OrderMoves DEF PutBase
<1> QED
  BY <1>1, <1>6, <1>7 DEF P!Queue

\* The changer's message goes back to where it was, or waits above the driver.
LEMMA OrderOfRetry ==
    ASSUME OrderSound, PutBase, PutBase', P!Defer(Changer)
    PROVE  OrderSound'
<1>1. stack[Changer] # <<>> /\ P!Top(Changer).at = "test" /\ P!Returns(Changer, FALSE)
  BY DEF P!Defer, P!In
<1>2. UNCHANGED <<delivered, todo, change, flushed, sent>>
  BY DEF P!Defer, P!changer
<1>3. cpc = "deferring" /\ todo # <<>> /\ Head(todo) \in P!Queue
  BY <1>1, ChangerForms, TodoIs DEF PutBase, ControlSound, ChangerAt, Settled
<1>4. \A u \in Proc : stack'[u] = stack[u]
  BY <1>1, TaskIs, Comes DEF PutBase
<1>5. PICK m \in P!Msg :
        \/ \E i \in PutLabels : stack[Changer] = <<Fr(i, Head(todo), m, TRUE)>>
        \/ Head(todo) = "mod"
           /\ stack[Changer] = <<Fr("test", "drv", m, FALSE), Lowest(m, TRUE)>>
  BY <1>1, ChangerForms DEF PutBase
<1>6. /\ DOMAIN q_defer = P!Queue /\ q_defer["mod"] \in Seq(P!Msg) /\ q_defer["drv"] \in Seq(P!Msg)
      /\ <<m>> \in Seq(P!Msg) /\ delivered \in Seq(P!Msg) /\ Coming \in Seq(P!Msg)
  BY HandTypes DEF PutBase, PutTypes
<1>7. \A s \in Seq(P!Msg) : <<>> \o s = s
  BY ConcatEmptySeq
<1>8. CASE \E i \in PutLabels : stack[Changer] = <<Fr(i, Head(todo), m, TRUE)>>
  <2> DEFINE q == Head(todo)
             yes == TRUE
  <2>1. PICK i \in PutLabels : stack[Changer] = <<Fr(i, q, m, yes)>>
    BY <1>8
  <2>2. P!Top(Changer) = Fr(i, q, m, TRUE)
    BY <2>1, Ends DEF P!Top
  <2>3. P!Top(Changer).q = q /\ P!Top(Changer).m = m /\ P!Top(Changer).deferring = TRUE
          /\ i = "test"
    BY <1>1, <2>2 DEF Fr
  <2>4. q_defer' = [q_defer EXCEPT ![q] = <<m>> \o @]
    BY <2>3 DEF P!Defer, P!DeferMsg
  <2>5. stack'[Changer] = <<>>
    BY <1>1, <2>1, Comes, TaskIs DEF PutBase
  <2>6. HandSeq = <<m>> /\ HandSeq' = <<>>
    <3>1. i = "test" /\ stack'[Changer] = <<>>
      BY <2>3, <2>5
    <3> HIDE DEF q, yes
    <3>2. stack[Changer] = <<Fr("test", q, m, yes)>>
      BY <2>1, <3>1
    <3> QED
      BY <3>1, <3>2, HandThere, HandForms DEF HandSeq
  <2>7. CASE q = "drv"
    <3>1. q_defer'["mod"] = q_defer["mod"] /\ q_defer'["drv"] = <<m>> \o q_defer["drv"]
      BY <1>6, <2>4, <2>7 DEF P!Queue
    <3>2. <<m>> \o q_defer["drv"] \in Seq(P!Msg)
      BY <1>6, ConcatProperties
    <3>3. InDrv = <<m>> \o q_defer["drv"] /\ AboveDrv = <<>>
      BY <2>6, <2>7 DEF InDrv, AboveDrv, FromMod
    <3>4. InDrv' = InDrv /\ AboveDrv' = AboveDrv /\ Coming' = Coming
      BY <1>2, <1>7, <2>6, <2>7, <3>1, <3>2, <3>3 DEF InDrv, AboveDrv, FromMod, Coming
    <3>5. Way(q_defer["mod"])' = Way(q_defer["mod"]) /\ Way(Coming)' = Way(Coming)
      BY <1>2, <3>1, <3>4 DEF Way
    <3>6. Elems(AboveDrv \o Coming)' = Elems(AboveDrv \o Coming) /\ Elems(InDrv)' = Elems(InDrv)
      BY <3>4 DEF Elems
    <3> QED
      BY <1>2, <1>4, <3>5, <3>6, OrderMoves DEF PutBase
  <2>8. CASE q = "mod"
    <3>1. q_defer'["drv"] = q_defer["drv"] /\ q_defer'["mod"] = <<m>> \o q_defer["mod"]
      BY <1>6, <2>4, <2>8 DEF P!Queue
    <3>2. <<m>> \o q_defer["mod"] \in Seq(P!Msg)
      BY <1>6, ConcatProperties
    <3>3. InDrv = q_defer["drv"] /\ AboveDrv = <<m>> /\ InDrv' = q_defer["drv"] /\ AboveDrv' = <<>>
      BY <1>2, <1>3, <2>6, <2>8, <3>1 DEF InDrv, AboveDrv, FromMod
    <3>4. change = "push"
      BY <1>3, <2>8, Ends DEF PutBase, ControlSound, ChangerAt, Settled, PutTypes
    <3>5. Coming = q_defer["mod"] /\ Coming' = <<m>> \o q_defer["mod"]
      BY <1>2, <3>1, <3>4 DEF Coming
    <3>6. (AboveDrv \o q_defer["mod"])' = AboveDrv \o q_defer["mod"]
          /\ (AboveDrv \o Coming)' = AboveDrv \o Coming
      BY <1>7, <3>1, <3>2, <3>3, <3>5
    <3>7. Way(q_defer["mod"])' = Way(q_defer["mod"]) /\ Way(Coming)' = Way(Coming)
      BY <1>2, <3>3, <3>6 DEF Way
    <3>8. Elems(AboveDrv \o Coming)' = Elems(AboveDrv \o Coming) /\ Elems(InDrv)' = Elems(InDrv)
      BY <3>3, <3>6 DEF Elems
    <3> QED
      BY <1>2, <1>4, <3>7, <3>8, OrderMoves DEF PutBase
  <2> QED
    BY <1>3, <2>7, <2>8 DEF P!Queue
<1>9. CASE Head(todo) = "mod" /\ stack[Changer] = <<Fr("test", "drv", m, FALSE), Lowest(m, TRUE)>>
  <2>1. P!Top(Changer) = Fr("test", "drv", m, FALSE)
    BY <1>9, Ends DEF P!Top
  <2>2. P!Top(Changer).q = "drv" /\ P!Top(Changer).m = m /\ P!Top(Changer).deferring = FALSE
    BY <2>1 DEF Fr
  <2>3. q_defer' = [q_defer EXCEPT !["drv"] = Append(@, m)]
    BY <2>2 DEF P!Defer, P!DeferMsg
  <2>4. q_defer'["mod"] = q_defer["mod"] /\ q_defer'["drv"] = q_defer["drv"] \o <<m>>
    BY <1>6, <2>3, AppendIsConcat DEF P!Queue
  <2>5. HandSeq = <<m>> /\ HandSeq' = <<>>
    <3> DEFINE no == FALSE
               yes == TRUE
               g == Lowest(m, yes)
    <3>1. stack[Changer] = <<Fr("test", "drv", m, no), g>>
      BY <1>9
    <3>2. stack'[Changer] = <<Fr("unlock", "mod", m, yes)>>
      BY <1>1, <1>9, Comes, TaskIs DEF Lowest, PutBase
    <3> HIDE DEF no, yes, g
    <3> QED
      BY <3>1, <3>2, HandThere DEF HandSeq
  <2>6. FromMod /\ FromMod'
    BY <1>2, <1>3, <1>9 DEF FromMod
  <2>7. InDrv = q_defer["drv"] /\ AboveDrv = <<m>> /\ InDrv' = q_defer["drv"] \o <<m>>
          /\ AboveDrv' = <<>>
    BY <2>4, <2>5, <2>6 DEF InDrv, AboveDrv
  <2>8. Coming' = Coming
    BY <1>2, <2>4 DEF Coming
  <2>9. ASSUME NEW e \in Seq(P!Msg)
        PROVE  (delivered \o (q_defer["drv"] \o <<m>>)) \o (<<>> \o e)
                 = (delivered \o q_defer["drv"]) \o (<<m>> \o e)
    <3> DEFINE a == delivered
               b == q_defer["drv"]
               c == <<m>>
    <3>1. a \in Seq(P!Msg) /\ b \in Seq(P!Msg) /\ c \in Seq(P!Msg)
      BY <1>6
    <3> HIDE DEF a, b, c
    <3>2. <<>> \o e = e /\ a \o (b \o c) = (a \o b) \o c /\ a \o b \in Seq(P!Msg)
      BY SMTT(30), <1>7, <3>1, ConcatAssociative, ConcatProperties
    <3>3. ((a \o b) \o c) \o e = (a \o b) \o (c \o e)
      <4> DEFINE f == a \o b
      <4>1. f \in Seq(P!Msg)
        BY <3>2
      <4> HIDE DEF f
      <4>2. (f \o c) \o e = f \o (c \o e)
        BY <3>1, <4>1, ConcatAssociative
      <4> QED
        BY <4>2 DEF f
    <3>4. (a \o (b \o c)) \o (<<>> \o e) = (a \o b) \o (c \o e)
      BY <3>2, <3>3
    <3> QED
      BY <3>4 DEF a, b, c
  <2>10. Way(q_defer["mod"])' = Way(q_defer["mod"]) /\ Way(Coming)' = Way(Coming)
    BY <1>2, <1>6, <2>4, <2>7, <2>8, <2>9 DEF Way
  <2>11. /\ \A x : x \in Elems(AboveDrv \o Coming) <=> x = m \/ x \in Elems(Coming)
         /\ \A x : x \in Elems(AboveDrv \o Coming)' <=> x \in Elems(Coming)
         /\ \A x : x \in Elems(InDrv)' <=> x \in Elems(InDrv) \/ x = m
    <3>1. /\ Elems(<<m>> \o Coming) = Elems(<<m>>) \cup Elems(Coming) /\ Elems(<<m>>) = {m}
          /\ Elems(q_defer["drv"] \o <<m>>) = Elems(q_defer["drv"]) \cup Elems(<<m>>)
      BY <1>6, ElemsOf
    <3>2. <<>> \o Coming = Coming
      BY <1>6, <1>7
    <3>3. Elems(AboveDrv \o Coming)' = Elems(<<>> \o Coming)
      BY <2>7, <2>8 DEF Elems
    <3>4. Elems(InDrv)' = Elems(q_defer["drv"] \o <<m>>)
      BY <2>7 DEF Elems
    <3> QED
      BY <2>7, <3>1, <3>2, <3>3, <3>4
  <2> QED
    BY <1>2, <1>4, <2>10, <2>11, OrderMoves DEF PutBase
<1> QED
  BY <1>5, <1>8, <1>9

LEMMA HandGoes ==
    ASSUME CallsSound, NEW t \in P!Task, NEW l, P!Goto(t, l), l # "unlock", PutTypes, ControlSound,
           stack[t] # <<>>, P!Top(t).at # "unlock"
    PROVE  HandNow(stack'[t]) = HandNow(stack[t])
<1>1. PICK k \in PutLabels, q \in P!Queue, m \in P!Msg, d, e \in BOOLEAN :
         /\ Forms(t, k, q, m, d, e)
         /\ t \in Proc => m = Mine(t) /\ d = FALSE /\ e = FALSE
         /\ t = Changer => e = TRUE /\ (d = TRUE => stack[t] = <<Fr(k, q, m, d)>>)
  BY SomeForm DEF ControlSound
<1>2. k # "unlock"
  BY <1>1, FormTop
<1>3. Forms(t, l, q, m, d, e)'
  BY <1>1, GoesForm
<1>4. HandNow(stack[t]) = IF k = "unlock" THEN <<>> ELSE <<m>>
  BY <1>1, HandOf
<1>5. HandNow(stack'[t]) = IF l = "unlock" THEN <<>> ELSE <<m>>
  BY <1>3, HandOfNext
<1> QED
  BY <1>2, <1>4, <1>5

LEMMA OrderOfCalls ==
    ASSUME OrderSound, PutBase, P!Pass(Changer) \/ P!Lock(Changer) \/ P!Unlock(Changer)
    PROVE  OrderSound'
<1>1. CASE P!Pass(Changer) \/ P!Lock(Changer)
  <2>1. PICK l \in {"lock", "put"} : P!Goto(Changer, l)
    BY <1>1 DEF P!Pass, P!Lock
  <2>2. stack[Changer] # <<>> /\ P!Top(Changer).at # "unlock"
    BY <1>1 DEF P!Pass, P!Lock, P!In
  <2>3. HandSeq' = HandSeq
    BY <2>1, <2>2, HandGoes, TaskIs DEF PutBase, HandSeq
  <2>4. \A u \in Proc : stack'[u] = stack[u]
    BY <2>1, Goes, TaskIs DEF PutBase
  <2> QED
    BY <1>1, <2>3, <2>4, OrderSame DEF P!Pass, P!Lock, P!queues, P!changer, P!ghost
<1>2. CASE P!Unlock(Changer)
  <2>1. stack[Changer] # <<>> /\ P!Top(Changer).at = "unlock" /\ P!Returns(Changer, TRUE)
    BY <1>2 DEF P!Unlock, P!In
  <2>2. PICK m \in P!Msg :
          \/ \E i \in PutLabels : stack[Changer] = <<Fr(i, Head(todo), m, TRUE)>>
          \/ Head(todo) = "mod"
             /\ stack[Changer] = <<Fr("test", "drv", m, FALSE), Lowest(m, TRUE)>>
    BY <2>1, ChangerForms DEF PutBase
  <2>3. ~(stack[Changer] = <<Fr("test", "drv", m, FALSE), Lowest(m, TRUE)>>)
    BY <2>1, AboveIs DEF AboveFrozen
  <2>4. stack'[Changer] = <<>>
    BY <2>1, <2>2, <2>3, Comes, TaskIs DEF PutBase
  <2>5. HandSeq' = HandSeq
    BY <2>1, <2>4, HandForms DEF HandSeq, HandNow, P!Top
  <2>6. \A u \in Proc : stack'[u] = stack[u]
    BY <2>1, Comes, TaskIs DEF PutBase
  <2> QED
    BY <1>2, <2>5, <2>6, OrderSame DEF P!Unlock, P!queues, P!changer, P!ghost
<1> QED
  BY <1>1, <1>2

LEMMA OrderOfDelivery ==
    ASSUME OrderSound, PutBase, PutBase', P!PutProc(Changer)
    PROVE  OrderSound'
<1>0. UNCHANGED <<q_defer, todo, change, flushed, sent>> /\ stack[Changer] # <<>>
  BY DEF P!PutProc, P!queues, P!changer, P!In
<1> DEFINE t == Changer
<1>9. t \in P!Task /\ t = Changer /\ P!PutProc(t)
  BY TaskIs
<1> HIDE DEF t
<1>10. PICK l \in {"put"}, q \in P!Queue, m \in P!Msg, d, e \in BOOLEAN :
             /\ Forms(t, l, q, m, d, e) /\ (t \in Proc => m = Mine(t) /\ d = FALSE /\ e = FALSE)
             /\ t = Changer => e = TRUE /\ d = TRUE /\ stack[t] = <<Fr(l, q, m, d)>>
             /\ DOMAIN stack' = P!Task /\ \A u \in P!Task \ {t} : stack'[u] = stack[u]
             /\ q = "mod" => /\ stack[t] = <<Fr("put", "mod", m, d)>>
                             /\ stack'[t] = <<Fr("test", "drv", m, FALSE), Lowest(m, d)>>
                             /\ UNCHANGED delivered
             /\ q = "drv" => P!Goto(t, "unlock") /\ delivered' = Append(delivered, m)
  BY <1>9, PutProcIs DEF PutBase
<1>1. /\ Forms(Changer, l, q, m, d, e) /\ d = TRUE /\ stack[Changer] = <<Fr(l, q, m, d)>>
      /\ DOMAIN stack' = P!Task /\ \A u \in P!Task \ {Changer} : stack'[u] = stack[u]
      /\ q = "mod" => /\ stack[Changer] = <<Fr("put", "mod", m, d)>>
                      /\ stack'[Changer] = <<Fr("test", "drv", m, FALSE), Lowest(m, d)>>
                      /\ UNCHANGED delivered
      /\ q = "drv" => P!Goto(Changer, "unlock") /\ delivered' = Append(delivered, m)
  BY <1>9, <1>10
<1>2. HandSeq = <<m>>
  BY <1>1, HandOf DEF HandSeq
<1>3. \A u \in Proc : stack'[u] = stack[u]
  BY <1>1, TaskIs
<1>4. CASE q = "mod"
  <2> DEFINE no == FALSE
             g == Lowest(m, d)
  <2>1. stack'[Changer] = <<Fr("test", "drv", m, no), g>>
    BY <1>1, <1>4
  <2> HIDE DEF no, g
  <2>2. HandSeq' = HandSeq
    BY <1>2, <2>1, HandThere DEF HandSeq
  <2> QED
    BY <1>0, <1>1, <1>3, <1>4, <2>2, OrderSame
<1>5. CASE q = "drv"
  <2>1. stack[Changer] = <<Fr("put", "drv", m, TRUE)>>
    BY <1>1, <1>5
  <2>2. P!Top(Changer) = Fr("put", "drv", m, TRUE)
    BY <2>1, Ends DEF P!Top
  <2>3. todo # <<>> /\ Head(todo) = "drv"
    <3>1. cpc = "deferring"
      BY <1>0, ChangerForms DEF PutBase
    <3>2. PICK n \in P!Msg :
          \/ \E i \in PutLabels : stack[Changer] = <<Fr(i, Head(todo), n, TRUE)>>
          \/ Head(todo) = "mod"
             /\ stack[Changer] = <<Fr("test", "drv", n, FALSE), Lowest(n, TRUE)>>
      BY <1>0, ChangerForms DEF PutBase
    <3>7. P!Top(Changer).at = "put"
      BY <2>2 DEF Fr
    <3>3. ~(stack[Changer] = <<Fr("test", "drv", n, FALSE), Lowest(n, TRUE)>>)
      BY <3>7, AboveIs DEF AboveFrozen
    <3>4. PICK i \in PutLabels : stack[Changer] = <<Fr(i, Head(todo), n, TRUE)>>
      BY <3>2, <3>3
    <3>5. P!Top(Changer) = Fr(i, Head(todo), n, TRUE)
      BY <3>4, Ends DEF P!Top
    <3>6. Head(todo) = "drv"
      BY <2>2, <3>5 DEF Fr
    <3> QED
      BY <3>1, <3>6 DEF PutBase, ControlSound, ChangerAt, Settled
  <2>4. HandSeq' = <<>>
    <3> DEFINE yes == TRUE
    <3>1. stack[Changer] = <<Fr("put", "drv", m, yes)>>
      BY <2>1
    <3> HIDE DEF yes
    <3>2. stack'[Changer] = <<Fr("unlock", "drv", m, yes)>>
      BY <1>1, <1>5, <3>1, Goes, TaskIs DEF PutBase
    <3> QED
      BY <3>2, HandThere DEF HandSeq
  <2> DEFINE a == delivered
             b == q_defer["drv"]
             c == <<m>>
  <2>5. a \in Seq(P!Msg) /\ b \in Seq(P!Msg) /\ c \in Seq(P!Msg) /\ delivered' = a \o c
    <3>1. a \in Seq(P!Msg) /\ b \in Seq(P!Msg)
      BY HandTypes DEF PutBase
    <3>2. delivered' = a \o c
      BY <1>1, <1>5, <3>1, AppendIsConcat
    <3> QED
      BY <3>1, <3>2
  <2>6. InDrv = c \o b /\ AboveDrv = <<>> /\ InDrv' = <<>> \o b /\ AboveDrv' = <<>>
    BY <1>0, <1>2, <2>3, <2>4 DEF InDrv, AboveDrv, FromMod
  <2>7. Coming' = Coming
    BY <1>0 DEF Coming
  <2> HIDE DEF a, b, c
  <2>8. (a \o c) \o (<<>> \o b) = a \o (c \o b)
    BY <2>5, ConcatAssociative, ConcatEmptySeq
  <2>9. delivered' \o InDrv' = delivered \o InDrv
    BY <2>5, <2>6, <2>8 DEF a
  <2>10. Way(q_defer["mod"])' = Way(q_defer["mod"]) /\ Way(Coming)' = Way(Coming)
    BY <1>0, <2>6, <2>7, <2>9 DEF Way
  <2>11. Elems(AboveDrv \o Coming)' = Elems(AboveDrv \o Coming)
    BY <2>6, <2>7 DEF Elems
  <2>12. Elems(InDrv)' \subseteq Elems(InDrv)
    <3>1. <<>> \o b = b /\ Elems(c \o b) = Elems(c) \cup Elems(b)
      BY <2>5, ConcatEmptySeq, ElemsOf
    <3>2. Elems(InDrv)' = Elems(b)
      BY <2>6, <3>1 DEF Elems
    <3> QED
      BY <2>6, <3>1, <3>2
  <2> QED
    BY <1>0, <1>3, <2>10, <2>11, <2>12, OrderMoves DEF PutBase
<1> QED
  BY <1>4, <1>5 DEF P!Queue

LEMMA OrderOfFree ==
    ASSUME OrderSound, PutBase, PutBase', P!Free
    PROVE  OrderSound'
<1>0. /\ stack[Changer] = <<>> /\ cpc = "free" /\ UNCHANGED <<change, stack, sent, delivered>>
      /\ q_defer' = [q_defer EXCEPT !["mod"] = <<>>]
      /\ flushed' = flushed \cup Elems(q_defer["mod"])
  BY DEF P!Free, P!C, Elems
<1>1. change = "pop"
  BY <1>0 DEF PutBase, ControlSound, ChangerAt, Unpushed, Settled, PutTypes
<1>2. HandSeq = <<>> /\ HandSeq' = <<>>
  BY <1>0, HandForms DEF HandSeq
<1>3. /\ DOMAIN q_defer = P!Queue /\ q_defer["mod"] \in Seq(P!Msg) /\ q_defer["drv"] \in Seq(P!Msg)
      /\ delivered \in Seq(P!Msg) /\ <<>> \in Seq(P!Msg) /\ \A s \in Seq(P!Msg) : <<>> \o s = s
  BY HandTypes, ConcatEmptySeq DEF PutBase, PutTypes
<1>4. q_defer'["drv"] = q_defer["drv"] /\ q_defer'["mod"] = <<>>
  BY <1>0, <1>3 DEF P!Queue
<1>5. InDrv = q_defer["drv"] /\ AboveDrv = <<>> /\ InDrv' = q_defer["drv"] /\ AboveDrv' = <<>>
  BY <1>2, <1>3, <1>4 DEF InDrv, AboveDrv
<1>6. Coming = <<>> /\ Coming' = <<>>
  BY <1>0, <1>1 DEF Coming
<1>7. Way(Coming)' = Way(Coming) /\ Way(q_defer["mod"])' = Way(Coming)
  BY <1>0, <1>4, <1>5, <1>6 DEF Way
<1> DEFINE w == delivered \o q_defer["drv"]
           m == q_defer["mod"]
<1>8. w \in Seq(P!Msg) /\ Way(Coming) = w /\ Way(m) = w \o m
  <2>1. w \in Seq(P!Msg)
    BY <1>3, ConcatProperties
  <2>2. <<>> \o <<>> = <<>> /\ w \o <<>> = w
    BY <1>3, <2>1, ConcatEmptySeq
  <2> QED
    BY <1>3, <1>5, <1>6, <2>1, <2>2 DEF Way
<1>9. Ordered(Differ, w \o m) /\ Ordered(Less, w)
  BY <1>8 DEF OrderSound
<1>10. Ordered(Differ, w) /\ \A x \in Elems(w), y \in Elems(m) : <<x, y>> \in Differ
  <2> HIDE DEF w, m
  <2>1. m \in Seq(P!Msg)
    BY <1>3 DEF m
  <2> QED
    BY <1>8, <1>9, <2>1, OrderedParts
<1>11. Elems(w \o m) = Elems(w) \cup Elems(m)
  BY <1>3, <1>8, ElemsOf
<1>12. \A x \in flushed : x \notin Elems(w)
  BY <1>8, <1>11 DEF OrderSound
<1>13. \A x \in flushed' : x \notin Elems(w)
  BY <1>0, <1>10, <1>12 DEF Differ
<1>14. Elems(Way(q_defer["mod"]))' = Elems(w)
  BY <1>7, <1>8 DEF Elems
<1>15. ASSUME NEW t \in Proc PROVE Passed(t)'
  <2> SUFFICES ASSUME stack[t] # <<>>, P!Top(t).at # "unlock"
               PROVE  /\ MyLast(t, Elems(Way(q_defer["mod"])))' /\ MyLast(t, flushed)'
                      /\ P!Top(t).q = "drv" \/ P!Top(t).at # "test" => NotOf(t, AboveDrv \o Coming)'
                      /\ P!Top(t).q = "drv" /\ P!Top(t).at # "test" => NotOf(t, InDrv)'
    BY <1>0 DEF Passed, P!Top
  <2>1. /\ MyLast(t, Elems(w \o m)) /\ MyLast(t, flushed)
        /\ P!Top(t).q = "drv" \/ P!Top(t).at # "test" => NotOf(t, AboveDrv \o Coming)
        /\ P!Top(t).q = "drv" /\ P!Top(t).at # "test" => NotOf(t, InDrv)
    BY <1>8 DEF OrderSound, Passed
  <2>2. MyLast(t, Elems(Way(q_defer["mod"])))' /\ MyLast(t, flushed)'
    BY <1>0, <1>11, <1>14, <2>1 DEF MyLast
  <2>3. (AboveDrv \o Coming)' = AboveDrv \o Coming /\ InDrv' = InDrv
    BY <1>5, <1>6
  <2> QED
    BY <2>1, <2>2, <2>3 DEF NotOf, Elems
<1>16. Ordered(Differ, Way(q_defer["mod"]))' /\ Ordered(Less, Way(Coming))'
  BY <1>7, <1>8, <1>9, <1>10 DEF Ordered, Differ, Less
<1> QED
  BY <1>13, <1>14, <1>15, <1>16 DEF OrderSound

LEMMA ChangerNeverPasses == ASSUME PutBase, P!PassOn(Changer) PROVE FALSE
BY PassOnIs, TaskIs DEF PutBase

LEMMA OrderKeptByChange ==
    ASSUME OrderSound, PutBase, PutBase', P!Begin \/ P!ChangeSteps \/ P!PutSteps(Changer)
    PROVE  OrderSound'
<1>1. CASE P!Begin \/ P!Freeze \/ P!Attach \/ P!LockOff \/ P!ProcsOff \/ P!LockClosed \/ P!Unlink
             \/ P!Thaw
           \/ P!NothingDeferred \/ P!StartDeferred \/ P!EndDeferred
  <2>1. stack[Changer] = <<>> /\ UNCHANGED <<change, q_defer, stack, sent, delivered, flushed>>
    BY <1>1 DEF P!Begin, P!Freeze, P!Attach, P!LockOff, P!ProcsOff, P!LockClosed, P!Unlink, P!Thaw,
                P!NothingDeferred, P!StartDeferred, P!EndDeferred, P!C, P!queues, P!ghost
  <2> QED
    BY <2>1, OrderRests DEF PutBase
<1> QED
  BY <1>1, OrderOfFree, OrderOfTake, OrderOfRetry, OrderOfCalls, OrderOfDelivery, ChangerNeverPasses
     DEF P!ChangeSteps, P!PutSteps

LEMMA OrderOfStep ==
    ASSUME OrderSound, PutBase, NEW t \in Proc,
           UNCHANGED <<delivered, q_defer, todo, change, flushed>>,
           \A u \in P!Task \ {t} : stack'[u] = stack[u],
           \A u \in Proc \ {t} : sent'[u] = sent[u], Passed(t)'
    PROVE  OrderSound'
<1>1. HandSeq' = HandSeq
  BY TaskIs DEF HandSeq
<1>2. InDrv' = InDrv /\ AboveDrv' = AboveDrv /\ Coming' = Coming
  BY <1>1 DEF InDrv, AboveDrv, Coming, FromMod
<1>3. Way(q_defer["mod"])' = Way(q_defer["mod"]) /\ Way(Coming)' = Way(Coming)
  BY <1>2 DEF Way
<1>4. ASSUME NEW u \in Proc, u # t PROVE Passed(u)'
  <2>1. stack'[u] = stack[u] /\ sent'[u] = sent[u]
    BY <1>4, TaskIs
  <2>2. Passed(u)
    BY DEF OrderSound
  <2>3. P!Top(u)' = P!Top(u)
    BY <2>1 DEF P!Top
  <2>4. /\ Elems(Way(q_defer["mod"]))' = Elems(Way(q_defer["mod"]))
        /\ (AboveDrv \o Coming)' = AboveDrv \o Coming
    BY <1>2, <1>3 DEF Elems
  <2>5. MyLast(u, Elems(Way(q_defer["mod"])))' <=> MyLast(u, Elems(Way(q_defer["mod"])))
    BY <2>1, <2>4 DEF MyLast
  <2>6. MyLast(u, flushed)' <=> MyLast(u, flushed)
    BY <2>1 DEF MyLast
  <2>7. NotOf(u, AboveDrv \o Coming)' <=> NotOf(u, AboveDrv \o Coming)
    BY <2>4 DEF NotOf, Elems
  <2>8. NotOf(u, InDrv)' <=> NotOf(u, InDrv)
    BY <1>2 DEF NotOf, Elems
  <2> QED
    BY <2>1, <2>2, <2>3, <2>5, <2>6, <2>7, <2>8 DEF Passed
<1>5. Ordered(Differ, Way(q_defer["mod"]))' /\ Ordered(Less, Way(Coming))'
  BY <1>3 DEF OrderSound, Ordered, Differ, Less
<1>6. \A m \in flushed' : m \notin Elems(Way(q_defer["mod"]))'
  BY <1>3 DEF OrderSound, Elems
<1> QED
  BY <1>4, <1>5, <1>6 DEF OrderSound

LEMMA NotOfNone == \A t : NotOf(t, <<>>)
BY ElemsOf DEF NotOf

LEMMA HandIsDeferring ==
    ASSUME PutBase
    PROVE  HandSeq = <<>> \/ (cpc = "deferring" /\ todo # <<>>)
<1>1. CASE stack[Changer] = <<>>
  BY <1>1, HandAtRest
<1>2. CASE stack[Changer] # <<>>
  BY <1>2, ChangerForms DEF PutBase, ControlSound, ChangerAt, Settled
<1> QED
  BY <1>1, <1>2

LEMMA NothingAbove ==
    ASSUME PutBase, change = "pop" \/ q_next["head"] = "drv"
    PROVE  AboveDrv \o Coming = <<>>
<1>1. ChangerAt /\ Links /\ Unknown /\ change \in {"push", "pop"}
  BY DEF PutBase, ControlSound, PutTypes
<1>2. Coming = <<>>
  <2>1. CASE change = "pop"
    BY <2>1 DEF Coming
  <2>2. CASE change = "push" /\ q_next["head"] = "drv"
    <3>1. cpc \in Unpushed
      BY <1>1, <2>2 DEF ChangerAt, Links
    <3> QED
      BY <1>1, <2>2, <3>1 DEF Coming, Unknown
  <2> QED
    BY <1>1, <2>1, <2>2
<1>3. AboveDrv = <<>>
  <2>1. CASE HandSeq = <<>>
    BY <2>1 DEF AboveDrv
  <2>2. CASE cpc = "deferring" /\ todo # <<>>
    <3>1. change = "pop"
      BY <1>1, <2>2 DEF Links, Settled
    <3>2. todo = <<"drv">>
      BY <1>1, <2>2, <3>1 DEF ChangerAt, Settled
    <3>3. Head(todo) = "drv"
      BY <3>2, Ends
    <3> QED
      BY <3>3 DEF AboveDrv, FromMod
  <2> QED
    BY <2>1, <2>2, HandIsDeferring
<1> QED
  BY <1>2, <1>3, Ends

LEMMA FreeToPass ==
    ASSUME PutBase, NEW t \in Proc, P!Pass(t)
    PROVE  /\ P!Top(t).q = "mod" => AboveDrv \o Coming = <<>>
           /\ P!Top(t).q = "drv" => InDrv = <<>>
<1>1. ~P!MustWait(P!Top(t)) /\ stack[t] # <<>>
  BY DEF P!Pass, P!In
<1>2. P!Top(t).deferring = FALSE
  <2>1. PICK l \in PutLabels, q \in P!Queue : Forms(t, l, q, Mine(t), FALSE, FALSE)
    BY <1>1, PutterForms DEF PutBase
  <2> DEFINE no == FALSE
             m == Mine(t)
  <2>2. Forms(t, l, q, m, no, no)
    BY <2>1
  <2> HIDE DEF no, m
  <2>3. P!Top(t).deferring = no
    BY <2>2, FormTop
  <2> QED
    BY <2>3 DEF no
<1>3. q_defer[P!Top(t).q] = <<>> /\ "QDEFERRING" \notin q_flag[P!Top(t).q]
  BY <1>1, <1>2 DEF P!MustWait, P!Obstacles
<1>4. \A q \in P!Queue : q_defer[q] = <<>> /\ "QDEFERRING" \notin q_flag[q] /\ todo # <<>>
                       /\ Head(todo) = q => HandSeq = <<>>
  BY HandIsDeferring DEF PutBase, ControlSound, FlagsSet
<1>5. HandSeq = <<>> \/ (todo # <<>> /\ Head(todo) \in P!Queue)
  BY HandIsDeferring, TodoIs DEF PutBase, ControlSound
<1>6. CASE P!Top(t).q = "mod"
  <2>1. Coming = <<>>
    BY <1>3, <1>6 DEF Coming
  <2>2. AboveDrv = <<>>
    BY <1>3, <1>4, <1>6 DEF AboveDrv, FromMod, P!Queue
  <2> QED
    BY <1>6, <2>1, <2>2, Ends
<1>7. CASE P!Top(t).q = "drv"
  <2>1. q_defer["drv"] = <<>>
    BY <1>3, <1>7
  <2>2. FromMod \/ HandSeq = <<>>
    BY <1>3, <1>4, <1>5, <1>7 DEF FromMod, P!Queue
  <2>3. <<>> \o <<>> = <<>>
    BY Ends
  <2> QED
    BY <1>7, <2>1, <2>2, <2>3 DEF InDrv
<1> QED
  BY <1>6, <1>7

\* What keeps Passed for a putter whose own messages stay where they are.
LEMMA PassedStill ==
    ASSUME OrderSound, PutBase, NEW t \in Proc, stack[t] # <<>>, P!Top(t).at # "unlock",
           UNCHANGED <<delivered, q_defer, todo, change, flushed>>, sent'[t] = sent[t],
           stack'[Changer] = stack[Changer],
           P!Top(t).q' = "drv" \/ P!Top(t).at' # "test" => NotOf(t, AboveDrv \o Coming),
           P!Top(t).q' = "drv" /\ P!Top(t).at' # "test" => NotOf(t, InDrv)
    PROVE  Passed(t)'
<1>1. HandSeq' = HandSeq
  BY DEF HandSeq
<1>2. InDrv' = InDrv /\ AboveDrv' = AboveDrv /\ Coming' = Coming
  BY <1>1 DEF InDrv, AboveDrv, Coming, FromMod
<1>3. Way(q_defer["mod"])' = Way(q_defer["mod"])
  BY <1>2 DEF Way
<1>4. MyLast(t, Elems(Way(q_defer["mod"]))) /\ MyLast(t, flushed)
  BY DEF OrderSound, Passed
<1>5. MyLast(t, Elems(Way(q_defer["mod"])))' /\ MyLast(t, flushed)'
  BY <1>3, <1>4 DEF MyLast, Elems
<1>6. NotOf(t, AboveDrv \o Coming)' <=> NotOf(t, AboveDrv \o Coming)
  BY <1>2 DEF NotOf, Elems
<1>7. NotOf(t, InDrv)' <=> NotOf(t, InDrv)
  BY <1>2 DEF NotOf, Elems
<1> QED
  BY <1>5, <1>6, <1>7 DEF Passed

LEMMA PassedAtPut ==
    ASSUME OrderSound, PutBase, PutBase', Placed, NEW t \in Proc, P!Put(t)
    PROVE  Passed(t)'
<1>1. /\ stack[t] = <<>> /\ sent'[t] = sent[t] + 1 /\ sent[t] \in Nat
      /\ \A u \in P!Task \ {t} : stack'[u] = stack[u]
      /\ stack'[t] = <<Fr("test", q_next["head"], Mine(t)', FALSE)>>
      /\ UNCHANGED <<delivered, q_defer, todo, change, flushed>>
  <2>1. /\ stack[t] = <<>> /\ sent'[t] = sent[t] + 1
        /\ \A u \in P!Task \ {t} : stack'[u] = stack[u]
        /\ stack'[t] = <<Fr("test", q_next["head"], Mine(t)', FALSE)>>
    BY PutIs DEF PutBase
  <2>2. sent[t] \in Nat
    BY DEF PutBase, PutTypes
  <2>3. UNCHANGED <<delivered, q_defer, todo, change, flushed>>
    BY DEF P!Put, P!queues, P!changer, P!ghost
  <2> QED
    BY <2>1, <2>2, <2>3
<1>2. P!Top(t)' = Fr("test", q_next["head"], Mine(t)', FALSE)
  BY <1>1, Ends DEF P!Top
<1>3. P!Top(t).q' = q_next["head"] /\ P!Top(t).at' = "test"
  BY <1>2 DEF Fr
<1>4. HandSeq' = HandSeq
  BY <1>1, TaskIs DEF HandSeq
<1>5. InDrv' = InDrv /\ AboveDrv' = AboveDrv /\ Coming' = Coming
  BY <1>1, <1>4 DEF InDrv, AboveDrv, Coming, FromMod
<1>6. Way(q_defer["mod"])' = Way(q_defer["mod"])
  BY <1>1, <1>5 DEF Way
<1>7. \A m \in P!Msg : Somewhere(m) => m[2] <= sent[m[1]]
  BY DEF Placed
<1>8. HandSeq = <<>> \/ \E m \in P!Msg : HandSeq = <<m>> /\ HasInHand(Changer, m)
  <2>1. CASE stack[Changer] = <<>>
    BY <2>1, HandAtRest
  <2>2. CASE stack[Changer] # <<>>
    <3>1. PICK m \in P!Msg : HandNow(stack[Changer]) \in {<<>>, <<m>>}
      <4>1. P!Top(Changer).m \in P!Msg
        BY <2>2, TopTypes, TaskIs DEF PutBase
      <4> QED
        BY <4>1 DEF HandNow, P!Top
    <3> QED
      BY <3>1 DEF HandSeq, HasInHand
  <2> QED
    BY <2>1, <2>2
<1>9. \A m \in Elems(Way(q_defer["mod"])) : m \in P!Msg /\ Somewhere(m)
  <2> SUFFICES ASSUME NEW m \in Elems(Way(q_defer["mod"])) PROVE m \in P!Msg /\ Somewhere(m)
    OBVIOUS
  <2>1. q_defer["mod"] \in Seq(P!Msg)
    BY HandTypes DEF PutBase
  <2>2. /\ Way(q_defer["mod"]) \in Seq(P!Msg)
        /\ \/ m \in Elems(delivered) \/ m \in Elems(q_defer["drv"])
           \/ m \in Elems(HandSeq) \/ m \in Elems(q_defer["mod"])
    BY <2>1, WayTypes DEF PutBase
  <2>3. m \in P!Msg
    BY <2>2, ElemsOf
  <2>4. CASE m \in Elems(HandSeq)
    <3>1. PICK n \in P!Msg : HandSeq = <<n>> /\ HasInHand(Changer, n)
      BY <1>8, <2>4, ElemsOf
    <3>2. m = n
      BY <2>4, <3>1, ElemsOf
    <3> QED
      BY <2>3, <3>1, <3>2, TaskIs DEF Somewhere
  <2>5. CASE m \in Elems(delivered) \/ m \in Elems(q_defer["drv"]) \/ m \in Elems(q_defer["mod"])
    BY <2>3, <2>5 DEF Somewhere, P!Got, P!Deferred, Elems
  <2> QED
    BY <2>2, <2>4, <2>5
<1>10. flushed \subseteq P!Msg /\ \A m \in flushed : Somewhere(m)
  BY DEF PutBase, PutTypes, Somewhere
<1>11. \A m \in P!Msg : m[1] \in Proc /\ m[2] \in Nat
  BY DEF P!Msg
<1>12. MyLast(t, Elems(Way(q_defer["mod"])))'
  <2>1. Elems(Way(q_defer["mod"]))' = Elems(Way(q_defer["mod"]))
    BY <1>6 DEF Elems
  <2>2. ASSUME NEW x \in Elems(Way(q_defer["mod"])), x[1] = t PROVE x[2] < sent'[t]
    <3>1. x \in P!Msg /\ x[2] <= sent[t]
      BY <1>7, <1>9, <2>2
    <3> QED
      BY <1>1, <1>11, <3>1
  <2> QED
    BY <2>1, <2>2 DEF MyLast
<1>13. MyLast(t, flushed)'
  <2>2. ASSUME NEW x \in flushed, x[1] = t PROVE x[2] < sent'[t]
    <3>1. x \in P!Msg /\ x[2] <= sent[t]
      BY <1>7, <1>10, <2>2
    <3> QED
      BY <1>1, <1>11, <3>1
  <2> QED
    BY <1>1, <2>2 DEF MyLast
<1>14. P!Top(t).q' = "drv" => NotOf(t, AboveDrv \o Coming)'
  BY <1>3, <1>5, NothingAbove, NotOfNone DEF NotOf, Elems
<1> QED
  BY <1>3, <1>12, <1>13, <1>14 DEF Passed

LEMMA PassedAtRest == ASSUME NEW t, stack'[t] = <<>> \/ P!Top(t).at' = "unlock" PROVE Passed(t)'
BY DEF Passed

LEMMA OrderOfTurns ==
    ASSUME OrderSound, PutBase, PutBase', Placed, NEW t \in Proc,
           P!Put(t) \/ P!PassOn(t) \/ P!Pass(t) \/ P!Lock(t) \/ P!Unlock(t)
    PROVE  OrderSound'
<1>0. /\ UNCHANGED <<delivered, q_defer, todo, change, flushed>> /\ t \in P!Task
      /\ Changer # t /\ Changer \in P!Task
  BY TaskIs DEF P!Put, P!PassOn, P!Pass, P!Lock, P!Unlock, P!queues, P!changer, P!ghost
<1>1. CASE P!Put(t)
  <2>1. /\ \A u \in Proc \ {t} : sent'[u] = sent[u]
        /\ \A u \in P!Task \ {t} : stack'[u] = stack[u]
    BY <1>1, PutIs DEF PutBase
  <2> QED
    BY <1>0, <1>1, <2>1, PassedAtPut, OrderOfStep
<1>2. CASE P!PassOn(t)
  <2>1. /\ stack[t] = <<Fr("test", "mod", Mine(t), FALSE)>> /\ change = "pop"
        /\ stack'[t] = <<Fr("test", "drv", Mine(t), FALSE)>>
        /\ \A u \in P!Task \ {t} : stack'[u] = stack[u]
    BY <1>0, <1>2, PassOnIs DEF PutBase
  <2>2. P!Top(t) = Fr("test", "mod", Mine(t), FALSE)
          /\ P!Top(t)' = Fr("test", "drv", Mine(t), FALSE)
    BY <2>1, Ends DEF P!Top
  <2>3. P!Top(t).at = "test" /\ P!Top(t).q' = "drv" /\ P!Top(t).at' = "test" /\ stack[t] # <<>>
    BY <2>1, <2>2, Ends DEF Fr
  <2>4. NotOf(t, AboveDrv \o Coming)
    BY <2>1, NothingAbove, NotOfNone
  <2>5. sent' = sent
    BY <1>2 DEF P!PassOn
  <2>6. Passed(t)'
    BY <1>0, <2>1, <2>3, <2>4, <2>5, PassedStill
  <2> QED
    BY <1>0, <2>1, <2>5, <2>6, OrderOfStep
<1>3. ASSUME P!Pass(t) \/ P!Lock(t) PROVE OrderSound'
  <2>1. PICK l \in {"lock", "put"} : P!Goto(t, l)
               /\ (P!Pass(t) \/ (P!Lock(t) /\ P!Top(t).at = "lock"))
    <3>1. P!Pass(t) => P!Goto(t, "lock")
      BY DEF P!Pass
    <3>2. P!Lock(t) => P!Goto(t, "put") /\ P!Top(t).at = "lock"
      BY DEF P!Lock, P!In
    <3> QED
      BY <1>3, <3>1, <3>2
  <2>2. stack[t] # <<>> /\ P!Top(t).at \in {"test", "lock"} /\ UNCHANGED sent
    BY <1>3 DEF P!Pass, P!Lock, P!In
  <2>3. PICK k \in PutLabels, q \in P!Queue : Forms(t, k, q, Mine(t), FALSE, FALSE)
    BY <2>2, PutterForms DEF PutBase
  <2>4. P!Top(t).q = q /\ P!Top(t).q' = q /\ P!Top(t).at' = l
    <3> DEFINE no == FALSE
               m == Mine(t)
    <3>1. Forms(t, k, q, m, no, no)
      BY <2>3
    <3>2. stack'[t] = [stack[t] EXCEPT ![1].at = l]
      BY <1>0, <2>1 DEF P!Goto, PutBase, CallsSound
    <3> HIDE DEF no, m
    <3>3. P!Top(t).q = q
      BY <3>1, FormTop
    <3>4. \/ stack[t] = <<Fr(k, q, m, no)>> /\ stack'[t] = <<Fr(l, q, m, no)>>
          \/ \E g : stack[t] = <<Fr(k, q, m, no), g>> /\ stack'[t] = <<Fr(l, q, m, no), g>>
      BY <1>0, <2>1, <3>1, Goes DEF PutBase, Forms
    <3>5. P!Top(t)' = Fr(l, q, m, no)
      BY <3>4, Ends DEF P!Top
    <3>6. P!Top(t).q' = q /\ P!Top(t).at' = l
      BY <3>5, FrIs
    <3> QED
      BY <3>3, <3>6
  <2>5. Passed(t)
    BY DEF OrderSound
  <2>6. q = "mod" \/ q = "drv"
    BY <2>3 DEF P!Queue
  <2>7. ASSUME P!Pass(t) PROVE NotOf(t, AboveDrv \o Coming) /\ (q = "drv" => NotOf(t, InDrv))
    <3>1. CASE q = "mod"
      BY <2>4, <2>7, <3>1, FreeToPass, NotOfNone
    <3>2. CASE q = "drv"
      BY <2>2, <2>4, <2>5, <2>7, <3>2, FreeToPass, NotOfNone DEF Passed
    <3> QED
      BY <2>6, <3>1, <3>2
  <2>8. NotOf(t, AboveDrv \o Coming) /\ (q = "drv" => NotOf(t, InDrv))
    BY <2>1, <2>2, <2>4, <2>5, <2>7 DEF Passed
  <2>9. \A u \in P!Task \ {t} : stack'[u] = stack[u]
    BY <1>0, <2>1, Goes DEF PutBase
  <2>10. Passed(t)'
    BY <1>0, <2>2, <2>4, <2>8, <2>9, PassedStill
  <2> QED
    BY <1>0, <2>2, <2>9, <2>10, OrderOfStep
<1>4. CASE P!Unlock(t)
  <2>1. stack[t] # <<>> /\ P!Top(t).at = "unlock" /\ P!Returns(t, TRUE) /\ UNCHANGED sent
    BY <1>4 DEF P!Unlock, P!In
  <2>2. PICK k \in PutLabels, q \in P!Queue : Forms(t, k, q, Mine(t), FALSE, FALSE)
    BY <2>1, PutterForms DEF PutBase
  <2>3. stack'[t] = <<>> \/ stack'[t] = <<Lowest(Mine(t), FALSE)>>
    <3>1. PICK f, g : /\ stack[t] = <<f>> \/ stack[t] = <<f, g>>
                      /\ g = Lowest(Mine(t), FALSE)
      BY <2>2 DEF Forms
    <3>2. /\ \A x : stack[t] = <<x>> => stack'[t] = <<>>
          /\ \A x, y : stack[t] = <<x, y>> => stack'[t] = <<y>>
      BY <1>0, <2>1, Comes DEF PutBase
    <3>3. stack'[t] = <<>> \/ stack'[t] = <<g>>
      <4>1. /\ stack[t] = <<f>> => stack'[t] = <<>>
            /\ stack[t] = <<f, g>> => stack'[t] = <<g>>
        BY ONLY <3>2
      <4> QED
        BY <3>1, <4>1
    <3> QED
      BY <3>1, <3>3
  <2>4. stack'[t] = <<>> \/ P!Top(t)' = Lowest(Mine(t), FALSE)
    BY <2>3, Ends DEF P!Top
  <2>5. stack'[t] = <<>> \/ P!Top(t).at' = "unlock"
    BY <2>4 DEF Lowest, Fr
  <2>6. \A u \in P!Task \ {t} : stack'[u] = stack[u]
    BY <1>0, <2>1, Comes DEF PutBase
  <2> QED
    BY <1>0, <2>1, <2>5, <2>6, PassedAtRest, OrderOfStep
<1> QED
  BY <1>1, <1>2, <1>3, <1>4

LEMMA Between ==
    ASSUME NEW a \in Seq(P!Msg), NEW b \in Seq(P!Msg), NEW c \in Seq(P!Msg)
    PROVE  /\ a \o b \in Seq(P!Msg) /\ (a \o b) \o c = a \o (b \o c)
           /\ a \o <<>> = a /\ <<>> \o a = a
BY ConcatProperties, ConcatAssociative, ConcatEmptySeq

LEMMA BetweenOne ==
    ASSUME NEW a \in Seq(P!Msg), NEW b \in Seq(P!Msg), NEW m \in P!Msg
    PROVE  /\ a \o <<m>> \in Seq(P!Msg) /\ (a \o b) \o <<m>> = a \o (b \o <<m>>)
           /\ Elems(a \o <<m>>) = Elems(a) \cup {m}
           /\ Elems((a \o <<m>>) \o b) = (Elems(a) \cup {m}) \cup Elems(b)
<1> DEFINE c == <<m>>
<1>1. c \in Seq(P!Msg) /\ Elems(c) = {m}
  BY ElemsOf
<1> HIDE DEF c
<1>2. a \o c \in Seq(P!Msg) /\ (a \o b) \o c = a \o (b \o c)
  BY <1>1, Between
<1>3. Elems(a \o c) = Elems(a) \cup {m}
  BY <1>1, ElemsOf
<1>4. Elems((a \o c) \o b) = Elems(a \o c) \cup Elems(b)
  BY <1>2, ElemsOf
<1> QED
  BY <1>2, <1>3, <1>4 DEF c

\* The last message of a task comes in behind everything of this task.
LEMMA OrderInserted ==
    ASSUME OrderSound, PutBase, PutBase', NEW t \in Proc, stack[t] # <<>>, P!Top(t).at # "unlock",
           NEW s \in Seq(P!Msg), NEW r \in Seq(P!Msg),
           Way(q_defer["mod"]) = s \o r, Way(q_defer["mod"])' = (s \o <<Mine(t)>>) \o r,
           \/ Way(Coming)' = Way(Coming)
           \/ \E v, w \in Seq(P!Msg) :
                /\ Way(Coming) = v \o w /\ Way(Coming)' = (v \o <<Mine(t)>>) \o w
                /\ NotOf(t, w),
           \A x : x \in Elems(AboveDrv \o Coming)'
             => x = Mine(t) \/ x \in Elems(AboveDrv \o Coming),
           \A x : x \in Elems(InDrv)' => x = Mine(t) \/ x \in Elems(InDrv),
           UNCHANGED <<flushed, sent>>, \A u \in P!Task \ {t} : stack'[u] = stack[u], Passed(t)'
    PROVE  OrderSound'
<1> DEFINE m == Mine(t)
<1>1. m \in P!Msg /\ m[1] = t /\ m[2] = sent[t] /\ sent[t] \in Nat
  <2>1. Mine(t) \in P!Msg /\ sent[t] \in 1 .. PerPutter
    BY PutterForms DEF PutBase
  <2> QED
    BY <2>1 DEF Mine
<1>2. MyLast(t, Elems(Way(q_defer["mod"]))) /\ MyLast(t, flushed)
  BY DEF OrderSound, Passed
<1>3. Coming \in Seq(P!Msg) /\ q_defer["mod"] \in Seq(P!Msg)
  BY HandTypes DEF PutBase
<1>4. Elems(Way(Coming)) \subseteq Elems(Way(q_defer["mod"]))
  <2>1. \A x : x \in Elems(Coming) => x \in Elems(q_defer["mod"])
    BY ElemsOf DEF Coming
  <2> QED
    BY <1>3, <2>1, WayTypes DEF PutBase
<1>5. \A x \in P!Msg : x[1] \in Proc /\ x[2] \in Nat
  BY DEF P!Msg
<1>6. Elems(s \o r) = Elems(s) \cup Elems(r) /\ Elems(s) \subseteq P!Msg /\ Elems(r) \subseteq P!Msg
  BY ElemsOf
<1>7. \A x \in Elems(s \o r) : x # m /\ x \in P!Msg
  <2>1. \A x \in Elems(s \o r) : x[1] = t => x[2] < sent[t]
    BY <1>2 DEF MyLast
  <2>2. \A x \in Elems(s \o r) : x \in P!Msg
    BY <1>6
  <2>3. ASSUME NEW x \in Elems(s \o r), x = m PROVE FALSE
    <3>1. x[1] = t /\ x[2] = sent[t]
      BY <1>1, <2>3
    <3>2. x[2] < sent[t]
      BY <2>1, <3>1
    <3> HIDE DEF m
    <3> QED
      BY <1>1, <3>1, <3>2
  <2> QED
    BY <2>2, <2>3
<1> HIDE DEF m
<1>8. Ordered(Differ, (s \o <<m>>) \o r)
  <2>1. \A y \in Elems(s) : <<y, m>> \in Differ
    BY <1>1, <1>6, <1>7 DEF Differ
  <2>2. \A y \in Elems(r) : <<m, y>> \in Differ
    BY <1>1, <1>6, <1>7 DEF Differ
  <2>3. Ordered(Differ, s \o r)
    BY DEF OrderSound
  <2> QED
    BY <1>1, <2>1, <2>2, <2>3, Inserted
<1>9. Ordered(Differ, Way(q_defer["mod"]))'
  BY <1>8 DEF Ordered, Differ, m
<1>10. Ordered(Less, Way(Coming))'
  <2>1. Ordered(Less, Way(Coming))
    BY DEF OrderSound
  <2>2. CASE Way(Coming)' = Way(Coming)
    BY <2>1, <2>2 DEF Ordered, Less
  <2>3. ASSUME NEW v \in Seq(P!Msg), NEW w \in Seq(P!Msg), Way(Coming) = v \o w,
               Way(Coming)' = (v \o <<m>>) \o w, NotOf(t, w)
        PROVE  Ordered(Less, Way(Coming))'
    <3>1. Elems(v \o w) = Elems(v) \cup Elems(w) /\ Elems(v) \subseteq P!Msg
            /\ Elems(w) \subseteq P!Msg
      BY ElemsOf
    <3>2. \A y \in Elems(v) : y[1] = t => y[2] < sent[t]
      BY <1>2, <1>4, <2>3, <3>1 DEF MyLast
    <3>3. \A y \in Elems(v) : <<y, m>> \in Less
      BY <1>1, <3>1, <3>2 DEF Less
    <3>4. \A y \in Elems(w) : <<m, y>> \in Less
      BY <1>1, <2>3, <3>1 DEF Less, NotOf
    <3>5. Ordered(Less, (v \o <<m>>) \o w)
      BY <1>1, <2>1, <2>3, <3>3, <3>4, Inserted
    <3> QED
      BY <2>3, <3>5 DEF Ordered, Less
  <2> QED
    BY <2>2, <2>3 DEF m
<1>11. \A x : x \in Elems(Way(q_defer["mod"]))' <=> x = m \/ x \in Elems(Way(q_defer["mod"]))
  <2>1. Elems((s \o <<m>>) \o r) = (Elems(s) \cup {m}) \cup Elems(r)
    <3>1. m \in P!Msg
      BY <1>1
    <3> HIDE DEF m
    <3> QED
      BY <3>1, BetweenOne
  <2>2. Elems(Way(q_defer["mod"]))' = Elems((s \o <<m>>) \o r)
    BY DEF Elems, m
  <2> QED
    BY <1>6, <2>1, <2>2
<1>12. \A x \in flushed' : x \notin Elems(Way(q_defer["mod"]))'
  <2>1. \A x \in flushed : x # m
    BY <1>1, <1>2 DEF MyLast
  <2> QED
    BY <1>11, <2>1 DEF OrderSound
<1>13. ASSUME NEW u \in Proc, u # t PROVE Passed(u)'
  <2>1. stack'[u] = stack[u] /\ sent'[u] = sent[u] /\ flushed' = flushed
    BY <1>13, TaskIs
  <2>2. Passed(u)
    BY DEF OrderSound
  <2>3. P!Top(u)' = P!Top(u)
    BY <2>1 DEF P!Top
  <2>4. MyLast(u, Elems(Way(q_defer["mod"])))' <=> MyLast(u, Elems(Way(q_defer["mod"])))
    BY <1>1, <1>11, <1>13, <2>1 DEF MyLast
  <2>5. MyLast(u, flushed)' <=> MyLast(u, flushed)
    BY <2>1 DEF MyLast
  <2>6. NotOf(u, AboveDrv \o Coming) => NotOf(u, AboveDrv \o Coming)'
    BY <1>1, <1>13 DEF NotOf, m
  <2>7. NotOf(u, InDrv) => NotOf(u, InDrv)'
    BY <1>1, <1>13 DEF NotOf, m
  <2> QED
    BY <2>1, <2>2, <2>3, <2>4, <2>5, <2>6, <2>7 DEF Passed
<1> QED
  BY <1>9, <1>10, <1>12, <1>13 DEF OrderSound

LEMMA OneMore ==
    ASSUME NEW a \in Seq(P!Msg), NEW m \in P!Msg
    PROVE  \A x : x \in Elems(a \o <<m>>) => x = m \/ x \in Elems(a)
BY BetweenOne

LEMMA DeferIs ==
    ASSUME PutBase, NEW t \in Proc, P!Defer(t)
    PROVE  /\ stack[t] # <<>> /\ P!Top(t).at = "test" /\ P!Top(t).q \in P!Queue /\ Mine(t) \in P!Msg
           /\ q_defer' = [q_defer EXCEPT ![P!Top(t).q] = @ \o <<Mine(t)>>]
           /\ q_count' = [q_count EXCEPT ![P!Top(t).q] = (@ + 1) % Width]
           /\ P!Top(t).m = Mine(t) /\ HandNow(stack[t]) = <<Mine(t)>>
           /\ clogged' = clogged /\ P!Returns(t, FALSE)
           /\ UNCHANGED <<change, todo, sent, delivered, flushed>>
           /\ \A u \in P!Task \ {t} : stack'[u] = stack[u]
           /\ stack'[t] = <<>> \/ P!Top(t).at' = "unlock"
           /\ HandNow(stack'[t]) = <<>>
<1>1. /\ stack[t] # <<>> /\ P!Top(t).at = "test" /\ t \in P!Task /\ P!Returns(t, FALSE)
      /\ P!DeferMsg(P!Top(t).q, P!Top(t).m, P!Top(t).deferring)
      /\ clogged' = (clogged \/ (P!Top(t).deferring /\ q_defer[P!Top(t).q] # <<>>))
      /\ UNCHANGED <<change, todo, sent, delivered, flushed>>
  BY TaskIs DEF P!Defer, P!In, P!changer
<1>2. PICK k \in PutLabels, q \in P!Queue : Forms(t, k, q, Mine(t), FALSE, FALSE)
  BY <1>1, PutterForms DEF PutBase
<1>3. Mine(t) \in P!Msg
  BY <1>1, PutterForms DEF PutBase
<1> DEFINE no == FALSE
           m == Mine(t)
<1>4. Forms(t, k, q, m, no, no)
  BY <1>2
<1> HIDE DEF no, m
<1>5. P!Top(t).at = k /\ P!Top(t).q = q /\ P!Top(t).m = m /\ P!Top(t).deferring = no
  BY <1>4, FormTop
<1>6. HandNow(stack[t]) = <<m>>
  BY <1>1, <1>4, <1>5, HandOf
<1>7. stack'[t] = <<>> \/ stack'[t] = <<Lowest(m, no)>>
  BY <1>1, <1>4, Comes DEF PutBase, Forms
<1>8. stack'[t] = <<>> \/ P!Top(t).at' = "unlock"
  <2>1. stack'[t] = <<>> \/ P!Top(t)' = Lowest(m, no)
    BY <1>7, Ends DEF P!Top
  <2> QED
    BY <2>1 DEF Lowest, Fr
<1>9. HandNow(stack'[t]) = <<>>
  <2>1. CASE stack'[t] = <<>>
    BY <2>1, HandForms
  <2>2. CASE stack'[t] = <<Fr("unlock", "mod", m, no)>>
    BY <2>2, HandThere
  <2> QED
    BY <1>7, <2>1, <2>2 DEF Lowest
<1>10. \A u \in P!Task \ {t} : stack'[u] = stack[u]
  BY <1>1, Comes DEF PutBase
<1>11. clogged' = clogged
  BY <1>1, <1>5 DEF no, PutBase, PutTypes
<1>12. /\ q_defer' = [q_defer EXCEPT ![q] = Append(@, m)]
       /\ q_count' = [q_count EXCEPT ![q] = (@ + 1) % Width]
  BY <1>1, <1>5 DEF P!DeferMsg, no
<1>13. q_defer[q] \in Seq(P!Msg)
  BY DEF PutBase, PutTypes
<1>14. Append(q_defer[q], m) = q_defer[q] \o <<m>>
  BY <1>3, <1>13, AppendIsConcat DEF m
<1>15. q_defer' = [q_defer EXCEPT ![q] = @ \o <<m>>]
  BY <1>12, <1>14
<1> QED
  BY <1>1, <1>3, <1>5, <1>6, <1>8, <1>9, <1>10, <1>11, <1>12, <1>15 DEF m

LEMMA OrderOfDefer ==
    ASSUME OrderSound, PutBase, PutBase', NEW t \in Proc, P!Defer(t)
    PROVE  OrderSound'
<1> DEFINE q == P!Top(t).q
           m == Mine(t)
<1>1. /\ stack[t] # <<>> /\ P!Top(t).at = "test" /\ q \in P!Queue /\ m \in P!Msg
      /\ q_defer' = [q_defer EXCEPT ![q] = @ \o <<m>>]
      /\ UNCHANGED <<change, todo, sent, delivered, flushed>>
      /\ \A u \in P!Task \ {t} : stack'[u] = stack[u]
      /\ stack'[t] = <<>> \/ P!Top(t).at' = "unlock"
  BY DeferIs
<1>2. Passed(t)'
  BY <1>1, PassedAtRest
<1>3. Passed(t)
  BY DEF OrderSound
<1>4. HandSeq' = HandSeq
  BY <1>1, TaskIs DEF HandSeq
<1>5. /\ DOMAIN q_defer = P!Queue /\ q_defer["mod"] \in Seq(P!Msg) /\ q_defer["drv"] \in Seq(P!Msg)
      /\ delivered \in Seq(P!Msg) /\ InDrv \in Seq(P!Msg) /\ AboveDrv \in Seq(P!Msg)
      /\ Coming \in Seq(P!Msg) /\ HandSeq \in Seq(P!Msg) /\ <<m>> \in Seq(P!Msg)
           /\ <<>> \in Seq(P!Msg)
  BY <1>1, HandTypes DEF PutBase, PutTypes
<1> HIDE DEF q, m
<1>6. CASE q = "drv"
  <2>1. q_defer'["mod"] = q_defer["mod"] /\ q_defer'["drv"] = q_defer["drv"] \o <<m>>
    BY <1>1, <1>5, <1>6 DEF P!Queue
  <2>2. InDrv' = InDrv \o <<m>> /\ AboveDrv' = AboveDrv /\ Coming' = Coming
    <3>1. AboveDrv' = AboveDrv /\ Coming' = Coming
      BY <1>1, <1>4, <2>1 DEF AboveDrv, Coming, FromMod
    <3>2. HandSeq \o (q_defer["drv"] \o <<m>>) = (HandSeq \o q_defer["drv"]) \o <<m>>
      BY ZenonT(30), <1>1, <1>5, BetweenOne
    <3>3. InDrv' = InDrv \o <<m>>
      BY <1>1, <1>4, <2>1, <3>2 DEF InDrv, FromMod
    <3> QED
      BY <3>1, <3>3
  <2> DEFINE s == delivered \o InDrv
             r == AboveDrv \o q_defer["mod"]
             w == AboveDrv \o Coming
  <2>3. s \in Seq(P!Msg) /\ r \in Seq(P!Msg) /\ w \in Seq(P!Msg)
    BY <1>5, Between
  <2>4. delivered \o (InDrv \o <<m>>) = s \o <<m>>
    BY <1>5, Between
  <2>5. Way(q_defer["mod"]) = s \o r /\ Way(Coming) = s \o w
    BY DEF Way
  <2>6. Way(q_defer["mod"])' = (s \o <<m>>) \o r /\ Way(Coming)' = (s \o <<m>>) \o w
    BY <1>1, <2>1, <2>2, <2>4 DEF Way
  <2>7. NotOf(t, w)
    BY <1>1, <1>3, <1>6 DEF Passed, q
  <2>8. \A x : x \in Elems(AboveDrv \o Coming)' => x = m \/ x \in Elems(AboveDrv \o Coming)
    BY <2>2 DEF Elems
  <2>9. \A x : x \in Elems(InDrv)' => x = m \/ x \in Elems(InDrv)
    <3>1. Elems(InDrv)' = Elems(InDrv \o <<m>>)
      BY <2>2 DEF Elems
    <3> QED
      BY <1>1, <1>5, <3>1, OneMore
  <2> HIDE DEF s, r, w
  <2> QED
    BY <1>1, <1>2, <2>3, <2>5, <2>6, <2>7, <2>8, <2>9, OrderInserted DEF m
<1>7. CASE q = "mod"
  <2>1. q_defer'["drv"] = q_defer["drv"] /\ q_defer'["mod"] = q_defer["mod"] \o <<m>>
    BY <1>1, <1>5, <1>7 DEF P!Queue
  <2>2. InDrv' = InDrv /\ AboveDrv' = AboveDrv
    BY <1>1, <1>4, <2>1 DEF AboveDrv, FromMod, InDrv
  <2>3. (Coming' = Coming) \/ (Coming = q_defer["mod"] /\ Coming' = q_defer["mod"] \o <<m>>)
    BY <1>1, <2>1 DEF Coming
  <2> DEFINE s == Way(q_defer["mod"])
             v == Way(Coming)
             e == <<>>
  <2>4. s \in Seq(P!Msg) /\ v \in Seq(P!Msg) /\ s \o e = s /\ (s \o <<m>>) \o e = s \o <<m>>
        /\ v \o e = v /\ (v \o <<m>>) \o e = v \o <<m>> /\ e \in Seq(P!Msg)
    <3>1. s \in Seq(P!Msg) /\ v \in Seq(P!Msg)
      BY <1>5, WayTypes DEF PutBase
    <3> HIDE DEF s, v
    <3>2. s \o <<m>> \in Seq(P!Msg) /\ v \o <<m>> \in Seq(P!Msg)
      BY <1>1, <3>1, BetweenOne
    <3>3. s \o e = s /\ v \o e = v
      BY <3>1, ConcatEmptySeq
    <3>4. (s \o <<m>>) \o e = s \o <<m>> /\ (v \o <<m>>) \o e = v \o <<m>>
      BY <3>2, ConcatEmptySeq
    <3> QED
      BY <1>5, <3>1, <3>3, <3>4
  <2>5. ASSUME NEW x \in Seq(P!Msg)
        PROVE  (delivered \o InDrv) \o (AboveDrv \o (x \o <<m>>))
                 = ((delivered \o InDrv) \o (AboveDrv \o x)) \o <<m>>
    <3> DEFINE a == delivered \o InDrv
    <3>1. a \in Seq(P!Msg) /\ AboveDrv \o x \in Seq(P!Msg)
      BY <1>5, Between
    <3> HIDE DEF a
    <3>4. m \in P!Msg /\ AboveDrv \in Seq(P!Msg)
      BY <1>1, <1>5
    <3>2. AboveDrv \o (x \o <<m>>) = (AboveDrv \o x) \o <<m>>
      BY <3>4, BetweenOne
    <3>3. a \o ((AboveDrv \o x) \o <<m>>) = (a \o (AboveDrv \o x)) \o <<m>>
      BY <1>1, <3>1, BetweenOne
    <3> QED
      BY <3>2, <3>3 DEF a
  <2>6. Way(q_defer["mod"])' = s \o <<m>>
    BY <1>1, <1>5, <2>1, <2>2, <2>5 DEF Way
  <2>7. Way(Coming)' = Way(Coming) \/ Way(Coming)' = v \o <<m>>
    BY <1>1, <1>5, <2>2, <2>3, <2>5 DEF Way
  <2>8. NotOf(t, e)
    BY NotOfNone
  <2>9. \A x : x \in Elems(AboveDrv \o Coming)' => x = m \/ x \in Elems(AboveDrv \o Coming)
    <3>1. CASE Coming' = Coming
      BY <2>2, <3>1 DEF Elems
    <3>2. CASE Coming = q_defer["mod"] /\ Coming' = q_defer["mod"] \o <<m>>
      <4>1. (AboveDrv \o Coming)' = (AboveDrv \o Coming) \o <<m>>
        <5>1. AboveDrv \o (Coming \o <<m>>) = (AboveDrv \o Coming) \o <<m>>
          BY <1>5, Between
        <5> QED
          BY <2>2, <3>2, <5>1
      <4>2. Elems(AboveDrv \o Coming)' = Elems((AboveDrv \o Coming) \o <<m>>)
        BY <4>1 DEF Elems
      <4>3. AboveDrv \o Coming \in Seq(P!Msg)
        BY <1>5, Between
      <4> QED
        BY <1>1, <4>2, <4>3, OneMore
    <3> QED
      BY <2>3, <3>1, <3>2
  <2>10. \A x : x \in Elems(InDrv)' => x = m \/ x \in Elems(InDrv)
    BY <2>2 DEF Elems
  <2>11. s = Way(q_defer["mod"]) /\ v = Way(Coming)
    OBVIOUS
  <2> HIDE DEF s, v, e
  <2> QED
    BY <1>1, <1>2, <2>4, <2>6, <2>7, <2>8, <2>9, <2>10, <2>11, OrderInserted DEF m
<1> QED
  BY <1>1, <1>6, <1>7 DEF P!Queue

LEMMA PutterPutProcIs ==
    ASSUME PutBase, NEW t \in Proc, P!PutProc(t)
    PROVE  /\ stack[t] # <<>> /\ P!Top(t).at = "put" /\ P!Top(t).q \in P!Queue /\ Mine(t) \in P!Msg
           /\ UNCHANGED <<q_defer, q_count, todo, change, flushed, clogged, sent>>
           /\ \A u \in P!Task \ {t} : stack'[u] = stack[u]
           /\ HandNow(stack[t]) = <<Mine(t)>>
           /\ P!Top(t).q = "mod" =>
                /\ stack'[t] = <<Fr("test", "drv", Mine(t), FALSE), Lowest(Mine(t), FALSE)>>
                /\ delivered' = delivered /\ HandNow(stack'[t]) = <<Mine(t)>>
                /\ P!Top(t).q' = "drv" /\ P!Top(t).at' = "test"
           /\ P!Top(t).q = "drv" =>
                /\ delivered' = delivered \o <<Mine(t)>>
                /\ P!Top(t).at' = "unlock" /\ HandNow(stack'[t]) = <<>>
<1>1. /\ stack[t] # <<>> /\ P!Top(t).at = "put" /\ t \in P!Task
      /\ UNCHANGED <<q_defer, q_count, todo, change, flushed, clogged, sent>>
  BY TaskIs DEF P!PutProc, P!In, P!queues, P!changer
<1>2. PICK l \in {"put"}, q \in P!Queue, m \in P!Msg, d, e \in BOOLEAN :
             /\ Forms(t, l, q, m, d, e) /\ (t \in Proc => m = Mine(t) /\ d = FALSE /\ e = FALSE)
             /\ t = Changer => e = TRUE /\ d = TRUE /\ stack[t] = <<Fr(l, q, m, d)>>
             /\ DOMAIN stack' = P!Task /\ \A u \in P!Task \ {t} : stack'[u] = stack[u]
             /\ q = "mod" => /\ stack[t] = <<Fr("put", "mod", m, d)>>
                             /\ stack'[t] = <<Fr("test", "drv", m, FALSE), Lowest(m, d)>>
                             /\ UNCHANGED delivered
             /\ q = "drv" => P!Goto(t, "unlock") /\ delivered' = Append(delivered, m)
  BY <1>1, PutProcIs DEF PutBase
<1>3. m = Mine(t) /\ d = FALSE /\ Forms(t, l, q, m, d, d)
        /\ \A u \in P!Task \ {t} : stack'[u] = stack[u]
  BY <1>2
<1>4. P!Top(t).q = q
  BY <1>3, FormTop
<1>5. HandNow(stack[t]) = <<m>>
  BY <1>2, <1>3, HandOf
<1>6. CASE q = "mod"
  <2> DEFINE no == FALSE
             g == Lowest(m, FALSE)
  <2>1. stack'[t] = <<Fr("test", "drv", m, no), g>> /\ delivered' = delivered
    BY <1>2, <1>3, <1>6
  <2> HIDE DEF no, g
  <2>2. HandNow(stack'[t]) = <<m>>
    BY <2>1, HandThere
  <2>3. P!Top(t)' = Fr("test", "drv", m, no)
    BY <2>1, Ends DEF P!Top
  <2>4. P!Top(t).q' = "drv" /\ P!Top(t).at' = "test"
    BY <2>3 DEF Fr
  <2> QED
    BY <1>1, <1>2, <1>3, <1>4, <1>5, <1>6, <2>1, <2>2, <2>4 DEF no, g
<1>7. CASE q = "drv"
  <2>1. P!Goto(t, "unlock") /\ delivered' = Append(delivered, m)
    BY <1>2, <1>7
  <2>2. delivered' = delivered \o <<m>>
    <3>1. delivered \in Seq(P!Msg)
      BY DEF PutBase, PutTypes
    <3> QED
      BY <2>1, <3>1, AppendIsConcat
  <2> DEFINE v == "unlock"
  <2>3. P!Goto(t, v) /\ v = "unlock"
    BY <2>1
  <2> HIDE DEF v
  <2>4. Forms(t, v, q, m, d, d)'
    BY <1>1, <1>3, <2>3, GoesForm DEF PutBase
  <2>5. HandNow(stack'[t]) = <<>>
    BY <2>3, <2>4, HandOfNext
  <2>6. P!Top(t).at' = v
    <3>1. \/ stack'[t] = <<Fr(v, q, m, d)>>
          \/ stack'[t] = <<Fr(v, q, m, d), Lowest(m, d)>>
      BY <2>4 DEF Forms, Fr, Lowest
    <3>2. P!Top(t)' = Fr(v, q, m, d)
      BY <3>1, Ends DEF P!Top
    <3> QED
      BY <3>2 DEF Fr
  <2> QED
    BY <1>1, <1>2, <1>3, <1>4, <1>5, <1>7, <2>2, <2>3, <2>5, <2>6
<1> QED
  BY <1>6, <1>7 DEF P!Queue

LEMMA OrderOfPutProc ==
    ASSUME OrderSound, PutBase, PutBase', NEW t \in Proc, P!PutProc(t)
    PROVE  OrderSound'
<1> DEFINE q == P!Top(t).q
           m == Mine(t)
<1>1. /\ stack[t] # <<>> /\ P!Top(t).at = "put" /\ q \in P!Queue /\ m \in P!Msg
      /\ UNCHANGED <<q_defer, q_count, todo, change, flushed, clogged, sent>>
      /\ \A u \in P!Task \ {t} : stack'[u] = stack[u]
      /\ q = "mod" => delivered' = delivered /\ P!Top(t).q' = "drv" /\ P!Top(t).at' = "test"
      /\ q = "drv" => delivered' = delivered \o <<m>> /\ P!Top(t).at' = "unlock"
  BY PutterPutProcIs
<1>2. Passed(t)
  BY DEF OrderSound
<1> HIDE DEF q, m
<1>3. stack'[Changer] = stack[Changer]
  BY <1>1, TaskIs
<1>4. HandSeq' = HandSeq
  BY <1>3 DEF HandSeq
<1>5. /\ delivered \in Seq(P!Msg) /\ InDrv \in Seq(P!Msg) /\ AboveDrv \in Seq(P!Msg)
      /\ Coming \in Seq(P!Msg) /\ q_defer["mod"] \in Seq(P!Msg)
  BY <1>1, HandTypes DEF PutBase, PutTypes
<1>6. CASE q = "mod"
  <2>1. NotOf(t, AboveDrv \o Coming)
    BY <1>1, <1>2 DEF Passed
  <2>2. Passed(t)'
    BY <1>1, <1>3, <1>6, <2>1, PassedStill
  <2> QED
    BY <1>1, <1>6, <2>2, OrderOfStep
<1>7. CASE q = "drv"
  <2>1. NotOf(t, AboveDrv \o Coming) /\ NotOf(t, InDrv)
    BY <1>1, <1>2, <1>7 DEF Passed, q
  <2>2. Passed(t)'
    BY <1>1, <1>7, PassedAtRest
  <2>3. InDrv' = InDrv /\ AboveDrv' = AboveDrv /\ Coming' = Coming
    BY <1>1, <1>4 DEF InDrv, AboveDrv, Coming, FromMod
  <2> DEFINE r == InDrv \o (AboveDrv \o q_defer["mod"])
             w == InDrv \o (AboveDrv \o Coming)
  <2>4. ASSUME NEW x \in Seq(P!Msg)
        PROVE  /\ InDrv \o (AboveDrv \o x) \in Seq(P!Msg)
               /\ (delivered \o InDrv) \o (AboveDrv \o x) = delivered \o (InDrv \o (AboveDrv \o x))
               /\ ((delivered \o <<m>>) \o InDrv) \o (AboveDrv \o x)
                    = (delivered \o <<m>>) \o (InDrv \o (AboveDrv \o x))
    <3>1. AboveDrv \o x \in Seq(P!Msg)
      BY <1>5, Between
    <3>2. m \in P!Msg
      BY <1>1
    <3> DEFINE c == delivered \o <<m>>
               y == AboveDrv \o x
    <3>3. c \in Seq(P!Msg)
      BY <1>5, <3>2, BetweenOne
    <3> HIDE DEF c, y
    <3>4. y \in Seq(P!Msg)
      BY <3>1 DEF y
    <3>7. InDrv \in Seq(P!Msg) /\ delivered \in Seq(P!Msg)
      BY <1>5
    <3>8. InDrv \o y \in Seq(P!Msg)
      BY <3>4, <3>7, ConcatProperties
    <3>9. (delivered \o InDrv) \o y = delivered \o (InDrv \o y)
      BY ONLY <3>4, <3>7, ConcatAssociative
    <3>5. InDrv \o y \in Seq(P!Msg) /\ (delivered \o InDrv) \o y = delivered \o (InDrv \o y)
      BY <3>8, <3>9
    <3>6. (c \o InDrv) \o y = c \o (InDrv \o y)
      BY ONLY <3>3, <3>4, <3>7, ConcatAssociative
    <3> QED
      BY <3>5, <3>6 DEF c, y
  <2>5. r \in Seq(P!Msg) /\ w \in Seq(P!Msg)
    BY <1>5, <2>4
  <2>6. Way(q_defer["mod"]) = delivered \o r /\ Way(Coming) = delivered \o w
    BY <1>5, <2>4 DEF Way
  <2>7. Way(q_defer["mod"])' = (delivered \o <<m>>) \o r /\ Way(Coming)' = (delivered \o <<m>>) \o w
    BY <1>1, <1>5, <1>7, <2>3, <2>4 DEF Way
  <2>8. NotOf(t, w)
    <3>1. AboveDrv \o Coming \in Seq(P!Msg)
      BY <1>5, Between
    <3>2. Elems(w) = Elems(InDrv) \cup Elems(AboveDrv \o Coming)
      BY <1>5, <3>1, ElemsOf
    <3> QED
      BY <2>1, <3>2 DEF NotOf
  <2>9. Elems(AboveDrv \o Coming)' = Elems(AboveDrv \o Coming) /\ Elems(InDrv)' = Elems(InDrv)
    BY <2>3 DEF Elems
  <2> HIDE DEF r, w
  <2> QED
    BY <1>1, <1>5, <2>2, <2>5, <2>6, <2>7, <2>8, <2>9, OrderInserted DEF m
<1> QED
  BY <1>1, <1>6, <1>7 DEF P!Queue

LEMMA OrderKeptByPuts ==
    ASSUME OrderSound, PutBase, PutBase', Placed, NEW t \in Proc, Puts(t)
    PROVE  OrderSound'
BY OrderOfTurns, OrderOfDefer, OrderOfPutProc DEF Puts, P!PutSteps

LEMMA ModIs == ASSUME NEW a \in Int, NEW w \in Nat \ {0}
               PROVE \E k \in Int, r \in 0 .. w - 1 : a = w * k + r /\ r = a % w
<1> DEFINE k == a \div w
           r == a % w
           p == w * k
<1>1. r = a - p
  OBVIOUS
<1>2. k \in Int /\ r \in 0 .. w - 1
  OBVIOUS
<1>3. p \in Int
  BY <1>2
<1> HIDE DEF k, r, p
<1>4. a = p + r
  BY <1>1, <1>2, <1>3
<1>5. a = w * k + r
  BY <1>4 DEF p
<1> QED
  BY <1>2, <1>5 DEF r
LEMMA ModOf == ASSUME NEW a \in Int, NEW w \in Nat \ {0}, NEW k \in Int,
                      NEW r \in 0 .. w - 1, a = w * k + r
               PROVE  a % w = r
OBVIOUS
LEMMA ModStep == ASSUME NEW a \in Int, NEW w \in Nat \ {0}
                 PROVE  ((a % w) + 1) % w = (a + 1) % w /\ ((a % w) - 1) % w = (a - 1) % w
<1>1. PICK k \in Int, r \in 0 .. w - 1 : a = w * k + r /\ r = a % w
  BY ModIs
<1>2. a = w * k + r
  BY <1>1
<1>3. w * k \in Int /\ w * (k + 1) = w * k + w /\ w * (k - 1) = w * k - w
  OBVIOUS
<1>4. (r + 1) % w = (a + 1) % w
  <2>1. CASE r + 1 < w
    <3>1. r + 1 \in 0 .. w - 1 /\ a + 1 = w * k + (r + 1)
      BY <1>2, <1>3, <2>1
    <3>2. r + 1 = w * 0 + (r + 1)
      BY <1>2
    <3>3. (a + 1) % w = r + 1
      BY <1>2, <3>1, ModOf
    <3>4. (r + 1) % w = r + 1
      BY <1>2, <3>1, <3>2, ModOf
    <3> QED
      BY <3>3, <3>4
  <2>2. CASE r + 1 = w
    <3>1. a + 1 = w * (k + 1) + 0 /\ r + 1 = w * 1 + 0 /\ 0 \in 0 .. w - 1
      BY <1>2, <1>3, <2>2
    <3>2. (a + 1) % w = 0
      BY <1>2, <3>1, ModOf
    <3>3. (r + 1) % w = 0
      BY <1>2, <3>1, ModOf
    <3> QED
      BY <3>2, <3>3
  <2> QED
    BY <1>2, <2>1, <2>2
<1>5. (r - 1) % w = (a - 1) % w
  <2>1. CASE r > 0
    <3>1. r - 1 \in 0 .. w - 1 /\ a - 1 = w * k + (r - 1)
      BY <1>2, <1>3, <2>1
    <3>2. r - 1 = w * 0 + (r - 1)
      BY <1>2
    <3>3. (a - 1) % w = r - 1
      BY <1>2, <3>1, ModOf
    <3>4. (r - 1) % w = r - 1
      BY <1>2, <3>1, <3>2, ModOf
    <3> QED
      BY <3>3, <3>4
  <2>2. CASE r = 0
    <3>1. a - 1 = w * (k - 1) + (w - 1) /\ r - 1 = w * (-1) + (w - 1) /\ w - 1 \in 0 .. w - 1
      BY <1>2, <1>3, <2>2
    <3>2. (a - 1) % w = w - 1
      BY <1>2, <3>1, ModOf
    <3>3. (r - 1) % w = w - 1
      BY <1>2, <3>1, ModOf
    <3> QED
      BY <3>2, <3>3
  <2> QED
    BY <1>2, <2>1, <2>2
<1> QED
  BY <1>1, <1>4, <1>5

\* Where messages lie that nobody has in hand, and what a step does to the places.
Laid == Elems(q_defer["mod"]) \cup Elems(q_defer["drv"]) \cup Elems(delivered) \cup flushed
AllPlaced == \A m \in P!Msg : m[2] <= sent[m[1]] <=> Somewhere(m)
Counted == ~clogged => \A q \in P!Queue : q_count[q] = Len(q_defer[q]) % Width

LEMMA PlacedIs == Placed <=> AllPlaced /\ Counted
BY DEF Placed, AllPlaced, Counted

LEMMA LaidIs ==
    \A m : m \in P!Deferred("mod") \cup P!Deferred("drv") \cup P!Got \cup flushed
             <=> m \in Laid
BY DEF Laid, P!Deferred, P!Got, Elems

LEMMA LaidNext ==
    \A m : (m \in P!Deferred("mod") \cup P!Deferred("drv") \cup P!Got \cup flushed)'
             <=> m \in Laid'
BY DEF Laid, P!Deferred, P!Got, Elems

LEMMA SomewhereIs ==
    /\ \A m : Somewhere(m) <=> m \in Laid \/ \E t \in P!Task : HandNow(stack[t]) = <<m>>
    /\ \A m : Somewhere(m)' <=> m \in Laid' \/ \E t \in P!Task : HandNow(stack'[t]) = <<m>>
BY LaidIs, LaidNext DEF Somewhere, HasInHand

LEMMA PlacesSame ==
    ASSUME AllPlaced, UNCHANGED sent, Laid' = Laid,
           \A t \in P!Task : HandNow(stack'[t]) = HandNow(stack[t])
    PROVE  AllPlaced'
<1>1. \A m : Somewhere(m)' <=> Somewhere(m)
  BY SomewhereIs
<1> QED
  BY <1>1 DEF AllPlaced

LEMMA OneIsOne == \A x, y : <<x>> = <<y>> => x = y
<1> SUFFICES ASSUME NEW x, NEW y, <<x>> = <<y>> PROVE x = y
  OBVIOUS
<1>1. <<x>>[1] = x /\ <<y>>[1] = y
  OBVIOUS
<1> QED
  BY <1>1

LEMMA NoneIsNone == \A x : <<>> # <<x>>
OBVIOUS

LEMMA PlacesPut ==
    ASSUME AllPlaced, UNCHANGED sent, NEW t \in P!Task, NEW m \in P!Msg, Laid' = Laid \cup {m},
           HandNow(stack[t]) = <<m>>, HandNow(stack'[t]) = <<>>,
           \A u \in P!Task \ {t} : stack'[u] = stack[u]
    PROVE  AllPlaced'
<1>1. ASSUME NEW n \in P!Msg PROVE Somewhere(n)' <=> Somewhere(n)
  <2>1. \A u \in P!Task : u # t => HandNow(stack'[u]) = HandNow(stack[u])
    OBVIOUS
  <2>2. CASE n = m
    BY <2>2, SomewhereIs
  <2>3. CASE n # m
    <3>1. HandNow(stack[t]) # <<n>> /\ HandNow(stack'[t]) # <<n>>
      BY <2>3, OneIsOne, NoneIsNone
    <3> QED
      BY <2>1, <2>3, <3>1, SomewhereIs
  <2> QED
    BY <2>2, <2>3
<1> QED
  BY <1>1 DEF AllPlaced

LEMMA PlacesTake ==
    ASSUME AllPlaced, UNCHANGED sent, NEW t \in P!Task, NEW m \in P!Msg, Laid = Laid' \cup {m},
           HandNow(stack'[t]) = <<m>>, HandNow(stack[t]) = <<>>,
           \A u \in P!Task \ {t} : stack'[u] = stack[u]
    PROVE  AllPlaced'
<1>1. ASSUME NEW n \in P!Msg PROVE Somewhere(n)' <=> Somewhere(n)
  <2>1. \A u \in P!Task : u # t => HandNow(stack'[u]) = HandNow(stack[u])
    OBVIOUS
  <2>2. CASE n = m
    BY <2>2, SomewhereIs
  <2>3. CASE n # m
    <3>1. HandNow(stack[t]) # <<n>> /\ HandNow(stack'[t]) # <<n>>
      BY <2>3, OneIsOne, NoneIsNone
    <3> QED
      BY <2>1, <2>3, <3>1, SomewhereIs
  <2> QED
    BY <2>2, <2>3
<1> QED
  BY <1>1 DEF AllPlaced

LEMMA CountedSame ==
    ASSUME Counted, UNCHANGED <<clogged, q_defer, q_count>>
    PROVE  Counted'
BY DEF Counted

LEMMA CountedOne ==
    ASSUME Counted, PutBase, NEW q \in P!Queue, NEW d \in Seq(P!Msg), UNCHANGED clogged,
           q_defer' = [q_defer EXCEPT ![q] = d],
           \/ Len(d) = Len(q_defer[q]) + 1 /\ q_count' = [q_count EXCEPT ![q] = (@ + 1) % Width]
           \/ Len(d) = Len(q_defer[q]) - 1 /\ q_count' = [q_count EXCEPT ![q] = (@ - 1) % Width]
           \/ Len(d) = 0 /\ q_count' = [q_count EXCEPT ![q] = 0]
    PROVE  Counted'
<1>1. DOMAIN q_defer = P!Queue /\ DOMAIN q_count = P!Queue /\ q_defer[q] \in Seq(P!Msg)
  BY DEF PutBase, PutTypes
<1>2. Width \in Nat \ {0}
  BY Assumptions DEF P!PutSyncBounds
<1>3. ASSUME ~clogged PROVE q_count'[q] = Len(q_defer'[q]) % Width
  <2>1. q_count[q] = Len(q_defer[q]) % Width /\ Len(q_defer[q]) \in Int
    BY <1>1, <1>3, LenProperties DEF Counted
  <2>2. q_defer'[q] = d
    BY <1>1
  <2> DEFINE n == Len(q_defer[q])
             k == Len(d)
  <2>3. n \in Int /\ q_count[q] = n % Width
    BY <2>1
  <2> HIDE DEF n
  <2>4. CASE k = n + 1 /\ q_count' = [q_count EXCEPT ![q] = (@ + 1) % Width]
    <3>1. q_count'[q] = ((n % Width) + 1) % Width
      BY <1>1, <2>3, <2>4
    <3> QED
      BY <1>2, <2>2, <2>3, <2>4, <3>1, ModStep
  <2>5. CASE k = n - 1 /\ q_count' = [q_count EXCEPT ![q] = (@ - 1) % Width]
    <3>1. q_count'[q] = ((n % Width) - 1) % Width
      BY <1>1, <2>3, <2>5
    <3> QED
      BY <1>2, <2>2, <2>3, <2>5, <3>1, ModStep
  <2>6. CASE k = 0 /\ q_count' = [q_count EXCEPT ![q] = 0]
    <3>1. 0 = Width * 0 + 0 /\ 0 \in 0 .. Width - 1
      BY <1>2
    <3>2. 0 % Width = 0
      BY <1>2, <3>1, ModOf
    <3> QED
      BY <1>1, <2>2, <2>6, <3>2
  <2> QED
    BY <2>4, <2>5, <2>6 DEF n
<1>4. ASSUME ~clogged, NEW y \in P!Queue, y # q PROVE q_count'[y] = Len(q_defer'[y]) % Width
  <2>1. q_count'[y] = q_count[y] /\ q_defer'[y] = q_defer[y]
    BY <1>1, <1>4
  <2> QED
    BY <1>4, <2>1 DEF Counted
<1> QED
  BY <1>3, <1>4 DEF Counted

LEMMA LaidMoves ==
    ASSUME PutBase, NEW q \in P!Queue, NEW d \in Seq(P!Msg), NEW m \in P!Msg,
             UNCHANGED <<delivered, flushed>>,
           q_defer' = [q_defer EXCEPT ![q] = d]
    PROVE  /\ Elems(d) = Elems(q_defer[q]) \cup {m} => Laid' = Laid \cup {m}
           /\ Elems(q_defer[q]) = Elems(d) \cup {m} => Laid = Laid' \cup {m}
<1>1. DOMAIN q_defer = P!Queue
  BY DEF PutBase, PutTypes
<1>2. Laid' = Elems(q_defer'["mod"]) \cup Elems(q_defer'["drv"]) \cup Elems(delivered) \cup flushed
  BY DEF Laid, Elems
<1>3. CASE q = "mod"
  <2>1. q_defer'["mod"] = d /\ q_defer'["drv"] = q_defer["drv"]
    BY <1>1, <1>3 DEF P!Queue
  <2> QED
    BY <1>2, <1>3, <2>1 DEF Laid
<1>4. CASE q = "drv"
  <2>1. q_defer'["drv"] = d /\ q_defer'["mod"] = q_defer["mod"]
    BY <1>1, <1>4 DEF P!Queue
  <2> QED
    BY <1>2, <1>4, <2>1 DEF Laid
<1> QED
  BY <1>3, <1>4 DEF P!Queue

LEMMA LaidStays == ASSUME UNCHANGED <<q_defer, delivered, flushed>> PROVE Laid' = Laid
BY DEF Laid, Elems

LEMMA PlacedRests ==
    ASSUME Placed, UNCHANGED <<sent, q_defer, q_count, delivered, flushed, clogged>>,
           \A u \in P!Task : HandNow(stack'[u]) = HandNow(stack[u])
    PROVE  Placed'
<1>1. AllPlaced /\ Counted
  BY PlacedIs
<1>2. AllPlaced'
  BY <1>1, LaidStays, PlacesSame
<1>3. Counted'
  BY <1>1, CountedSame
<1> QED
  BY <1>2, <1>3 DEF Placed, AllPlaced, Counted

LEMMA PlacedTurns ==
    ASSUME PutBase, Placed, NEW t \in P!Task, P!PassOn(t) \/ P!Pass(t) \/ P!Lock(t) \/ P!Unlock(t)
    PROVE  Placed'
<1>1. UNCHANGED <<sent, q_defer, q_count, delivered, flushed, clogged>>
  BY DEF P!PassOn, P!Pass, P!Lock, P!Unlock, P!queues, P!ghost
<1>2. CASE P!PassOn(t)
  <2> DEFINE no == FALSE
             m == Mine(t)
  <2>1. /\ stack[t] = <<Fr("test", "mod", m, no)>> /\ stack'[t] = <<Fr("test", "drv", m, no)>>
        /\ \A u \in P!Task \ {t} : stack'[u] = stack[u]
    BY <1>2, PassOnIs DEF PutBase
  <2> HIDE DEF no, m
  <2>2. HandNow(stack'[t]) = HandNow(stack[t])
    BY <2>1, HandThere
  <2> QED
    BY <1>1, <2>1, <2>2, PlacedRests
<1>3. CASE P!Pass(t) \/ P!Lock(t)
  <2>1. stack[t] # <<>> /\ P!Top(t).at # "unlock" /\ (P!Goto(t, "lock") \/ P!Goto(t, "put"))
    BY <1>3 DEF P!Pass, P!Lock, P!In
  <2>2. PICK l \in {"lock", "put"} : P!Goto(t, l)
    BY <2>1
  <2>3. HandNow(stack'[t]) = HandNow(stack[t])
    BY <2>1, <2>2, HandGoes DEF PutBase
  <2>4. \A u \in P!Task \ {t} : stack'[u] = stack[u]
    BY <2>2, Goes DEF PutBase
  <2> QED
    BY <1>1, <2>3, <2>4, PlacedRests
<1>4. CASE P!Unlock(t)
  <2>1. stack[t] # <<>> /\ P!Top(t).at = "unlock" /\ P!Returns(t, TRUE)
    BY <1>4 DEF P!Unlock, P!In
  <2>2. PICK l \in PutLabels, q \in P!Queue, m \in P!Msg, d, e \in BOOLEAN :
          /\ Forms(t, l, q, m, d, e)
          /\ t \in Proc => m = Mine(t) /\ d = FALSE /\ e = FALSE
          /\ t = Changer => e = TRUE /\ (d = TRUE => stack[t] = <<Fr(l, q, m, d)>>)
    BY <2>1, SomeForm DEF PutBase, ControlSound
  <2>3. HandNow(stack[t]) = <<>>
    <3>1. Forms(t, l, q, m, d, e)
      BY <2>2
    <3>2. l = "unlock"
      BY <2>1, <3>1, FormTop
    <3> QED
      BY <3>1, <3>2, HandOf
  <2>4. /\ stack'[t] = <<>> \/ stack'[t] = <<Lowest(m, e)>>
        /\ \A u \in P!Task \ {t} : stack'[u] = stack[u]
    BY <2>1, <2>2, Comes DEF PutBase, Forms
  <2>5. HandNow(stack'[t]) = <<>>
    <3>1. CASE stack'[t] = <<>>
      BY <3>1, HandForms
    <3>2. CASE stack'[t] = <<Fr("unlock", "mod", m, e)>>
      BY <3>2, HandThere
    <3> QED
      BY <2>4, <3>1, <3>2 DEF Lowest
  <2> QED
    BY <1>1, <2>3, <2>4, <2>5, PlacedRests
<1> QED
  BY <1>2, <1>3, <1>4

LEMMA PlacedPut ==
    ASSUME PutBase, Placed, NEW t \in Proc, P!Put(t)
    PROVE  Placed'
<1>1. /\ stack[t] = <<>> /\ sent'[t] = sent[t] + 1 /\ sent'[t] \in 1 .. PerPutter
      /\ \A u \in Proc \ {t} : sent'[u] = sent[u]
      /\ \A u \in P!Task \ {t} : stack'[u] = stack[u]
      /\ stack'[t] = <<Fr("test", q_next["head"], Mine(t)', FALSE)>>
  BY PutIs DEF PutBase
<1>2. UNCHANGED <<q_defer, q_count, delivered, flushed, clogged>>
  BY DEF P!Put, P!queues, P!ghost
<1>3. t \in P!Task /\ sent[t] \in Nat /\ Laid' = Laid /\ AllPlaced /\ Counted
  BY <1>2, TaskIs, LaidStays, PlacedIs DEF PutBase, PutTypes
<1> DEFINE m == <<t, sent'[t]>>
           no == FALSE
<1>4. m \in P!Msg /\ m[1] = t /\ m[2] = sent[t] + 1
  BY <1>1 DEF P!Msg
<1>5. stack'[t] = <<Fr("test", q_next["head"], m, no)>>
  BY <1>1 DEF Mine
<1> HIDE DEF m, no
<1>6. HandNow(stack'[t]) = <<m>> /\ HandNow(stack[t]) = <<>>
  <2>1. HandNow(stack'[t]) = <<m>>
    BY <1>5, HandThere
  <2>2. HandNow(stack[t]) = <<>>
    BY <1>1, HandForms
  <2> QED
    BY <2>1, <2>2
<1>7. ASSUME NEW n \in P!Msg PROVE n[2] <= sent'[n[1]] <=> Somewhere(n)'
  <2>1. \A u \in P!Task : u # t => HandNow(stack'[u]) = HandNow(stack[u])
    BY <1>1
  <2>2. n[1] \in Proc /\ n[2] \in Nat /\ n = <<n[1], n[2]>>
    BY DEF P!Msg
  <2>3. n[2] <= sent[n[1]] <=> Somewhere(n)
    BY <1>3 DEF AllPlaced
  <2>4. CASE n = m
    <3>1. Somewhere(n)'
      BY <1>3, <1>6, <2>4, SomewhereIs
    <3>2. n[2] <= sent'[n[1]]
      BY <1>1, <1>3, <1>4, <2>4
    <3> QED
      BY <3>1, <3>2
  <2>5. CASE n # m
    <3>1. HandNow(stack[t]) # <<n>> /\ HandNow(stack'[t]) # <<n>>
      BY <1>6, <2>5, OneIsOne, NoneIsNone
    <3>2. Somewhere(n)' <=> Somewhere(n)
      BY <1>3, <2>1, <3>1, SomewhereIs
    <3>3. CASE n[1] = t
      <4>1. n[2] # sent[t] + 1
        BY <1>1, <2>2, <2>5, <3>3 DEF m
      <4> QED
        BY <1>1, <1>3, <2>2, <2>3, <3>2, <3>3, <4>1
    <3>4. CASE n[1] # t
      BY <1>1, <2>2, <2>3, <3>2, <3>4
    <3> QED
      BY <3>3, <3>4
  <2> QED
    BY <2>4, <2>5
<1>8. Counted'
  BY <1>2, <1>3, CountedSame
<1>9. AllPlaced'
  BY <1>7 DEF AllPlaced
<1> QED
  BY <1>8, <1>9 DEF Placed, AllPlaced, Counted

LEMMA PlacedPutProc ==
    ASSUME PutBase, Placed, NEW t \in P!Task, P!PutProc(t)
    PROVE  Placed'
<1>1. PICK l \in {"put"}, q \in P!Queue, m \in P!Msg, d, e \in BOOLEAN :
             /\ Forms(t, l, q, m, d, e) /\ (t \in Proc => m = Mine(t) /\ d = FALSE /\ e = FALSE)
             /\ t = Changer => e = TRUE /\ d = TRUE /\ stack[t] = <<Fr(l, q, m, d)>>
             /\ DOMAIN stack' = P!Task /\ \A u \in P!Task \ {t} : stack'[u] = stack[u]
             /\ q = "mod" => /\ stack[t] = <<Fr("put", "mod", m, d)>>
                             /\ stack'[t] = <<Fr("test", "drv", m, FALSE), Lowest(m, d)>>
                             /\ UNCHANGED delivered
             /\ q = "drv" => P!Goto(t, "unlock") /\ delivered' = Append(delivered, m)
  BY PutProcIs DEF PutBase
<1>2. UNCHANGED <<sent, q_defer, q_count, flushed, clogged>>
  BY DEF P!PutProc, P!queues
<1>3. HandNow(stack[t]) = <<m>> /\ \A u \in P!Task \ {t} : stack'[u] = stack[u]
  BY <1>1, HandOf
<1>4. CASE q = "mod"
  <2> DEFINE no == FALSE
             g == Lowest(m, d)
  <2>1. stack'[t] = <<Fr("test", "drv", m, no), g>> /\ delivered' = delivered
    BY <1>1, <1>4
  <2> HIDE DEF no, g
  <2>2. HandNow(stack'[t]) = <<m>>
    BY <2>1, HandThere
  <2> QED
    BY <1>2, <1>3, <2>1, <2>2, PlacedRests
<1>5. CASE q = "drv"
  <2> DEFINE v == "unlock"
  <2>1. P!Goto(t, v) /\ v = "unlock" /\ delivered' = Append(delivered, m)
    BY <1>1, <1>5
  <2> HIDE DEF v
  <2>2. Forms(t, v, q, m, d, e)'
    BY <1>1, <2>1, GoesForm DEF PutBase
  <2>3. HandNow(stack'[t]) = <<>>
    BY <2>1, <2>2, HandOfNext
  <2>4. delivered' = delivered \o <<m>> /\ Elems(delivered \o <<m>>) = Elems(delivered) \cup {m}
    <3>1. delivered \in Seq(P!Msg)
      BY DEF PutBase, PutTypes
    <3> QED
      BY <2>1, <3>1, AppendIsConcat, BetweenOne
  <2>5. Laid' = Laid \cup {m}
    BY <1>2, <2>4 DEF Laid, Elems
  <2>6. AllPlaced'
    BY <1>2, <1>3, <2>3, <2>5, PlacedIs, PlacesPut
  <2>7. Counted'
    BY <1>2, PlacedIs, CountedSame
  <2> QED
    BY <2>6, <2>7 DEF Placed, AllPlaced, Counted
<1> QED
  BY <1>4, <1>5 DEF P!Queue

LEMMA PlacedDefer ==
    ASSUME PutBase, Placed, NEW t \in P!Task, P!Defer(t)
    PROVE  Placed'
<1>1. /\ stack[t] # <<>> /\ P!Top(t).at = "test" /\ P!Returns(t, FALSE) /\ P!MustWait(P!Top(t))
      /\ P!DeferMsg(P!Top(t).q, P!Top(t).m, P!Top(t).deferring)
      /\ clogged' = (clogged \/ (P!Top(t).deferring /\ q_defer[P!Top(t).q] # <<>>))
      /\ UNCHANGED <<sent, delivered, flushed>>
  BY DEF P!Defer, P!In
<1>2. PICK l \in PutLabels, q \in P!Queue, m \in P!Msg, d, e \in BOOLEAN :
        /\ Forms(t, l, q, m, d, e)
        /\ t \in Proc => m = Mine(t) /\ d = FALSE /\ e = FALSE
        /\ t = Changer => e = TRUE /\ (d = TRUE => stack[t] = <<Fr(l, q, m, d)>>)
  BY <1>1, SomeForm DEF PutBase, ControlSound
<1>3. Forms(t, l, q, m, d, e)
  BY <1>2
<1>4. P!Top(t).at = l /\ P!Top(t).q = q /\ P!Top(t).m = m /\ P!Top(t).deferring = d
  BY <1>3, FormTop
<1>5. HandNow(stack[t]) = <<m>>
  BY <1>1, <1>3, <1>4, HandOf
<1>6. /\ stack'[t] = <<>> \/ stack'[t] = <<Lowest(m, e)>>
      /\ \A u \in P!Task \ {t} : stack'[u] = stack[u]
  BY <1>1, <1>3, Comes DEF PutBase, Forms
<1>7. HandNow(stack'[t]) = <<>>
  <2>1. CASE stack'[t] = <<>>
    BY <2>1, HandForms
  <2>2. CASE stack'[t] = <<Fr("unlock", "mod", m, e)>>
    BY <2>2, HandThere
  <2> QED
    BY <1>6, <2>1, <2>2 DEF Lowest
<1>8. AllPlaced /\ Counted
  BY PlacedIs
<1>9. q_defer[q] \in Seq(P!Msg) /\ clogged \in BOOLEAN
  BY DEF PutBase, PutTypes
<1>10. CASE d = FALSE
  <2> DEFINE n == q_defer[q] \o <<m>>
  <2>1. /\ q_defer' = [q_defer EXCEPT ![q] = Append(@, m)]
        /\ q_count' = [q_count EXCEPT ![q] = (@ + 1) % Width]
    BY <1>1, <1>4, <1>10 DEF P!DeferMsg
  <2>2. /\ Append(q_defer[q], m) = n /\ n \in Seq(P!Msg) /\ Elems(n) = Elems(q_defer[q]) \cup {m}
    BY <1>9, AppendIsConcat, BetweenOne
  <2>3. Len(n) = Len(q_defer[q]) + 1
    BY <1>9, <2>2, AppendProperties
  <2> HIDE DEF n
  <2>4. q_defer' = [q_defer EXCEPT ![q] = n]
    BY <2>1, <2>2
  <2>5. clogged' = clogged
    BY <1>1, <1>4, <1>9, <1>10
  <2>6. Laid' = Laid \cup {m}
    BY <1>1, <2>2, <2>4, LaidMoves
  <2>7. AllPlaced'
    BY <1>1, <1>5, <1>6, <1>7, <1>8, <2>6, PlacesPut
  <2>8. Counted'
    BY <1>8, <2>1, <2>2, <2>3, <2>4, <2>5, CountedOne
  <2> QED
    BY <2>7, <2>8 DEF Placed, AllPlaced, Counted
<1>11. CASE d = TRUE
  <2> DEFINE n == <<m>> \o q_defer[q]
             c == <<m>>
  <2>1. q_defer' = [q_defer EXCEPT ![q] = n]
    BY <1>1, <1>4, <1>11 DEF P!DeferMsg
  <2>2. c \in Seq(P!Msg) /\ Elems(c) = {m}
    BY ElemsOf
  <2>3. n = c \o q_defer[q]
    OBVIOUS
  <2> HIDE DEF n, c
  <2>4. n \in Seq(P!Msg) /\ Elems(n) = Elems(q_defer[q]) \cup {m}
    <3>1. Elems(n) = Elems(c) \cup Elems(q_defer[q])
      BY <1>9, <2>2, <2>3, ElemsOf
    <3>2. n \in Seq(P!Msg)
      BY <1>9, <2>2, <2>3, ConcatProperties
    <3> QED
      BY <2>2, <3>1, <3>2
  <2>5. Laid' = Laid \cup {m}
    BY <1>1, <2>1, <2>4, LaidMoves
  <2>6. AllPlaced'
    BY <1>1, <1>5, <1>6, <1>7, <1>8, <2>5, PlacesPut
  <2>7. t = Changer
    BY <1>2, <1>11 DEF P!Task
  <2>8. cpc = "deferring" /\ q = Head(todo)
    <3>1. cpc = "deferring"
      BY <1>1, <2>7, ChangerForms DEF PutBase
    <3>2. PICK x \in P!Msg :
            \/ \E i \in PutLabels : stack[Changer] = <<Fr(i, Head(todo), x, TRUE)>>
            \/ Head(todo) = "mod"
               /\ stack[Changer] = <<Fr("test", "drv", x, FALSE), Lowest(x, TRUE)>>
      BY <1>1, <2>7, ChangerForms DEF PutBase
    <3>3. ~(stack[Changer] = <<Fr("test", "drv", x, FALSE), Lowest(x, TRUE)>>)
      <4>1. P!Top(Changer).deferring = TRUE
        BY <1>4, <1>11, <2>7
      <4> QED
        BY <4>1, AboveIs DEF AboveFrozen
    <3>4. PICK i \in PutLabels : stack[Changer] = <<Fr(i, Head(todo), x, TRUE)>>
      BY <3>2, <3>3
    <3>5. P!Top(Changer) = Fr(i, Head(todo), x, TRUE)
      BY <3>4, Ends DEF P!Top
    <3>6. P!Top(Changer).q = Head(todo)
      BY <3>5 DEF Fr
    <3> QED
      BY <1>4, <2>7, <3>1, <3>6
  <2>9. q_flag[q] \cap {"QFROZEN", "QOPENING"} = {}
    BY <2>8 DEF PutBase, ControlSound, FlagsSet
  <2>10. q_defer[q] # <<>>
    BY <1>1, <1>4, <1>11, <2>9 DEF P!MustWait, P!Obstacles
  <2>11. clogged'
    BY <1>1, <1>4, <1>11, <2>10
  <2>12. Counted'
    BY <2>11 DEF Counted
  <2> QED
    BY <2>6, <2>12 DEF Placed, AllPlaced, Counted
<1> QED
  BY <1>10, <1>11

LEMMA PlacedTake ==
    ASSUME PutBase, Placed, P!TakeDeferred
    PROVE  Placed'
<1>1. PICK q \in P!Queue : q = Head(todo)
  BY TakeDeferredIs DEF PutBase
<1> DEFINE m == Head(q_defer[q])
           n == Tail(q_defer[q])
           yes == TRUE
<1>2. /\ stack[Changer] = <<>> /\ q_defer[q] # <<>> /\ m \in P!Msg
      /\ q_defer' = [q_defer EXCEPT ![q] = n]
      /\ \A u \in P!Task \ {Changer} : stack'[u] = stack[u]
      /\ stack'[Changer] = <<Fr("test", q, m, yes)>>
  BY <1>1, TakeDeferredIs DEF PutBase
<1>3. /\ q_count' = [q_count EXCEPT ![q] = (@ - 1) % Width]
      /\ UNCHANGED <<sent, delivered, flushed, clogged>>
  BY <1>1 DEF P!TakeDeferred, P!ghost
<1>4. q_defer[q] \in Seq(P!Msg)
  BY DEF PutBase, PutTypes
<1>5. /\ n \in Seq(P!Msg) /\ Elems(q_defer[q]) = Elems(n) \cup {m}
      /\ Len(n) = Len(q_defer[q]) - 1
  BY <1>2, <1>4, HeadTailProperties, ElemsOf
<1> HIDE DEF m, n, yes
<1>6. HandNow(stack'[Changer]) = <<m>>
  BY <1>2, HandThere
<1>7. HandNow(stack[Changer]) = <<>>
  BY <1>2, HandForms
<1>8. Laid = Laid' \cup {m}
  BY <1>2, <1>3, <1>5, LaidMoves
<1>9. AllPlaced'
  BY <1>2, <1>3, <1>6, <1>7, <1>8, TaskIs, PlacedIs, PlacesTake
<1>10. Counted'
  BY <1>2, <1>3, <1>5, PlacedIs, CountedOne
<1> QED
  BY <1>9, <1>10 DEF Placed, AllPlaced, Counted

LEMMA PlacedFree ==
    ASSUME PutBase, Placed, P!Free
    PROVE  Placed'
<1>1. /\ UNCHANGED <<sent, delivered, stack, clogged>>
      /\ flushed' = flushed \cup Elems(q_defer["mod"])
      /\ q_defer' = [q_defer EXCEPT !["mod"] = <<>>] /\ q_count' = [q_count EXCEPT !["mod"] = 0]
  BY DEF P!Free, Elems
<1>2. DOMAIN q_defer = P!Queue
  BY DEF PutBase, PutTypes
<1>3. q_defer'["mod"] = <<>> /\ q_defer'["drv"] = q_defer["drv"] /\ Elems(<<>>) = {}
  BY <1>1, <1>2, ElemsOf DEF P!Queue
<1>4. Laid' = Elems(q_defer'["mod"]) \cup Elems(q_defer'["drv"]) \cup Elems(delivered) \cup flushed'
  BY <1>1 DEF Laid, Elems
<1>5. Laid' = Laid
  BY <1>1, <1>3, <1>4 DEF Laid
<1>6. AllPlaced'
  BY <1>1, <1>5, PlacedIs, PlacesSame
<1> DEFINE q == "mod"
           d == <<>>
<1>7. q \in P!Queue /\ d \in Seq(P!Msg) /\ Len(d) = 0 /\ q_defer' = [q_defer EXCEPT ![q] = d]
      /\ q_count' = [q_count EXCEPT ![q] = 0]
  BY <1>1, EmptySeq DEF P!Queue
<1> HIDE DEF q, d
<1>8. Counted'
  BY <1>1, <1>7, PlacedIs, CountedOne
<1> QED
  BY <1>6, <1>8 DEF Placed, AllPlaced, Counted

LEMMA PlacedKept ==
    ASSUME PutBase, Placed, P!Begin \/ P!ChangeSteps \/ (\E t \in P!Task : Puts(t))
    PROVE  Placed'
<1>1. CASE P!Begin \/ P!Freeze \/ P!Attach \/ P!LockOff \/ P!ProcsOff \/ P!LockClosed \/ P!Unlink
             \/ P!Thaw
           \/ P!NothingDeferred \/ P!StartDeferred \/ P!EndDeferred
  <2>1. UNCHANGED <<sent, q_defer, q_count, delivered, flushed, clogged, stack>>
    BY <1>1 DEF P!Begin, P!Freeze, P!Attach, P!LockOff, P!ProcsOff, P!LockClosed, P!Unlink, P!Thaw,
                P!NothingDeferred, P!StartDeferred, P!EndDeferred, P!queues, P!ghost
  <2> QED
    BY <2>1, PlacedRests
<1>2. CASE P!Free \/ P!TakeDeferred
  BY <1>2, PlacedFree, PlacedTake
<1>3. ASSUME NEW t \in P!Task, Puts(t) PROVE Placed'
  BY <1>3, PlacedDefer, PlacedPut, PlacedPutProc, PlacedTurns DEF Puts, P!PutSteps
<1> QED
  BY <1>1, <1>2, <1>3 DEF P!ChangeSteps

LEMMA PInvStill == ASSUME PInv, UNCHANGED P!vars PROVE PInv'
<1> USE DEF P!vars, P!queues, P!sync, P!changer, P!ghost
<1>1. PutTypes'
  BY DEF PInv, PutTypes
<1>2. CallsSound'
  BY DEF PInv, CallsSound, PutterCalls, ChangerCalls, Forms, Mine
<1>3. ControlSound'
  BY DEF PInv, ControlSound, ChangerAt, Links, FlagsSet, Unknown
<1>7. OpenSound'
  BY DEF PInv, OpenSound
<1>4. LockCounts'
  <2>1. \A t \in P!Task, s \in P!Sync : Nests(t, s)' = Nests(t, s)
    BY DEF Nests, LockedBy, Alone, P!SyncOf
  <2> QED
    BY <2>1, LocksRest DEF PInv
<1>5. OrderSound'
  <2>1. HandSeq' = HandSeq
    BY DEF HandSeq
  <2> QED
    BY <2>1, OrderSame DEF PInv, PutBase
<1>6. Placed'
  BY PlacedRests DEF PInv
<1> QED
  BY <1>1, <1>2, <1>3, <1>4, <1>5, <1>6, <1>7 DEF PInv

LEMMA PInvNext == ASSUME PInv, P!Next PROVE PInv'
<1>1. P!Begin \/ P!ChangeSteps \/ \E t \in P!Task : Puts(t)
  BY TaskIs DEF P!Next, Puts
<1>2. /\ PutTypes /\ CallsSound /\ ControlSound /\ OpenSound /\ LockCounts
      /\ OrderSound /\ Placed
  BY DEF PInv
<1>3. PutTypes'
  BY <1>1, <1>2, TypesKeptByPuts, TypesKeptByChange
<1>4. CallsSound'
  BY <1>1, <1>2, CallsKeptByPuts, CallsKeptByChange
<1>5. ControlSound'
  BY <1>1, <1>2, ControlKeptByPuts, ControlKeptByChange
<1>6. LockCounts'
  BY <1>1, <1>2, LocksKeptByPuts, LocksKeptByChange
<1>10. OpenSound'
  BY <1>1, <1>2, OpenKeptByPuts, OpenKeptByChange
<1>7. PutBase /\ PutBase'
  BY <1>2, <1>3, <1>4, <1>5 DEF PutBase
<1>8. OrderSound'
  <2>1. CASE P!Begin \/ P!ChangeSteps
    BY <1>2, <1>7, <2>1, OrderKeptByChange
  <2>2. ASSUME NEW t \in P!Task, Puts(t) PROVE OrderSound'
    <3>1. CASE t \in Proc
      BY <1>2, <1>7, <2>2, <3>1, OrderKeptByPuts
    <3>2. CASE t = Changer
      <4>1. P!PutSteps(Changer)
        BY <2>2, <3>2, TaskIs DEF Puts
      <4> QED
        BY <1>2, <1>7, <4>1, OrderKeptByChange
    <3> QED
      BY <3>1, <3>2 DEF P!Task
  <2> QED
    BY <1>1, <2>1, <2>2
<1>9. Placed'
  BY <1>1, <1>2, <1>7, PlacedKept
<1> QED
  BY <1>3, <1>4, <1>5, <1>6, <1>8, <1>9, <1>10 DEF PInv

LEMMA PInvInit == P!Init => PInv
<1> SUFFICES ASSUME P!Init PROVE PInv
  OBVIOUS
<1>1. /\ change \in {"push", "pop"} /\ option \in {"none", "queue", "global"}
      /\ q_next = [q \in P!Queue \cup {"head"} |->
                     CASE q = "head" -> IF change = "pop" THEN "mod" ELSE "drv"
                       [] q = "mod" -> "drv"
                       [] q = "drv" -> "none"]
      /\ q_flag = [q \in P!Queue |-> {}]
      /\ q_defer = [q \in P!Queue |-> <<>>] /\ q_count = [q \in P!Queue |-> 0]
      /\ qs_sem = [s \in P!Sync |-> 1] /\ qs_nest = [s \in P!Sync |-> 0]
      /\ qs_taskp = [s \in P!Sync |-> NoTask]
      /\ stack = [t \in P!Task |-> <<>>] /\ consumed = [t \in P!Task |-> TRUE]
      /\ cpc = "start" /\ todo = <<>>
      /\ sent = [t \in Proc |-> 0]
      /\ delivered = <<>> /\ flushed = {}
      /\ clogged = FALSE /\ late = FALSE
  BY Assumptions DEF P!Init, P!PutSyncBounds
<1>2. PerPutter \in Nat /\ Width \in Nat \ {0}
  BY Assumptions DEF P!PutSyncBounds
<1>3. PutTypes
  <2>1. <<>> \in Seq(P!Msg)
    BY EmptySeq
  <2>2. q_flag \in [P!Queue -> SUBSET PutFlags] /\ q_defer \in [P!Queue -> Seq(P!Msg)]
          /\ q_count \in [P!Queue -> Int]
    BY <1>1, <2>1
  <2>3. sent \in [Proc -> 0 .. PerPutter]
    BY <1>1, <1>2
  <2>4. qs_sem \in [P!Sync -> Int] /\ qs_nest \in [P!Sync -> Int]
        /\ qs_taskp \in [P!Sync -> P!Task \cup {NoTask}]
    BY <1>1
  <2>5. consumed \in [P!Task -> BOOLEAN]
    BY <1>1
  <2>6. /\ delivered \in Seq(P!Msg) /\ flushed \subseteq P!Msg
        /\ clogged \in BOOLEAN /\ late \in BOOLEAN
    BY <1>1, <2>1
  <2> QED
    BY <1>1, <2>2, <2>3, <2>4, <2>5, <2>6 DEF PutTypes
<1>4. \A t \in P!Task : stack[t] = <<>>
  BY <1>1
<1>5. CallsSound
  BY <1>1, <1>4, TaskIs DEF CallsSound, PutterCalls, ChangerCalls
<1>6. ControlSound
  <2>1. ChangerAt
    BY <1>1 DEF ChangerAt, Unpushed, Unpopped, Settled
  <2>2. Links
    BY <1>1 DEF Links, P!Queue, Unpopped, Settled
  <2>3. FlagsSet
    BY <1>1 DEF FlagsSet, P!Queue, Settled
  <2>4. Unknown
    BY <1>1, <1>4, TaskIs DEF Unknown, P!Queue
  <2> QED
    BY <2>1, <2>2, <2>3, <2>4 DEF ControlSound
<1>13. OpenSound
  BY <1>1 DEF OpenSound, P!Queue
<1>7. LockCounts
  <2>1. \A t \in P!Task, s \in P!Sync : Nests(t, s) = 0
    BY <1>1, <1>4, LockedForms DEF Nests, Alone, One
  <2>2. \A s \in P!Sync : qs_sem[s] = 1 /\ qs_nest[s] = 0 /\ qs_taskp[s] = NoTask
    BY <1>1
  <2> QED
    BY <2>1, <2>2, TaskIs DEF LockCounts
<1>8. HandSeq = <<>>
  BY <1>4, TaskIs, HandAtRest
<1>9. InDrv = <<>> /\ AboveDrv = <<>> /\ Coming = <<>> /\ q_defer["mod"] = <<>>
        /\ q_defer["drv"] = <<>>
  BY <1>1, <1>8, Ends DEF InDrv, AboveDrv, Coming, P!Queue
<1>10. Way(q_defer["mod"]) = <<>> /\ Way(Coming) = <<>>
  BY <1>1, <1>9, Ends DEF Way
<1>11. OrderSound
  <2>1. \A t \in Proc : Passed(t)
    BY <1>4, TaskIs DEF Passed
  <2> QED
    BY <1>1, <1>10, <2>1 DEF OrderSound, Ordered
<1>12. Placed
  <2>1. Laid = {}
    BY <1>1, <1>9, ElemsOf DEF Laid
  <2>2. \A m \in P!Msg : ~Somewhere(m)
    BY <1>4, <2>1, SomewhereIs, HandForms, NoneIsNone
  <2>3. \A m \in P!Msg : m[1] \in Proc /\ m[2] \in 1 .. PerPutter
    BY DEF P!Msg
  <2>4. \A m \in P!Msg : ~(m[2] <= sent[m[1]])
    BY <1>1, <1>2, <2>3
  <2>5. ASSUME NEW q \in P!Queue PROVE q_count[q] = Len(q_defer[q]) % Width
    <3>1. q_count[q] = 0 /\ Len(q_defer[q]) = 0
      BY <1>1, Ends
    <3>2. 0 = Width * 0 + 0 /\ 0 \in 0 .. Width - 1
      BY <1>2
    <3>3. 0 % Width = 0
      BY <1>2, <3>2, ModOf
    <3> QED
      BY <3>1, <3>3
  <2> QED
    BY <2>2, <2>4, <2>5 DEF Placed
<1> QED
  BY <1>3, <1>5, <1>6, <1>7, <1>11, <1>12, <1>13 DEF PInv

---------------------------------------------------------------------------
\* Only one task is inside.
LEMMA InsideLocks ==
    ASSUME PInv, option # "none", NEW s \in P!Sync, NEW t \in P!Inside(s)
    PROVE  t \in P!Task /\ qs_taskp[s] = t
<1>1. t \in P!Task /\ \E f \in P!Frames(t) : f.at \in {"put", "unlock"} /\ P!SyncOf(f.q) = s
  BY DEF P!Inside
<1>2. PICK i \in DOMAIN stack[t] : stack[t][i].at \in {"put", "unlock"}
             /\ P!SyncOf(stack[t][i].q) = s
  BY <1>1 DEF P!Frames
<1>3. stack[t] # <<>>
  BY <1>2, EmptySeq
<1>4. PICK l \in PutLabels, q \in P!Queue, m \in P!Msg, d, e \in BOOLEAN :
        /\ Forms(t, l, q, m, d, e)
        /\ t \in Proc => m = Mine(t) /\ d = FALSE /\ e = FALSE
        /\ t = Changer => e = TRUE /\ (d = TRUE => stack[t] = <<Fr(l, q, m, d)>>)
  BY <1>1, <1>3, SomeForm DEF PInv, ControlSound
<1>5. LockedBy(stack[t], s) >= 1
  <2>1. CASE stack[t] = <<Fr(l, q, m, d)>>
    <3>1. stack[t][i] = Fr(l, q, m, d)
      BY <1>2, <2>1
    <3>2. l \in {"put", "unlock"} /\ P!SyncOf(q) = s
      BY <1>2, <3>1 DEF Fr
    <3>3. LockedBy(stack[t], s) = One(l \in {"put", "unlock"} /\ P!SyncOf(q) = s)
      BY <2>1, LockedForms
    <3> QED
      BY <3>2, <3>3 DEF One
  <2>2. CASE stack[t] = <<Fr(l, q, m, d), Lowest(m, e)>>
    <3>1. /\ stack[t][1] = Fr(l, q, m, d) /\ stack[t][2] = Lowest(m, e)
          /\ i = 1 \/ i = 2
      BY <1>2, <2>2
    <3>2. LockedBy(stack[t], s)
            = One(l \in {"put", "unlock"} /\ P!SyncOf(q) = s) + One(P!SyncOf("mod") = s)
      BY <2>2, LockedForms
    <3>3. CASE i = 1
      <4>1. l \in {"put", "unlock"} /\ P!SyncOf(q) = s
        BY <1>2, <3>1, <3>3 DEF Fr
      <4> QED
        BY <3>2, <4>1 DEF One
    <3>4. CASE i = 2
      <4>1. P!SyncOf("mod") = s
        BY <1>2, <3>1, <3>4 DEF Lowest, Fr
      <4> QED
        BY <3>2, <4>1 DEF One
    <3> QED
      BY <3>1, <3>3, <3>4
  <2> QED
    BY <1>4, <2>1, <2>2 DEF Forms
<1>6. Nests(t, s) >= 1
  BY <1>5, LockedIsNat, OneIs DEF Nests
<1>7. Nests(t, s) = IF qs_taskp[s] = t THEN qs_nest[s] ELSE 0
  BY <1>1 DEF PInv, LockCounts
<1> QED
  BY <1>1, <1>6, <1>7

LEMMA TurnsTaken == PInv => P!OneAtATime
<1> SUFFICES ASSUME PInv, option # "none", NEW s \in P!Sync
             PROVE  /\ Cardinality(P!Inside(s)) <= 1 /\ \A t \in P!Inside(s) : qs_taskp[s] = t
                    /\ qs_sem[s] = IF qs_nest[s] = 0 THEN 1 ELSE 0
                    /\ qs_nest[s] = 0 <=> qs_taskp[s] = NoTask
  BY SameCardinality DEF P!OneAtATime
<1>1. \A t \in P!Inside(s) : qs_taskp[s] = t
  BY InsideLocks
<1>2. Cardinality(P!Inside(s)) <= 1
  <2>1. P!Inside(s) \in SUBSET {qs_taskp[s]}
    BY <1>1
  <2>2. IsFiniteSet({qs_taskp[s]}) /\ Cardinality({qs_taskp[s]}) = 1
    BY FS_Singleton
  <2> QED
    BY <2>1, <2>2, FS_Subset
<1>3. /\ qs_sem[s] = IF qs_nest[s] = 0 THEN 1 ELSE 0
      /\ qs_nest[s] = 0 <=> qs_taskp[s] = NoTask
  BY DEF PInv, LockCounts
<1> QED
  BY <1>1, <1>2, <1>3

---------------------------------------------------------------------------
\* Order
LEMMA InOrderSound == PInv => P!InOrder
<1> SUFFICES ASSUME PInv PROVE P!InOrder
  OBVIOUS
<1>1. Ordered(Less, Way(Coming))
  BY DEF PInv, OrderSound
<1>2. delivered \in Seq(P!Msg) /\ InDrv \in Seq(P!Msg) /\ AboveDrv \in Seq(P!Msg)
        /\ Coming \in Seq(P!Msg)
  BY HandTypes DEF PInv
<1>3. delivered \o InDrv \in Seq(P!Msg) /\ AboveDrv \o Coming \in Seq(P!Msg)
  BY <1>2, Between
<1>4. Ordered(Less, delivered \o InDrv)
  BY <1>1, <1>3, OrderedParts DEF Way
<1>5. Ordered(Less, delivered)
  BY <1>2, <1>4, OrderedParts
<1> QED
  BY <1>5 DEF P!InOrder, Ordered, Less

---------------------------------------------------------------------------
\* Nothing is lost, and nothing is doubled.
LEMMA LenIsCardinality ==
    ASSUME NEW s \in Seq(P!Msg), Ordered(Differ, s)
    PROVE  IsFiniteSet(Elems(s)) /\ Cardinality(Elems(s)) = Len(s)
<1>1. Len(s) \in Nat /\ DOMAIN s = 1 .. Len(s) /\ s \in [1 .. Len(s) -> P!Msg]
  BY LenProperties
<1> DEFINE S == 1 .. Len(s)
           T == Elems(s)
<1>2. IsFiniteSet(S) /\ Cardinality(S) = Len(s)
  BY <1>1, FS_Interval
<1>3. \A a, b \in S : s[a] = s[b] => a = b
  <2> SUFFICES ASSUME NEW a \in S, NEW b \in S, s[a] = s[b], a # b PROVE FALSE
    OBVIOUS
  <2>1. \A i, j \in S : i < j => s[i] # s[j]
    BY <1>1 DEF Ordered, Differ
  <2>2. a < b \/ b < a
    BY <1>1
  <2> QED
    BY <2>1, <2>2
<1>4. s \in [S -> T] /\ \A x \in T : \E a \in S : s[a] = x
  BY <1>1 DEF Elems
<1>5. s \in Bijection(S, T)
  BY <1>3, <1>4 DEF Bijection, Injection, IsInjective, Surjection
<1> HIDE DEF S, T
<1>6. ExistsBijection(S, T)
  BY <1>5 DEF ExistsBijection
<1> QED
  BY <1>2, <1>6, FS_Bijection DEF T

LEMMA HandsAre ==
    ASSUME PInv
    PROVE  \A m : m \in P!InHand <=> \E t \in P!Task : HandNow(stack[t]) = <<m>>
<1>1. ASSUME NEW t \in P!Task, NEW m
      PROVE  (\E f \in P!Frames(t) : f.at # "unlock" /\ f.m = m) <=> HandNow(stack[t]) = <<m>>
  <2>1. CASE stack[t] = <<>>
    <3>1. P!Frames(t) = {}
      BY <2>1, EmptySeq DEF P!Frames
    <3> QED
      BY <2>1, <3>1, HandForms, NoneIsNone
  <2>2. CASE stack[t] # <<>>
    <3>1. PICK l \in PutLabels, q \in P!Queue, n \in P!Msg, d, e \in BOOLEAN :
            /\ Forms(t, l, q, n, d, e)
            /\ t \in Proc => n = Mine(t) /\ d = FALSE /\ e = FALSE
            /\ t = Changer => e = TRUE /\ (d = TRUE => stack[t] = <<Fr(l, q, n, d)>>)
      BY <2>2, SomeForm DEF PInv, ControlSound
    <3>2. HandNow(stack[t]) = IF l = "unlock" THEN <<>> ELSE <<n>>
      BY <3>1, HandOf
    <3>3. HandNow(stack[t]) = <<m>> <=> l # "unlock" /\ n = m
      BY <3>2, OneIsOne, NoneIsNone
    <3>4. \E f \in P!Frames(t) : f = Fr(l, q, n, d)
      <4>1. 1 \in DOMAIN stack[t] /\ stack[t][1] = Fr(l, q, n, d)
        BY <3>1 DEF Forms
      <4> QED
        BY <4>1 DEF P!Frames
    <3>5. \A f \in P!Frames(t) : f = Fr(l, q, n, d) \/ f = Lowest(n, e)
      <4>1. \A i \in DOMAIN stack[t] : stack[t][i] = Fr(l, q, n, d) \/ stack[t][i] = Lowest(n, e)
        BY <3>1 DEF Forms
      <4> QED
        BY <4>1 DEF P!Frames
    <3>6. Fr(l, q, n, d).at = l /\ Fr(l, q, n, d).m = n /\ Lowest(n, e).at = "unlock"
      BY DEF Fr, Lowest
    <3> QED
      BY <3>3, <3>4, <3>5, <3>6
  <2> QED
    BY <2>1, <2>2
<1>2. ASSUME NEW m
      PROVE  m \in P!InHand <=> \E t \in P!Task : \E f \in P!Frames(t) : f.at # "unlock" /\ f.m = m
  BY DEF P!InHand
<1> QED
  BY <1>1, <1>2

InPutters == {m \in P!Msg : \E t \in Proc : HandNow(stack[t]) = <<m>>}
OnTheWay == Elems(Way(q_defer["mod"]))

LEMMA PuttersApart == ASSUME PInv PROVE \A m \in InPutters : m \notin OnTheWay /\ m \notin flushed
<1> SUFFICES ASSUME NEW m \in P!Msg, NEW t \in Proc, HandNow(stack[t]) = <<m>>
             PROVE  m \notin OnTheWay /\ m \notin flushed
  BY DEF InPutters
<1>1. stack[t] # <<>> /\ P!Top(t).at # "unlock" /\ <<P!Top(t).m>> = <<m>>
  BY NoneIsNone DEF HandNow, P!Top
<1>2. P!Top(t).m = m
  BY <1>1, OneIsOne
<1>3. PICK l \in PutLabels, q \in P!Queue : Forms(t, l, q, Mine(t), FALSE, FALSE)
  BY <1>1, PutterForms DEF PInv
<1> DEFINE no == FALSE
           n == Mine(t)
<1>4. Forms(t, l, q, n, no, no)
  BY <1>3
<1> HIDE DEF no, n
<1>5. m = n
  BY <1>2, <1>4, FormTop
<1>6. m[1] = t /\ m[2] = sent[t] /\ sent[t] \in Nat
  BY <1>5 DEF n, Mine, PInv, PutTypes
<1>7. MyLast(t, OnTheWay) /\ MyLast(t, flushed)
  BY <1>1 DEF PInv, OrderSound, Passed, OnTheWay
<1>8. ~(sent[t] < sent[t])
  BY <1>6
<1> QED
  BY <1>6, <1>7, <1>8 DEF MyLast

LEMMA PlacesAre ==
    ASSUME PInv
    PROVE  /\ P!InHand = InPutters \cup Elems(HandSeq) /\ Elems(HandSeq) \subseteq OnTheWay
           /\ OnTheWay \subseteq P!Msg
           /\ \A m : m \in P!Deferred("mod") \cup P!Deferred("drv") \cup P!Got \cup flushed
                <=> m \in Laid
           /\ OnTheWay \cup flushed = Laid \cup Elems(HandSeq)
           /\ {m \in P!Msg : m[2] <= sent[m[1]]} = (OnTheWay \cup flushed) \cup InPutters
<1>1. q_defer["mod"] \in Seq(P!Msg) /\ HandSeq \in Seq(P!Msg)
  BY HandTypes DEF PInv
<1>2. /\ Way(q_defer["mod"]) \in Seq(P!Msg)
      /\ \A x : x \in OnTheWay <=> \/ x \in Elems(delivered) \/ x \in Elems(q_defer["drv"])
                                   \/ x \in Elems(HandSeq) \/ x \in Elems(q_defer["mod"])
  BY <1>1, WayTypes DEF PInv, OnTheWay
<1>3. OnTheWay \subseteq P!Msg /\ flushed \subseteq P!Msg
  BY <1>2, ElemsOf DEF OnTheWay, PInv, PutTypes
<1>4. OnTheWay \cup flushed = Laid \cup Elems(HandSeq)
  BY <1>2 DEF Laid
<1>5. \A m : m \in Elems(HandSeq) <=> HandNow(stack[Changer]) = <<m>>
  <2>1. CASE HandSeq = <<>>
    BY <2>1, ElemsOf, NoneIsNone DEF HandSeq
  <2>2. CASE HandSeq # <<>>
    <3>1. PICK x : HandSeq = <<x>>
      BY <2>2 DEF HandSeq, HandNow
    <3>2. Elems(HandSeq) = {x}
      BY <3>1, ElemsOf
    <3> QED
      BY <3>1, <3>2, OneIsOne DEF HandSeq
  <2> QED
    BY <2>1, <2>2
<1>6. \A m : (\E t \in P!Task : HandNow(stack[t]) = <<m>>)
               <=> m \in Elems(HandSeq) \/ \E t \in Proc : HandNow(stack[t]) = <<m>>
  BY <1>5 DEF P!Task
<1>7. \A t \in Proc : \A m : HandNow(stack[t]) = <<m>> => m \in P!Msg
  <2> SUFFICES ASSUME NEW t \in Proc, NEW m, HandNow(stack[t]) = <<m>> PROVE m \in P!Msg
    OBVIOUS
  <2>1. stack[t] # <<>> /\ <<P!Top(t).m>> = <<m>>
    BY NoneIsNone DEF HandNow, P!Top
  <2> QED
    BY <2>1, OneIsOne, TopTypes, TaskIs DEF PInv
<1>8. P!InHand = InPutters \cup Elems(HandSeq)
  BY <1>6, <1>7, HandsAre DEF InPutters
<1>9. \A m \in P!Msg : m[2] <= sent[m[1]]
        <=> m \in Laid \/ \E t \in P!Task : HandNow(stack[t]) = <<m>>
  BY SomewhereIs DEF PInv, Placed
<1>10. \A m \in P!Msg : m[2] <= sent[m[1]] <=> m \in (OnTheWay \cup flushed) \cup InPutters
  BY <1>4, <1>6, <1>9 DEF InPutters
<1>11. InPutters \subseteq P!Msg
  BY DEF InPutters
<1>12. {m \in P!Msg : m[2] <= sent[m[1]]} = (OnTheWay \cup flushed) \cup InPutters
  BY <1>3, <1>10, <1>11
<1>13. Elems(HandSeq) \subseteq OnTheWay
  BY <1>2
<1> QED
  BY <1>3, <1>4, <1>8, <1>12, <1>13, LaidIs

LEMMA LenOfFour ==
    ASSUME NEW a \in Seq(P!Msg), NEW b \in Seq(P!Msg), NEW c \in Seq(P!Msg), NEW d \in Seq(P!Msg)
    PROVE  Len((a \o b) \o (c \o d)) = Len(a) + Len(b) + Len(c) + Len(d)
<1>1. a \o b \in Seq(P!Msg) /\ Len(a \o b) = Len(a) + Len(b)
  BY ConcatProperties
<1>2. c \o d \in Seq(P!Msg) /\ Len(c \o d) = Len(c) + Len(d)
  BY ConcatProperties
<1> DEFINE x == a \o b
           y == c \o d
<1>3. x \in Seq(P!Msg) /\ y \in Seq(P!Msg) /\ Len(x) = Len(a) + Len(b) /\ Len(y) = Len(c) + Len(d)
  BY <1>1, <1>2
<1>4. Len(a) \in Nat /\ Len(b) \in Nat /\ Len(c) \in Nat /\ Len(d) \in Nat
  BY LenProperties
<1> HIDE DEF x, y
<1>5. Len(x \o y) = Len(x) + Len(y)
  BY <1>3, ConcatProperties
<1> QED
  BY <1>3, <1>4, <1>5 DEF x, y

LEMMA WayLength ==
    ASSUME PInv
    PROVE  Len(Way(q_defer["mod"]))
             = Len(delivered) + Len(HandSeq) + Len(q_defer["drv"]) + Len(q_defer["mod"])
<1>1. /\ delivered \in Seq(P!Msg) /\ HandSeq \in Seq(P!Msg) /\ q_defer["drv"] \in Seq(P!Msg)
      /\ q_defer["mod"] \in Seq(P!Msg) /\ <<>> \in Seq(P!Msg) /\ InDrv \in Seq(P!Msg)
           /\ AboveDrv \in Seq(P!Msg)
  BY HandTypes, EmptySeq DEF PInv
<1>2. /\ Len(delivered) \in Nat /\ Len(HandSeq) \in Nat /\ Len(q_defer["drv"]) \in Nat
      /\ Len(q_defer["mod"]) \in Nat
  BY <1>1, LenProperties
<1> DEFINE w == (delivered \o InDrv) \o (AboveDrv \o q_defer["mod"])
<1>3. Len(w) = Len(delivered) + Len(InDrv) + Len(AboveDrv) + Len(q_defer["mod"])
  <2> DEFINE p == delivered
             q == InDrv
             r == AboveDrv
             s == q_defer["mod"]
  <2>1. p \in Seq(P!Msg) /\ q \in Seq(P!Msg) /\ r \in Seq(P!Msg) /\ s \in Seq(P!Msg)
    BY <1>1
  <2> HIDE DEF p, q, r, s
  <2>2. Len((p \o q) \o (r \o s)) = Len(p) + Len(q) + Len(r) + Len(s)
    BY <2>1, LenOfFour
  <2> QED
    BY <2>2 DEF p, q, r, s
<1>6. Way(q_defer["mod"]) = w
  BY DEF Way
<1> HIDE DEF w
<1>4. Len(InDrv) + Len(AboveDrv) = Len(HandSeq) + Len(q_defer["drv"])
  <2>1. CASE FromMod
    BY <1>2, <2>1 DEF InDrv, AboveDrv
  <2>2. CASE ~FromMod
    <3>1. Len(HandSeq \o q_defer["drv"]) = Len(HandSeq) + Len(q_defer["drv"])
      BY <1>1, ConcatProperties
    <3>2. Len(<<>>) = 0
      BY Ends
    <3> QED
      BY <1>2, <2>2, <3>1, <3>2 DEF InDrv, AboveDrv
  <2> QED
    BY <2>1, <2>2
<1>5. Len(InDrv) \in Nat /\ Len(AboveDrv) \in Nat
  BY <1>1, LenProperties
<1> DEFINE d == Len(delivered)
           h == Len(HandSeq)
           i == Len(InDrv)
           a == Len(AboveDrv)
           v == Len(q_defer["drv"])
           m == Len(q_defer["mod"])
<1>7. /\ Len(w) = d + i + a + m /\ i + a = h + v
      /\ d \in Nat /\ h \in Nat /\ i \in Nat /\ a \in Nat /\ v \in Nat /\ m \in Nat
  BY <1>2, <1>3, <1>4, <1>5
<1> HIDE DEF d, h, i, a, v, m
<1>8. Len(w) = d + h + v + m
  BY <1>7
<1> QED
  BY <1>6, <1>8 DEF d, h, v, m

LEMMA Apart ==
    ASSUME NEW S, NEW T, IsFiniteSet(S), IsFiniteSet(T), \A x \in S : x \notin T
    PROVE  IsFiniteSet(S \cup T) /\ Cardinality(S \cup T) = Cardinality(S) + Cardinality(T)
<1>1. S \cap T = {}
  OBVIOUS
<1>2. Cardinality(S \cap T) = 0
  BY <1>1, FS_EmptySet
<1>3. Cardinality(S) \in Nat /\ Cardinality(T) \in Nat
  BY FS_CardinalityType
<1>4. IsFiniteSet(S \cup T)
      /\ Cardinality(S \cup T) = Cardinality(S) + Cardinality(T) - Cardinality(S \cap T)
  BY FS_Union
<1>5. Cardinality(S \cup T) = Cardinality(S) + Cardinality(T) - 0
  BY <1>2, <1>4
<1> QED
  BY <1>3, <1>4, <1>5

LEMMA NoneLost == PInv => P!NoneLostOrDoubled
<1> SUFFICES ASSUME PInv PROVE P!NoneLostOrDoubled
  OBVIOUS
<1> DEFINE W == Way(q_defer["mod"])
           H == Elems(HandSeq)
           All == {m \in P!Msg : m[2] <= sent[m[1]]}
<1>1. /\ P!InHand = InPutters \cup H /\ H \subseteq OnTheWay /\ OnTheWay \subseteq P!Msg
      /\ \A m : m \in P!Deferred("mod") \cup P!Deferred("drv") \cup P!Got \cup flushed
           <=> m \in Laid
      /\ OnTheWay \cup flushed = Laid \cup H
      /\ All = (OnTheWay \cup flushed) \cup InPutters
  BY PlacesAre
<1>2. All = P!InHand \cup P!Deferred("mod") \cup P!Deferred("drv") \cup P!Got \cup flushed
  <2> HIDE DEF H, All
  <2> QED
    BY <1>1
<1>3. ~clogged => \A q \in P!Queue : q_count[q] = Len(q_defer[q]) % Width
  BY DEF PInv, Placed
<1>4. HandSeq \in Seq(P!Msg) /\ q_defer["mod"] \in Seq(P!Msg) /\ q_defer["drv"] \in Seq(P!Msg)
        /\ delivered \in Seq(P!Msg)
  BY HandTypes DEF PInv
<1>5. W \in Seq(P!Msg) /\ Ordered(Differ, W)
  BY <1>4, WayTypes DEF PInv, OrderSound
<1>6. IsFiniteSet(OnTheWay) /\ Cardinality(OnTheWay) = Len(W)
  BY <1>5, LenIsCardinality DEF OnTheWay
<1>7. IsFiniteSet(H) /\ Cardinality(H) = Len(HandSeq)
  <2>1. \A i, j \in DOMAIN HandSeq : ~(i < j)
    BY DEF HandSeq, HandNow
  <2>2. Ordered(Differ, HandSeq)
    BY <2>1 DEF Ordered
  <2> QED
    BY <1>4, <2>2, LenIsCardinality
<1>8. IsFiniteSet(P!Msg)
  <2>1. PerPutter \in Int
    BY Assumptions DEF P!PutSyncBounds
  <2>2. IsFiniteSet(1 .. PerPutter)
    BY <2>1, FS_Interval
  <2> QED
    BY <2>2, ProcAssumption, FS_Product DEF P!Msg
<1>9. IsFiniteSet(InPutters) /\ IsFiniteSet(flushed)
  <2>1. InPutters \in SUBSET P!Msg /\ flushed \in SUBSET P!Msg
    BY DEF InPutters, PInv, PutTypes
  <2> QED
    BY <1>8, <2>1, FS_Subset
<1>10. \A m \in OnTheWay : m \notin flushed
  BY DEF PInv, OrderSound, OnTheWay
<1>11. \A m \in InPutters : m \notin OnTheWay /\ m \notin flushed
  BY PuttersApart
<1> HIDE DEF W, H, All
<1>12. IsFiniteSet(OnTheWay \cup flushed)
       /\ Cardinality(OnTheWay \cup flushed) = Cardinality(OnTheWay) + Cardinality(flushed)
  BY <1>6, <1>9, <1>10, Apart
<1>13. \A m \in OnTheWay \cup flushed : m \notin InPutters
  BY <1>11
<1>14. Cardinality(All) = Cardinality(OnTheWay \cup flushed) + Cardinality(InPutters)
  BY <1>1, <1>9, <1>12, <1>13, Apart
<1>15. Cardinality(P!InHand) = Cardinality(InPutters) + Cardinality(H)
  <2>1. \A m \in InPutters : m \notin H
    BY <1>1, <1>11
  <2> QED
    BY <1>1, <1>7, <1>9, <2>1, Apart
<1>16. Len(W) = Len(delivered) + Len(HandSeq) + Len(q_defer["drv"]) + Len(q_defer["mod"])
  BY WayLength DEF W
<1>17. /\ Len(delivered) \in Nat /\ Len(HandSeq) \in Nat /\ Len(q_defer["drv"]) \in Nat
       /\ Len(q_defer["mod"]) \in Nat
  BY <1>4, LenProperties
<1>18. Cardinality(InPutters) \in Nat /\ Cardinality(flushed) \in Nat
  BY <1>9, FS_CardinalityType
<1>19. Cardinality(P!InHand) + Len(q_defer["mod"]) + Len(q_defer["drv"])
         + Len(delivered) + Cardinality(flushed) = Cardinality(All)
  <2> DEFINE d == Len(delivered)
             h == Len(HandSeq)
             v == Len(q_defer["drv"])
             m == Len(q_defer["mod"])
             p == Cardinality(InPutters)
             f == Cardinality(flushed)
             i == Cardinality(P!InHand)
             c == Cardinality(All)
             o == Cardinality(OnTheWay)
  <2>1. o = d + h + v + m
    BY <1>6, <1>16
  <2>2. c = (o + f) + p
    BY <1>12, <1>14
  <2>3. i = p + h
    BY <1>7, <1>15
  <2>4. /\ d \in Nat /\ h \in Nat /\ v \in Nat /\ m \in Nat /\ p \in Nat /\ f \in Nat
    BY <1>17, <1>18
  <2> HIDE DEF d, h, v, m, p, f, i, c, o
  <2>5. i + m + v + d + f = c
    BY <2>1, <2>2, <2>3, <2>4
  <2> QED
    BY <2>5 DEF i, m, v, d, f, c
<1> QED
  BY <1>2, <1>3, <1>19, SameCardinality DEF P!NoneLostOrDoubled, All

\* In a run of all calls only one part moves.
LEMMA OthersRest == MCNext \/ UNCHANGED all => P!Next \/ UNCHANGED P!vars
BY DEF MCNext, all, pvars, P!vars, P!queues, P!sync, P!changer, P!ghost

\* For any number of putters, messages and options and any width of q_count: only one task
\* at a time is in the put procedures that share a lock, and the lock counts its calls
\* (lis_lockq, lis_unlockq); every message that was sent is in one place, with a task,
\* deferred, delivered or flushed, and q_count says how many are deferred (lis_defer_msg,
\* lis_do_deferred_puts); and what one task sends is delivered in the order it was sent,
\* though another task delivers some of it (lis_safe_do_putmsg).
THEOREM PutsAreSound == MCSpec => []PutsTakeTurns
<1>1. MCInit => PInv
  BY PInvInit DEF MCInit
<1>2. PInv /\ [MCNext]_all => PInv'
  BY PInvNext, PInvStill, OthersRest
<1>3. PInv => PutsTakeTurns
  BY TurnsTaken, NoneLost, InOrderSound DEF PutsTakeTurns, P!PutsTakeTurns
<1> QED
  BY <1>1, <1>2, <1>3, PTL DEF MCSpec
=============================================================================
