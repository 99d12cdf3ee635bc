----------------------------- MODULE OpenClose -----------------------------
(***************************************************************************)
(* Opening and closing streams (head/head.c): lis_stropen, lis_doclose,    *)
(* lis_head_get and lis_head_put.                                          *)
(*                                                                         *)
(* The list of stream heads is searched under lis_stdata_sem; sd_opening   *)
(* of the head that was found keeps other openers and closers out while    *)
(* the driver's open routine may sleep.  Between the two an opener holds   *)
(* neither, so that it has to look again.                                  *)
(*                                                                         *)
(* Each call is taken apart between two accesses to state that others      *)
(* share.  lis_down gives up when a signal is pending (Signals);           *)
(* lis_down_nosig, used by close, does not.                                *)
(***************************************************************************)
EXTENDS Integers, FiniteSets

CONSTANTS
  Proc,       \* processes
  Stdata,     \* memory for stream heads, none used twice
  Dev,        \* device numbers
  Clone,      \* the device of the clone driver
  NoHead,
  Signals,    \* may a sleeping opener be interrupted?
  MaxOpens,   \* bound on open calls
  MaxUses     \* bound on other system calls

ASSUME DeviceAssumption == Clone \notin Dev /\ Dev # {}
ASSUME ProcAssumption == IsFiniteSet(Proc)
ASSUME HeadAssumption == NoHead \notin Stdata
ASSUME OpenBounds == Signals \in BOOLEAN /\ MaxOpens \in Nat /\ MaxUses \in Nat

VARIABLES
  lis_stdata_sem,  \* 1: free
  alloc,           \* alloc[h]: "unborn", "live" or "freed"
  sd_refcnt, sd_opencnt, sd_dev,
  sd_opening,      \* sd_opening[h]: the semaphore
  STRCLOSE,        \* the heads with that flag
  driver,          \* the heads with a queue pair below them
  sd_rq,           \* the heads that have their own queue pair
  pc,
  head,            \* head[p]: the local variable of that name
  odev, ndev,      \* odev[p], ndev[p]
  existing_head, hd_locked,
  tear_down,       \* tear_down[p]: the local variable of lis_head_put
  ret,             \* ret[p]: where p goes on after lis_head_put
  opens, uses,
  failed,          \* history: heads with which an open has failed
  seen,            \* history: seen[h]: processes that have found h
  overlapped,      \* history: heads given back by two at the same time
  closings         \* history: closings[h]: how often h has been dismantled by close

headVars == <<alloc, sd_refcnt, sd_opencnt, sd_dev, sd_opening, STRCLOSE,
              driver, sd_rq>>
locals == <<head, odev, ndev, existing_head, hd_locked, tear_down, ret>>
history == <<failed, seen, overlapped, closings>>
vars == <<lis_stdata_sem, headVars, pc, locals, opens, uses, history>>

Init ==
  /\ lis_stdata_sem = 1
  /\ alloc = [h \in Stdata |-> "unborn"]
  /\ sd_refcnt = [h \in Stdata |-> 0]
  /\ sd_opencnt = [h \in Stdata |-> 0]
  /\ sd_dev = [h \in Stdata |-> Clone]
  /\ sd_opening = [h \in Stdata |-> 1]
  /\ STRCLOSE = {} /\ driver = {} /\ sd_rq = {}
  /\ pc = [p \in Proc |-> "idle"]
  /\ head = [p \in Proc |-> NoHead]
  /\ odev = [p \in Proc |-> Clone]
  /\ ndev = [p \in Proc |-> Clone]
  /\ existing_head = [p \in Proc |-> FALSE]
  /\ hd_locked = [p \in Proc |-> FALSE]
  /\ tear_down = [p \in Proc |-> FALSE]
  /\ ret = [p \in Proc |-> "idle"]
  /\ opens = 0 /\ uses = 0
  /\ failed = {} /\ overlapped = {}
  /\ seen = [h \in Stdata |-> {}]
  /\ closings = [h \in Stdata |-> 0]

Goto(p, l) == pc' = [pc EXCEPT ![p] = l]
At(p, l) == pc[p] = l

\* lis_head_put(head), going on at l afterwards.
PutThen(p, l) == Goto(p, "put") /\ ret' = [ret EXCEPT ![p] = l]

\* The local variables of a call are gone when it returns.
Return(p) ==
  /\ head' = [head EXCEPT ![p] = NoHead]
  /\ odev' = [odev EXCEPT ![p] = Clone]
  /\ ndev' = [ndev EXCEPT ![p] = Clone]
  /\ existing_head' = [existing_head EXCEPT ![p] = FALSE]
  /\ hd_locked' = [hd_locked EXCEPT ![p] = FALSE]

---------------------------------------------------------------------------
(* lis_stropen *)

Open(p, d) ==
  /\ At(p, "idle")
  /\ opens < MaxOpens
  /\ opens' = opens + 1
  /\ odev' = [odev EXCEPT ![p] = d]
  /\ ndev' = [ndev EXCEPT ![p] = d]
  /\ head' = [head EXCEPT ![p] = NoHead]
  /\ hd_locked' = [hd_locked EXCEPT ![p] = FALSE]
  /\ Goto(p, "start")
  /\ UNCHANGED <<lis_stdata_sem, headVars, existing_head, tear_down, ret, uses, history>>

DownStdata(p, from, to) ==
  /\ At(p, from)
  /\ lis_stdata_sem > 0
  /\ lis_stdata_sem' = lis_stdata_sem - 1
  /\ Goto(p, to)
  /\ UNCHANGED <<headVars, locals, opens, uses, history>>

UpStdata == lis_stdata_sem' = lis_stdata_sem + 1

\* A signal arrives while lis_down sleeps.
Interrupted(p) ==
  /\ Signals
  /\ \/ pc[p] \in {"start", "swap"} /\ lis_stdata_sem = 0
     \/ At(p, "opening") /\ sd_opening[head[p]] = 0
  /\ Goto(p, "error")
  /\ failed' = failed \cup ({head[p]} \ {NoHead})
  /\ UNCHANGED <<lis_stdata_sem, headVars, locals, opens, uses, seen, overlapped, closings>>

\* lis_lookup_stdata: heads that are in the list and can be opened as d.
Found(d, excluded) ==
  {h \in Stdata \ {excluded} : /\ alloc[h] = "live" /\ h \notin STRCLOSE
                             /\ sd_dev[h] = d}

\* One piece of memory is as good as another.
Unused == {h \in Stdata : alloc[h] = "unborn"}

\* lis_alloc_stdata: a head with a queue pair of its own.
NewHead(h) == /\ alloc' = [alloc EXCEPT ![h] = "live"]
              /\ sd_rq' = sd_rq \cup {h}

\* lis_head_get(NULL), and the device is planted before the search is open to others.
Allocate(p) ==
  /\ At(p, "search")
  /\ odev[p] = Clone \/ Found(odev[p], NoHead) = {}
  /\ Unused # {}
  /\ LET h == CHOOSE x \in Unused : TRUE
     IN /\ NewHead(h)
        /\ sd_refcnt' = [sd_refcnt EXCEPT ![h] = 1]
        /\ sd_dev' = [sd_dev EXCEPT ![h] = odev[p]]
        /\ head' = [head EXCEPT ![p] = h]
        /\ seen' = [seen EXCEPT ![h] = @ \cup {p}]
  /\ existing_head' = [existing_head EXCEPT ![p] = FALSE]
  /\ UpStdata
  /\ Goto(p, "opening")
  /\ UNCHANGED <<sd_opencnt, sd_opening, STRCLOSE, driver, odev, ndev, hd_locked,
                 tear_down, ret, opens, uses, failed, overlapped, closings>>

Lookup(p) ==
  /\ At(p, "search")
  /\ odev[p] # Clone
  /\ \E h \in Found(odev[p], NoHead) :
       /\ head' = [head EXCEPT ![p] = h]
       /\ seen' = [seen EXCEPT ![h] = @ \cup {p}]
  /\ existing_head' = [existing_head EXCEPT ![p] = TRUE]
  /\ Goto(p, "get")
  /\ UNCHANGED <<lis_stdata_sem, headVars, odev, ndev, hd_locked, tear_down, ret,
                 opens, uses, failed, overlapped, closings>>

Incr(f, h) == [f EXCEPT ![h] = @ + 1]
Decr(f, h) == [f EXCEPT ![h] = @ - 1]

HeadGet(p) ==
  /\ At(p, "get")
  /\ sd_refcnt' = Incr(sd_refcnt, head[p])
  /\ UpStdata
  /\ Goto(p, "opening")
  /\ UNCHANGED <<alloc, sd_opencnt, sd_dev, sd_opening, STRCLOSE, driver, sd_rq,
                 locals, opens, uses, history>>

\* get_sd_opening_sem
GetOpeningSem(p) ==
  /\ At(p, "opening")
  /\ sd_opening[head[p]] > 0
  /\ sd_opening' = Decr(sd_opening, head[p])
  /\ hd_locked' = [hd_locked EXCEPT ![p] = TRUE]
  /\ Goto(p, "recheck")
  /\ UNCHANGED <<lis_stdata_sem, alloc, sd_refcnt, sd_opencnt, sd_dev, STRCLOSE, driver,
                 sd_rq, head, odev, ndev, existing_head, tear_down, ret, opens, uses, history>>

\* Another open or a close came first: the head is not what it was.
LostToClone(p) == existing_head[p] /\ sd_dev[head[p]] # odev[p]
LostRace(p) == LostToClone(p) \/ head[p] \in STRCLOSE

ReleaseOpening(h) == sd_opening' = Incr(sd_opening, h)

\* Start over, or go on with the short or the long form of open.
Recheck(p) ==
  /\ At(p, "recheck")
  /\ \/ /\ LostRace(p)
        /\ ReleaseOpening(head[p])
        /\ hd_locked' = [hd_locked EXCEPT ![p] = FALSE]
        /\ PutThen(p, "start")
     \/ /\ ~LostRace(p)
        /\ Goto(p, IF sd_opencnt[head[p]] >= 1 THEN "open_mods" ELSE "attach")
        /\ UNCHANGED <<sd_opening, hd_locked, ret>>
  /\ UNCHANGED <<lis_stdata_sem, alloc, sd_refcnt, sd_opencnt, sd_dev, STRCLOSE, driver,
                 sd_rq, head, odev, ndev, existing_head, tear_down, opens, uses, history>>

\* open_mods: every open routine of the stream is called once more.
OpenMods(p) ==
  /\ At(p, "open_mods")
  /\ \E l \in {"success", "error"} : Goto(p, l)
  /\ UNCHANGED <<lis_stdata_sem, headVars, locals, opens, uses, history>>

\* lis_qattach links a new queue pair; a head without queues gets none.
Attach(p) ==
  /\ At(p, "attach")
  /\ \/ /\ head[p] \in sd_rq
        /\ driver' = driver \cup {head[p]}
        /\ Goto(p, "in_driver")
     \/ /\ head[p] \notin sd_rq
        /\ Goto(p, "error")
        /\ UNCHANGED driver
  /\ UNCHANGED <<lis_stdata_sem, alloc, sd_refcnt, sd_opencnt, sd_dev, sd_opening,
                 STRCLOSE, sd_rq, locals, opens, uses, history>>

\* The open routine of the driver returns.  The clone driver opens another
\* driver, which chooses the minor device.
DriverOpens(p) ==
  /\ At(p, "in_driver")
  /\ \/ /\ odev[p] = Clone
        /\ \E d \in Dev : ndev' = [ndev EXCEPT ![p] = d]
        /\ Goto(p, "swap")
        /\ UNCHANGED driver
     \/ /\ odev[p] # Clone
        /\ Goto(p, "autopush")
        /\ UNCHANGED <<driver, ndev>>
     \/ /\ driver' = driver \ {head[p]}
        /\ Goto(p, "error")
        /\ UNCHANGED ndev
  /\ UNCHANGED <<lis_stdata_sem, alloc, sd_refcnt, sd_opencnt, sd_dev, sd_opening, STRCLOSE,
                 sd_rq, head, odev, existing_head, hd_locked, tear_down, ret, opens, uses,
                 history>>

DevInUse(p) == Found(ndev[p], head[p]) # {}

\* The head that was opened as the clone device becomes the new device,
\* unless that is in use.
AdoptDev(p) ==
  /\ At(p, "adopt")
  /\ UpStdata
  /\ \/ /\ DevInUse(p)
        /\ Goto(p, "error")
        /\ UNCHANGED sd_dev
     \/ /\ ~DevInUse(p)
        /\ sd_dev' = [sd_dev EXCEPT ![head[p]] = ndev[p]]
        /\ Goto(p, "autopush")
  /\ UNCHANGED <<alloc, sd_refcnt, sd_opencnt, sd_opening, STRCLOSE, driver, sd_rq, locals,
                 opens, uses, history>>

\* Locks for the driver's queues, the autopush list, FIFO partners: any may fail.
Autopush(p) ==
  /\ At(p, "autopush")
  /\ \E l \in {"success", "error"} : Goto(p, l)
  /\ UNCHANGED <<lis_stdata_sem, headVars, locals, opens, uses, history>>

Success(p) ==
  /\ At(p, "success")
  /\ sd_opencnt' = Incr(sd_opencnt, head[p])
  /\ ReleaseOpening(head[p])
  /\ Goto(p, "opened")
  /\ UNCHANGED <<lis_stdata_sem, alloc, sd_refcnt, sd_dev, STRCLOSE, driver, sd_rq, locals,
                 opens, uses, history>>

LockedNever(p) == FALSE
HdLocked(p) == hd_locked[p]

\* error_rtn: what is held is given back,
ErrorRtn(p) ==
  /\ At(p, "error")
  /\ \/ /\ head[p] = NoHead
        /\ Return(p)
        /\ Goto(p, "idle")
        /\ UNCHANGED <<sd_opening, failed>>
     \/ /\ head[p] # NoHead
        /\ IF HdLocked(p) THEN ReleaseOpening(head[p]) ELSE UNCHANGED sd_opening
        /\ hd_locked' = [hd_locked EXCEPT ![p] = FALSE]
        /\ UNCHANGED <<head, odev, ndev, existing_head>>
        /\ failed' = failed \cup {head[p]}
        /\ Goto(p, "last_open")
  /\ UNCHANGED <<lis_stdata_sem, alloc, sd_refcnt, sd_opencnt, sd_dev, STRCLOSE, driver,
                 sd_rq, tear_down, ret, opens, uses, seen,
                 overlapped, closings>>

\* and if nobody else has the stream open it is dismantled.
LastOpen(p) ==
  /\ At(p, "last_open")
  /\ IF sd_opencnt[head[p]] = 0 THEN Goto(p, "undo") /\ UNCHANGED ret
                                ELSE PutThen(p, "idle")
  /\ UNCHANGED <<lis_stdata_sem, headVars, head, odev, ndev, existing_head, hd_locked,
                 tear_down, opens, uses, history>>

\* lis_qdetach of the driver, if there is one, and lis_dismantle.
Dismantle(h) == /\ driver' = driver \ {h}
                /\ sd_rq' = sd_rq \ {h}

Undo(p) ==
  /\ At(p, "undo")
  /\ Dismantle(head[p])
  /\ PutThen(p, "idle")
  /\ UNCHANGED <<lis_stdata_sem, alloc, sd_refcnt, sd_opencnt, sd_dev, sd_opening,
                 STRCLOSE, head, odev, ndev, existing_head, hd_locked, tear_down, opens, uses,
                 history>>

---------------------------------------------------------------------------
(* lis_head_put: reads the count, then decrements it. *)

TearDownAtTwo(h) == sd_refcnt[h] <= 2
TearDown(h) == sd_refcnt[h] = 1

HeadPutRead(p) ==
  /\ At(p, "put")
  /\ tear_down' = [tear_down EXCEPT ![p] = TearDown(head[p])]
  /\ Goto(p, "dec")
  /\ overlapped' = IF \E q \in Proc : At(q, "dec") /\ head[q] = head[p]
                     THEN overlapped \cup {head[p]} ELSE overlapped
  /\ UNCHANGED <<lis_stdata_sem, headVars, head, odev, ndev, existing_head, hd_locked, ret,
                 opens, uses, failed, seen, closings>>

\* lis_tear_down_stream
Freed(h) == [alloc EXCEPT ![h] = "freed"]

HeadPutDec(p) ==
  /\ At(p, "dec")
  /\ sd_refcnt' = Decr(sd_refcnt, head[p])
  /\ alloc' = IF tear_down[p] THEN Freed(head[p]) ELSE alloc
  /\ tear_down' = [tear_down EXCEPT ![p] = FALSE]
  /\ IF ret[p] = "idle" THEN Return(p)
                        ELSE UNCHANGED <<head, odev, ndev, existing_head, hd_locked>>
  /\ Goto(p, ret[p])
  /\ UNCHANGED <<lis_stdata_sem, sd_opencnt, sd_dev, sd_opening, STRCLOSE, driver, sd_rq,
                 ret, opens, uses, history>>

---------------------------------------------------------------------------
(* lis_doclose *)

Close(p) ==
  /\ At(p, "opened")
  /\ sd_opening[head[p]] > 0
  /\ sd_opening' = Decr(sd_opening, head[p])
  /\ Goto(p, "closing")
  /\ UNCHANGED <<lis_stdata_sem, alloc, sd_refcnt, sd_opencnt, sd_dev, STRCLOSE, driver,
                 sd_rq, locals, opens, uses, history>>

LastClose(h) == sd_opencnt[h] <= 1

CountClose(p) ==
  /\ At(p, "closing")
  /\ sd_opencnt' = IF sd_opencnt[head[p]] > 0 THEN Decr(sd_opencnt, head[p]) ELSE sd_opencnt
  /\ \/ LastClose(head[p]) /\ Goto(p, "mark") /\ UNCHANGED <<sd_opening, ret>>
     \/ ~LastClose(head[p]) /\ ReleaseOpening(head[p]) /\ PutThen(p, "idle")
  /\ UNCHANGED <<lis_stdata_sem, alloc, sd_refcnt, sd_dev, STRCLOSE, driver, sd_rq, head,
                 odev, ndev, existing_head, hd_locked, tear_down, opens, uses, history>>

\* STRCLOSE is set while nobody searches the list.
MarkClose(p) ==
  /\ At(p, "mark")
  /\ lis_stdata_sem > 0
  /\ STRCLOSE' = STRCLOSE \cup {head[p]}
  /\ ReleaseOpening(head[p])
  /\ Goto(p, "close_action")
  /\ UNCHANGED <<lis_stdata_sem, alloc, sd_refcnt, sd_opencnt, sd_dev, driver, sd_rq, locals,
                 opens, uses, history>>

CloseAction(p) ==
  /\ At(p, "close_action")
  /\ Dismantle(head[p])
  /\ closings' = Incr(closings, head[p])
  /\ PutThen(p, "idle")
  /\ UNCHANGED <<lis_stdata_sem, alloc, sd_refcnt, sd_opencnt, sd_dev, sd_opening, STRCLOSE,
                 head, odev, ndev, existing_head, hd_locked, tear_down, opens, uses, failed,
                 seen, overlapped>>

---------------------------------------------------------------------------
(* Any other system call holds a reference while it lasts. *)

Call(p) ==
  /\ At(p, "opened")
  /\ uses < MaxUses
  /\ uses' = uses + 1
  /\ sd_refcnt' = Incr(sd_refcnt, head[p])
  /\ Goto(p, "call")
  /\ UNCHANGED <<lis_stdata_sem, alloc, sd_opencnt, sd_dev, sd_opening, STRCLOSE, driver,
                 sd_rq, locals, opens, history>>

CallReturns(p) ==
  /\ At(p, "call")
  /\ PutThen(p, "opened")
  /\ UNCHANGED <<lis_stdata_sem, headVars, head, odev, ndev, existing_head, hd_locked,
                 tear_down, opens, uses, history>>

---------------------------------------------------------------------------
DownSearch(p) == DownStdata(p, "start", "search")
DownAdopt(p) == DownStdata(p, "swap", "adopt")

Steps(p) ==
  \/ DownSearch(p) \/ Allocate(p) \/ Lookup(p) \/ HeadGet(p)
  \/ GetOpeningSem(p) \/ Recheck(p) \/ OpenMods(p) \/ Attach(p)
  \/ DriverOpens(p) \/ DownAdopt(p) \/ AdoptDev(p)
  \/ Autopush(p) \/ Success(p)
  \/ ErrorRtn(p) \/ LastOpen(p) \/ Undo(p)
  \/ HeadPutRead(p) \/ HeadPutDec(p)
  \/ CountClose(p) \/ MarkClose(p) \/ CloseAction(p) \/ CallReturns(p)

Next == \E p \in Proc :
          \/ \E d \in Dev \cup {Clone} : Open(p, d)
          \/ Interrupted(p)
          \/ Steps(p)
          \/ Close(p) \/ Call(p)

\* The kernel's semaphores queue their waiters and open routines return; a
\* process need not close what it has opened before it ends, but then it does.
Fairness == \A p \in Proc : SF_vars(Steps(p) \/ Close(p))

Spec == Init /\ [][Next]_vars /\ Fairness

---------------------------------------------------------------------------
(* Properties *)

Labels == {"idle", "start", "search", "get", "opening", "recheck", "open_mods", "attach",
           "in_driver", "swap", "adopt", "autopush", "success", "opened", "error",
           "last_open", "undo", "put", "dec", "closing", "mark", "close_action", "call"}

TypeOK ==
  /\ lis_stdata_sem \in 0..1
  /\ alloc \in [Stdata -> {"unborn", "live", "freed"}]
  /\ sd_refcnt \in [Stdata -> Int] /\ sd_opencnt \in [Stdata -> Int]
  /\ sd_dev \in [Stdata -> Dev \cup {Clone}]
  /\ sd_opening \in [Stdata -> 0..1]
  /\ STRCLOSE \subseteq Stdata /\ driver \subseteq Stdata /\ sd_rq \subseteq Stdata
  /\ pc \in [Proc -> Labels]
  /\ head \in [Proc -> Stdata \cup {NoHead}]
  /\ odev \in [Proc -> Dev \cup {Clone}] /\ ndev \in [Proc -> Dev \cup {Clone}]
  /\ existing_head \in [Proc -> BOOLEAN] /\ hd_locked \in [Proc -> BOOLEAN]
  /\ tear_down \in [Proc -> BOOLEAN]
  /\ ret \in [Proc -> {"idle", "start", "opened"}]
  /\ opens \in Nat /\ uses \in Nat
  /\ failed \subseteq Stdata /\ overlapped \subseteq Stdata
  /\ seen \in [Stdata -> SUBSET Proc] /\ closings \in [Stdata -> Nat]

\* An open of h has failed, and somebody else had found h: error_rtn lets go of
\* sd_opening before it looks at sd_opencnt, and a retry that is interrupted gives
\* back a head a second time, so that nothing can be said of h.
Shared(h) == h \in failed /\ Cardinality(seen[h]) > 1

\* p has the stream open, or is still giving back the reference of its open.
HasFile(p, h) == /\ head[p] = h
                 /\ \/ pc[p] \in {"opened", "call", "closing"}
                    \/ pc[p] \in {"put", "dec"} /\ ret[p] = "opened"
HoldsOpen(p, h) == head[p] = h /\ pc[p] \notin {"idle", "start", "search", "get"}
HoldsCall(p, h) == /\ head[p] = h
                   /\ pc[p] = "call" \/ (pc[p] \in {"put", "dec"} /\ ret[p] = "opened")

\* The references there ought to be.
References(h) == ({p \in Proc : HoldsOpen(p, h)} \X {"open"})
                 \cup ({p \in Proc : HoldsCall(p, h)} \X {"call"})

\* A stream head that anyone may still touch is not freed, and its counts say
\* who does: sd_refcnt how many calls and opens, sd_opencnt how many files
\* (lis_head_get, lis_head_put, lis_stropen, lis_doclose).
RefsBalanced ==
  \A h \in Stdata : Shared(h) \/
    /\ References(h) # {} => alloc[h] = "live"
    /\ sd_refcnt[h] = Cardinality(References(h))
    /\ sd_opencnt[h] = Cardinality({p \in Proc : HasFile(p, h)})

\* What an open file works on is whole: queues and driver are attached, the close
\* of another file of the same stream has not dismantled it, and a stream is
\* closed once (lis_stropen, lis_doclose, close_action).
OpenedIsWhole ==
  \A h \in Stdata : Shared(h) \/
    /\ (\E p \in Proc : HasFile(p, h)) => h \in driver /\ h \in sd_rq /\ h \notin STRCLOSE
    /\ closings[h] <= 1

\* A device has one stream: opens of it that race with each other, with a clone
\* open that has chosen it, or with its close never leave two that an open can
\* find, so that no message or file ends up on a second one (lis_lookup_stdata).
OneStreamPerDev ==
  \A d \in Dev : Cardinality(Found(d, NoHead)) <= 1

\* "If both threads do the atomic_dec at the same time the count could go to zero
\* without the structure being deallocated": the only way for a head to be left
\* over with nobody to free it (lis_head_put).
LeftOnlyByOverlap ==
  \A h \in Stdata :
    (alloc[h] = "live" /\ References(h) = {}) => (h \in overlapped \/ Shared(h))

\* The stream heads are sound, whoever opens, closes and interrupts.
HeadsSound == /\ TypeOK /\ RefsBalanced /\ OpenedIsWhole
              /\ OneStreamPerDev /\ LeftOnlyByOverlap

\* The same without the exception, as the comment above lis_head_put promises.
NothingLeft == \A h \in Stdata : alloc[h] = "live" => References(h) # {}

\* While a process is in the first open of a stream nobody takes the stream apart.
\* The comment at the head of lis_stropen promises that sd_opening sees to that.
OpenerUndisturbed ==
  \A p \in Proc : pc[p] \in {"in_driver", "autopush", "success"} => head[p] \in sd_rq

\* Every open, close and call comes to its end, and time and again all of them have: no
\* semaphore is lost on the many ways out of lis_stropen, whoever races with whom.
Resting == \A p \in Proc : pc[p] \in {"idle", "opened"}
CallsReturn == []<>Resting

---------------------------------------------------------------------------
(* A stream head is a counted object. *)

Life(h) == IF Shared(h) THEN "abandoned"
           ELSE IF alloc[h] = "freed" THEN "dead" ELSE alloc[h]
Holders(h) == IF Life(h) = "live" THEN References(h) ELSE {}

Abstract == INSTANCE Counted WITH
              Object <- Stdata,
              Holder <- Proc \X {"open", "call"},
              life <- [h \in Stdata |-> Life(h)],
              holders <- [h \in Stdata |-> Holders(h)]

\* sd_refcnt implements the reference count of an abstract object: a head is freed
\* by who held it last and never taken up again afterwards.
IsCounted == Abstract!Spec
=============================================================================
