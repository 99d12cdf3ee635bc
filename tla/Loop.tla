-------------------------------- MODULE Loop --------------------------------
(***************************************************************************)
(* The loop driver (drivers/str/loop.c): streams that are coupled in pairs *)
(* by LOOP_SET, so that what is written to one can be read from the other. *)
(* Each open stream has a slot of loop_loop, which it finds through the    *)
(* q_ptr of its queues.  Messages wait in the write queue for a level, a   *)
(* timer or a bufcall, as the options of the slot say, and are counted     *)
(* here: what they contain makes no difference.                            *)
(*                                                                         *)
(* An action is an ioctl, an open, a close, a callback, or a part of a put *)
(* or service procedure between two looks at the slot.  The queue lock     *)
(* keeps put and service of one queue apart, not those of the two ends.    *)
(***************************************************************************)
EXTENDS Integers, FiniteSets

CONSTANTS Stream, Minor, None,
          Level,               \* values of LOOP_MSGLVL and LOOP_CONCAT
          Hiwat,               \* of the stream heads
          MaxWrite, MaxCall    \* how often is written, and set or opened

SlotAssumption == Minor \subseteq Nat \ {0} /\ None \notin Stream \cup Minor

VARIABLES
    q_ptr,       \* the slot of a stream, None if it is not open
    qptr,        \* slot -> stream
    oqptr,       \* slot -> the stream at the other end
    opt,         \* slot -> its options
    msgcnt,      \* slot -> number of messages in the queue, as counted
    timr_hndl,   \* slot -> is a timer taken to run?
    timers,      \* slots whose timer does run
    saved_msg,   \* slot -> is a message kept to be concatenated?
    bufcalls,    \* stream -> outstanding bufcalls
    wq,          \* stream -> messages in its write queue
    noenb,       \* streams whose write queue is not enabled by putq
    enabled,     \* streams whose write queue is scheduled
    renabled,    \* streams whose read queue is scheduled
    act,         \* stream -> what its write queue is doing
    up, wantw,   \* stream -> messages at its head; is that waited for?
    writes, calls,
    orphaned,    \* slots of open streams whose other end has closed
    excused,     \* streams with a bufcall or a change of level behind them
    amiss        \* what has gone wrong

slots   == <<qptr, oqptr, opt, msgcnt, timr_hndl, saved_msg>>
queues  == <<wq, noenb, enabled, renabled, up, wantw>>
bounds  == <<writes, calls>>
ghosts  == <<orphaned, excused, amiss>>
vars    == <<q_ptr, slots, timers, bufcalls, queues, act, bounds, ghosts>>

NoOpt == [use_putnext |-> FALSE, use_bufcall |-> 0, msglvl |-> 0,
          timr |-> FALSE, catlvl |-> 0, burst |-> 0]

Init == /\ q_ptr = [s \in Stream |-> None]
        /\ qptr = [k \in Minor |-> None] /\ oqptr = [k \in Minor |-> None]
        /\ opt = [k \in Minor |-> NoOpt] /\ msgcnt = [k \in Minor |-> 0]
        /\ timr_hndl = [k \in Minor |-> FALSE] /\ timers = {}
        /\ saved_msg = [k \in Minor |-> FALSE]
        /\ bufcalls = [s \in Stream |-> 0] /\ wq = [s \in Stream |-> 0]
        /\ noenb = {} /\ enabled = {} /\ renabled = {}
        /\ act = [s \in Stream |-> "idle"]
        /\ up = [s \in Stream |-> 0] /\ wantw = {}
        /\ writes = 0 /\ calls = 0 /\ orphaned = {} /\ excused = {} /\ amiss = {}

IsOpen(s) == q_ptr[s] # None
Opens     == {s \in Stream : IsOpen(s)}
loop(s)   == q_ptr[s]
Idle(s)   == IsOpen(s) /\ act[s] = "idle" /\ amiss = {}
Call      == calls < MaxCall /\ calls' = calls + 1 /\ UNCHANGED writes

CanPut(o)    == up[o] < Hiwat
Cleared(k)   == /\ opt' = [opt EXCEPT ![k] = NoOpt]
                /\ msgcnt' = [msgcnt EXCEPT ![k] = 0]
                /\ timr_hndl' = [timr_hndl EXCEPT ![k] = FALSE]
                /\ saved_msg' = [saved_msg EXCEPT ![k] = FALSE]

----------------------------------------------------------------------------
(* loop_open.  A clone open takes the first slot that has no queue.  The   *)
(* slot may still be in use: loop_close takes the queue out of the slot of *)
(* the other end, which stays open.                                        *)
FreeSlots == {k \in Minor : qptr[k] = None}
loop_open(s, k) ==
    /\ amiss = {} /\ ~IsOpen(s) /\ Call
    /\ qptr[k] = None
    /\ q_ptr' = [q_ptr EXCEPT ![s] = k]
    /\ qptr' = [qptr EXCEPT ![k] = s]
    /\ oqptr' = [oqptr EXCEPT ![k] = None]
    /\ Cleared(k)
    /\ amiss' = IF \E t \in Opens : q_ptr[t] = k THEN {"shared"} ELSE {}
    /\ UNCHANGED <<timers, bufcalls, queues, act, orphaned, excused>>

CloneOpen(s) == /\ FreeSlots # {}
                /\ loop_open(s, CHOOSE k \in FreeSlots : \A j \in FreeSlots : k <= j)
\* The open of a minor in use finds the stream that has it.
MinorOpen(s) == \E k \in Minor \ {q_ptr[t] : t \in Opens} : loop_open(s, k)

\* The slot of the other end forgets its queue along with its peer.
Forgotten(o, f) == f                                      \* mutant
Parted(o, f) == [f EXCEPT ![loop(o)] = None]

\* loop_close.  Outstanding bufcalls are not cancelled.
loop_close(s) ==
    /\ Idle(s)
    /\ LET k == loop(s)
           o == oqptr[k]
       IN  /\ qptr'  = [(IF o = None THEN qptr ELSE Parted(o, qptr)) EXCEPT ![k] = None]
           /\ oqptr' = [(IF o = None THEN oqptr ELSE Parted(o, oqptr)) EXCEPT ![k] = None]
           /\ Cleared(k)
           /\ timers' = timers \ {k}
           /\ orphaned' = (orphaned \ {k}) \cup (IF o \in {None, s} THEN {} ELSE {loop(o)})
           /\ amiss' = (IF o = s THEN {"self"} ELSE {})
                       \cup (IF bufcalls[s] > 0 THEN {"bufcall"} ELSE {})
    /\ q_ptr' = [q_ptr EXCEPT ![s] = None]
    /\ wq' = [wq EXCEPT ![s] = 0] /\ up' = [up EXCEPT ![s] = 0]
    /\ noenb' = noenb \ {s} /\ enabled' = enabled \ {s}
    /\ renabled' = renabled \ {s} /\ wantw' = wantw \ {s}
    /\ excused' = excused \ {s}
    /\ UNCHANGED <<bufcalls, act, bounds>>

----------------------------------------------------------------------------
(* loop_wput of an M_IOCTL.                                                *)
\* LOOP_SET; refused with ENXIO or EBUSY otherwise.
loop_set(s, to) ==
    /\ Idle(s) /\ Call
    /\ qptr[to] # None
    /\ oqptr[loop(s)] = None /\ oqptr[to] = None
    /\ oqptr' = [oqptr EXCEPT ![loop(s)] = qptr[to], ![to] = s]
    /\ UNCHANGED <<q_ptr, qptr, opt, msgcnt, timr_hndl, saved_msg, timers, bufcalls,
                   queues, act, ghosts>>

\* The options.  A level that is lowered enables nobody.
loop_option(s, o) ==
    /\ Idle(s) /\ Call
    /\ opt' = [opt EXCEPT ![loop(s)] = o]
    /\ excused' = IF o.msglvl < opt[loop(s)].msglvl \/ o.use_bufcall > 0
                  THEN excused \cup {s} ELSE excused
    /\ UNCHANGED <<q_ptr, qptr, oqptr, msgcnt, timr_hndl, saved_msg, timers, bufcalls,
                   queues, act, orphaned, amiss>>

Option(s) ==
    /\ IsOpen(s)
    /\ \E n \in Level : LET p == opt[loop(s)] IN
         \E o \in {[p EXCEPT !.use_putnext = TRUE], [p EXCEPT !.msglvl = n],
                  [p EXCEPT !.catlvl = n], [p EXCEPT !.timr = TRUE],
                  [p EXCEPT !.use_bufcall = @ + 1], [p EXCEPT !.burst = n]} :
             o # p /\ loop_option(s, o)

----------------------------------------------------------------------------
(* loop_wput of data: the test, and what follows it.                       *)
Wput(s) ==
    /\ Idle(s) /\ writes < MaxWrite
    /\ writes' = writes + 1
    /\ act' = [act EXCEPT ![s] = IF oqptr[loop(s)] = None THEN "idle" ELSE "put"]
    /\ UNCHANGED <<q_ptr, slots, timers, bufcalls, queues, calls, ghosts>>

\* bcanputnext, of a stream head that is full, notes that somebody waits.
Ask(o) == wantw' = IF CanPut(o) THEN wantw ELSE wantw \cup {o}

\* putq schedules the queue unless noenable was called.
Putq(s, off) ==
    /\ wq' = [wq EXCEPT ![s] = @ + 1]
    /\ noenb' = IF off THEN noenb \cup {s} ELSE noenb

\* Into the queue, for a bufcall to enable it.
PutForBufcall(s) ==
    /\ Putq(s, TRUE)
    /\ bufcalls' = [bufcalls EXCEPT ![s] = @ + 1]
    /\ UNCHANGED <<msgcnt, timr_hndl, timers, enabled>>

StartsTimer(k) == opt[k].timr /\ ~timr_hndl[k]

\* Is the level reached, with no timer to wait for?
Reached(k, n) == n > opt[k].msglvl
PutCounted(s) ==
    LET k   == loop(s)
        off == opt[k].msglvl > 0 \/ opt[k].timr
    IN  /\ msgcnt' = [msgcnt EXCEPT ![k] = @ + 1]
        /\ Putq(s, off)
        /\ timr_hndl' = [timr_hndl EXCEPT ![k] = @ \/ StartsTimer(k)]
        /\ timers' = IF StartsTimer(k) THEN timers \cup {k} ELSE timers
        /\ enabled' = IF \/ ~off /\ s \notin noenb
                         \/ ~timr_hndl'[k] /\ Reached(k, msgcnt'[k])
                      THEN enabled \cup {s} ELSE enabled
        /\ UNCHANGED bufcalls

\* loop_concat and the count of messages to concatenate.
Saves(k) == opt[k].catlvl > 1
Concat(s, k) ==
    /\ opt' = [opt EXCEPT ![k].catlvl = IF @ > 0 THEN @ - 1 ELSE @, ![k].burst = 0]
    /\ saved_msg' = [saved_msg EXCEPT ![k] = \/ Saves(k)
                                             \/ opt[k].catlvl = 1 /\ ~@
                                             \/ opt[k].catlvl = 0 /\ @]
    \* the message is sent and is still saved
    /\ amiss' = IF opt[k].catlvl = 1 /\ ~saved_msg[k] THEN {"saved"} ELSE {}

\* The rest of the put procedure.  Its copies of a burst go up at once.
WputGoesOn(s) ==
    LET k == loop(s)
        o == oqptr[k]
        n == IF opt[k].burst > 0 THEN opt[k].burst - 1 ELSE 0
    IN  /\ act[s] = "put" /\ amiss = {} /\ o # None
        /\ Concat(s, k)
        /\ IF Saves(k)
           THEN /\ up' = [up EXCEPT ![o] = @ + n]
                /\ UNCHANGED <<msgcnt, timr_hndl, timers, wq, noenb, enabled, bufcalls, wantw>>
           ELSE IF opt[k].use_putnext /\ up[o] + n < Hiwat
           THEN /\ up' = [up EXCEPT ![o] = @ + n + 1]
                /\ UNCHANGED <<msgcnt, timr_hndl, timers, wq, noenb, enabled, bufcalls, wantw>>
           ELSE /\ up' = [up EXCEPT ![o] = @ + n]
                /\ wantw' = IF opt[k].use_putnext THEN wantw \cup {o} ELSE wantw
                /\ IF opt[k].use_bufcall > 0 THEN PutForBufcall(s) ELSE PutCounted(s)
        /\ act' = [act EXCEPT ![s] = "idle"]
        /\ UNCHANGED <<q_ptr, qptr, oqptr, renabled, bounds, orphaned, excused>>

----------------------------------------------------------------------------
(* loop_wsrv.                                                              *)
\* Is there anything to do yet?
Waits(k) == opt[k].use_bufcall = 0 /\ ~timr_hndl[k] /\ msgcnt[k] <= opt[k].msglvl
WsrvBegins(s) ==
    /\ Idle(s) /\ s \in enabled
    /\ enabled' = enabled \ {s}
    /\ LET k == loop(s)
       IN IF Waits(k)
          THEN UNCHANGED <<act, timr_hndl, timers>>
          ELSE /\ act' = [act EXCEPT ![s] = "run"]
               /\ timr_hndl' = [timr_hndl EXCEPT ![k] = FALSE]
               /\ timers' = IF timr_hndl[k] THEN timers \ {k} ELSE timers
    /\ UNCHANGED <<q_ptr, qptr, oqptr, opt, msgcnt, saved_msg, bufcalls, wq, noenb, renabled,
                   up, wantw, bounds, ghosts>>

\* getq.  With the other end closed the queue is emptied.
Getq(s) ==
    /\ act[s] = "run" /\ amiss = {}
    /\ IF wq[s] = 0
       THEN act' = [act EXCEPT ![s] = "idle"] /\ UNCHANGED wq
       ELSE IF oqptr[loop(s)] = None
       THEN act' = [act EXCEPT ![s] = "idle"] /\ wq' = [wq EXCEPT ![s] = 0]
       ELSE act' = [act EXCEPT ![s] = "hand"] /\ wq' = [wq EXCEPT ![s] = @ - 1]
    /\ UNCHANGED <<q_ptr, slots, timers, bufcalls, noenb, enabled, renabled, up, wantw,
                   bounds, ghosts>>

\* The message is sent, or put back if the other end is full.
Enough(k, n) == n <= opt[k].msglvl
SendUp(s) ==
    LET k == loop(s)
        o == oqptr[k]
    IN  /\ act[s] = "hand" /\ amiss = {} /\ o # None
        /\ Ask(o)
        /\ IF CanPut(o)
           THEN /\ up' = [up EXCEPT ![o] = @ + 1]
                /\ msgcnt' = [msgcnt EXCEPT ![k] = @ - 1]
                /\ opt' = [opt EXCEPT ![k].use_bufcall = IF @ > 0 THEN @ - 1 ELSE @]
                /\ act' = [act EXCEPT ![s] = IF Enough(k, msgcnt'[k]) THEN "idle" ELSE "run"]
                /\ UNCHANGED <<wq, bufcalls>>
           ELSE /\ wq' = [wq EXCEPT ![s] = @ + 1]
                /\ bufcalls' = IF opt[k].use_bufcall > 0
                               THEN [bufcalls EXCEPT ![s] = @ + 1] ELSE bufcalls
                /\ act' = [act EXCEPT ![s] = "idle"]
                /\ UNCHANGED <<up, msgcnt, opt>>
        /\ UNCHANGED <<q_ptr, qptr, oqptr, timr_hndl, saved_msg, timers, noenb, enabled,
                       renabled, bounds, ghosts>>

\* A put or service procedure that has found the other end there, and now finds
\* no queue: the other end has closed in between.
Dereference(s) ==
    /\ act[s] \in {"put", "hand"} /\ amiss = {} /\ oqptr[loop(s)] = None
    /\ amiss' = {"null"}
    /\ UNCHANGED <<q_ptr, slots, timers, bufcalls, queues, act, bounds, orphaned, excused>>

----------------------------------------------------------------------------
(* loop_rsrv, run when the stream head has been read from; the callbacks.  *)
Itself(s) == s                                            \* mutant
Woken(s) == oqptr[loop(s)]
loop_rsrv(s) ==
    /\ IsOpen(s) /\ amiss = {} /\ s \in renabled
    /\ renabled' = renabled \ {s}
    /\ enabled' = IF Woken(s) = None THEN enabled ELSE enabled \cup {Woken(s)}
    /\ UNCHANGED <<q_ptr, slots, timers, bufcalls, wq, noenb, up, wantw, act, bounds, ghosts>>

loop_timeout(k) ==
    /\ k \in timers /\ amiss = {}
    /\ timers' = timers \ {k}
    /\ IF qptr[k] = None
       THEN UNCHANGED <<noenb, enabled>>
       ELSE /\ noenb' = noenb \ {qptr[k]}
            /\ enabled' = enabled \cup {qptr[k]}
    /\ UNCHANGED <<q_ptr, slots, bufcalls, wq, renabled, up, wantw, act, bounds, ghosts>>

loop_bufcall(s) ==
    /\ bufcalls[s] > 0 /\ amiss = {}
    /\ bufcalls' = [bufcalls EXCEPT ![s] = @ - 1]
    /\ noenb' = noenb \ {s} /\ enabled' = enabled \cup {s}
    /\ UNCHANGED <<q_ptr, slots, timers, wq, renabled, up, wantw, act, bounds, ghosts>>

\* The stream head is read; at its low water mark, zero, it back-enables.
Read(s) ==
    /\ IsOpen(s) /\ amiss = {} /\ up[s] > 0
    /\ up' = [up EXCEPT ![s] = @ - 1]
    /\ IF up[s] = 1 /\ s \in wantw
       THEN renabled' = renabled \cup {s} /\ wantw' = wantw \ {s}
       ELSE UNCHANGED <<renabled, wantw>>
    /\ UNCHANGED <<q_ptr, slots, timers, bufcalls, wq, noenb, enabled, act, bounds, ghosts>>

Next == \/ \E s \in Stream : \/ CloneOpen(s) \/ MinorOpen(s) \/ loop_close(s)
                             \/ \E to \in Minor : loop_set(s, to)
                             \/ Option(s)
                             \/ Wput(s) \/ WputGoesOn(s)
                             \/ WsrvBegins(s) \/ Getq(s) \/ SendUp(s) \/ Dereference(s)
                             \/ loop_rsrv(s) \/ loop_bufcall(s) \/ Read(s)
        \/ \E k \in Minor : loop_timeout(k)

Spec == Init /\ [][Next]_vars

----------------------------------------------------------------------------
\* The ends of a pair know each other: what loop_close undoes at the other end
\* is the link that LOOP_SET made, and no stream is in a slot that another open
\* stream has unless the slot was orphaned by the close of its other end.
CoupledByTwos ==
    amiss = {} =>
        /\ \A s, t \in Opens : s # t => loop(s) # loop(t)
        /\ \A s \in Opens : oqptr[loop(s)] # None =>
               /\ IsOpen(oqptr[loop(s)])
               /\ oqptr[loop(oqptr[loop(s)])] = s
        /\ \A s \in Opens : qptr[loop(s)] = s \/ loop(s) \in orphaned

\* A slot is shared only after the other end of its stream has closed.
SharedByOrphansOnly == "shared" \in amiss => orphaned # {}

\* No more messages are held back than LOOP_MSGLVL allows, unless somebody is
\* bound to enable the queue: a timer, a bufcall, or the reader at the other end,
\* which is full.
NothingHeldBack ==
    \A s \in Opens \ excused :
        LET k == loop(s)
            o == oqptr[k]
        IN  \/ amiss # {} \/ act[s] # "idle" \/ s \in enabled
            \/ k \in timers \/ bufcalls[s] > 0 \/ k \in orphaned \/ o = None
            \/ wq[s] <= opt[k].msglvl
            \/ o \in renabled \/ (o \in wantw /\ up[o] > 0)
=============================================================================
