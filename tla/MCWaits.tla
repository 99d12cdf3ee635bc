------------------------------- MODULE MCWaits -------------------------------
(***************************************************************************)
(* Instances for TLC of those who wait, side by side: a behaviour is one   *)
(* of writers that wait for room, of the bufcall table, whose callers wait *)
(* for memory, or of the timers of the DKI, and what the others speak of   *)
(* stays as it is.  One writer calls twice; held messages are written with *)
(* write alone.                                                            *)
(***************************************************************************)
EXTENDS StreamWrite

CONSTANTS
    w1, w2,
    N_BCHASH, Node, Caller, Runner, MaxId, NoNode, Racing,
    THASH, HMAX, Tlist, Driver, MaxTimeout

WriteKinds == [h \in BOOLEAN |-> IF h THEN {"write"} ELSE {"putmsg", "hipri"}]
Calls == [w \in {w1, w2} |-> IF w = w1 THEN 2 ELSE 1]

VARIABLES part,
    \* BufCall
    lis_bchash, n_elts, lis_bc_cnt, lis_bcfreel, fresh, id, state, usr_f, id_num,
    lis_strbcflag, lis_strbctimer, armed, pc, hand, new_id, list_i, called, cancelled,
    \* Timers
    lis_tlist_heads, lis_tlist_handle, handle, fcn, timers, timeouts, of, starting,
    pending, late, due, calling, timedout, untimed, wild

bvars == <<lis_bchash, n_elts, lis_bc_cnt, lis_bcfreel, fresh, id, state, usr_f, id_num,
           lis_strbcflag, lis_strbctimer, armed, pc, hand, new_id, list_i, called,
           cancelled>>
tvars == <<lis_tlist_heads, lis_tlist_handle, handle, fcn, timers, timeouts, of,
           starting, pending, late, due, calling, timedout, untimed, wild>>

B == INSTANCE BufCall
T == INSTANCE Timers WITH fresh <- timers, calls <- timeouts, called <- timedout,
                          cancelled <- untimed

ASSUME Assumptions == B!BufCallAssumption /\ T!TimerAssumption

\* A part that rests starts in one state.
MCInit == /\ part \in {"writers", "bufcalls", "timers"}
          /\ Init /\ B!Init /\ T!Init
          /\ part # "writers" => ~STRHOLD
          /\ part # "timers" => lis_tlist_handle = 0

MCNext == /\ UNCHANGED part
          /\ \/ part = "writers"  /\ Next   /\ UNCHANGED <<bvars, tvars>>
             \/ part = "bufcalls" /\ B!Next /\ UNCHANGED <<vars, tvars>>
             \/ part = "timers"   /\ T!Next /\ UNCHANGED <<vars, bvars>>

MCSpec == /\ MCInit /\ [][MCNext]_<<part, vars, bvars, tvars>>
          /\ Fairness /\ B!Fairness /\ T!Fairness

\* What the modules state, each of its own behaviours: in those of the others it is
\* at rest in one of its initial states.
TablesSound == /\ part = "bufcalls" => B!TableSound
               /\ part = "timers" => T!EachIsOnce

\* Each writer wakes time and again, and every bufcall and every timeout comes to be
\* called or cancelled, and is not called after that.
NoneWaits == /\ \A w \in Writer : []<>(WakesUp(w) /\ B!NoneWaits /\ T!NoneWaits)
             /\ B!NotAfterCancel /\ T!NoneTakenBack
=============================================================================
