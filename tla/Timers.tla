------------------------------- MODULE Timers -------------------------------
(***************************************************************************)
(* timeout and untimeout of the DKI (head/dki.c): a hash table of timer    *)
(* structures, found by handle, list 0 of which holds the free ones; each  *)
(* structure carries a timer of the kernel, whose function comes back for  *)
(* the structure, finds it, frees it and calls the driver's function.      *)
(*                                                                         *)
(* A step is a critical section of lis_tlist_lock.  The kernel's timers    *)
(* are external: one that is pending expires at some time; its function    *)
(* may then be kept waiting for the lock while del_timer finds nothing to  *)
(* delete any more.                                                        *)
(***************************************************************************)
EXTENDS Integers, Sequences, FiniteSets, SequencesExt

CONSTANTS
    THASH,             \* the number of lists
    HMAX,              \* handles are below this, 2^31 in the code
    Tlist,             \* the memory for timer structures
    Driver,            \* contexts that call timeout and untimeout
    MaxTimeout         \* how many times timeout is called

\* There are more handles to give than memory for timers.
TimerAssumption ==
    /\ THASH \in Nat \ {0} /\ HMAX \in Nat \ {0} /\ MaxTimeout \in Nat
    /\ IsFiniteSet(Tlist)
    /\ Cardinality({h \in 0 .. HMAX - 1 : h % THASH # 0}) > Cardinality(Tlist)

List == 0 .. THASH - 1
T    == 1 .. MaxTimeout           \* the calls of timeout
None == 0

VARIABLES
    lis_tlist_heads, lis_tlist_handle,
    handle, fcn,       \* fields; fcn is the call of timeout it was set by
    fresh,             \* structures not yet allocated
    calls,             \* how many calls of timeout have been made
    of,                \* the handle each of them returned
    starting,          \* per driver: the structure whose timer it will start
    pending,           \* the kernel will run the timer of this structure
    late,              \* expired timers of it whose function has not the lock
    due,               \* the calls whose own timer has expired
    calling, called,   \* the functions about to be called, and how often
    cancelled,         \* the calls untimeout has returned for
    wild               \* a timer the kernel has pending was overwritten

table == <<lis_tlist_heads, lis_tlist_handle, handle, fcn, fresh>>
ghost == <<calls, of, due>>
vars  == <<table, ghost, starting, pending, late, calling, called, cancelled, wild>>

Init ==
    /\ lis_tlist_heads = [l \in List |-> <<>>]
    /\ lis_tlist_handle \in {0, HMAX - 2}
    /\ handle = [n \in Tlist |-> 0] /\ fcn = [n \in Tlist |-> None]
    /\ fresh = Tlist
    /\ calls = 0 /\ of = [t \in T |-> 0] /\ due = {}
    /\ starting = [d \in Driver |-> {}]
    /\ pending = {} /\ late = [n \in Tlist |-> 0]
    /\ calling = {} /\ called = [t \in T |-> 0]
    /\ cancelled = {} /\ wild = FALSE

-----------------------------------------------------------------------------
(* The lists                                                               *)

Hash(h)  == h % THASH
OnList(n, l) == n \in Range(lis_tlist_heads[l])

\* n, found on list l, goes to the free list.
ToFreeList(n, l) ==
    lis_tlist_heads' =
        LET removed == [lis_tlist_heads EXCEPT ![l] = RemoveFirst(@, n)]
        IN  [removed EXCEPT ![0] = <<n>> \o @]

find_timer_by_handle(h) == {n \in Range(lis_tlist_heads[Hash(h)]) : handle[n] = h}

\* alloc_handle: the next one that is not of list 0 and not in use.
After(h, k)    == (h + k) % HMAX
Usable(h)      == Hash(h) # 0 /\ find_timer_by_handle(h) = {}
alloc_handle ==
    After(lis_tlist_handle,
          CHOOSE k \in 1 .. HMAX : /\ Usable(After(lis_tlist_handle, k))
                                   /\ \A j \in 1 .. k - 1 :
                                          ~Usable(After(lis_tlist_handle, j)))

-----------------------------------------------------------------------------
(* lis_timeout_fcn                                                         *)

\* The structure is taken from the free list or allocated, zeroed, filled in
\* and entered, ...
Timeout(d) ==
    /\ ~wild /\ starting[d] = {} /\ calls < MaxTimeout
    /\ \E n \in IF lis_tlist_heads[0] # <<>> THEN {Head(lis_tlist_heads[0])} ELSE fresh :
         LET h == alloc_handle
             unfreed == IF n \in fresh THEN lis_tlist_heads
                        ELSE [lis_tlist_heads EXCEPT ![0] = Tail(@)]
         IN  /\ lis_tlist_handle' = h
             /\ lis_tlist_heads' = [unfreed EXCEPT ![Hash(h)] = <<n>> \o @]
             /\ handle' = [handle EXCEPT ![n] = h]
             /\ fcn' = [fcn EXCEPT ![n] = calls + 1]
             /\ of' = [of EXCEPT ![calls + 1] = h]
             /\ fresh' = fresh \ {n}
             /\ starting' = [starting EXCEPT ![d] = {n}]
             /\ wild' = (n \in pending)
    /\ calls' = calls + 1
    /\ UNCHANGED <<due, pending, late, calling, called, cancelled>>

\* ... and its timer is started with the lock released.
StartTimer(d) ==
    /\ ~wild /\ starting[d] # {}
    /\ pending' = pending \cup starting[d]
    /\ starting' = [starting EXCEPT ![d] = {}]
    /\ UNCHANGED <<table, ghost, late, calling, called, cancelled, wild>>

-----------------------------------------------------------------------------
(* lis_untimeout                                                           *)

HandleKept(n) == handle
Available(n)  == [handle EXCEPT ![n] = 0]

\* The driver cancels call t, whose handle it was given and has not cancelled
\* before; untimeout of a handle that is gone does nothing.
Untimeout(d, t) ==
    /\ ~wild /\ starting[d] = {}
    /\ t \in 1 .. calls \ cancelled
    /\ \A e \in Driver, n \in Tlist : n \in starting[e] => fcn[n] # t
    /\ cancelled' = cancelled \cup {t}
    /\ LET found == find_timer_by_handle(of[t]) IN
       IF found = {} THEN UNCHANGED <<lis_tlist_heads, handle, pending>>
       ELSE LET n == CHOOSE n \in found : TRUE IN
            /\ ToFreeList(n, Hash(of[t]))
            /\ handle' = Available(n)
            /\ pending' = pending \ {n}
    /\ UNCHANGED <<lis_tlist_handle, fcn, fresh, ghost, starting, late, calling,
                   called, wild>>

-----------------------------------------------------------------------------
(* The kernel's timer, and sys_timeout_fcn                                 *)

Expire(n) ==
    /\ ~wild /\ n \in pending
    /\ pending' = pending \ {n}
    /\ late' = [late EXCEPT ![n] = @ + 1]
    /\ due' = due \cup {fcn[n]}
    /\ UNCHANGED <<table, calls, of, starting, calling, called, cancelled, wild>>

Callable(n) == handle[n] # 0 /\ fcn[n] # None

\* "someone beat us to it", if the structure is not on the list of the handle
\* it has now; a free one has handle 0, and is put back.
SysTimeoutFcn(n) ==
    /\ ~wild /\ late[n] > 0
    /\ late' = [late EXCEPT ![n] = @ - 1]
    /\ IF ~OnList(n, Hash(handle[n])) THEN UNCHANGED <<table, calling>>
       ELSE /\ calling' = IF Callable(n)
                          THEN calling \cup {fcn[n]} ELSE calling
            /\ ToFreeList(n, Hash(handle[n]))
            /\ handle' = Available(n)
            /\ fcn' = [fcn EXCEPT ![n] = None]
            /\ UNCHANGED <<lis_tlist_handle, fresh>>
    /\ UNCHANGED <<ghost, starting, pending, called, cancelled, wild>>

\* The function is called without the lock.
CallFcn(t) ==
    /\ t \in calling
    /\ calling' = calling \ {t}
    /\ called' = [called EXCEPT ![t] = @ + 1]
    /\ UNCHANGED <<table, ghost, starting, pending, late, cancelled, wild>>

-----------------------------------------------------------------------------
Next ==
    \/ \E d \in Driver : \/ Timeout(d) \/ StartTimer(d)
                         \/ \E t \in T : Untimeout(d, t)
    \/ \E n \in Tlist : Expire(n) \/ SysTimeoutFcn(n)
    \/ \E t \in T : CallFcn(t)

Spec == Init /\ [][Next]_vars

Fairness == /\ \A d \in Driver : WF_vars(StartTimer(d))
            /\ \A n \in Tlist : WF_vars(Expire(n)) /\ WF_vars(SysTimeoutFcn(n))
            /\ \A t \in T : WF_vars(CallFcn(t))

FairSpec == Spec /\ Fairness

-----------------------------------------------------------------------------
(* Properties                                                              *)

\* The table holds together whatever expires, is cancelled or comes late: each
\* structure is unallocated or on the one list of its handle, the handles in
\* use are all different, and a function is called at most once; none is picked
\* for a call after untimeout has come back from cancelling it.
EachIsOnce ==
    /\ \A l \in List : IsInjective(lis_tlist_heads[l])
    /\ \A n \in Tlist, l \in List :
         OnList(n, l) <=> n \notin fresh /\ l = Hash(handle[n])
    /\ \A m, n \in Tlist : handle[m] = handle[n] /\ handle[m] # 0 => m = n
    /\ \A t \in T : called[t] + Cardinality(calling \cap {t}) <= 1

NoneTakenBack ==
    [][\A t \in cancelled : t \notin calling => t \notin calling']_vars

\* Each timeout is called or cancelled in the end, early as it may be, unless a
\* structure was zeroed whose timer the kernel still had pending.
NoneWaits    == \A t \in T : calls >= t => called[t] > 0 \/ t \in cancelled \/ wild
EachIsCalled == []<>NoneWaits

\* "don't care if timeout fcn is running": a function is not called before its
\* own time has come.
NotEarly == \A t \in T : called[t] > 0 => t \in due
=============================================================================
